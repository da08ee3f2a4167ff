------------------------------- MODULE Encoder -------------------------------
(***************************************************************************)
(* The encoder of internal/encoder (Impl), its reference slots and the     *)
(* manager that rotates them, composed with a decoder that is fed the      *)
(* packets in the order ReceivePacket returns them.                        *)
(*                                                                         *)
(* The two sides keep eight reconstructed frames each and never exchange   *)
(* them: what the decoder rebuilds is right only while its slots agree     *)
(* with those the encoder predicted from.  A reconstruction is named by    *)
(* the number of the frame that coded it; an inter packet carries, beside  *)
(* its header, the reconstructions its residual was computed against.      *)
(***************************************************************************)
EXTENDS Integers, Sequences, FiniteSets

CONSTANTS
  Pictures,   \* contents of the input pictures
  MaxFrames,  \* bound: pictures sent
  MaxPackets, \* bound: packets waiting in e.packets
  Nil         \* Go's nil

ASSUME EncoderAssumption ==
  /\ MaxFrames \in Nat /\ MaxPackets \in Nat
  /\ Nil \notin Pictures /\ Nil \notin Int

Slots    == 0 .. 7   \* AV1's reference slots
RefTypes == 1 .. 7   \* LAST, LAST2, ..., ALTREF

Drift  == -1         \* a frame rebuilt from other references than it was coded with
Recons == 0 .. (MaxFrames - 1)

VARIABLES
  frameNum, \* e.frameNum
  flushing, \* e.flushing
  closed,   \* Close has been called; the encoder does not record it
  packets,  \* e.packets
  last,     \* e.lastY, lastU and lastV
  refs,     \* fe.refs
  mgr,      \* fe.refMgr
  inputs,   \* the pictures SendPicture accepted
  decoded,  \* the decoder's reference slots
  shown     \* the frames the decoder has shown, and the packets' times

encVars == <<frameNum, flushing, closed, packets, last, refs, mgr, inputs>>
vars == <<encVars, decoded, shown>>

Manager == [latest : Slots, next : Slots, history : Seq(Slots), ready : BOOLEAN]

Key   == [kind : {"key"}, frame : Recons, pts : Nat]
Inter == [kind : {"inter"}, frame : Recons, pts : Nat, refresh : SUBSET Slots,
          refIdx : [RefTypes -> Slots],
          from : [RefTypes -> Recons \cup {Nil}]]
Show  == [kind : {"show"}, slot : Slots, pts : Nat]

\* Every variable keeps its type.
TypeOK ==
  /\ frameNum \in 0 .. MaxFrames
  /\ flushing \in BOOLEAN /\ closed \in BOOLEAN
  /\ packets \in Seq(Key \cup Inter \cup Show)
  /\ last \in Pictures \cup {Nil}
  /\ refs \in [Slots -> Recons \cup {Nil}]
  /\ mgr \in Manager
  /\ inputs \in Seq(Pictures)
  /\ decoded \in [Slots -> Recons \cup {Nil, Drift}]
  /\ shown \in Seq([frame : Recons \cup {Nil, Drift}, pts : Nat])

-----------------------------------------------------------------------------
(* reference.Manager *)

\* ResetKey: the key frame is in every slot.
ResetKey == [latest |-> 0, next |-> 1, history |-> <<0>>, ready |-> TRUE]

\* Mutant: the frame refreshes the newest slot instead of its own.
MutPlanInter(m) ==
  [refIdx  |-> [i \in RefTypes |->
                  m.history[IF i <= Len(m.history) THEN i ELSE Len(m.history)]],
   refresh |-> {m.latest}, target |-> m.next]

\* PlanInter: reference type i is the i-th newest slot, or the oldest one.
PlanInter(m) ==
  [refIdx  |-> [i \in RefTypes |->
                  m.history[IF i <= Len(m.history) THEN i ELSE Len(m.history)]],
   refresh |-> {m.next}, target |-> m.next]

\* The target, then what was in the history, which is eight long at most.
Rotated(history, target) ==
  LET kept[i \in 0 .. Len(history)] ==
        IF i = 0 THEN <<target>>
        ELSE IF history[i] # target /\ Len(kept[i - 1]) < 8
        THEN Append(kept[i - 1], history[i])
        ELSE kept[i - 1]
  IN  kept[Len(history)]

\* Mutant: the slot to write next is not advanced.
MutCommitInter(m, target) ==
  [latest |-> target, next |-> target, history |-> Rotated(m.history, target), ready |-> TRUE]

\* CommitInter: the slot just written is the newest.
CommitInter(m, target) ==
  [latest |-> target, next |-> (target + 1) % 8, history |-> Rotated(m.history, target), ready |-> TRUE]

\* Mutant: slot zero, as the comment of EncodeShowExisting has it.
MutLatest(m) == 0
Latest(m) == IF m.ready THEN m.latest ELSE 0

-----------------------------------------------------------------------------
(* The encoder. *)

\* EncodeFrame and saveKeyReferences.
EncodeFrame ==
  /\ packets' = Append(packets, [kind |-> "key", frame |-> frameNum, pts |-> frameNum])
  /\ refs' = [s \in Slots |-> frameNum]
  /\ mgr' = ResetKey

\* EncodeInterFrame, saveInterReference and CommitInter.
EncodeInterFrame ==
  LET plan == PlanInter(mgr)
  IN  /\ packets' = Append(packets,
                      [kind |-> "inter", frame |-> frameNum, pts |-> frameNum,
                       refresh |-> plan.refresh, refIdx |-> plan.refIdx,
                       from |-> [i \in RefTypes |-> refs[plan.refIdx[i]]]])
      /\ refs' = [refs EXCEPT ![plan.target] = frameNum]
      /\ mgr' = CommitInter(mgr, plan.target)

\* EncodeShowExisting: nothing is coded.
EncodeShowExisting ==
  /\ packets' = Append(packets, [kind |-> "show", slot |-> Latest(mgr), pts |-> frameNum])
  /\ UNCHANGED <<refs, mgr>>

\* Callers leave a closed encoder alone: Close does not stop it from encoding.
Open == ~closed

\* The picture is equal to the last one.
Repeated(p) == frameNum > 0 /\ p = last

\* SendPicture of a picture whose size fits; others are refused.
SendPicture(p) ==
  /\ Open /\ ~flushing
  /\ frameNum < MaxFrames /\ Len(packets) < MaxPackets
  /\ IF Repeated(p) THEN EncodeShowExisting
     ELSE IF frameNum = 0 THEN EncodeFrame
     ELSE EncodeInterFrame
  /\ last' = p
  /\ frameNum' = frameNum + 1
  /\ inputs' = Append(inputs, p)
  /\ UNCHANGED <<flushing, closed, decoded, shown>>

Flush ==
  /\ Open
  /\ flushing' = TRUE
  /\ UNCHANGED <<frameNum, closed, packets, last, refs, mgr, inputs, decoded, shown>>

Close ==
  /\ Open
  /\ closed' = TRUE
  /\ packets' = <<>>
  /\ last' = Nil
  /\ UNCHANGED <<frameNum, flushing, refs, mgr, inputs, decoded, shown>>

-----------------------------------------------------------------------------
(* The decoder of the packets. *)

Refreshed(slots, frame) == [s \in Slots |-> IF s \in slots THEN frame ELSE decoded[s]]

Shows(f, pts) == shown' = Append(shown, [frame |-> f, pts |-> pts])

DecodeKey(pkt) ==
  /\ pkt.kind = "key"
  /\ decoded' = Refreshed(Slots, pkt.frame)
  /\ Shows(pkt.frame, pkt.pts)

\* Other references than the encoder's give other samples.
DecodeInter(pkt) ==
  /\ pkt.kind = "inter"
  /\ LET same  == \A i \in RefTypes : decoded[pkt.refIdx[i]] = pkt.from[i]
         frame == IF same THEN pkt.frame ELSE Drift
     IN  decoded' = Refreshed(pkt.refresh, frame) /\ Shows(frame, pkt.pts)

\* pkg/av1 only shows the slot.  Showing a key frame again restarts an AV1
\* decoder that follows the standard: the key frame refreshes every slot.
DecodeShow(pkt) ==
  /\ pkt.kind = "show"
  /\ LET frame == decoded[pkt.slot]
     IN  /\ \/ UNCHANGED decoded
            \/ frame = 0 /\ decoded' = Refreshed(Slots, frame)
         /\ Shows(frame, pkt.pts)

\* ReceivePacket, and the caller decodes the packet.
ReceivePacket ==
  /\ Open /\ packets # <<>>
  /\ LET pkt == Head(packets)
     IN  DecodeKey(pkt) \/ DecodeInter(pkt) \/ DecodeShow(pkt)
  /\ packets' = Tail(packets)
  /\ UNCHANGED <<frameNum, flushing, closed, last, refs, mgr, inputs>>

-----------------------------------------------------------------------------
Init ==
  /\ frameNum = 0 /\ flushing = FALSE /\ closed = FALSE
  /\ packets = <<>>
  /\ last = Nil
  /\ refs = [s \in Slots |-> Nil]
  /\ mgr = [latest |-> 0, next |-> 0, history |-> <<>>, ready |-> FALSE]
  /\ inputs = <<>>
  /\ decoded = [s \in Slots |-> Nil]
  /\ shown = <<>>

Next ==
  \/ \E p \in Pictures : SendPicture(p)
  \/ ReceivePacket
  \/ Flush
  \/ Close

Spec == Init /\ [][Next]_vars

-----------------------------------------------------------------------------
(* Properties. *)

\* A decoder that has taken every packet has, slot by slot, the frames the
\* encoder will predict from, though neither ever sees the other's slots.
SlotsInSync == packets = <<>> /\ ~closed => decoded = refs

\* Each picture sent comes out once, in order, with its number as its time,
\* and is the picture it was: a repeat shows an equal earlier one.
OutputFaithful ==
  \A i \in DOMAIN shown :
    /\ shown[i].pts = i - 1
    /\ shown[i].frame \in Recons
    /\ inputs[shown[i].frame + 1] = inputs[i]

\* reference.Manager's newest-to-oldest history: distinct slots, each older
\* than the one before, and the slot the next frame overwrites is neither one
\* of its references nor newer than any other slot.
HistoryOrdered ==
  mgr.ready =>
    /\ mgr.history[1] = mgr.latest
    /\ \A i, j \in DOMAIN mgr.history :
         i < j => refs[mgr.history[i]] > refs[mgr.history[j]]
    /\ \A i \in RefTypes : PlanInter(mgr).refIdx[i] # mgr.next
    /\ \A s \in Slots : refs[mgr.next] <= refs[s]
=============================================================================
