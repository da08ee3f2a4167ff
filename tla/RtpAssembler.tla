---------------------------- MODULE RtpAssembler ----------------------------
(***************************************************************************)
(* The reader loop of consumeAV1Track (cmd/webrtc-av1d): temporal units    *)
(* put together from AV1 RTP packets, any of which may be lost.            *)
(*                                                                         *)
(* A stream is a row of parts, numbered from 1: NParts of them are an OBU, *)
(* NObus OBUs a temporal unit.  A sender cuts it into packets of           *)
(* consecutive parts of one unit; inside a packet an element holds the     *)
(* parts of one OBU.  What the reader writes for an OBU is the parts       *)
(* ensureOBUSizeField was given together, so an OBU that was cut wrongly   *)
(* differs from a whole one.                                               *)
(***************************************************************************)
EXTENDS Integers, Sequences, SequencesExt

CONSTANTS
  NParts,  \* parts of an OBU
  NObus,   \* OBUs of a temporal unit
  MaxTU,   \* bound: temporal units sent
  Lossy,   \* packets may be lost
  Legacy,  \* senders may leave the element count W at zero
  ClockMod,   \* RTP timestamps count modulo 2^32
  ClockStart  \* the timestamp of the first unit

ASSUME RtpAssumption ==
  /\ NParts \in Nat \ {0} /\ NObus \in Nat \ {0} /\ MaxTU \in Nat
  /\ Lossy \in BOOLEAN /\ Legacy \in BOOLEAN
  /\ ClockMod \in Nat \ {0} /\ ClockStart \in 0 .. (ClockMod - 1)

VARIABLES
  due,        \* the next part the sender sends
  tuBuf,      \* the OBUs of the unit being assembled
  fragBuf,    \* the parts of an open fragment
  inFragment, \* fragBuf is open
  ptsBase,    \* the first timestamp seen, or -1
  pts,        \* the time of the last packet
  recorded,   \* what recordTemporalUnit was given
  ended,      \* the track has ended
  arrived     \* the parts of the packets that were read

bufVars == <<tuBuf, fragBuf, inFragment, ptsBase, pts>>
vars == <<due, bufVars, recorded, ended, arrived>>

UnitParts == NParts * NObus
NumParts  == UnitParts * MaxTU
Parts == 1 .. NumParts

\* The temporal unit and the OBU a part belongs to.
UnitOf(p) == (p - 1) \div UnitParts + 1
ObuOf(p)  == (p - 1) \div NParts + 1

StartsObu(p)  == (p - 1) % NParts = 0
EndsObu(p)    == p % NParts = 0
StartsUnit(p) == (p - 1) % UnitParts = 0
EndsUnit(p)   == p % UnitParts = 0

\* Every variable keeps its type.
TypeOK ==
  /\ due \in 1 .. (NumParts + 1)
  /\ tuBuf \in Seq(Seq(Parts))
  /\ fragBuf \in Seq(Parts) /\ inFragment \in BOOLEAN
  /\ ptsBase \in -1 .. (ClockMod - 1) /\ pts \in 0 .. (ClockMod - 1)
  /\ recorded \in Seq([obus : Seq(Seq(Parts)), pts : 0 .. (ClockMod - 1)])
  /\ ended \in BOOLEAN
  /\ arrived \in Seq(Parts)

-----------------------------------------------------------------------------
(* The sender. *)

Run(i, j) == [k \in 1 .. (j - i + 1) |-> i + k - 1]

\* The elements of a packet with the parts i .. j: one for each OBU.
Elements(i, j) ==
  LET from(o) == IF o = ObuOf(i) THEN i ELSE (o - 1) * NParts + 1
      to(o)   == IF o = ObuOf(j) THEN j ELSE o * NParts
  IN  [k \in 1 .. (ObuOf(j) - ObuOf(i) + 1) |->
         Run(from(ObuOf(i) + k - 1), to(ObuOf(i) + k - 1))]

Timestamp(p) == (ClockStart + UnitOf(p) - 1) % ClockMod

\* The packets with the parts i .. j.  Z and Y: the first and last element
\* are fragments.  W is the number of elements, which has two bits, or zero.
\* N is set on the first packet of a stream and may be on that of any unit.
Packets(i, j) ==
  LET elems == Elements(i, j)
  IN  {[elems |-> elems, z |-> ~StartsObu(i), y |-> ~EndsObu(j), w |-> w, n |-> n,
        marker |-> EndsUnit(j), timestamp |-> Timestamp(i)] :
         w \in (IF Len(elems) <= 3 THEN {Len(elems)} ELSE {})
                 \cup (IF Legacy \/ Len(elems) > 3 THEN {0} ELSE {}),
         n \in (IF i = 1 THEN {TRUE}
                ELSE IF StartsUnit(i) THEN BOOLEAN ELSE {FALSE})}

-----------------------------------------------------------------------------
(* The reader. *)

\* What the reader has of the unit it assembles.
Buffers == [tu : Seq(Seq(Parts)), frag : Seq(Parts), open : BOOLEAN]

\* Mutant: the fragment stays in its buffer.
MutCloseFragment(b) ==
  IF b.open THEN [tu |-> Append(b.tu, b.frag), frag |-> b.frag, open |-> FALSE] ELSE b

\* The open fragment, whole or not, becomes an OBU of the unit.
CloseFragment(b) ==
  IF b.open THEN [tu |-> Append(b.tu, b.frag), frag |-> <<>>, open |-> FALSE] ELSE b

\* Mutant: a continuation that goes on in the next packet closes the fragment.
MutTakeElement(pkt, b, i) ==
  LET elem   == pkt.elems[i]
      isLast == pkt.w > 0 /\ i = pkt.w
  IN  IF i = 1 /\ pkt.z /\ b.open
      THEN CloseFragment([b EXCEPT !.frag = @ \o elem])
      ELSE IF isLast /\ pkt.y
           THEN [tu |-> CloseFragment(b).tu, frag |-> elem, open |-> TRUE]
           ELSE [CloseFragment(b) EXCEPT !.tu = Append(@, elem)]

\* One element: it continues the open fragment, or closes it and is a fragment
\* or an OBU itself.  Without a count no element is known to be the last.
TakeElement(pkt, b, i) ==
  LET elem   == pkt.elems[i]
      isLast == pkt.w > 0 /\ i = pkt.w
      longer == [b EXCEPT !.frag = @ \o elem]
  IN  IF i = 1 /\ pkt.z /\ b.open
      THEN IF isLast /\ pkt.y THEN longer ELSE CloseFragment(longer)
      ELSE IF isLast /\ pkt.y
           THEN [tu |-> CloseFragment(b).tu, frag |-> elem, open |-> TRUE]
           ELSE [CloseFragment(b) EXCEPT !.tu = Append(@, elem)]

TakeElements(pkt, b) ==
  LET taken[i \in 0 .. Len(pkt.elems)] ==
        IF i = 0 THEN b ELSE TakeElement(pkt, taken[i - 1], i)
  IN  taken[Len(pkt.elems)]

\* recordTemporalUnit, unless there is nothing to record.
Flushed(recs, tu, time) ==
  IF tu = <<>> THEN recs ELSE Append(recs, [obus |-> tu, pts |-> time])

\* Mutant: the subtraction is not in uint32.
MutNormalized(timestamp, base) == timestamp - base
Normalized(timestamp, base) == (timestamp - base) % ClockMod

\* Mutant: the time is set before the unit that an N bit ends is recorded.
MutTimeOfPrevious(pkt) == Normalized(pkt.timestamp, ptsBase)
TimeOfPrevious(pkt) == pts

\* One pass of the loop: an N bit ends the unit before, a marker ends this one.
ReadRTP(pkt) ==
  LET earlier == IF pkt.n THEN Flushed(recorded, tuBuf, TimeOfPrevious(pkt)) ELSE recorded
      taken == TakeElements(pkt, [tu   |-> IF pkt.n THEN <<>> ELSE tuBuf,
                                  frag |-> fragBuf, open |-> inFragment])
      base  == IF ptsBase = -1 THEN pkt.timestamp ELSE ptsBase
      now   == Normalized(pkt.timestamp, base)
      done  == CloseFragment(taken)
  IN  /\ ptsBase' = base /\ pts' = now
      /\ fragBuf' = IF pkt.marker THEN done.frag ELSE taken.frag
      /\ inFragment' = IF pkt.marker THEN done.open ELSE taken.open
      /\ IF pkt.marker
         THEN recorded' = Flushed(earlier, done.tu, now) /\ tuBuf' = <<>>
         ELSE recorded' = earlier /\ tuBuf' = taken.tu

\* The parts due .. j travel in one packet, which arrives or not.
SendPacket(j) ==
  /\ ~ended
  /\ j \in due .. NumParts /\ UnitOf(j) = UnitOf(due)
  /\ due' = j + 1
  /\ \E pkt \in Packets(due, j) :
       \/ ReadRTP(pkt) /\ arrived' = arrived \o Run(due, j)
       \/ Lossy /\ UNCHANGED <<bufVars, recorded, arrived>>
  /\ UNCHANGED ended

\* ReadRTP fails: what is left is recorded.
ReadError ==
  /\ ~ended
  /\ ended' = TRUE
  /\ LET rest == CloseFragment([tu |-> tuBuf, frag |-> fragBuf, open |-> inFragment])
     IN  /\ recorded' = Flushed(recorded, rest.tu, pts)
         /\ tuBuf' = <<>> /\ fragBuf' = <<>> /\ inFragment' = FALSE
  /\ UNCHANGED <<due, ptsBase, pts, arrived>>

-----------------------------------------------------------------------------
Init ==
  /\ due = 1
  /\ tuBuf = <<>> /\ fragBuf = <<>> /\ inFragment = FALSE
  /\ ptsBase = -1 /\ pts = 0
  /\ recorded = <<>>
  /\ ended = FALSE
  /\ arrived = <<>>

Next == ReadError \/ \E j \in Parts : SendPacket(j)

Spec == Init /\ [][Next]_vars

-----------------------------------------------------------------------------
(* Properties. *)

Flat(obus) == FlattenSeq(obus)

\* The loop neither loses, repeats nor reorders what arrives: units recorded,
\* the unit in progress and the open fragment are the parts that arrived.
NothingDropped ==
  Flat([i \in DOMAIN recorded |-> Flat(recorded[i].obus)]) \o Flat(tuBuf) \o fragBuf
    = arrived

Whole(u) ==
  [o \in 1 .. NObus |->
     Run((u - 1) * UnitParts + (o - 1) * NParts + 1, (u - 1) * UnitParts + o * NParts)]

Arrived(p) == \E i \in DOMAIN arrived : arrived[i] = p

\* A loss does no harm beyond the units it hits: a unit all of whose packets
\* arrived, after the last packet of the unit before, is recorded as it was
\* sent, fragments joined, under its own time.
UnitsWhole ==
  \A u \in 1 .. MaxTU :
    LET first == (u - 1) * UnitParts + 1
    IN  /\ \A p \in first .. (first + UnitParts - 1) : Arrived(p)
        /\ u = 1 \/ Arrived(first - 1)
        => \E i \in DOMAIN recorded :
             recorded[i] = [obus |-> Whole(u),
                            pts  |-> Normalized(Timestamp(first), ptsBase)]

\* Times go up from record to record, across the wrap of the RTP clock, and no
\* record is older than what is in it.
TimesOrdered ==
  /\ \A i, j \in DOMAIN recorded : i < j => recorded[i].pts < recorded[j].pts
  /\ \A i \in DOMAIN recorded : \A o \in DOMAIN recorded[i].obus :
       \A k \in DOMAIN recorded[i].obus[o] :
         recorded[i].pts >= Normalized(Timestamp(recorded[i].obus[o][k]), ptsBase)
=============================================================================
