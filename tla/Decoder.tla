------------------------------ MODULE Decoder ------------------------------
(***************************************************************************)
(* The decoder of pkg/av1 (decoderImpl): OBU routing, the eight-slot       *)
(* reference buffer, the output queue, and the reference-counted pictures  *)
(* they share with the goroutines that consume decoded frames.             *)
(*                                                                         *)
(* SendData, GetPicture, Flush and Close hold the decoder's mutex for      *)
(* their whole body; Picture.Retain and Picture.Release take no lock and   *)
(* interleave with the OBUs of a running SendData.  A SendData call is     *)
(* therefore a window (busy) in which any sequence of OBUs is routed, one  *)
(* step each.  A frame is named by the order in which it was started, and  *)
(* the samples of a picture by the frame that wrote each tile.             *)
(***************************************************************************)
EXTENDS Integers, Sequences, FiniteSets

CONSTANTS
  Slots,           \* indices of the reference buffer (header.NumRefFrames)
  Pics,            \* Picture objects: pooled, or not yet constructed
  NTiles,          \* tiles of a frame (Tiling.Cols * Tiling.Rows)
  Headers,         \* the frame headers a stream carries
  BestEffort,      \* DecoderOptions.BestEffort
  OutputInvisible, \* DecoderOptions.OutputInvisible
  Delivery,        \* how the stream lays out and loses tile groups
  MaxFrames,       \* bound: frames started in a run
  MaxQueue,        \* bound: pictures waiting in outQ
  MaxHeld,         \* bound: consumer references to one picture
  Nil              \* Go's nil

Tiles  == 1 .. NTiles
Frames == 1 .. MaxFrames

\* The fields of header.FrameHeader that steer the decoder.  primary is the
\* slot Refidx[PrimaryRefFrame], Nil for PrimaryRefNone.  needsRefs: some
\* syntax element reads the primary reference's header, as parseLoopFilter
\* does unless the frame is lossless.  update is Tiling.Update.
Header ==
  [intra : BOOLEAN, show : BOOLEAN, refresh : SUBSET Slots,
   primary : Slots \cup {Nil}, needsRefs : BOOLEAN,
   refctx : BOOLEAN, update : Tiles]

ASSUME ConstantsAssumption ==
  /\ NTiles \in Nat \ {0}
  /\ MaxFrames \in Nat /\ MaxQueue \in Nat /\ MaxHeld \in Nat
  /\ BestEffort \in BOOLEAN /\ OutputInvisible \in BOOLEAN
  /\ IsFiniteSet(Slots) /\ IsFiniteSet(Pics)
  /\ Headers \subseteq Header

\* "whole":   an OBU_FRAME holds every tile, tile groups arrive in order;
\* "grouped": in order too, and an OBU_FRAME may hold only the first group;
\* "lossy":   OBUs may be missing or out of place.
ASSUME DeliveryAssumption == Delivery \in {"whole", "grouped", "lossy"}

VARIABLES
  seq,      \* d.seq # nil
  refs,     \* d.refs
  outQ,     \* d.outQ
  pending,  \* d.pendingFhdr, pendingPic, pendingFB and pendingCDF, or Nil
  closed,   \* d.closed
  busy,     \* a SendData call holds d.mu
  heap,     \* picture reference counts and the picture pool
  samples,  \* which frame wrote each tile of each picture
  fsOut,    \* FrameStates acquired and not yet released
  held,     \* references consumers own
  frames,   \* frames started so far
  nextTile  \* stream position: next tile due, NTiles + 1 between frames

vars == <<seq, refs, outQ, pending, closed, busy, heap, samples, fsOut, held,
          frames, nextTile>>

NoFrame == 0    \* samples no frame wrote: fresh memory or neutral grey
Damaged == -1   \* samples of a tile whose decoding failed half way

\* The samples of a picture.
Contents == [Tiles -> Frames \cup {NoFrame, Damaged}]

DefaultCdf == 0 \* tile.NewTileCtxForQIdx; a frame number is its adapted CDF

Ref == [fhdr : Frames \cup {Nil}, pic : Pics \cup {Nil},
        cdf : Frames \cup {DefaultCdf, Nil}, mv : Frames \cup {Nil}]

Pending ==
  [frame : Frames, hdr : Headers, pic : Pics, cdf : Frames \cup {Nil},
   fs : BOOLEAN, alias : [Slots -> Pics \cup {Nil}],
   mvs : [Slots -> Frames \cup {Nil}]]

\* Nil is none of the values it stands beside.
ASSUME NilAssumption ==
  /\ Nil \notin Pics /\ Nil \notin Slots /\ Nil \notin Nat
  /\ Nil \notin Pending /\ Nil \notin Contents

Heap == [cnt : [Pics -> Int], pool : SUBSET Pics, releasing : SUBSET Pics]

\* Every variable keeps the type of the Go field it stands for.
TypeOK ==
  /\ seq \in BOOLEAN /\ closed \in BOOLEAN /\ busy \in BOOLEAN
  /\ refs \in [Slots -> Ref]
  /\ outQ \in Seq(Pics)
  /\ pending \in Pending \cup {Nil}
  /\ heap \in Heap
  /\ samples \in [Pics -> Contents]
  /\ fsOut \in Int
  /\ held \in [Pics -> Nat]
  /\ frames \in 0 .. MaxFrames
  /\ nextTile \in 1 .. (NTiles + 1)

-----------------------------------------------------------------------------
(* Pictures: Retain, Release, and the pool. *)

\* Number of references a single holder (or nobody) has.
One(p) == [q \in Pics |-> IF q = p THEN 1 ELSE 0]

Both(m, n) == [q \in Pics |-> m[q] + n[q]]

\* References the slots in R, and the output queue, have to each picture.
InSlots(R) == [q \in Pics |-> Cardinality({s \in R : refs[s].pic = q})]
Occurrences(sq, q) == Cardinality({i \in DOMAIN sq : sq[i] = q})
InQueue == [q \in Pics |-> Occurrences(outQ, q)]

PendingPic == IF pending = Nil THEN Nil ELSE pending.pic

\* Picture.Retain, n times.
Retained(hp, p, n) ==
  [cnt |-> [hp.cnt EXCEPT ![p] = @ + n], pool |-> hp.pool,
   releasing |-> hp.releasing]

\* Picture.Release, n[p] times for each p, by a holder of the mutex: whatever
\* reaches zero runs releaseDecodedPicture and is back in the pool.
Released(hp, n) ==
  LET cnt == [p \in Pics |-> hp.cnt[p] - n[p]]
  IN  [cnt       |-> cnt,
       pool      |-> hp.pool \cup {p \in Pics : n[p] > 0 /\ cnt[p] = 0},
       releasing |-> hp.releasing]

\* acquireDecodedPicture and the initial Retain.
Acquired(hp, p) ==
  [cnt |-> [hp.cnt EXCEPT ![p] = 1], pool |-> hp.pool \ {p},
   releasing |-> hp.releasing]

\* Mutant: a best-effort decoder does not clear a picture either.
MutSeeded(p) == samples[p]
\* allocPicture: only best effort clears the visible samples of a picture; a
\* strict decoder leaves what the picture's previous frame put there.
Seeded(p) ==
  IF BestEffort THEN [t \in Tiles |-> NoFrame] ELSE samples[p]

-----------------------------------------------------------------------------
(* Frames. *)

\* ParseFrameHeader needs the header of the primary reference.
HeaderParses(h) ==
  h.primary # Nil /\ h.needsRefs => refs[h.primary].fhdr # Nil

InitialFrameCDF(h) == IF h.primary = Nil THEN Nil ELSE refs[h.primary].cdf

CdfForReferenceUpdate(h, decoded) ==
  IF h.refctx /\ decoded # Nil THEN decoded
  ELSE IF InitialFrameCDF(h) # Nil THEN InitialFrameCDF(h) ELSE DefaultCdf

\* DecodeTileGroupWithContext on the tiles a .. b of frame f, old being the
\* picture's samples.  cut is the first tile that was not decoded: b + 1 when
\* all were, 0 when the group did not even parse.
Decoded(old, f, a, b, cut) ==
  [t \in Tiles |-> IF t \in a .. (cut - 1) THEN f
                   ELSE IF t = cut /\ t <= b THEN Damaged ELSE old[t]]

\* The context-update tile's CDF, if this group decoded it without error.
DecodedCdf(h, f, a, b, cut) ==
  IF cut = b + 1 /\ h.update \in a .. b THEN f ELSE Nil

Cuts(a, b) == {0} \cup a .. (b + 1)

IsShown(h) == h.show \/ OutputInvisible

\* Mutant: an intra frame leaves the slot's motion vectors in place.
MutRefreshedSlots(pic, h, f, cdf, mv) ==
  [s \in Slots |->
     IF s \in h.refresh
     THEN [fhdr |-> f, pic |-> pic, cdf |-> CdfForReferenceUpdate(h, cdf),
           mv |-> IF h.intra THEN refs[s].mv ELSE mv]
     ELSE refs[s]]
RefreshedSlots(pic, h, f, cdf, mv) ==
  [s \in Slots |->
     IF s \in h.refresh
     THEN [fhdr |-> f, pic |-> pic, cdf |-> CdfForReferenceUpdate(h, cdf),
           mv |-> IF h.intra THEN Nil ELSE mv]
     ELSE refs[s]]

\* Mutant: updateRefs stores the picture in its slots without retaining it.
MutFinishFrame(hp, pic, h, f, cdf, mv) ==
  /\ heap' = Released(Retained(hp, pic, IF IsShown(h) THEN 1 ELSE 0),
                      Both(InSlots(h.refresh), One(pic)))
  /\ refs' = RefreshedSlots(pic, h, f, cdf, mv)
  /\ outQ' = IF IsShown(h) THEN Append(outQ, pic) ELSE outQ

\* finishFrame, with updateRefs.  hp is the heap in which pic still has its
\* initial reference.
FinishFrame(hp, pic, h, f, cdf, mv) ==
  LET kept == Retained(hp, pic, Cardinality(h.refresh)
                                  + IF IsShown(h) THEN 1 ELSE 0)
  IN  /\ heap' = Released(kept, Both(InSlots(h.refresh), One(pic)))
      /\ refs' = RefreshedSlots(pic, h, f, cdf, mv)
      /\ outQ' = IF IsShown(h) THEN Append(outQ, pic) ELSE outQ

\* Mutant: every group acquires a FrameState.
MutAcquiredState(n, has, cut) == IF cut # 0 THEN n + 1 ELSE n
\* The FrameStates out of the pool, of n: after DecodeTileGroupWithContext,
\* which acquires one when its group has parsed and the frame buffer has none,
\* and after ReleaseFrameState, which ignores nil.
AcquiredState(n, has, cut) == IF ~has /\ cut # 0 THEN n + 1 ELSE n
ReleasedState(n, has) == IF has THEN n - 1 ELSE n

PendingState == IF pending # Nil /\ pending.fs THEN 1 ELSE 0

\* discardPending: the pending picture and FrameState go back to their pools.
DiscardedHeap == Released(heap, One(PendingPic))
DiscardPending == pending' = Nil /\ fsOut' = fsOut - PendingState

-----------------------------------------------------------------------------
(* The stream.  Only a lossy stream sends an OBU out of place. *)

Expect(t) == nextTile' = IF Delivery = "lossy" THEN NTiles + 1 ELSE t

BetweenFrames == nextTile = NTiles + 1

\* The tile group a .. b may come next.
GroupDue(a, b) == a <= b /\ (Delivery # "lossy" => a = nextTile)

\* The tile group a .. b may follow the header inside an OBU_FRAME.
GroupInFrame(a, b) ==
  a <= b /\ (Delivery # "lossy" => a = 1) /\ (Delivery = "whole" => b = NTiles)

-----------------------------------------------------------------------------
(* SendData, and the OBUs it routes.  After Close it returns ErrClosed and *)
(* changes nothing; so does a packet SplitOBUs rejects.                    *)

SendData ==
  /\ ~busy /\ ~closed
  /\ busy' = TRUE
  /\ UNCHANGED <<seq, refs, outQ, pending, closed, heap, samples, fsOut, held,
                 frames, nextTile>>

SendDataReturn ==
  /\ busy
  /\ busy' = FALSE
  /\ UNCHANGED <<seq, refs, outQ, pending, closed, heap, samples, fsOut, held,
                 frames, nextTile>>

\* A sequence header that does not parse, or that announces a bit depth the
\* decoder does not support, ends the call whatever the options say.
SequenceHeader(ok) ==
  /\ busy /\ BetweenFrames
  /\ IF ok THEN seq' = TRUE /\ UNCHANGED busy
           ELSE busy' = FALSE /\ UNCHANGED seq
  /\ UNCHANGED <<refs, outQ, pending, closed, heap, samples, fsOut, held,
                 frames, nextTile>>

TemporalDelimiter ==
  /\ busy /\ BetweenFrames
  /\ DiscardPending
  /\ heap' = DiscardedHeap
  /\ UNCHANGED <<seq, refs, outQ, closed, busy, samples, held, frames, nextTile>>

\* A frame header arrives: from here on the previous frame is abandoned.
HeaderArrives == busy /\ seq /\ BetweenFrames /\ DiscardPending

\* ParseFrameHeader fails, on damaged bits or for want of a reference header.
\* The stream still carries the tile groups of that frame.
HeaderError ==
  /\ HeaderArrives
  /\ heap' = DiscardedHeap
  /\ busy' = BestEffort
  /\ \E t \in {1, NTiles + 1} : Expect(t)
  /\ UNCHANGED <<seq, refs, outQ, closed, samples, held, frames>>

\* show_existing_frame: an empty slot shows nothing, without an error.
ShowExistingFrame(s) ==
  /\ HeaderArrives
  /\ Len(outQ) < MaxQueue
  /\ IF refs[s].pic = Nil
     THEN heap' = DiscardedHeap /\ UNCHANGED outQ
     ELSE /\ heap' = Retained(DiscardedHeap, refs[s].pic, 1)
          /\ outQ' = Append(outQ, refs[s].pic)
  /\ UNCHANGED <<seq, refs, closed, busy, samples, held, frames, nextTile>>

\* OBU_FRAME_HEADER of a coded frame: allocPicture and picToFrameBuf.
FrameHeaderObu(h) ==
  /\ busy /\ seq /\ BetweenFrames
  /\ frames < MaxFrames /\ HeaderParses(h)
  /\ \E p \in DiscardedHeap.pool :
       /\ heap' = Acquired(DiscardedHeap, p)
       /\ samples' = [samples EXCEPT ![p] = Seeded(p)]
       /\ pending' = [frame |-> frames + 1, hdr |-> h, pic |-> p, cdf |-> Nil,
                      fs |-> FALSE,
                      alias |-> [s \in Slots |-> refs[s].pic],
                      mvs   |-> [s \in Slots |-> refs[s].mv]]
  /\ fsOut' = fsOut - PendingState
  /\ frames' = frames + 1
  /\ Expect(1)
  /\ UNCHANGED <<seq, refs, outQ, closed, busy, held>>

\* A tile group no pending frame header waits for is skipped.
SkippedTileGroup(b) ==
  /\ busy /\ pending = Nil
  /\ GroupDue(nextTile, b)
  /\ Expect(b + 1)
  /\ UNCHANGED <<seq, refs, outQ, pending, closed, busy, heap, samples, fsOut,
                 held, frames>>

\* Mutant: the comparison of lastTile with the tile count is off by one.
MutCompletes(b) == b >= NTiles - 1
\* The group's last tile is the frame's last.
Completes(b) == b = NTiles

\* OBU_TILE_GROUP for the pending frame.  A strict decoder drops the frame at
\* the first error; a best-effort one keeps what it decoded, and finishes the
\* frame when the group's last tile is the frame's last.
TileGroupError(a, b, cut) ==
  /\ busy /\ pending # Nil /\ ~BestEffort
  /\ GroupDue(a, b) /\ cut \in Cuts(a, b) \ {b + 1}
  /\ pending' = Nil
  /\ fsOut' = ReleasedState(AcquiredState(fsOut, pending.fs, cut),
                            pending.fs \/ cut # 0)
  /\ heap' = DiscardedHeap
  /\ samples' = [samples EXCEPT
                   ![pending.pic] = Decoded(@, pending.frame, a, b, cut)]
  /\ busy' = FALSE
  /\ Expect(b + 1)
  /\ UNCHANGED <<seq, refs, outQ, closed, held, frames>>

TileGroupObu(a, b, cut) ==
  /\ busy /\ pending # Nil
  /\ GroupDue(a, b) /\ cut \in Cuts(a, b)
  /\ cut = b + 1 \/ BestEffort
  /\ Expect(b + 1)
  /\ LET new == DecodedCdf(pending.hdr, pending.frame, a, b, cut)
         cdf == IF new # Nil THEN new ELSE pending.cdf
         out == AcquiredState(fsOut, pending.fs, cut)
     IN  /\ samples' = [samples EXCEPT
                          ![pending.pic] = Decoded(@, pending.frame, a, b, cut)]
         /\ IF cut # 0 /\ Completes(b)
            THEN /\ Len(outQ) < MaxQueue
                 /\ FinishFrame(heap, pending.pic, pending.hdr, pending.frame,
                                cdf, pending.frame)
                 /\ pending' = Nil
                 /\ fsOut' = ReleasedState(out, TRUE)
            ELSE /\ pending' = [pending EXCEPT !.cdf = cdf,
                                               !.fs = @ \/ cut # 0]
                 /\ fsOut' = out
                 /\ UNCHANGED <<heap, refs, outQ>>
  /\ UNCHANGED <<seq, closed, busy, held, frames>>

\* OBU_FRAME: the header and one tile group, after which the frame is finished
\* however many of its tiles the group held.
FrameObu(h, a, b, cut) ==
  /\ busy /\ seq /\ BetweenFrames
  /\ frames < MaxFrames /\ Len(outQ) < MaxQueue
  /\ HeaderParses(h)
  /\ GroupInFrame(a, b) /\ cut \in Cuts(a, b)
  /\ frames' = frames + 1
  /\ Expect(b + 1)
  /\ pending' = Nil
  /\ LET f   == frames + 1
         ok  == cut = b + 1
         out == AcquiredState(fsOut - PendingState, FALSE, cut)
     IN  \E p \in DiscardedHeap.pool :
           LET hp == Acquired(DiscardedHeap, p)
           IN  /\ samples' = [samples EXCEPT
                                ![p] = Decoded(Seeded(p), f, a, b, cut)]
               /\ IF ok \/ BestEffort
                  THEN /\ FinishFrame(hp, p, h, f, DecodedCdf(h, f, a, b, cut),
                                      IF cut = 0 THEN Nil ELSE f)
                       /\ fsOut' = ReleasedState(out, cut # 0)
                       /\ UNCHANGED busy
                  ELSE /\ heap' = Released(hp, One(p))
                       /\ fsOut' = ReleasedState(out, cut # 0)
                       /\ busy' = FALSE
                       /\ UNCHANGED <<refs, outQ>>
  /\ UNCHANGED <<seq, closed, held>>

-----------------------------------------------------------------------------
(* The other calls. *)

\* GetPicture hands the queue's reference over to the caller; an empty queue
\* returns ErrAgain.
GetPicture ==
  /\ ~busy /\ ~closed /\ outQ # <<>>
  /\ held[Head(outQ)] < MaxHeld
  /\ held' = [held EXCEPT ![Head(outQ)] = @ + 1]
  /\ outQ' = Tail(outQ)
  /\ UNCHANGED <<seq, refs, pending, closed, busy, heap, samples, fsOut, frames,
                 nextTile>>

\* Mutant: Flush leaves the pending frame in place.
MutFlush ==
  /\ ~busy /\ ~closed
  /\ refs' = [s \in Slots |-> [refs[s] EXCEPT !.pic = Nil, !.fhdr = Nil]]
  /\ heap' = Released(heap, InSlots(Slots))
  /\ UNCHANGED <<seq, outQ, pending, closed, busy, samples, fsOut, held, frames,
                 nextTile>>

\* Flush keeps the queue, and the CDFs and motion vectors of the slots.  What
\* is fed next may continue the stream or start elsewhere.
Flush ==
  /\ ~busy /\ ~closed
  /\ refs' = [s \in Slots |-> IF refs[s].pic = Nil THEN refs[s]
                              ELSE [refs[s] EXCEPT !.pic = Nil, !.fhdr = Nil]]
  /\ DiscardPending
  /\ heap' = Released(heap, Both(InSlots(Slots), One(PendingPic)))
  /\ \E t \in {nextTile, NTiles + 1} : Expect(t)
  /\ UNCHANGED <<seq, outQ, closed, busy, samples, held, frames>>

\* Mutant: Close forgets the pictures waiting in the queue.
MutClose ==
  /\ ~busy /\ ~closed
  /\ closed' = TRUE
  /\ refs' = [s \in Slots |-> [refs[s] EXCEPT !.pic = Nil]]
  /\ outQ' = <<>>
  /\ DiscardPending
  /\ heap' = Released(heap, Both(InSlots(Slots), One(PendingPic)))
  /\ UNCHANGED <<seq, busy, samples, held, frames, nextTile>>

Close ==
  /\ ~busy /\ ~closed
  /\ closed' = TRUE
  /\ refs' = [s \in Slots |-> [refs[s] EXCEPT !.pic = Nil]]
  /\ outQ' = <<>>
  /\ DiscardPending
  /\ heap' = Released(heap, Both(InQueue, Both(InSlots(Slots), One(PendingPic))))
  /\ UNCHANGED <<seq, busy, samples, held, frames, nextTile>>

-----------------------------------------------------------------------------
(* The goroutines that own decoded pictures; they take no lock. *)

RetainPicture(p) ==
  /\ held[p] \in 1 .. (MaxHeld - 1)
  /\ held' = [held EXCEPT ![p] = @ + 1]
  /\ heap' = Retained(heap, p, 1)
  /\ UNCHANGED <<seq, refs, outQ, pending, closed, busy, samples, fsOut, frames,
                 nextTile>>

\* The decrement of Picture.Release; the caller that reaches zero then runs
\* the release callback.
ReleasePicture(p) ==
  /\ held[p] > 0
  /\ held' = [held EXCEPT ![p] = @ - 1]
  /\ heap' = [cnt       |-> [heap.cnt EXCEPT ![p] = @ - 1],
              pool      |-> heap.pool,
              releasing |-> heap.releasing
                              \cup (IF heap.cnt[p] = 1 THEN {p} ELSE {})]
  /\ UNCHANGED <<seq, refs, outQ, pending, closed, busy, samples, fsOut, frames,
                 nextTile>>

\* releaseDecodedPicture: the picture is empty and back in the pool.
ReleaseCallback(p) ==
  /\ p \in heap.releasing
  /\ heap' = [cnt |-> heap.cnt, pool |-> heap.pool \cup {p},
              releasing |-> heap.releasing \ {p}]
  /\ UNCHANGED <<seq, refs, outQ, pending, closed, busy, samples, fsOut, held,
                 frames, nextTile>>

-----------------------------------------------------------------------------
Init ==
  /\ seq = FALSE /\ closed = FALSE /\ busy = FALSE
  /\ refs = [s \in Slots |-> [fhdr |-> Nil, pic |-> Nil, cdf |-> Nil, mv |-> Nil]]
  /\ outQ = <<>>
  /\ pending = Nil
  /\ heap = [cnt |-> [p \in Pics |-> 0], pool |-> Pics, releasing |-> {}]
  /\ samples = [p \in Pics |-> [t \in Tiles |-> NoFrame]]
  /\ fsOut = 0
  /\ held = [p \in Pics |-> 0]
  /\ frames = 0
  /\ nextTile = NTiles + 1

RouteOBU ==
  \/ \E ok \in BOOLEAN : SequenceHeader(ok)
  \/ TemporalDelimiter
  \/ HeaderError
  \/ \E s \in Slots : ShowExistingFrame(s)
  \/ \E h \in Headers : FrameHeaderObu(h)
  \/ \E b \in Tiles : SkippedTileGroup(b)
  \/ \E a, b \in Tiles, cut \in 0 .. (NTiles + 1) :
       \/ TileGroupError(a, b, cut)
       \/ TileGroupObu(a, b, cut)
       \/ \E h \in Headers : FrameObu(h, a, b, cut)

Consumer ==
  \E p \in Pics : RetainPicture(p) \/ ReleasePicture(p) \/ ReleaseCallback(p)

Next ==
  \/ SendData \/ SendDataReturn \/ RouteOBU
  \/ GetPicture \/ Flush \/ Close
  \/ Consumer

Spec == Init /\ [][Next]_vars

\* A consumer that has taken a count to zero goes on to run the callback.
FairSpec == Spec /\ \A p \in Pics : WF_vars(ReleaseCallback(p))

-----------------------------------------------------------------------------
(* Properties. *)

\* A picture's reference count is the number of its holders: the slots and
\* queue entries that point to it, the pending frame, and the consumers'
\* references.  A count too low frees a picture in use, one too high leaks it.
Holders ==
  [p \in Pics |-> InSlots(Slots)[p] + InQueue[p] + One(PendingPic)[p] + held[p]]
RefCountExact == \A p \in Pics : heap.cnt[p] = Holders[p]

\* Nobody holds, and the pending frame does not predict from, a picture whose
\* planes the pool may give to the next frame.
Free == heap.pool \cup heap.releasing
InUse ==
  {refs[s].pic : s \in Slots} \cup {outQ[i] : i \in DOMAIN outQ}
    \cup {p \in Pics : held[p] > 0}
    \cup (IF pending = Nil THEN {}
          ELSE {pending.pic} \cup {pending.alias[s] : s \in Slots})
NoDanglingPicture == Free \cap InUse = {} /\ heap.pool \cap heap.releasing = {}

\* A frame split over OBU_FRAME_HEADER and OBU_TILE_GROUPs predicts from what
\* picToFrameBuf copied at the header but takes its CDFs from the slots when a
\* group arrives: no call may change the slots in between.
PendingSnapshot ==
  pending # Nil =>
    \A s \in Slots : /\ pending.alias[s] = refs[s].pic
                     /\ pending.mvs[s] = refs[s].mv

\* Frame f wrote what was written of picture p.
OnlyOf(p, f) == \A t \in Tiles : samples[p][t] \in {f, NoFrame, Damaged}

\* A slot's picture, header, CDF and motion vectors are those of one frame: a
\* picture has its header and a CDF, motion vectors are not another frame's,
\* and in best-effort decoding, which stores damaged frames, no sample that
\* anyone predicts from is left from the picture's life before.
SlotConsistent ==
  \A s \in Slots : refs[s].pic # Nil =>
    /\ refs[s].fhdr # Nil /\ refs[s].cdf # Nil
    /\ refs[s].mv \in {Nil, refs[s].fhdr}
    /\ BestEffort => OnlyOf(refs[s].pic, refs[s].fhdr)

\* The frame f wrote every visible sample of picture p.
WrittenBy(p, f) == \A t \in Tiles : samples[p][t] = f

\* DecoderOptions.BestEffort promises of a strict decoder that failed frames
\* never enter the output queue or the reference buffer: what a slot or the
\* queue points to is one frame, whole, and a slot's is its own frame.
StrictOutputWhole ==
  ~BestEffort =>
    /\ \A s \in Slots : refs[s].pic # Nil => WrittenBy(refs[s].pic, refs[s].fhdr)
    /\ \A i \in DOMAIN outQ : \E f \in Frames : WrittenBy(outQ[i], f)

\* Between OBUs a FrameState is out of its pool exactly when the pending frame
\* has one, whatever the OBUs took and gave back on the way: a decoder that
\* gave one back twice would decode two frames into it.
FrameStateBalanced == fsOut = PendingState

\* Close returns everything: once the consumers have released what they hold,
\* every picture goes back to the pool.
CloseReturnsPictures ==
  (closed /\ \A p \in Pics : held[p] = 0)
    ~> (heap.pool = Pics /\ \A p \in Pics : heap.cnt[p] = 0)

\* The decoder implements a store of immutable frames: whatever a slot, the
\* queue or a consumer has, no later OBU, Flush, Close, Retain or Release
\* changes it, though its buffer comes from a pool and goes back to it.
Store == INSTANCE FrameStore WITH
  Loans   <- Pics,
  Frame   <- Contents,
  None    <- Nil,
  store   <- [s \in Slots |-> IF refs[s].pic = Nil THEN Nil ELSE samples[refs[s].pic]],
  shown   <- [i \in DOMAIN outQ |-> samples[outQ[i]]],
  lent    <- [p \in Pics |-> IF held[p] = 0 THEN Nil ELSE samples[p]],
  stopped <- closed
ImplementsFrameStore == Store!Spec

=============================================================================
