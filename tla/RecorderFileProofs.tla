------------------------- MODULE RecorderFileProofs -------------------------
(***************************************************************************)
(* Theorems about the files of Recorder, for any number of tracks that     *)
(* share the decoder and the writers, any temporal units and pictures, any *)
(* errors of the decoder and of the disk: no picture is written twice, the *)
(* pictures of a track are in order and stamped with the right times, and  *)
(* the IVF file lacks only what the disk refused or creating it anew threw *)
(* away.  With one track and a disk that does not fail, the YUV file lacks *)
(* nothing.                                                                *)
(***************************************************************************)
EXTENDS RecorderProofs

-----------------------------------------------------------------------------
(* The way of a unit: queue, decoder, worker's hand, file. *)

\* Units taken from the queue, and those the decoder has been given.
Popped(c) == unit[c][2]
Sent(c) == IF worker[c] = "sending" THEN Popped(c) - 1 ELSE Popped(c)
Delivering(c) == worker[c] \in {"taking", "writing"}
Writing == {w \in Conns : worker[w] = "writing"}

\* What is queued are the units received and not yet taken, in order.
QueueOrdered(c) ==
  /\ Popped(c) + Len(queue[c].items) =
       IF track[c] \in {"queueing", "lastQueueing"} THEN received[c] - 1 ELSE received[c]
  /\ \A i \in 1 .. Len(queue[c].items) : queue[c].items[i] = <<c, Popped(c) + i>>
  /\ worker[c] = "none" => unit[c] = NoUnit
  /\ unit[c] # NoUnit => unit[c] = <<c, Popped(c)>>

\* Every picture there is was shown for a unit the decoder has been given.
PicturesShown ==
  /\ \A p \in shown : p[2] <= Sent(p[1])
  /\ \A i \in 1 .. Len(yuv.frames) : yuv.frames[i].pic \in shown
  /\ \A j \in 1 .. Len(outQ) : outQ[j] \in shown
  /\ \A w \in Writing : pic[w] \in shown

\* Pictures go through the decoder's queue and a worker's hand into the file.
\* None is in two places; those of one track stay in order in the queue and
\* overtake one another only in the hands of different workers.
Before(p, q) == p # q /\ (p[1] = q[1] => Earlier(p, q))
Follows(f, g) == f.pic # g.pic /\ (f.pic[1] = g.pic[1] /\ f.pts[1] = g.pts[1] => Earlier(f.pic, g.pic))
PicturesOrdered ==
  /\ \A i, j \in 1 .. Len(outQ) : i < j => Before(outQ[i], outQ[j])
  /\ \A w \in Writing, j \in 1 .. Len(outQ) : Before(pic[w], outQ[j])
  /\ \A i \in 1 .. Len(yuv.frames), j \in 1 .. Len(outQ) : Before(yuv.frames[i].pic, outQ[j])
  /\ \A i \in 1 .. Len(yuv.frames), w \in Writing :
       /\ yuv.frames[i].pic # pic[w]
       /\ yuv.frames[i].pts[1] = w => Before(yuv.frames[i].pic, pic[w])
  /\ \A v, w \in Writing : v # w => pic[v] # pic[w]
  /\ \A i, j \in 1 .. Len(yuv.frames) : i < j => Follows(yuv.frames[i], yuv.frames[j])

\* A picture still to be written is of its track's current unit, or was left
\* behind by an error; what a worker writes of its own track is stamped so.
Due(p) ==
  \/ Delivering(p[1]) /\ UnitOf(p) = unit[p[1]]
  \/ UnitOf(p) \in failed /\ (Delivering(p[1]) => p[2] < Popped(p[1]))
InTime(f) ==
  f.pic[1] = f.pts[1] =>
    UnitOf(f.pic) = f.pts \/ (UnitOf(f.pic) \in failed /\ f.pic[2] < f.pts[2])
PicturesDue ==
  /\ \A i \in 1 .. Len(yuv.frames) : InTime(yuv.frames[i])
  /\ \A j \in 1 .. Len(outQ) : Due(outQ[j])
  /\ \A w \in Writing : pic[w][1] = w => Due(pic[w])

\* Where a picture can be, and that the file is not created anew while its
\* only track writes.
Accounted(c) ==
  /\ \A p \in shown :
       \/ UnitOf(p) \in failed
       \/ \E i \in 1 .. Len(yuv.frames) : yuv.frames[i].pic = p
       \/ \E j \in 1 .. Len(outQ) : outQ[j] = p
       \/ worker[c] = "writing" /\ pic[c] = p
  /\ worker[c] = "none" => yuv.frames = <<>>
  /\ worker[c] \notin {"none", "done"} => yuv.open \/ yuv.frames = <<>>

\* The IVF file.  A closed writer has counted its records; it was never opened,
\* or some track has closed it, or main.
IvfKept ==
  /\ \A i \in Whole : ivf.recs[i][2] <= received[ivf.recs[i][1]]
  /\ \A i, j \in Whole :
       i < j /\ ivf.recs[i][1] = ivf.recs[j][1] => ivf.recs[i][2] < ivf.recs[j][2]
  /\ IF ivf.open THEN ivf.written = Cardinality(Whole)
     ELSE /\ ivf.written = 0
          /\ ivf.count = Cardinality(Whole) \/ ("ivf" \in DiskFaults /\ ivf.count = 0)

\* What the IVF file lacks: the writer is closed only if nothing was kept so far.
NothingKept == ivf.recs = <<>> /\ Gone = {}
IvfLacks ==
  /\ ivf.open \/ main = "done" \/ NothingKept
       \/ \E c \in Conns : track[c] \in {"finishing", "ended"}
  /\ Gone # {} => Recreated
  /\ \A u \in Gone, i \in Whole : ivf.recs[i][1] = u[1] => u[2] < ivf.recs[i][2]

Flow == PicturesShown /\ PicturesOrdered /\ PicturesDue

-----------------------------------------------------------------------------
(* Sequences. *)

\* The elements of a sequence without its first.
LEMMA TailElements ==
  ASSUME NEW S, NEW s \in Seq(S), s # <<>>
  PROVE  /\ Len(s) \in Nat /\ Len(s) >= 1 /\ 1 \in 1 .. Len(s) /\ Head(s) = s[1]
         /\ Len(Tail(s)) = Len(s) - 1
         /\ \A i \in 1 .. Len(Tail(s)) : i + 1 \in 1 .. Len(s) /\ Tail(s)[i] = s[i + 1]
         /\ \A i \in 1 .. Len(s) : i # 1 => i - 1 \in 1 .. Len(Tail(s)) /\ Tail(s)[i - 1] = s[i]
OBVIOUS

\* The elements of a sequence with one more.
LEMMA AppendElements ==
  ASSUME NEW S, NEW s \in Seq(S), NEW e
  PROVE  /\ Len(s) \in Nat /\ Len(Append(s, e)) = Len(s) + 1
         /\ Append(s, e)[Len(s) + 1] = e
         /\ \A i \in 1 .. Len(s) : Append(s, e)[i] = s[i]
OBVIOUS

\* The elements of a sequence and another behind it.
LEMMA ConcatElements ==
  ASSUME NEW S, NEW s \in Seq(S), NEW t \in Seq(S)
  PROVE  /\ Len(s) \in Nat /\ Len(t) \in Nat /\ Len(s \o t) = Len(s) + Len(t)
         /\ \A i \in 1 .. Len(s) : i \in 1 .. Len(s \o t) /\ (s \o t)[i] = s[i]
         /\ \A i \in 1 .. Len(t) : Len(s) + i \in 1 .. Len(s \o t) /\ (s \o t)[Len(s) + i] = t[i]
         /\ \A i \in 1 .. Len(s \o t) :
              \/ i \in 1 .. Len(s) /\ (s \o t)[i] = s[i]
              \/ i > Len(s) /\ i - Len(s) \in 1 .. Len(t) /\ (s \o t)[i] = t[i - Len(s)]
OBVIOUS

-----------------------------------------------------------------------------
(* Types. *)

\* What IInv says of the types of a track's units and of the pictures.
LEMMA UnitTypes ==
  ASSUME IInv, NEW c \in Conns
  PROVE  /\ queue[c].items \in Seq(Units) /\ received[c] \in Nat
         /\ unit[c] \in Units \/ unit[c] = NoUnit
         /\ Popped(c) \in Nat /\ Sent(c) \in Int
         /\ worker[c] \in {"sending", "taking", "writing"} =>
              unit[c] \in Units /\ unit[c] # NoUnit /\ Popped(c) > 0
<1>1. \A u \in Units : u[2] \in Nat /\ u[2] > 0 /\ u # NoUnit
  BY RecorderAssumption DEF Units, NoUnit
<1>2. NoUnit[2] = 0
  BY DEF NoUnit
<1>3. /\ queue[c].items \in Seq(Units) /\ received[c] \in 0 .. MaxTU
      /\ unit[c] \in Units \cup {NoUnit}
  BY DEF IInv, TypeOK
<1>4. worker[c] \in {"sending", "taking", "writing"} => unit[c] \in Units
  BY DEF IInv, UnitsInHand
<1>5. received[c] \in Nat
  BY <1>3, RecorderAssumption
<1>6. Popped(c) \in Nat /\ (unit[c] \in Units => Popped(c) > 0)
  BY <1>1, <1>2, <1>3 DEF Popped
<1>7. Sent(c) \in Int
  BY <1>6 DEF Sent
<1> QED  BY <1>1, <1>3, <1>4, <1>5, <1>6, <1>7

\* What a picture is made of.
LEMMA PictureType ==
  ASSUME NEW p \in Pictures
  PROVE  p = <<p[1], p[2], p[3]>> /\ p[1] \in Conns /\ p[2] \in Nat /\ p[3] \in Nat
BY RecorderAssumption DEF Pictures

\* The types of the pictures in the decoder's queue and the file.
LEMMA PictureTypes ==
  ASSUME IInv
  PROVE  /\ outQ \in Seq(Pictures) /\ shown \subseteq Pictures
         /\ yuv.frames \in Seq([pic : Pictures, pts : Units])
         /\ \A j \in 1 .. Len(outQ) : outQ[j] \in Pictures
         /\ \A i \in 1 .. Len(yuv.frames) : yuv.frames[i].pic \in Pictures
<1> DEFINE Shot == [pic : Pictures, pts : Units]
           frames == yuv.frames
<1>1. /\ outQ \in Seq(Pictures) /\ shown \subseteq Pictures
      /\ yuv \in [open : BOOLEAN, frames : Seq(Shot)]
  BY DEF IInv, TypeOK
<1>2. frames \in Seq(Shot)
  BY <1>1
<1>3. ASSUME NEW i \in 1 .. Len(frames) PROVE frames[i].pic \in Pictures
  <2>1. frames[i] \in Shot
    <3> HIDE DEF Shot, frames
    <3> QED  BY <1>2, <1>3
  <2> QED  BY <2>1
<1>4. \A j \in 1 .. Len(outQ) : outQ[j] \in Pictures
  BY <1>1
<1> QED  BY <1>1, <1>2, <1>3, <1>4

-----------------------------------------------------------------------------
(* The queues. *)

\* The reader appends the unit it received last.
LEMMA PushKeepsQueue ==
  ASSUME IInv, NEW c \in Conns, QueueOrdered(c), QueueTemporalUnit(c)
  PROVE  QueueOrdered(c)'
<1> DEFINE items == queue[c].items
<1>1. /\ track \in [Conns -> TrackStates] /\ worker \in [Conns -> WorkerStates]
      /\ queue \in [Conns -> [items : Seq(Units), closed : BOOLEAN]]
  BY DEF IInv, TypeOK
<1>2. /\ queue'[c].items = Append(items, <<c, received[c]>>)
      /\ received' = received /\ unit' = unit
      /\ track[c] \in {"queueing", "lastQueueing"}
      /\ track'[c] \notin {"queueing", "lastQueueing"}
      /\ worker'[c] = "none" => worker[c] = "none"
  BY <1>1 DEF QueueTemporalUnit, Push, Woken, At, Move
<1>3. items \in Seq(Units) /\ received[c] \in Nat /\ Popped(c) \in Nat /\ Popped(c)' = Popped(c)
  BY <1>2, UnitTypes DEF Popped
<1>4. /\ Popped(c) + Len(items) = received[c] - 1
      /\ \A i \in 1 .. Len(items) : items[i] = <<c, Popped(c) + i>>
  BY <1>2 DEF QueueOrdered
<1>5. /\ Len(items) \in Nat /\ Len(queue'[c].items) = Len(items) + 1
      /\ \A i \in 1 .. Len(items) : queue'[c].items[i] = items[i]
      /\ queue'[c].items[Len(items) + 1] = <<c, received[c]>>
  <2> HIDE DEF items
  <2> QED  BY <1>2, <1>3, AppendElements
<1> HIDE DEF items
<1>6. Popped(c) + Len(queue'[c].items) = received[c]
  <2>1. Popped(c) + Len(items) = received[c] - 1 /\ Len(queue'[c].items) = Len(items) + 1
    BY <1>4, <1>5
  <2>2. Popped(c) \in Nat /\ received[c] \in Nat /\ Len(items) \in Nat
    BY <1>3, <1>5
  <2>3. ASSUME NEW p \in Nat, NEW r \in Nat, NEW l \in Nat, NEW m, p + l = r - 1, m = l + 1
        PROVE  p + m = r
    BY <2>3
  <2> QED  BY <2>1, <2>2, <2>3
<1>7. ASSUME NEW i \in 1 .. Len(queue'[c].items)
      PROVE  queue'[c].items[i] = <<c, Popped(c) + i>>
  <2>1. CASE i \in 1 .. Len(items)
    BY <1>4, <1>5, <2>1
  <2>2. CASE i = Len(items) + 1
    <3>1. Popped(c) + i = received[c]
      BY <1>3, <1>4, <1>5, <2>2
    <3> QED  BY <1>5, <2>2, <3>1
  <2> QED  BY <1>5, <2>1, <2>2
<1> QED  BY <1>2, <1>3, <1>6, <1>7 DEF QueueOrdered

\* The oldest unit of the queue is the one after those taken.
LEMMA PopKeepsQueue ==
  ASSUME IInv, NEW c \in Conns, QueueOrdered(c), Pop(c), queue[c].items # <<>>
  PROVE  QueueOrdered(c)' /\ Popped(c)' = Popped(c) + 1
<1> DEFINE items == queue[c].items
<1>1. /\ worker \in [Conns -> WorkerStates] /\ unit \in [Conns -> Units \cup {NoUnit}]
      /\ queue \in [Conns -> [items : Seq(Units), closed : BOOLEAN]]
  BY DEF IInv, TypeOK
<1>2. /\ worker'[c] = "sending" /\ unit'[c] = Head(items) /\ queue'[c].items = Tail(items)
      /\ UNCHANGED <<track, received>>
  BY <1>1 DEF Pop, Turn, trackVars
<1>3. items \in Seq(Units) /\ received[c] \in Nat /\ Popped(c) \in Nat
  BY UnitTypes
<1>4. /\ Popped(c) + Len(items) =
           IF track[c] \in {"queueing", "lastQueueing"} THEN received[c] - 1 ELSE received[c]
      /\ \A i \in 1 .. Len(items) : items[i] = <<c, Popped(c) + i>>
  BY DEF QueueOrdered
<1>5. items # <<>>
  OBVIOUS
<1> HIDE DEF items
<1>6. /\ Len(items) \in Nat /\ Len(items) >= 1 /\ 1 \in 1 .. Len(items) /\ Head(items) = items[1]
      /\ Len(Tail(items)) = Len(items) - 1
      /\ \A i \in 1 .. Len(Tail(items)) : i + 1 \in 1 .. Len(items) /\ Tail(items)[i] = items[i + 1]
  BY <1>3, <1>5, TailElements
<1>7. unit'[c] = <<c, Popped(c) + 1>>
  BY <1>2, <1>4, <1>6
<1>8. Popped(c)' = Popped(c) + 1
  BY <1>7 DEF Popped
<1>9. Popped(c)' + Len(queue'[c].items) = Popped(c) + Len(items)
  BY <1>2, <1>3, <1>6, <1>8
<1>10. ASSUME NEW i \in 1 .. Len(queue'[c].items)
       PROVE  queue'[c].items[i] = <<c, Popped(c)' + i>>
  <2>1. i + 1 \in 1 .. Len(items) /\ queue'[c].items[i] = items[i + 1]
    BY <1>2, <1>6
  <2>2. Popped(c) + (i + 1) = Popped(c)' + i
    BY <1>3, <1>6, <1>8
  <2> QED  BY <1>4, <2>1, <2>2
<1> QED  BY <1>2, <1>4, <1>7, <1>8, <1>9, <1>10 DEF QueueOrdered

\* Every step keeps what is queued in order.
LEMMA NextKeepsQueues ==
  ASSUME IInv, NEW c \in Conns, QueueOrdered(c), [Next]_vars
  PROVE  QueueOrdered(c)'
<1> DEFINE Q == {"queueing", "lastQueueing"}
           Same == /\ queue'[c].items = queue[c].items /\ received'[c] = received[c]
                   /\ unit'[c] = unit[c] /\ (track'[c] \in Q <=> track[c] \in Q)
                   /\ worker'[c] = "none" => worker[c] = "none"
<1>1. /\ track \in [Conns -> TrackStates] /\ received \in [Conns -> 0 .. MaxTU]
      /\ queue \in [Conns -> [items : Seq(Units), closed : BOOLEAN]]
      /\ worker \in [Conns -> WorkerStates] /\ unit \in [Conns -> Units \cup {NoUnit}]
  BY DEF IInv, TypeOK
<1>2. Same => QueueOrdered(c)'
  BY DEF QueueOrdered, Popped
<1>3. CASE UNCHANGED <<trackVars, queue, workVars>>
  BY <1>2, <1>3 DEF trackVars, workVars
<1>4. CASE UNCHANGED vars
  BY <1>3, <1>4 DEF vars
<1>5. ASSUME NEW d \in Conns, TrackCheck(d) \/ ReadError(d)
      PROVE  Same
  BY <1>1, <1>5 DEF TrackCheck, ReadError, At, Move, workVars
<1>6. ASSUME NEW d \in Conns, RecordTemporalUnit(d)
      PROVE  QueueOrdered(c)'
  <2>1. CASE d # c
    <3>1. Same
      BY <1>1, <1>6, <2>1 DEF RecordTemporalUnit, Move, workVars
    <3> QED  BY <1>2, <3>1
  <2>2. CASE d = c
    <3>1. /\ queue' = queue /\ unit' = unit /\ worker' = worker
          /\ received'[c] = received[c] + 1 /\ track[c] \notin Q /\ track'[c] \in Q
      BY <1>1, <1>6, <2>2 DEF RecordTemporalUnit, Move, workVars
    <3>2. received[c] \in Nat
      BY UnitTypes
    <3>3. received'[c] - 1 = received[c]
      BY <3>1, <3>2
    <3> QED  BY <3>1, <3>3 DEF QueueOrdered, Popped
  <2> QED  BY <2>1, <2>2
<1>7. ASSUME NEW d \in Conns, QueueTemporalUnit(d)
      PROVE  QueueOrdered(c)'
  <2>1. CASE d # c
    <3>1. Same
      BY <1>1, <1>7, <2>1 DEF QueueTemporalUnit, Push, Woken, At, Move
    <3> QED  BY <1>2, <3>1
  <2> QED  BY <1>7, <2>1, PushKeepsQueue
<1>8. ASSUME NEW d \in Conns, TrackStarted(d) \/ CloseQueue(d)
      PROVE  Same
  <2>1. CASE TrackStarted(d)
    <3>1. /\ UNCHANGED <<received, queue, unit>>
          /\ track' = [track EXCEPT ![d] = "reading"] /\ track[d] = "starting"
          /\ worker' = [worker EXCEPT ![d] = "idle"]
      BY <2>1 DEF TrackStarted, At, Move
    <3> QED  BY <1>1, <3>1
  <2>2. CASE CloseQueue(d)
    <3>1. /\ UNCHANGED <<received, unit>>
          /\ track' = [track EXCEPT ![d] = "draining"] /\ track[d] \in {"flushing", "closing"}
          /\ worker' = Woken(d)
          /\ queue' = [queue EXCEPT ![d] = [items |-> queue[d].items, closed |-> TRUE]]
      BY <2>2 DEF CloseQueue, At, Move
    <3>2. queue'[c].items = queue[c].items
      BY <1>1, <3>1
    <3>3. worker'[c] = "none" => worker[c] = "none"
      BY <1>1, <3>1 DEF Woken
    <3> QED  BY <1>1, <3>1, <3>2, <3>3
  <2> QED  BY <1>8, <2>1, <2>2
<1>9. ASSUME NEW d \in Conns,
             Drained(d) \/ TrackCloseYuv(d) \/ TrackCloseIvf(d) \/ TrackFinished(d)
      PROVE  Same
  BY <1>1, <1>9 DEF Drained, TrackCloseYuv, TrackCloseIvf, TrackFinished, At, Move, workVars
<1>10. ASSUME NEW d \in Conns, Pop(d)
       PROVE  QueueOrdered(c)'
  <2>1. CASE d # c \/ queue[d].items = <<>>
    <3>1. Same
      BY <1>1, <1>10, <2>1 DEF Pop, Turn, Doing, trackVars
    <3> QED  BY <1>2, <3>1
  <2> QED  BY <1>10, <2>1, PopKeepsQueue
<1>11. ASSUME NEW d \in Conns, SendData(d) \/ GetPicture(d) \/ WriteYuv(d)
       PROVE  Same
  BY <1>1, <1>11 DEF SendData, GetPicture, WriteYuv, Turn, Doing, trackVars
<1> HIDE DEF Same
<1> QED
  BY <1>2, <1>3, <1>4, <1>5, <1>6, <1>7, <1>8, <1>9, <1>10, <1>11, ServerLeavesTracks
     DEF Next, Finish, Worker

-----------------------------------------------------------------------------
(* Steps that move no picture. *)

\* What the pictures are and which of them the decoder has.
Idle(c) == worker[c] \notin {"sending", "taking", "writing"}
PictureVars == <<unit, pic, outQ, shown, failed, yuv.frames>>
Still(c) == worker'[c] = worker[c] \/ (Idle(c) /\ Idle(c)')

\* Pictures stay where they are while the workers stay where they are, or wait.
LEMMA PicturesStay ==
  ASSUME IInv, Flow, PictureVars' = PictureVars, \A c \in Conns : Still(c)
  PROVE  Flow'
<1>1. /\ unit' = unit /\ pic' = pic /\ outQ' = outQ /\ shown' = shown /\ failed' = failed
      /\ yuv'.frames = yuv.frames
  BY DEF PictureVars
<1>2. \A c \in Conns :
        /\ Sent(c)' = Sent(c) /\ Popped(c)' = Popped(c)
        /\ Delivering(c)' <=> Delivering(c)
        /\ worker'[c] = "writing" <=> worker[c] = "writing"
  BY <1>1 DEF Sent, Popped, Delivering, Idle, Still
<1>3. Writing' = Writing
  BY <1>2 DEF Writing
<1>4. /\ \A p \in shown : p[1] \in Conns
      /\ \A j \in 1 .. Len(outQ) : outQ[j][1] \in Conns
      /\ \A w \in Writing : pic[w][1] \in Conns
  BY PictureType, PictureTypes DEF IInv, UnitsInHand, Writing
<1>5. PicturesShown'
  BY <1>1, <1>2, <1>3, <1>4 DEF Flow, PicturesShown
<1>6. PicturesOrdered'
  BY <1>1, <1>3 DEF Flow, PicturesOrdered
<1>7. PicturesDue'
  <2>1. \A p : p[1] \in Conns /\ Due(p) => Due(p)'
    BY <1>1, <1>2 DEF Due
  <2>2. \A f : InTime(f) <=> InTime(f)'
    BY <1>1 DEF InTime
  <2> QED  BY <1>1, <1>3, <1>4, <2>1, <2>2 DEF Flow, PicturesDue
<1> QED  BY <1>5, <1>6, <1>7 DEF Flow

\* Only the worker's steps move pictures.
LEMMA OthersMoveNoPicture ==
  ASSUME IInv, [Next]_vars, ~ \E c \in Conns : Worker(c)
  PROVE  PictureVars' = PictureVars /\ \A c \in Conns : Still(c)
<1>1. worker \in [Conns -> WorkerStates]
  BY DEF IInv, TypeOK
<1>2. yuv' = yuv \/ yuv' = ClosedYuv
  BY DEF Next, Interrupt, Shutdown, CreatePeerConnection, Handler, RegisterCheck,
     RegisterAdd, ConnectionLost, SnapshotConnections, PeerConnectionsClosed,
     HttpShutdown, TracksFinished, MainCloseYuv, MainCloseIvf, ClosePeerConnection,
     TrackCheck, RecordTemporalUnit, ReadError, Finish, TrackStarted, QueueTemporalUnit,
     CloseQueue, Drained, TrackCloseYuv, TrackCloseIvf, TrackFinished, vars
<1>3. yuv'.frames = yuv.frames
  BY <1>2 DEF ClosedYuv
<1>4. \/ UNCHANGED workVars
      \/ /\ UNCHANGED <<unit, pic, outQ, shown, failed>>
         /\ \E d \in Conns : \/ worker' = Woken(d)
                             \/ TrackStarted(d)
  <2>1. ASSUME NEW d \in Conns, TrackCheck(d) \/ RecordTemporalUnit(d) \/ ReadError(d)
        PROVE  UNCHANGED workVars
    BY <2>1 DEF TrackCheck, RecordTemporalUnit, ReadError
  <2>2. ASSUME NEW d \in Conns, Finish(d)
        PROVE  \/ UNCHANGED workVars
               \/ /\ UNCHANGED <<unit, pic, outQ, shown, failed>>
                  /\ worker' = Woken(d) \/ TrackStarted(d)
    BY <2>2 DEF Finish, TrackStarted, QueueTemporalUnit, Push, CloseQueue, Drained,
                TrackCloseYuv, TrackCloseIvf, TrackFinished
  <2>3. CASE UNCHANGED vars
    BY <2>3 DEF vars
  <2> QED  BY <2>1, <2>2, <2>3, ServerLeavesTracks DEF Next
<1>5. ASSUME NEW d \in Conns, TrackStarted(d) PROVE \A c \in Conns : Still(c)
  <2>1. worker[d] = "none" /\ worker' = [worker EXCEPT ![d] = "idle"]
    BY <1>5 DEF TrackStarted, At, IInv, ReaderOutlivesWorker
  <2> QED  BY <1>1, <2>1 DEF Still, Idle
<1>6. ASSUME NEW d \in Conns, worker' = Woken(d) PROVE \A c \in Conns : Still(c)
  BY <1>1, <1>6 DEF Woken, Still, Idle
<1>7. UNCHANGED workVars => \A c \in Conns : Still(c)
  BY DEF workVars, Still
<1>8. \A c \in Conns : Still(c)
  BY <1>4, <1>5, <1>6, <1>7
<1> QED  BY <1>3, <1>4, <1>8 DEF PictureVars, workVars

-----------------------------------------------------------------------------
(* The worker's steps. *)

\* A unit taken from the queue leaves the pictures where they are.
LEMMA PopKeepsPictures ==
  ASSUME IInv, Flow, NEW c \in Conns, QueueOrdered(c), Pop(c)
  PROVE  Flow'
<1>1. /\ worker \in [Conns -> WorkerStates] /\ unit \in [Conns -> Units \cup {NoUnit}]
      /\ worker[c] = "idle" /\ UNCHANGED <<pic, outQ, shown, failed, yuv>>
  BY DEF IInv, TypeOK, Pop, Doing
<1>2. CASE queue[c].items = <<>>
  <2>1. unit' = unit /\ worker' = [worker EXCEPT ![c] = IF queue[c].closed THEN "done" ELSE "waiting"]
    BY <1>2 DEF Pop, Turn
  <2>2. \A d \in Conns : Still(d)
    BY <1>1, <2>1 DEF Still, Idle
  <2> QED  BY <1>1, <2>1, <2>2, PicturesStay DEF PictureVars
<1>3. CASE queue[c].items # <<>>
  <2>1. /\ worker' = [worker EXCEPT ![c] = "sending"]
        /\ unit' = [unit EXCEPT ![c] = Head(queue[c].items)]
    BY <1>3 DEF Pop, Turn
  <2>2. Popped(c)' = Popped(c) + 1 /\ Popped(c) \in Nat
    BY <1>3, PopKeepsQueue, UnitTypes
  <2>3. /\ \A d \in Conns : Sent(d)' = Sent(d) /\ (d # c => Popped(d)' = Popped(d))
        /\ Writing' = Writing /\ ~Delivering(c) /\ ~Delivering(c)'
        /\ \A d \in Conns : d # c => (Delivering(d)' <=> Delivering(d)) /\ unit'[d] = unit[d]
    <3>1. \A d \in Conns : d # c => worker'[d] = worker[d] /\ unit'[d] = unit[d]
      BY <1>1, <2>1
    <3>2. worker'[c] = "sending"
      BY <1>1, <2>1
    <3>3. Sent(c)' = Sent(c)
      BY <1>1, <2>2, <3>2 DEF Sent
    <3>4. \A d \in Conns : d # c => Sent(d)' = Sent(d) /\ Popped(d)' = Popped(d)
      BY <3>1 DEF Sent, Popped
    <3> QED  BY <1>1, <3>1, <3>2, <3>3, <3>4 DEF Writing, Delivering
  <2>4. /\ \A p \in shown : p[1] \in Conns
        /\ \A j \in 1 .. Len(outQ) : outQ[j][1] \in Conns
    BY PictureType, PictureTypes
  <2>5. PicturesShown'
    BY <1>1, <2>3, <2>4 DEF Flow, PicturesShown
  <2>6. PicturesOrdered'
    BY <1>1, <2>3 DEF Flow, PicturesOrdered
  <2>7. PicturesDue'
    <3>1. ASSUME NEW p, p[1] \in Conns, Due(p) PROVE Due(p)'
      <4>1. CASE p[1] = c
        BY <1>1, <2>3, <3>1, <4>1 DEF Due
      <4>2. CASE p[1] # c
        BY <1>1, <2>3, <3>1, <4>2 DEF Due
      <4> QED  BY <4>1, <4>2
    <3>2. \A f : InTime(f) <=> InTime(f)'
      BY <1>1 DEF InTime
    <3>3. ASSUME NEW w \in Writing, pic[w][1] = w PROVE Due(pic[w])'
      <4>1. w # c /\ Due(pic[w])
        BY <1>1, <3>3 DEF Flow, PicturesDue, Writing
      <4> QED  BY <1>1, <2>3, <3>3, <4>1 DEF Due, Writing
    <3> QED  BY <1>1, <2>3, <2>4, <3>1, <3>2, <3>3 DEF Flow, PicturesDue
  <2> QED  BY <2>5, <2>6, <2>7 DEF Flow
<1> QED  BY <1>2, <1>3

\* A unit's pictures are behind all there are; after an error they are among
\* those left behind.
LEMMA SendDataKeepsPictures ==
  ASSUME IInv, Flow, NEW c \in Conns, QueueOrdered(c), SendData(c)
  PROVE  Flow'
<1> DEFINE k == Popped(c)
           m == Len(outQ)
<1>1. /\ worker \in [Conns -> WorkerStates] /\ worker[c] = "sending"
      /\ UNCHANGED <<unit, pic, yuv>>
  BY DEF SendData, Doing, IInv, TypeOK
<1>2. k \in Nat /\ unit[c] = <<c, k>>
  BY <1>1, UnitTypes DEF QueueOrdered
<1>3. PICK n \in 0 .. MaxShown, err \in BOOLEAN :
        LET new == [i \in 1 .. n |-> <<c, unit[c][2], i>>]
        IN  /\ outQ' = outQ \o new
            /\ shown' = shown \cup {new[i] : i \in 1 .. n}
            /\ failed' = IF err THEN failed \cup {unit[c]} ELSE failed
            /\ worker' = [worker EXCEPT ![c] = IF err THEN "idle" ELSE "taking"]
  BY DEF SendData, Turn
<1> DEFINE new == [i \in 1 .. n |-> <<c, k, i>>]
<1>4. /\ n \in Nat /\ new \in Seq(Pictures) /\ Len(new) = n
      /\ \A i \in 1 .. n : new[i] = <<c, k, i>> /\ UnitOf(new[i]) = unit[c]
  <2>1. n \in Nat /\ \A i \in 1 .. n : i \in 1 .. MaxShown
    BY RecorderAssumption
  <2>2. k \in 1 .. MaxTU
    BY <1>1, <1>2 DEF IInv, UnitsInHand, Units
  <2> HIDE DEF k
  <2>3. \A i \in 1 .. n : <<c, k, i>> \in Pictures
    BY <2>1, <2>2 DEF Pictures
  <2>4. new \in Seq(Pictures) /\ Len(new) = n
    BY <2>1, <2>3
  <2>5. \A i \in 1 .. n : new[i] = <<c, k, i>> /\ UnitOf(new[i]) = unit[c]
    BY <1>2 DEF UnitOf
  <2> QED  BY <2>1, <2>4, <2>5
<1>5. /\ outQ' = outQ \o new
      /\ shown' = shown \cup {new[i] : i \in 1 .. n}
      /\ failed' = IF err THEN failed \cup {unit[c]} ELSE failed
  BY <1>2, <1>3
<1> HIDE DEF new, k
<1>6. /\ m \in Nat
      /\ \A j \in 1 .. m : j \in 1 .. Len(outQ') /\ outQ'[j] = outQ[j]
      /\ \A j \in 1 .. Len(outQ') :
           \/ j \in 1 .. m /\ outQ'[j] = outQ[j]
           \/ j > m /\ j - m \in 1 .. n /\ outQ'[j] = new[j - m]
  <2>1. outQ \in Seq(Pictures)
    BY PictureTypes
  <2> QED  BY <1>4, <1>5, <2>1, ConcatElements
<1> HIDE DEF m
<1>7. \A d \in Conns : d # c => worker'[d] = worker[d]
  BY <1>1, <1>3
<1>8. worker'[c] = IF err THEN "idle" ELSE "taking"
  BY <1>1, <1>3
<1>9. /\ Sent(c) = k - 1 /\ Sent(c)' = k
      /\ \A d \in Conns : Popped(d)' = Popped(d) /\ (d # c => Sent(d)' = Sent(d))
      /\ \A d \in Conns : d # c => (Delivering(d)' <=> Delivering(d))
      /\ ~Delivering(c) /\ (Delivering(c)' <=> ~err)
      /\ Writing' = Writing /\ c \notin Writing
  BY <1>1, <1>7, <1>8 DEF Sent, Popped, Delivering, Writing, k
<1>10. ASSUME NEW p \in shown PROVE p \in Pictures /\ p[2] <= Sent(p[1])
  BY PictureTypes DEF Flow, PicturesShown
<1>11. ASSUME NEW p \in shown, NEW i \in 1 .. n PROVE Before(p, new[i])
  <2>1. /\ p[2] \in Nat /\ p[3] \in Nat /\ (p[1] = c => p[2] < k)
        /\ new[i][1] = c /\ new[i][2] = k
    BY <1>2, <1>4, <1>9, <1>10, PictureType
  <2>2. p # new[i]
    BY <1>2, <2>1
  <2> QED  BY <2>1, <2>2 DEF Before, Earlier
<1>12. ASSUME NEW i \in 1 .. n, NEW j \in 1 .. n, i < j PROVE Before(new[i], new[j])
  <2>1. /\ new[i][2] = k /\ new[j][2] = k /\ new[i][3] = i /\ new[j][3] = j
    BY <1>4
  <2>2. i \in Nat /\ j \in Nat
    BY <1>4
  <2> QED  BY <1>12, <2>1, <2>2 DEF Before, Earlier
<1>13. PicturesShown'
  <2>1. ASSUME NEW p \in shown' PROVE p[2] <= Sent(p[1])'
    <3>1. CASE p \in shown
      <4>1. p[1] \in Conns /\ p[2] \in Nat /\ p[2] <= Sent(p[1])
        BY <1>10, <3>1, PictureType
      <4>2. CASE p[1] = c
        BY <1>2, <1>9, <4>1, <4>2
      <4>3. CASE p[1] # c
        BY <1>9, <4>1, <4>3
      <4> QED  BY <4>2, <4>3
    <3>2. CASE p \notin shown
      <4>1. p[1] = c /\ p[2] = k
        BY <1>4, <1>5, <3>2
      <4> QED  BY <1>2, <1>9, <4>1
    <3> QED  BY <3>1, <3>2
  <2>2. \A j \in 1 .. Len(outQ') : outQ'[j] \in shown'
    <3>1. \A i \in 1 .. n : new[i] \in shown'
      BY <1>5
    <3>2. \A j \in 1 .. m : outQ[j] \in shown'
      BY <1>5 DEF Flow, PicturesShown, m
    <3> QED  BY <1>6, <3>1, <3>2
  <2>3. /\ \A i \in 1 .. Len(yuv'.frames) : yuv'.frames[i].pic \in shown'
        /\ \A w \in Writing' : pic'[w] \in shown'
    BY <1>1, <1>5, <1>9 DEF Flow, PicturesShown
  <2> QED  BY <2>1, <2>2, <2>3 DEF PicturesShown
<1>14. PicturesOrdered'
  <2>1. ASSUME NEW i \in 1 .. Len(outQ'), NEW j \in 1 .. Len(outQ'), i < j
        PROVE  Before(outQ'[i], outQ'[j])
    <3>1. CASE j \in 1 .. m
      <4>1. i \in 1 .. m
        BY <1>6, <2>1, <3>1
      <4> QED  BY <1>6, <2>1, <3>1, <4>1 DEF Flow, PicturesOrdered, m
    <3>2. CASE i \in 1 .. m /\ j \notin 1 .. m
      <4>1. outQ'[i] \in shown
        BY <1>6, <3>2 DEF Flow, PicturesShown, m
      <4>2. j - m \in 1 .. n /\ outQ'[j] = new[j - m]
        BY <1>6, <3>2
      <4> QED  BY <1>11, <4>1, <4>2
    <3>3. CASE i \notin 1 .. m /\ j \notin 1 .. m
      <4>1. /\ i - m \in 1 .. n /\ outQ'[i] = new[i - m]
            /\ j - m \in 1 .. n /\ outQ'[j] = new[j - m]
        BY <1>6, <3>3
      <4>2. i - m < j - m
        BY <1>6, <2>1
      <4> QED  BY <1>12, <4>1, <4>2
    <3> QED  BY <3>1, <3>2, <3>3
  <2>2. ASSUME NEW w \in Writing, NEW j \in 1 .. Len(outQ') PROVE Before(pic[w], outQ'[j])
    <3>1. pic[w] \in shown
      BY DEF Flow, PicturesShown
    <3>2. CASE j \in 1 .. m /\ outQ'[j] = outQ[j]
      BY <3>2 DEF Flow, PicturesOrdered, m
    <3>3. CASE j - m \in 1 .. n /\ outQ'[j] = new[j - m]
      BY <1>11, <3>1, <3>3
    <3> QED  BY <1>6, <3>2, <3>3
  <2>3. ASSUME NEW i \in 1 .. Len(yuv.frames), NEW j \in 1 .. Len(outQ')
        PROVE  Before(yuv.frames[i].pic, outQ'[j])
    <3>1. yuv.frames[i].pic \in shown
      BY DEF Flow, PicturesShown
    <3>2. CASE j \in 1 .. m /\ outQ'[j] = outQ[j]
      BY <3>2 DEF Flow, PicturesOrdered, m
    <3>3. CASE j - m \in 1 .. n /\ outQ'[j] = new[j - m]
      BY <1>11, <3>1, <3>3
    <3> QED  BY <1>6, <3>2, <3>3
  <2> QED  BY <1>1, <1>9, <2>1, <2>2, <2>3 DEF Flow, PicturesOrdered
<1>15. PicturesDue'
  <2>1. failed \subseteq failed'
    BY <1>5
  <2>2. \A i \in 1 .. Len(yuv'.frames) : InTime(yuv.frames[i])'
    BY <1>1, <2>1 DEF Flow, PicturesDue, InTime
  <2>3. ASSUME NEW j \in 1 .. Len(outQ') PROVE Due(outQ[j])'
    <3>1. CASE j \in 1 .. m /\ outQ'[j] = outQ[j]
      <4>1. Due(outQ[j]) /\ outQ[j] \in shown
        BY <3>1 DEF Flow, PicturesDue, PicturesShown, m
      <4>2. outQ[j][1] \in Conns /\ outQ[j][2] \in Nat /\ outQ[j][2] <= Sent(outQ[j][1])
        BY <1>10, <4>1, PictureType
      <4>3. CASE outQ[j][1] = c
        <5>1. UnitOf(outQ[j]) \in failed
          BY <1>9, <4>1, <4>3 DEF Due
        <5>2. outQ[j][2] < k
          BY <1>2, <1>9, <4>2, <4>3
        <5>3. Popped(outQ[j][1])' = k
          BY <1>9, <3>1, <4>3 DEF k
        <5> QED  BY <2>1, <3>1, <5>1, <5>2, <5>3 DEF Due, UnitOf
      <4>4. CASE outQ[j][1] # c
        BY <1>1, <1>9, <2>1, <3>1, <4>1, <4>2, <4>4 DEF Due, UnitOf
      <4> QED  BY <4>3, <4>4
    <3>2. CASE j - m \in 1 .. n /\ outQ'[j] = new[j - m]
      <4>1. UnitOf(outQ'[j]) = unit[c] /\ outQ'[j][1] = c
        BY <1>4, <3>2
      <4>2. err => unit[c] \in failed'
        BY <1>5
      <4> QED  BY <1>1, <1>9, <4>1, <4>2 DEF Due
    <3> QED  BY <1>6, <3>1, <3>2
  <2>4. ASSUME NEW w \in Writing, pic[w][1] = w PROVE Due(pic[w])'
    <3>1. w # c /\ w \in Conns /\ Due(pic[w])
      BY <1>9, <2>4 DEF Flow, PicturesDue, Writing
    <3> QED  BY <1>1, <1>9, <2>1, <2>4, <3>1 DEF Due, UnitOf
  <2> QED  BY <1>1, <1>9, <2>2, <2>3, <2>4 DEF PicturesDue
<1> QED  BY <1>13, <1>14, <1>15 DEF Flow

\* A worker takes the first picture of the decoder's queue, or finds none.
LEMMA GetPictureKeepsPictures ==
  ASSUME IInv, Flow, NEW c \in Conns, GetPicture(c)
  PROVE  Flow'
<1>1. /\ worker \in [Conns -> WorkerStates] /\ worker[c] = "taking"
      /\ pic \in [Conns -> Pictures \cup {NoPicture}]
      /\ UNCHANGED <<unit, shown, failed, yuv>>
  BY DEF GetPicture, Doing, IInv, TypeOK
<1>2. \A f : InTime(f) <=> InTime(f)'
  BY <1>1 DEF InTime
<1>3. CASE outQ = <<>>
  <2>1. worker' = [worker EXCEPT ![c] = "idle"] /\ outQ' = outQ /\ pic' = pic
    BY <1>3 DEF GetPicture, Turn
  <2>2. \A d \in Conns : d # c => worker'[d] = worker[d]
    BY <1>1, <2>1
  <2>3. worker'[c] = "idle"
    BY <1>1, <2>1
  <2>4. /\ \A d \in Conns : Sent(d)' = Sent(d) /\ Popped(d)' = Popped(d)
        /\ \A d \in Conns : d # c => (Delivering(d)' <=> Delivering(d))
        /\ Writing' = Writing /\ c \notin Writing
    BY <1>1, <2>2, <2>3 DEF Sent, Popped, Delivering, Writing
  <2>5. \A p \in shown : p[1] \in Conns
    BY PictureType, PictureTypes
  <2>6. PicturesShown'
    BY <1>1, <2>1, <2>4, <2>5 DEF Flow, PicturesShown
  <2>7. PicturesOrdered'
    BY <1>1, <2>1, <2>4 DEF Flow, PicturesOrdered
  <2>8. PicturesDue'
    <3>1. \A j \in 1 .. Len(outQ') : FALSE
      BY <1>3, <2>1
    <3>2. ASSUME NEW w \in Writing, pic[w][1] = w PROVE Due(pic[w])'
      <4>1. w # c /\ w \in Conns /\ Due(pic[w])
        BY <2>4, <3>2 DEF Flow, PicturesDue, Writing
      <4> QED  BY <1>1, <2>1, <2>4, <3>2, <4>1 DEF Due
    <3> QED  BY <1>1, <1>2, <2>1, <2>4, <3>1, <3>2 DEF Flow, PicturesDue
  <2> QED  BY <2>6, <2>7, <2>8 DEF Flow
<1>4. CASE outQ # <<>>
  <2> DEFINE m == Len(outQ)
  <2>1. /\ worker' = [worker EXCEPT ![c] = "writing"] /\ outQ' = Tail(outQ)
        /\ pic' = [pic EXCEPT ![c] = Head(outQ)]
    BY <1>4 DEF GetPicture, Turn
  <2>2. \A d \in Conns : d # c => worker'[d] = worker[d] /\ pic'[d] = pic[d]
    BY <1>1, <2>1
  <2>3. worker'[c] = "writing" /\ pic'[c] = Head(outQ)
    BY <1>1, <2>1
  <2>4. /\ \A d \in Conns : Sent(d)' = Sent(d) /\ Popped(d)' = Popped(d)
        /\ \A d \in Conns : Delivering(d)' <=> Delivering(d)
        /\ Writing' = Writing \cup {c} /\ c \notin Writing
    BY <1>1, <2>2, <2>3 DEF Sent, Popped, Delivering, Writing
  <2>5. /\ m \in Nat /\ 1 \in 1 .. m /\ pic'[c] = outQ[1]
        /\ \A j \in 1 .. Len(outQ') : j + 1 \in 1 .. m /\ outQ'[j] = outQ[j + 1]
        /\ Len(outQ') = m - 1
    <3>1. outQ \in Seq(Pictures)
      BY PictureTypes
    <3> QED  BY <1>4, <2>1, <2>3, <3>1, TailElements
  <2>6. \A w \in Writing : pic'[w] = pic[w] /\ w \in Conns /\ w # c
    BY <2>2, <2>4 DEF Writing
  <2>7. /\ \A p \in shown : p[1] \in Conns
        /\ \A j \in 1 .. m : outQ[j][1] \in Conns
    BY PictureType, PictureTypes
  <2> HIDE DEF m
  <2>8. PicturesShown'
    <3>1. \A j \in 1 .. m : outQ[j] \in shown
      BY DEF Flow, PicturesShown, m
    <3>2. \A j \in 1 .. Len(outQ') : outQ'[j] \in shown
      BY <2>5, <3>1
    <3>3. \A w \in Writing' : pic'[w] \in shown
      BY <2>4, <2>5, <2>6, <3>1 DEF Flow, PicturesShown
    <3> QED  BY <1>1, <2>4, <2>7, <3>2, <3>3 DEF Flow, PicturesShown
  <2>9. PicturesOrdered'
    <3>1. /\ \A i, j \in 1 .. m : i < j => Before(outQ[i], outQ[j])
          /\ \A w \in Writing, j \in 1 .. m : Before(pic[w], outQ[j])
          /\ \A i \in 1 .. Len(yuv.frames), j \in 1 .. m : Before(yuv.frames[i].pic, outQ[j])
      BY DEF Flow, PicturesOrdered, m
    <3>2. ASSUME NEW j \in 1 .. Len(outQ')
          PROVE  /\ j + 1 \in 1 .. m /\ outQ'[j] = outQ[j + 1] /\ 1 < j + 1
                 /\ \A i \in 1 .. Len(outQ') : i < j => i + 1 < j + 1
      BY <2>5
    <3>3. \A i, j \in 1 .. Len(outQ') : i < j => Before(outQ'[i], outQ'[j])
      BY <3>1, <3>2
    <3>4. \A w \in Writing', j \in 1 .. Len(outQ') : Before(pic'[w], outQ'[j])
      BY <2>4, <2>5, <2>6, <3>1, <3>2
    <3>5. \A i \in 1 .. Len(yuv.frames), j \in 1 .. Len(outQ') : Before(yuv.frames[i].pic, outQ'[j])
      BY <3>1, <3>2
    <3>6. \A i \in 1 .. Len(yuv.frames), w \in Writing' :
            /\ yuv.frames[i].pic # pic'[w]
            /\ yuv.frames[i].pts[1] = w => Before(yuv.frames[i].pic, pic'[w])
      <4>1. \A i \in 1 .. Len(yuv.frames) : Before(yuv.frames[i].pic, pic'[c])
        BY <2>5, <3>1
      <4>2. \A i \in 1 .. Len(yuv.frames) : yuv.frames[i].pic # pic'[c]
        BY <4>1 DEF Before
      <4> QED  BY <2>4, <2>6, <4>1, <4>2 DEF Flow, PicturesOrdered
    <3>7. \A v, w \in Writing' : v # w => pic'[v] # pic'[w]
      <4>1. \A w \in Writing : pic[w] # pic'[c]
        BY <2>5, <3>1 DEF Before
      <4> QED  BY <2>4, <2>6, <4>1 DEF Flow, PicturesOrdered
    <3>8. \A i, j \in 1 .. Len(yuv'.frames) : i < j => Follows(yuv'.frames[i], yuv'.frames[j])
      BY <1>1 DEF Flow, PicturesOrdered
    <3> QED  BY <1>1, <3>3, <3>4, <3>5, <3>6, <3>7, <3>8 DEF PicturesOrdered
  <2>10. PicturesDue'
    <3>1. \A j \in 1 .. m : Due(outQ[j])
      BY DEF Flow, PicturesDue, m
    <3>2. ASSUME NEW j \in 1 .. Len(outQ') PROVE Due(outQ[j])'
      <4>1. /\ outQ'[j] = outQ[j + 1] /\ Due(outQ[j + 1]) /\ outQ[j + 1][1] \in Conns
        BY <2>5, <2>7, <3>1
      <4> QED  BY <1>1, <2>4, <4>1 DEF Due
    <3>3. ASSUME NEW w \in Writing', pic'[w][1] = w PROVE Due(pic[w])'
      <4>1. CASE w = c
        <5>1. pic'[w] = outQ[1] /\ Due(outQ[1]) /\ outQ[1][1] \in Conns
          BY <2>5, <2>7, <3>1, <4>1
        <5> QED  BY <1>1, <2>4, <5>1 DEF Due
      <4>2. CASE w # c
        <5>1. pic'[w] = pic[w] /\ Due(pic[w]) /\ w \in Conns
          BY <2>4, <2>6, <3>3, <4>2 DEF Flow, PicturesDue
        <5> QED  BY <1>1, <2>4, <3>3, <5>1 DEF Due
      <4> QED  BY <4>1, <4>2
    <3> QED  BY <1>1, <1>2, <3>2, <3>3 DEF Flow, PicturesDue
  <2> QED  BY <2>8, <2>9, <2>10 DEF Flow
<1> QED  BY <1>3, <1>4

\* The picture in a worker's hand becomes the last frame of the file, which may
\* have been created anew, or, when the disk fails, is lost.
LEMMA WriteYuvKeepsPictures ==
  ASSUME IInv, Flow, NEW c \in Conns, QueueOrdered(c), WriteYuv(c)
  PROVE  Flow'
<1> DEFINE frames == yuv.frames
           base == IF yuv.open THEN frames ELSE <<>>
           n == Len(base)
<1>1. /\ worker \in [Conns -> WorkerStates] /\ worker[c] = "writing"
      /\ worker' = [worker EXCEPT ![c] = "taking"]
      /\ UNCHANGED <<unit, pic, outQ, shown, failed>>
  BY DEF WriteYuv, Doing, Turn, IInv, TypeOK
<1>2. unit[c] = <<c, Popped(c)>>
  BY <1>1, UnitTypes DEF QueueOrdered
<1>3. \A d \in Conns : d # c => worker'[d] = worker[d]
  BY <1>1
<1>4. worker'[c] = "taking"
  BY <1>1
<1>5. /\ \A d \in Conns : Sent(d)' = Sent(d) /\ Popped(d)' = Popped(d)
      /\ \A d \in Conns : Delivering(d)' <=> Delivering(d)
      /\ Writing' = Writing \ {c} /\ c \in Writing
  BY <1>1, <1>3, <1>4 DEF Sent, Popped, Delivering, Writing
<1>6. /\ n \in Nat /\ base \in Seq([pic : Pictures, pts : Units])
      /\ \A i \in 1 .. n : i \in 1 .. Len(frames) /\ base[i] = frames[i]
  <2>1. frames \in Seq([pic : Pictures, pts : Units])
    BY PictureTypes
  <2> HIDE DEF frames
  <2>2. CASE yuv.open
    BY <2>1, <2>2
  <2>3. CASE ~yuv.open
    BY <2>1, <2>3
  <2> QED  BY <2>2, <2>3
<1>7. yuv'.frames = Append(base, Stamped(c)) \/ yuv'.frames = base
  <2>1. \/ yuv' = [open |-> TRUE, frames |-> Append(base, Stamped(c))]
        \/ yuv' = [open |-> yuv.open, frames |-> base]
    BY DEF WriteYuv
  <2> HIDE DEF base
  <2> QED  BY <2>1
<1> HIDE DEF base
<1>8. \A i \in 1 .. Len(yuv'.frames) :
        \/ i \in 1 .. n /\ i \in 1 .. Len(frames) /\ yuv'.frames[i] = frames[i]
        \/ i = n + 1 /\ yuv'.frames[i] = Stamped(c)
  <2>1. /\ Len(Append(base, Stamped(c))) = n + 1 /\ Append(base, Stamped(c))[n + 1] = Stamped(c)
        /\ \A i \in 1 .. n : Append(base, Stamped(c))[i] = base[i]
    BY <1>6, AppendElements
  <2> HIDE DEF frames
  <2> QED  BY <1>6, <1>7, <2>1
<1>9. Stamped(c).pic = pic[c] /\ Stamped(c).pts = unit[c] /\ Stamped(c).pts[1] = c
  BY <1>2 DEF Stamped
<1> HIDE DEF n
<1>10. /\ \A p \in shown : p[1] \in Conns
       /\ \A j \in 1 .. Len(outQ) : outQ[j][1] \in Conns
       /\ \A w \in Writing : w \in Conns
  BY PictureType, PictureTypes DEF Writing
<1>11. PicturesShown'
  <2>1. \A i \in 1 .. Len(yuv'.frames) : yuv'.frames[i].pic \in shown
    BY <1>5, <1>8, <1>9 DEF Flow, PicturesShown
  <2> QED  BY <1>1, <1>5, <1>10, <2>1 DEF Flow, PicturesShown
<1>12. PicturesOrdered'
  <2>1. \A i \in 1 .. Len(yuv'.frames), j \in 1 .. Len(outQ) : Before(yuv'.frames[i].pic, outQ[j])
    BY <1>5, <1>8, <1>9 DEF Flow, PicturesOrdered
  <2>2. \A i \in 1 .. Len(yuv'.frames), w \in Writing' :
          /\ yuv'.frames[i].pic # pic[w]
          /\ yuv'.frames[i].pts[1] = w => Before(yuv'.frames[i].pic, pic[w])
    BY <1>5, <1>8, <1>9 DEF Flow, PicturesOrdered
  <2>3. ASSUME NEW i \in 1 .. Len(yuv'.frames), NEW j \in 1 .. Len(yuv'.frames), i < j
        PROVE  Follows(yuv'.frames[i], yuv'.frames[j])
    <3>1. i \in 1 .. n /\ i \in 1 .. Len(frames) /\ yuv'.frames[i] = frames[i]
      <4>1. i # n + 1
        BY <1>6, <1>8, <2>3 DEF n
      <4> QED  BY <1>8, <4>1
    <3>2. CASE j \in 1 .. n /\ j \in 1 .. Len(frames) /\ yuv'.frames[j] = frames[j]
      BY <2>3, <3>1, <3>2 DEF Flow, PicturesOrdered
    <3>3. CASE yuv'.frames[j] = Stamped(c)
      <4>1. /\ frames[i].pic # pic[c]
            /\ frames[i].pts[1] = c => Before(frames[i].pic, pic[c])
        BY <1>5, <3>1 DEF Flow, PicturesOrdered
      <4> QED  BY <1>9, <3>1, <3>3, <4>1 DEF Follows, Before
    <3> QED  BY <1>8, <3>2, <3>3
  <2> HIDE DEF frames
  <2> QED  BY <1>1, <1>5, <2>1, <2>2, <2>3 DEF Flow, PicturesOrdered
<1>13. PicturesDue'
  <2>1. ASSUME NEW i \in 1 .. Len(yuv'.frames) PROVE InTime(yuv.frames[i])'
    <3>1. CASE i \in 1 .. Len(frames) /\ yuv'.frames[i] = frames[i]
      BY <1>1, <3>1 DEF Flow, PicturesDue, InTime
    <3>2. CASE yuv'.frames[i] = Stamped(c)
      <4>1. pic[c][1] = c => Due(pic[c])
        BY <1>5 DEF Flow, PicturesDue
      <4>2. Delivering(c) /\ Popped(c) = unit[c][2]
        BY <1>1 DEF Delivering, Popped
      <4> QED  BY <1>1, <1>9, <3>2, <4>1, <4>2 DEF Due, InTime
    <3> QED  BY <1>8, <3>1, <3>2
  <2>2. ASSUME NEW j \in 1 .. Len(outQ) PROVE Due(outQ[j])'
    <3>1. Due(outQ[j])
      BY DEF Flow, PicturesDue
    <3> QED  BY <1>1, <1>5, <1>10, <3>1 DEF Due
  <2>3. ASSUME NEW w \in Writing', pic[w][1] = w PROVE Due(pic[w])'
    <3>1. w \in Conns /\ Due(pic[w])
      BY <1>5, <1>10, <2>3 DEF Flow, PicturesDue
    <3> QED  BY <1>1, <1>5, <2>3, <3>1 DEF Due
  <2> QED  BY <1>1, <2>1, <2>2, <2>3 DEF PicturesDue
<1> QED  BY <1>11, <1>12, <1>13 DEF Flow

\* Every step keeps the pictures in order and on time.
LEMMA NextKeepsPictures ==
  ASSUME IInv, Flow, \A c \in Conns : QueueOrdered(c), [Next]_vars
  PROVE  Flow'
<1>1. ASSUME NEW c \in Conns, Worker(c) PROVE Flow'
  BY <1>1, PopKeepsPictures, SendDataKeepsPictures, GetPictureKeepsPictures,
     WriteYuvKeepsPictures DEF Worker
<1>2. CASE ~ \E c \in Conns : Worker(c)
  BY <1>2, OthersMoveNoPicture, PicturesStay
<1> QED  BY <1>1, <1>2

-----------------------------------------------------------------------------
(* One track, and no disk fault: no picture gets lost. *)

\* The file of the only track is closed when its worker has ended.
LEMMA OthersLoseNoPicture ==
  ASSUME IInv, NEW c \in Conns, Conns = {c}, Accounted(c), [Next]_vars, ~Worker(c)
  PROVE  Accounted(c)'
<1>1. worker \in [Conns -> WorkerStates]
  BY DEF IInv, TypeOK
<1>2. /\ unit' = unit /\ pic' = pic /\ outQ' = outQ /\ shown' = shown /\ failed' = failed
      /\ yuv'.frames = yuv.frames /\ Still(c)
  BY OthersMoveNoPicture DEF PictureVars
<1>3. worker'[c] = "writing" <=> worker[c] = "writing"
  BY <1>2 DEF Still, Idle
<1>4. \/ yuv' = yuv
      \/ worker[c] \in {"none", "done"} /\ worker' = worker
  <2>1. CASE UNCHANGED yuv
    BY <2>1
  <2>2. CASE MainCloseYuv
    BY <2>2 DEF MainCloseYuv, IInv, Finalizing, ReaderOutlivesWorker, workVars
  <2>3. CASE TrackCloseYuv(c)
    BY <2>3 DEF TrackCloseYuv, At, IInv, ReaderOutlivesWorker, workVars
  <2>4. ASSUME \/ Interrupt \/ SnapshotConnections \/ PeerConnectionsClosed \/ HttpShutdown
               \/ TracksFinished \/ MainCloseIvf \/ ClosePeerConnection(c)
               \/ CreatePeerConnection(c) \/ Handler(c) \/ ConnectionLost(c)
        PROVE  UNCHANGED yuv
    BY <2>4 DEF Interrupt, SnapshotConnections, PeerConnectionsClosed, HttpShutdown,
       TracksFinished, MainCloseIvf, ClosePeerConnection, CreatePeerConnection, Handler,
       RegisterCheck, RegisterAdd, ConnectionLost
  <2>5. ASSUME \/ TrackCheck(c) \/ RecordTemporalUnit(c) \/ ReadError(c) \/ TrackStarted(c)
               \/ QueueTemporalUnit(c) \/ CloseQueue(c) \/ Drained(c) \/ TrackCloseIvf(c)
               \/ TrackFinished(c) \/ UNCHANGED vars
        PROVE  UNCHANGED yuv
    BY <2>5 DEF TrackCheck, RecordTemporalUnit, ReadError, TrackStarted, QueueTemporalUnit,
       CloseQueue, Drained, TrackCloseIvf, TrackFinished, vars
  <2> QED  BY <2>1, <2>2, <2>3, <2>4, <2>5 DEF Next, Shutdown, Finish
<1>5. /\ worker'[c] = "none" => worker[c] = "none"
      /\ worker[c] = "done" => worker'[c] = "done"
  <2>1. CASE worker' = worker
    BY <2>1
  <2>2. CASE worker' = Woken(c)
    BY <1>1, <2>2 DEF Woken
  <2>3. CASE TrackStarted(c)
    <3>1. worker[c] = "none" /\ worker' = [worker EXCEPT ![c] = "idle"]
      BY <2>3 DEF TrackStarted, At, IInv, ReaderOutlivesWorker
    <3> QED  BY <1>1, <3>1
  <2>4. worker' = worker \/ worker' = Woken(c) \/ TrackStarted(c)
    <3>1. ASSUME TrackCheck(c) \/ RecordTemporalUnit(c) \/ ReadError(c)
          PROVE  UNCHANGED workVars
      BY <3>1 DEF TrackCheck, RecordTemporalUnit, ReadError
    <3>2. ASSUME Finish(c)
          PROVE  UNCHANGED workVars \/ worker' = Woken(c) \/ TrackStarted(c)
      BY <3>2 DEF Finish, TrackStarted, QueueTemporalUnit, Push, CloseQueue, Drained,
                  TrackCloseYuv, TrackCloseIvf, TrackFinished
    <3>3. UNCHANGED vars => UNCHANGED workVars
      BY DEF vars
    <3> QED  BY <3>1, <3>2, <3>3, ServerLeavesTracks DEF Next, workVars
  <2> QED  BY <2>1, <2>2, <2>3, <2>4
<1>6. ASSUME NEW p \in shown
      PROVE  \/ UnitOf(p) \in failed'
             \/ \E i \in 1 .. Len(yuv'.frames) : yuv'.frames[i].pic = p
             \/ \E j \in 1 .. Len(outQ') : outQ'[j] = p
             \/ worker'[c] = "writing" /\ pic'[c] = p
  BY <1>2, <1>3 DEF Accounted
<1>7. /\ worker'[c] = "none" => yuv'.frames = <<>>
      /\ worker'[c] \notin {"none", "done"} => yuv'.open \/ yuv'.frames = <<>>
  BY <1>2, <1>4, <1>5 DEF Accounted
<1> QED  BY <1>2, <1>6, <1>7 DEF Accounted

\* The worker hands every picture on.
LEMMA WorkerLosesNoPicture ==
  ASSUME IInv, NEW c \in Conns, Accounted(c), "yuv" \notin DiskFaults, Worker(c)
  PROVE  Accounted(c)'
<1> DEFINE frames == yuv.frames
           At_(p) == \/ UnitOf(p) \in failed'
                     \/ \E i \in 1 .. Len(yuv'.frames) : yuv'.frames[i].pic = p
                     \/ \E j \in 1 .. Len(outQ') : outQ'[j] = p
                     \/ worker'[c] = "writing" /\ pic'[c] = p
<1>1. /\ worker \in [Conns -> WorkerStates] /\ outQ \in Seq(Pictures)
      /\ unit \in [Conns -> Units \cup {NoUnit}]
      /\ pic \in [Conns -> Pictures \cup {NoPicture}]
  BY DEF IInv, TypeOK
<1>2. ASSUME NEW p \in shown
      PROVE  \/ UnitOf(p) \in failed
             \/ \E i \in 1 .. Len(frames) : frames[i].pic = p
             \/ \E j \in 1 .. Len(outQ) : outQ[j] = p
             \/ worker[c] = "writing" /\ pic[c] = p
  BY DEF Accounted
<1>3. worker[c] \notin {"none", "done"} /\ (yuv.open \/ frames = <<>>)
  BY DEF Accounted, Worker, Pop, SendData, GetPicture, WriteYuv, Doing
<1>4. CASE Pop(c)
  <2>1. /\ worker[c] = "idle" /\ worker'[c] \in {"sending", "waiting", "done"}
        /\ UNCHANGED <<pic, outQ, shown, failed, yuv>>
    BY <1>1, <1>4 DEF Pop, Doing, Turn
  <2>2. \A p \in shown' : At_(p)
    BY <1>2, <2>1
  <2> QED  BY <1>3, <2>1, <2>2 DEF Accounted
<1>5. CASE SendData(c)
  <2>1. PICK n \in 0 .. MaxShown, err \in BOOLEAN :
          LET new == [i \in 1 .. n |-> <<c, unit[c][2], i>>]
          IN  /\ outQ' = outQ \o new
              /\ shown' = shown \cup {new[i] : i \in 1 .. n}
              /\ failed' = IF err THEN failed \cup {unit[c]} ELSE failed
              /\ worker' = [worker EXCEPT ![c] = IF err THEN "idle" ELSE "taking"]
    BY <1>5 DEF SendData, Turn
  <2> DEFINE new == [i \in 1 .. n |-> <<c, unit[c][2], i>>]
  <2>2. /\ worker[c] = "sending" /\ worker'[c] \in {"idle", "taking"} /\ yuv' = yuv
        /\ failed \subseteq failed'
    BY <1>1, <1>5, <2>1 DEF SendData, Doing
  <2>3. n \in Nat /\ new \in Seq(Pictures) /\ Len(new) = n
    <3>1. n \in Nat /\ \A i \in 1 .. n : i \in 1 .. MaxShown
      BY RecorderAssumption
    <3>2. unit[c][2] \in 1 .. MaxTU
      BY <2>2 DEF IInv, UnitsInHand, Units
    <3>3. \A i \in 1 .. n : <<c, unit[c][2], i>> \in Pictures
      BY <3>1, <3>2 DEF Pictures
    <3> QED  BY <3>1, <3>3
  <2>4. outQ' = outQ \o new /\ shown' = shown \cup {new[i] : i \in 1 .. n}
    BY <2>1
  <2> HIDE DEF new
  <2>5. /\ \A j \in 1 .. Len(outQ) : j \in 1 .. Len(outQ') /\ outQ'[j] = outQ[j]
        /\ \A i \in 1 .. n : Len(outQ) + i \in 1 .. Len(outQ') /\ outQ'[Len(outQ) + i] = new[i]
    BY <1>1, <2>3, <2>4, ConcatElements
  <2>6. ASSUME NEW p \in shown' PROVE At_(p)
    <3>1. CASE p \in shown
      BY <1>2, <2>2, <2>5, <3>1
    <3>2. CASE \E i \in 1 .. n : p = new[i]
      BY <2>5, <3>2
    <3> QED  BY <2>4, <3>1, <3>2
  <2> QED  BY <1>3, <2>2, <2>6 DEF Accounted
<1>6. CASE GetPicture(c)
  <2>1. worker[c] = "taking" /\ UNCHANGED <<shown, failed, yuv>>
    BY <1>6 DEF GetPicture, Doing
  <2>2. CASE outQ = <<>>
    <3>1. worker'[c] = "idle" /\ outQ' = outQ
      BY <1>1, <1>6, <2>2 DEF GetPicture, Turn
    <3>2. \A p \in shown' : At_(p)
      BY <1>2, <2>1, <3>1
    <3> QED  BY <1>3, <2>1, <3>1, <3>2 DEF Accounted
  <2>3. CASE outQ # <<>>
    <3>1. worker'[c] = "writing" /\ outQ' = Tail(outQ) /\ pic'[c] = Head(outQ)
      BY <1>1, <1>6, <2>3 DEF GetPicture, Turn
    <3>2. /\ pic'[c] = outQ[1]
          /\ \A i \in 1 .. Len(outQ) : i # 1 => i - 1 \in 1 .. Len(outQ') /\ outQ'[i - 1] = outQ[i]
      BY <1>1, <2>3, <3>1, TailElements
    <3>3. ASSUME NEW p \in shown' PROVE At_(p)
      <4>1. CASE \E j \in 1 .. Len(outQ) : outQ[j] = p
        <5>1. PICK j \in 1 .. Len(outQ) : outQ[j] = p
          BY <4>1
        <5>2. CASE j = 1
          BY <3>1, <3>2, <5>1, <5>2
        <5>3. CASE j # 1
          BY <3>2, <5>1, <5>3
        <5> QED  BY <5>2, <5>3
      <4> QED  BY <1>2, <2>1, <4>1
    <3> QED  BY <1>3, <2>1, <3>1, <3>3 DEF Accounted
  <2> QED  BY <2>2, <2>3
<1>7. CASE WriteYuv(c)
  <2> DEFINE written == Append(frames, Stamped(c))
  <2>1. /\ worker[c] = "writing" /\ worker'[c] = "taking"
        /\ UNCHANGED <<pic, outQ, shown, failed>>
    BY <1>1, <1>7 DEF WriteYuv, Doing, Turn
  <2>2. yuv' = [open |-> TRUE, frames |-> written]
    BY <1>3, <1>7 DEF WriteYuv
  <2>3. yuv'.open /\ yuv'.frames = written
    <3> HIDE DEF written
    <3> QED  BY <2>2
  <2>4. /\ Len(frames) \in Nat /\ Len(written) = Len(frames) + 1
        /\ written[Len(frames) + 1] = Stamped(c)
        /\ \A i \in 1 .. Len(frames) : written[i] = frames[i]
    <3>1. frames \in Seq([pic : Pictures, pts : Units])
      BY PictureTypes
    <3> HIDE DEF frames
    <3> QED  BY <3>1, AppendElements
  <2> HIDE DEF frames, written
  <2>5. Stamped(c).pic = pic[c]
    BY DEF Stamped
  <2>6. ASSUME NEW p \in shown' PROVE At_(p)
    <3>1. CASE \E i \in 1 .. Len(frames) : frames[i].pic = p
      <4>1. PICK i \in 1 .. Len(frames) : frames[i].pic = p
        BY <3>1
      <4>2. i \in 1 .. Len(written) /\ written[i].pic = p
        BY <2>4, <4>1
      <4> QED  BY <2>3, <4>2
    <3>2. CASE pic[c] = p
      <4>1. Len(frames) + 1 \in 1 .. Len(written) /\ written[Len(frames) + 1].pic = p
        BY <2>4, <2>5, <3>2
      <4> QED  BY <2>3, <4>1
    <3> QED  BY <1>2, <2>1, <3>1, <3>2
  <2> QED  BY <2>1, <2>3, <2>6 DEF Accounted
<1> QED  BY <1>4, <1>5, <1>6, <1>7 DEF Worker

-----------------------------------------------------------------------------
(* The IVF file. *)

\* The records that were written whole have finitely many places.
LEMMA WholeFinite ==
  ASSUME TypeOK
  PROVE  /\ ivf.recs \in Seq(Units \cup {Torn}) /\ Len(ivf.recs) \in Nat
         /\ Whole \subseteq 1 .. Len(ivf.recs) /\ DOMAIN ivf.recs = 1 .. Len(ivf.recs)
         /\ IsFiniteSet(Whole) /\ Cardinality(Whole) \in Nat
         /\ \A i \in Whole : ivf.recs[i] \in Units
<1>1. ivf.recs \in Seq(Units \cup {Torn})
  BY DEF TypeOK, IvfFiles
<1>2. Len(ivf.recs) \in Nat /\ DOMAIN ivf.recs = 1 .. Len(ivf.recs)
  BY <1>1
<1>3. Whole \subseteq 1 .. Len(ivf.recs)
  BY <1>2 DEF Whole
<1>4. IsFiniteSet(1 .. Len(ivf.recs))
  BY <1>2, FS_Interval
<1>5. IsFiniteSet(Whole) /\ Cardinality(Whole) \in Nat
  BY <1>3, <1>4, FS_Subset, FS_CardinalityType
<1>6. \A i \in Whole : ivf.recs[i] \in Units
  BY <1>1, <1>2 DEF Whole
<1> QED  BY <1>1, <1>2, <1>3, <1>5, <1>6

\* A closed file keeps its records, and its header counts them unless the
\* disk fails.
LEMMA CloseKeepsIvf ==
  ASSUME IInv, IvfKept, received' = received, ivf' \in IvfCloses
  PROVE  IvfKept'
<1>1. ivf'.recs = ivf.recs /\ ~ivf'.open
  BY IvfClosesType DEF IInv
<1>2. Whole' = Whole
  BY <1>1 DEF Whole
<1>3. /\ ivf'.written = 0
      /\ ivf'.count = Cardinality(Whole) \/ ("ivf" \in DiskFaults /\ ivf'.count = 0)
  <2>1. CASE ~ivf.open
    <3>1. ivf' = ivf
      BY <2>1 DEF IvfCloses
    <3> QED  BY <2>1, <3>1 DEF IvfKept
  <2>2. CASE ivf.open
    <3>1. \E k \in {ivf.written} \cup (IF "ivf" \in DiskFaults THEN {0} ELSE {}) :
            ivf' = [ivf EXCEPT !.open = FALSE, !.written = 0, !.count = k]
      BY <2>2 DEF IvfCloses
    <3>2. ivf'.written = 0 /\ (ivf'.count = ivf.written \/ ("ivf" \in DiskFaults /\ ivf'.count = 0))
      <4>1. ivf \in IvfFiles
        BY DEF IInv, TypeOK
      <4> QED  BY <3>1, <4>1 DEF IvfFiles
    <3>3. ivf.written = Cardinality(Whole)
      BY <2>2 DEF IvfKept
    <3> QED  BY <3>2, <3>3
  <2> QED  BY <2>1, <2>2
<1> QED  BY <1>1, <1>2, <1>3 DEF IvfKept

\* The unit that is recorded.
LEMMA NextUnit ==
  ASSUME TypeOK, NEW c \in Conns, RecordTemporalUnit(c)
  PROVE  <<c, received[c] + 1>> \in Units
BY RecorderAssumption DEF TypeOK, RecordTemporalUnit, Units

\* What a write may leave of the file.
LEMMA IvfWriteCases ==
  ASSUME TypeOK, NEW tu \in Units, ivf' \in IvfWrites(tu)
  PROVE  LET recs == IF ivf.open THEN ivf.recs ELSE <<>>
         IN  \/ /\ ivf'.open /\ ivf'.recs = Append(recs, tu) /\ ivf'.written = ivf.written + 1
                /\ ivf'.lost = ivf.lost
             \/ /\ "ivf" \in DiskFaults /\ ivf'.lost = ivf.lost \cup {tu}
                /\ \/ /\ ivf'.open /\ ivf'.recs = Append(recs, Torn)
                      /\ ivf'.written = ivf.written
                   \/ /\ ivf'.open = ivf.open /\ ivf'.recs = recs
                      /\ ivf'.written = ivf.written /\ ivf'.count = 0
                   \/ /\ ivf'.open = ivf.open /\ ivf'.recs = ivf.recs
                      /\ ivf'.written = ivf.written /\ ivf'.count = ivf.count
<1> DEFINE recs == IF ivf.open THEN ivf.recs ELSE <<>>
           n == ivf.written
           lost == ivf.lost \cup {tu}
<1>1. \/ ivf' = [open |-> TRUE, recs |-> Append(recs, tu), written |-> n + 1, count |-> 0,
                lost |-> ivf.lost]
      \/ /\ "ivf" \in DiskFaults
         /\ \/ ivf' = [open |-> TRUE, recs |-> Append(recs, Torn), written |-> n, count |-> 0,
                       lost |-> lost]
            \/ ivf' = [open |-> ivf.open, recs |-> recs, written |-> n, count |-> 0, lost |-> lost]
            \/ ivf' = [ivf EXCEPT !.lost = lost]
  BY DEF IvfWrites
<1>2. ivf \in IvfFiles
  BY DEF TypeOK
<1> HIDE DEF recs, lost
<1>3. CASE ivf' = [ivf EXCEPT !.lost = lost]
  <2>1. /\ ivf'.open = ivf.open /\ ivf'.recs = ivf.recs /\ ivf'.written = ivf.written
        /\ ivf'.count = ivf.count /\ ivf'.lost = lost
    BY <1>2, <1>3 DEF IvfFiles
  <2>2. ivf' # [open |-> TRUE, recs |-> Append(recs, tu), written |-> n + 1, count |-> 0,
                lost |-> ivf.lost] => "ivf" \in DiskFaults
    BY <1>1
  <2> QED  BY <1>1, <2>1, <2>2 DEF recs, lost
<1>4. CASE ivf' # [ivf EXCEPT !.lost = lost]
  BY <1>1, <1>4 DEF recs, lost
<1> QED  BY <1>3, <1>4

\* A record is written whole, torn or not at all, to the file there was or to
\* a new one.
LEMMA RecordKeepsIvf ==
  ASSUME IInv, IvfKept, NEW c \in Conns, RecordTemporalUnit(c)
  PROVE  IvfKept'
<1> DEFINE k  == received[c]
           tu == <<c, k + 1>>
           recs == IF ivf.open THEN ivf.recs ELSE <<>>
           Kept == {i \in 1 .. Len(recs) : recs[i] # Torn}
<1>1. /\ received \in [Conns -> 0 .. MaxTU] /\ received' = [received EXCEPT ![c] = k + 1]
      /\ k \in Nat /\ ivf' \in IvfWrites(tu)
  <2>1. received \in [Conns -> 0 .. MaxTU] /\ MaxTU \in Nat
    BY RecorderAssumption DEF IInv, TypeOK
  <2> QED  BY <2>1 DEF RecordTemporalUnit
<1>2. \A d \in Conns : received[d] \in Nat /\ received[d] <= received'[d]
  BY <1>1, RecorderAssumption
<1>3. /\ Len(ivf.recs) \in Nat /\ ivf.recs \in Seq(Units \cup {Torn})
      /\ Whole \subseteq 1 .. Len(ivf.recs) /\ DOMAIN ivf.recs = 1 .. Len(ivf.recs)
      /\ \A i \in Whole : ivf.recs[i] \in Units
  BY WholeFinite DEF IInv
<1>4. /\ recs \in Seq(Units \cup {Torn}) /\ Len(recs) \in Nat
      /\ Kept \subseteq Whole /\ \A i \in Kept : recs[i] = ivf.recs[i]
  <2>1. CASE ivf.open
    BY <1>3, <2>1 DEF Whole
  <2>2. CASE ~ivf.open
    <3>1. recs = <<>> /\ Kept = {}
      BY <2>2
    <3> HIDE DEF recs, Kept
    <3>2. recs \in Seq(Units \cup {Torn}) /\ Len(recs) \in Nat
      BY <3>1
    <3>3. Kept \subseteq Whole /\ \A i \in Kept : recs[i] = ivf.recs[i]
      BY <3>1
    <3> QED  BY <3>2, <3>3
  <2> QED  BY <2>1, <2>2
<1>5. /\ IsFiniteSet(Kept) /\ ivf.written = Cardinality(Kept)
      /\ Cardinality(Kept) \in Nat
  <2>1. CASE ivf.open
    <3>1. Kept = Whole
      BY <1>3, <2>1 DEF Whole
    <3> QED  BY <2>1, <3>1, WholeFinite DEF IvfKept, IInv
  <2>2. CASE ~ivf.open
    <3>1. Kept = {}
      BY <2>2
    <3> QED  BY <2>2, <3>1, FS_EmptySet DEF IvfKept
  <2> QED  BY <2>1, <2>2
<1>6. tu # Torn /\ tu[1] = c /\ tu[2] = k + 1
  BY <1>1 DEF Torn
<1>7. ASSUME NEW d \in Units, d[2] <= received[d[1]]
      PROVE  d[2] <= received'[d[1]] /\ (d[1] = c => d[2] < k + 1) /\ d[2] \in Nat
  <2>1. d[1] \in Conns /\ d[2] \in Nat
    BY RecorderAssumption DEF Units
  <2>2. d[2] <= received'[d[1]]
    BY <1>1, <1>2, <1>7, <2>1
  <2>3. d[1] = c => d[2] < k + 1
    BY <1>1, <1>7, <2>1
  <2> QED  BY <2>1, <2>2, <2>3
<1> DEFINE n == ivf.written
<1>8. \/ /\ ivf'.open /\ ivf'.recs = Append(recs, tu) /\ ivf'.written = n + 1
      \/ /\ "ivf" \in DiskFaults
         /\ \/ ivf'.open /\ ivf'.recs = Append(recs, Torn) /\ ivf'.written = n
            \/ ivf'.open = ivf.open /\ ivf'.recs = recs /\ ivf'.written = n /\ ivf'.count = 0
            \/ /\ ivf'.open = ivf.open /\ ivf'.recs = ivf.recs
               /\ ivf'.written = ivf.written /\ ivf'.count = ivf.count
  <2>1. tu \in Units
    BY NextUnit DEF IInv
  <2> QED  BY <1>1, <2>1, IvfWriteCases DEF IInv
<1> HIDE DEF recs, n, tu
<1>9. /\ Len(Append(recs, tu)) = Len(recs) + 1 /\ Append(recs, tu)[Len(recs) + 1] = tu
      /\ \A i \in 1 .. Len(recs) : Append(recs, tu)[i] = recs[i]
      /\ Len(Append(recs, Torn)) = Len(recs) + 1 /\ Append(recs, Torn)[Len(recs) + 1] = Torn
      /\ \A i \in 1 .. Len(recs) : Append(recs, Torn)[i] = recs[i]
  BY <1>4, AppendElements
<1>10. ASSUME NEW d \in Conns PROVE received'[d] \in Nat
  BY <1>1, RecorderAssumption, <1>10
<1>11. \A i \in Kept : ivf.recs[i] \in Units /\ ivf.recs[i][2] <= received[ivf.recs[i][1]]
  BY <1>3, <1>4 DEF IvfKept
<1>12. \A i \in Kept : recs[i][2] <= received'[recs[i][1]] /\ (recs[i][1] = c => recs[i][2] < k + 1)
  BY <1>4, <1>7, <1>11
<1>13. \A i, j \in Kept : i < j /\ recs[i][1] = recs[j][1] => recs[i][2] < recs[j][2]
  BY <1>4 DEF IvfKept
<1>14. Kept \subseteq 1 .. Len(recs)
  OBVIOUS
<1>15. received'[c] = k + 1
  BY <1>1
<1> HIDE DEF k
<1>16. CASE ivf'.open /\ ivf'.recs = Append(recs, tu) /\ ivf'.written = n + 1
  <2>1. ivf'.open /\ ivf'.recs = Append(recs, tu) /\ ivf'.written = n + 1
    BY <1>16
  <2>2. DOMAIN ivf'.recs = 1 .. Len(recs) + 1
    BY <1>4, <1>9, <2>1
  <2>3. Whole' = Kept \cup {Len(recs) + 1}
    <3>1. \A i \in 1 .. Len(recs) + 1 : i \in 1 .. Len(recs) \/ i = Len(recs) + 1
      BY <1>4
    <3>2. \A i \in 1 .. Len(recs) : i \in 1 .. Len(recs) + 1
      BY <1>4
    <3>3. Len(recs) + 1 \in 1 .. Len(recs) + 1
      BY <1>4
    <3> QED  BY <1>6, <1>9, <2>1, <2>2, <3>1, <3>2, <3>3 DEF Whole
  <2>4. Len(recs) + 1 \notin Kept
    BY <1>4
  <2>5. Cardinality(Whole') = n + 1
    BY <1>5, <2>3, <2>4, FS_AddElement DEF n
  <2>6. \A i \in Kept : ivf'.recs[i] = recs[i] /\ ivf'.recs[Len(recs) + 1] = tu
    BY <1>9, <2>1
  <2>7. ivf'.recs[Len(recs) + 1] = tu
    BY <1>9, <2>1
  <2> HIDE DEF Kept
  <2>8. \A i \in Whole' : ivf'.recs[i][2] <= received'[ivf'.recs[i][1]]
    <3>1. tu[2] <= received'[tu[1]]
      BY <1>6, <1>10, <1>15
    <3> QED  BY <1>12, <2>3, <2>6, <2>7, <3>1
  <2>9. ASSUME NEW i \in Whole', NEW j \in Whole', i < j, ivf'.recs[i][1] = ivf'.recs[j][1]
        PROVE  ivf'.recs[i][2] < ivf'.recs[j][2]
    <3>1. CASE i \in Kept /\ j \in Kept
      BY <1>13, <2>6, <2>9, <3>1
    <3>2. CASE i \in Kept /\ j = Len(recs) + 1
      BY <1>6, <1>12, <2>6, <2>7, <2>9, <3>2
    <3>3. CASE i = Len(recs) + 1
      <4>1. j \in 1 .. Len(recs) \/ j = Len(recs) + 1
        BY <1>14, <2>3
      <4> QED  BY <1>4, <2>9, <3>3, <4>1
    <3> QED  BY <2>3, <3>1, <3>2, <3>3
  <2> QED  BY <2>1, <2>5, <2>8, <2>9 DEF IvfKept
<1>17. ASSUME ivf'.recs = recs \/ ivf'.recs = Append(recs, Torn)
       PROVE  /\ Whole' = Kept
              /\ \A i \in Whole' : ivf'.recs[i][2] <= received'[ivf'.recs[i][1]]
              /\ \A i, j \in Whole' : i < j /\ ivf'.recs[i][1] = ivf'.recs[j][1]
                                        => ivf'.recs[i][2] < ivf'.recs[j][2]
  <2>1. Whole' = Kept /\ \A i \in Kept : ivf'.recs[i] = recs[i]
    <3>1. CASE ivf'.recs = recs
      <4>1. DOMAIN recs = 1 .. Len(recs)
        BY <1>4
      <4> QED  BY <3>1, <4>1 DEF Whole
    <3>2. CASE ivf'.recs = Append(recs, Torn)
      <4>1. DOMAIN ivf'.recs = 1 .. Len(recs) + 1
        BY <1>4, <1>9, <3>2
      <4>2. \A i \in 1 .. Len(recs) + 1 : i \in 1 .. Len(recs) \/ i = Len(recs) + 1
        BY <1>4
      <4>3. \A i \in 1 .. Len(recs) : i \in 1 .. Len(recs) + 1
        BY <1>4
      <4> QED  BY <1>9, <3>2, <4>1, <4>2, <4>3 DEF Whole
    <3> QED  BY <1>17, <3>1, <3>2
  <2> HIDE DEF Kept
  <2> QED  BY <1>12, <1>13, <2>1
<1>18. CASE ivf'.open /\ ivf'.recs = Append(recs, Torn) /\ ivf'.written = n
  <2> HIDE DEF Kept
  <2> QED  BY <1>5, <1>17, <1>18 DEF IvfKept, n
<1>19. CASE /\ "ivf" \in DiskFaults /\ ivf'.open = ivf.open /\ ivf'.recs = recs
            /\ ivf'.written = n /\ ivf'.count = 0
  <2>1. ~ivf.open => n = 0
    BY DEF IvfKept, n
  <2> HIDE DEF Kept
  <2> QED  BY <1>5, <1>17, <1>19, <2>1 DEF IvfKept, n
<1>20. CASE /\ ivf'.open = ivf.open /\ ivf'.recs = ivf.recs
            /\ ivf'.written = ivf.written /\ ivf'.count = ivf.count
  <2>1. Whole' = Whole
    BY <1>20 DEF Whole
  <2>2. \A i \in Whole : ivf.recs[i][2] <= received'[ivf.recs[i][1]]
    BY <1>3, <1>7 DEF IvfKept
  <2> QED  BY <1>20, <2>1, <2>2 DEF IvfKept
<1> QED  BY <1>8, <1>16, <1>18, <1>19, <1>20

\* The other steps write no record; who closes the file finishes.
LEMMA OthersWriteNoRecord ==
  ASSUME IInv, [Next]_vars, ~ \E c \in Conns : RecordTemporalUnit(c)
  PROVE  /\ received' = received /\ (main = "done" => main' = "done")
         /\ \A c \in Conns : track[c] \in {"finishing", "ended"} => track'[c] \in {"finishing", "ended"}
         /\ \/ ivf' = ivf
            \/ /\ ivf' \in IvfCloses
               /\ main' = "done" \/ \E c \in Conns : track'[c] = "finishing"
<1>1. track \in [Conns -> TrackStates]
  BY DEF IInv, TypeOK
<1>2. CASE \/ Interrupt \/ Shutdown
           \/ \E c \in Conns : CreatePeerConnection(c) \/ Handler(c) \/ ConnectionLost(c)
  <2>1. UNCHANGED <<track, received>>
    BY <1>2, ServerLeavesTracks DEF trackVars
  <2>2. CASE MainCloseIvf
    BY <2>1, <2>2 DEF MainCloseIvf, Goto
  <2>3. CASE Interrupt \/ SnapshotConnections \/ PeerConnectionsClosed \/ HttpShutdown
             \/ TracksFinished \/ MainCloseYuv
    BY <2>1, <2>3 DEF Interrupt, SnapshotConnections, PeerConnectionsClosed, HttpShutdown,
                      TracksFinished, MainCloseYuv, Goto
  <2>4. ASSUME NEW c \in Conns, \/ ClosePeerConnection(c) \/ CreatePeerConnection(c)
                                \/ Handler(c) \/ ConnectionLost(c)
        PROVE  UNCHANGED <<main, ivf>>
    BY <2>4 DEF ClosePeerConnection, CreatePeerConnection, Handler, RegisterCheck,
                RegisterAdd, ConnectionLost
  <2> QED  BY <1>2, <2>1, <2>2, <2>3, <2>4 DEF Shutdown
<1>3. ASSUME NEW c \in Conns, TrackCheck(c) \/ ReadError(c)
      PROVE  /\ UNCHANGED <<main, received, ivf>> /\ track[c] \notin {"finishing", "ended"}
             /\ \A d \in Conns : d # c => track'[d] = track[d]
  BY <1>1, <1>3 DEF TrackCheck, ReadError, At, Move, srvVars
<1>4. ASSUME NEW c \in Conns, \/ TrackStarted(c) \/ QueueTemporalUnit(c) \/ CloseQueue(c)
                              \/ Drained(c) \/ TrackCloseYuv(c)
      PROVE  /\ UNCHANGED <<main, received, ivf>> /\ track[c] \notin {"finishing", "ended"}
             /\ \A d \in Conns : d # c => track'[d] = track[d]
  BY <1>1, <1>4 DEF TrackStarted, QueueTemporalUnit, CloseQueue, Drained, TrackCloseYuv,
                    At, Move, srvVars
<1>5. ASSUME NEW c \in Conns, TrackCloseIvf(c)
      PROVE  /\ UNCHANGED <<main, received>> /\ ivf' \in IvfCloses /\ track'[c] = "finishing"
             /\ \A d \in Conns : d # c => track'[d] = track[d]
  BY <1>1, <1>5 DEF TrackCloseIvf, At, Move, srvVars
<1>6. ASSUME NEW c \in Conns, TrackFinished(c)
      PROVE  /\ UNCHANGED <<main, received, ivf>> /\ track'[c] = "ended"
             /\ \A d \in Conns : d # c => track'[d] = track[d]
  BY <1>1, <1>6 DEF TrackFinished, At, Move, srvVars
<1>7. ASSUME NEW c \in Conns, Worker(c) PROVE UNCHANGED <<main, received, track, ivf>>
  BY <1>7 DEF Worker, Pop, SendData, GetPicture, WriteYuv, srvVars, trackVars
<1>8. CASE UNCHANGED vars
  BY <1>8 DEF vars, srvVars, trackVars
<1>9. ASSUME NEW c \in Conns, TrackCheck(c) \/ ReadError(c) \/ Finish(c)
      PROVE  /\ received' = received /\ main' = main
             /\ \A d \in Conns : track[d] \in {"finishing", "ended"}
                                   => track'[d] \in {"finishing", "ended"}
             /\ ivf' = ivf \/ (ivf' \in IvfCloses /\ track'[c] = "finishing")
  BY <1>3, <1>4, <1>5, <1>6, <1>9 DEF Finish
<1> QED  BY <1>2, <1>7, <1>8, <1>9 DEF Next

\* The records r there were, or none if the file was closed, and behind them the
\* unit tu, or a torn record for it, or nothing.
RecordBehind(r, tu) ==
  /\ r = ivf.recs \/ (~ivf.open /\ r = <<>>)
  /\ \A i \in 1 .. Len(r) : i \in DOMAIN ivf'.recs /\ ivf'.recs[i] = r[i]
  /\ \A i \in DOMAIN ivf'.recs : i \in 1 .. Len(r) \/ ivf'.recs[i] \in {tu, Torn}
  /\ tu \in ivf'.lost \/ \E i \in DOMAIN ivf'.recs : ivf'.recs[i] = tu
  /\ ivf.lost \subseteq ivf'.lost
  /\ ivf'.open \/ (~ivf.open /\ ivf'.recs = r)

\* That is what a write leaves.
LEMMA RecordFollows ==
  ASSUME IInv, NEW c \in Conns, RecordTemporalUnit(c)
  PROVE  \E r \in Seq(Units \cup {Torn}) : RecordBehind(r, <<c, received[c] + 1>>)
<1> DEFINE tu == <<c, received[c] + 1>>
           recs == IF ivf.open THEN ivf.recs ELSE <<>>
<1> SUFFICES \E r \in Seq(Units \cup {Torn}) : RecordBehind(r, tu)
  OBVIOUS
<1>1. tu \in Units /\ ivf' \in IvfWrites(tu) /\ ivf.open \in BOOLEAN
      /\ ivf.recs \in Seq(Units \cup {Torn})
  BY NextUnit DEF IInv, TypeOK, IvfFiles, RecordTemporalUnit
<1>2. \/ ivf'.open /\ ivf'.recs = Append(recs, tu) /\ ivf'.lost = ivf.lost
      \/ /\ ivf'.lost = ivf.lost \cup {tu}
         /\ \/ ivf'.open /\ ivf'.recs = Append(recs, Torn)
            \/ ivf'.open = ivf.open /\ ivf'.recs = recs
            \/ ivf'.open = ivf.open /\ ivf'.recs = ivf.recs
  BY <1>1, IvfWriteCases DEF IInv
<1>3. /\ recs \in Seq(Units \cup {Torn})
      /\ recs = ivf.recs \/ (~ivf.open /\ recs = <<>>)
      /\ ivf.open => recs = ivf.recs
  BY <1>1
<1> HIDE DEF recs, tu
<1>4. ASSUME NEW e \in {tu, Torn}, ivf'.open, ivf'.recs = Append(recs, e)
      PROVE  /\ \A i \in 1 .. Len(recs) : i \in DOMAIN ivf'.recs /\ ivf'.recs[i] = recs[i]
             /\ \A i \in DOMAIN ivf'.recs : i \in 1 .. Len(recs) \/ ivf'.recs[i] = e
             /\ \E i \in DOMAIN ivf'.recs : ivf'.recs[i] = e
  <2>1. /\ Len(recs) \in Nat /\ ivf'.recs[Len(recs) + 1] = e
        /\ \A i \in 1 .. Len(recs) : ivf'.recs[i] = recs[i]
    BY <1>3, <1>4, AppendElements
  <2>2. DOMAIN ivf'.recs = 1 .. Len(recs) + 1
    BY <1>1, <1>3, <1>4
  <2>3. /\ \A i \in 1 .. Len(recs) : i \in 1 .. Len(recs) + 1
        /\ \A i \in 1 .. Len(recs) + 1 : i \in 1 .. Len(recs) \/ i = Len(recs) + 1
        /\ Len(recs) + 1 \in 1 .. Len(recs) + 1
    BY <2>1
  <2> QED  BY <2>1, <2>2, <2>3
<1>5. ASSUME NEW s \in {recs, ivf.recs}, ivf'.recs = s
      PROVE  /\ \A i \in 1 .. Len(s) : i \in DOMAIN ivf'.recs /\ ivf'.recs[i] = s[i]
             /\ \A i \in DOMAIN ivf'.recs : i \in 1 .. Len(s)
  <2>1. s \in Seq(Units \cup {Torn})
    BY <1>1, <1>3
  <2> QED  BY <1>5, <2>1
<1>6. CASE ivf'.open /\ ivf'.recs = Append(recs, tu) /\ ivf'.lost = ivf.lost
  <2>1. RecordBehind(recs, tu)
    BY <1>3, <1>4, <1>6 DEF RecordBehind
  <2> QED  BY <1>3, <2>1
<1>7. CASE ivf'.lost = ivf.lost \cup {tu} /\ ivf'.open /\ ivf'.recs = Append(recs, Torn)
  <2>1. RecordBehind(recs, tu)
    BY <1>3, <1>4, <1>7 DEF RecordBehind
  <2> QED  BY <1>3, <2>1
<1>8. CASE ivf'.lost = ivf.lost \cup {tu} /\ ivf'.open = ivf.open /\ ivf'.recs = recs
  <2>1. RecordBehind(recs, tu)
    BY <1>1, <1>3, <1>5, <1>8 DEF RecordBehind
  <2> QED  BY <1>3, <2>1
<1>9. CASE ivf'.lost = ivf.lost \cup {tu} /\ ivf'.open = ivf.open /\ ivf'.recs = ivf.recs
  <2>1. RecordBehind(ivf.recs, tu)
    BY <1>1, <1>5, <1>9 DEF RecordBehind
  <2> QED  BY <1>1, <2>1
<1> QED  BY <1>2, <1>6, <1>7, <1>8, <1>9

\* What is gone from the IVF file was in a file some other track had closed.
LEMMA RecordKeepsWhatIsThere ==
  ASSUME IInv, IvfLacks, NEW c \in Conns, RecordTemporalUnit(c)
  PROVE  IvfLacks'
<1> DEFINE k  == received[c]
           tu == <<c, k + 1>>
<1>1. /\ received \in [Conns -> 0 .. MaxTU] /\ received' = [received EXCEPT ![c] = k + 1]
      /\ k \in Nat
      /\ track \in [Conns -> TrackStates] /\ track[c] \in {"reading", "flushing"}
      /\ \A d \in Conns : d # c => track'[d] = track[d]
      /\ main # "done"
  <2>1. received \in [Conns -> 0 .. MaxTU] /\ MaxTU \in Nat /\ track \in [Conns -> TrackStates]
    BY RecorderAssumption DEF IInv, TypeOK
  <2> QED  BY <2>1 DEF RecordTemporalUnit, Move, Running
<1>2. PICK r \in Seq(Units \cup {Torn}) : RecordBehind(r, tu)
  BY RecordFollows
<1>3. /\ Whole \subseteq 1 .. Len(ivf.recs) /\ DOMAIN ivf.recs = 1 .. Len(ivf.recs)
  BY WholeFinite DEF IInv
<1> HIDE DEF tu
<1>4. ASSUME NEW u \in Gone'
      PROVE  /\ u \in Units /\ u[1] \in Conns /\ u[2] \in Nat /\ u[2] > 0
             /\ u[2] <= received[u[1]] /\ (u[1] = c => u[2] < k + 1)
             /\ u \notin ivf.lost /\ \A i \in 1 .. Len(r) : r[i] # u
  <2>1. /\ u \in Units /\ u[2] <= received'[u[1]] /\ u \notin ivf'.lost
        /\ \A i \in DOMAIN ivf'.recs : ivf'.recs[i] # u
    BY DEF Gone, Missing
  <2>2. u = <<u[1], u[2]>> /\ u[1] \in Conns /\ u[2] \in Nat /\ u[2] > 0
    BY <2>1, RecorderAssumption DEF Units
  <2>3. u # tu /\ u \notin ivf.lost /\ \A i \in 1 .. Len(r) : r[i] # u
    BY <1>2, <2>1 DEF RecordBehind
  <2>4. u[1] = c => u[2] # k + 1
    BY <2>2, <2>3 DEF tu
  <2>5. u[1] = c => received'[u[1]] = k + 1
    BY <1>1
  <2>6. u[1] # c => received'[u[1]] = received[u[1]]
    BY <1>1, <2>2
  <2>7. u[1] = c => u[2] < k + 1 /\ u[2] <= received[u[1]]
    BY <1>1, <2>1, <2>2, <2>4, <2>5
  <2> QED  BY <2>1, <2>2, <2>3, <2>6, <2>7
<1>5. r = ivf.recs => Gone' \subseteq Gone
  BY <1>3, <1>4 DEF Gone, Missing
<1>6. \A d \in Conns : received[d] > 0 => received'[d] > 0
  BY <1>1, RecorderAssumption
<1>7. received'[c] > 0
  BY <1>1
<1>8. Recreated => Recreated'
  BY <1>1, <1>6 DEF Recreated
<1>9. ASSUME NEW d \in Conns, track[d] \in {"finishing", "ended"}
      PROVE  Recreated' /\ track'[d] \in {"finishing", "ended"}
  <2>1. d # c
    BY <1>1, <1>9
  <2> QED  BY <1>1, <1>7, <1>9, <2>1 DEF Recreated
<1>10. NothingKept /\ ~ivf.open => r = ivf.recs /\ Gone' = {}
  BY <1>2, <1>5 DEF NothingKept, RecordBehind
<1>11. ASSUME Gone' # {} PROVE Recreated'
  <2>1. CASE r = ivf.recs
    BY <1>5, <1>8, <1>11, <2>1 DEF IvfLacks
  <2>2. CASE ~ivf.open
    BY <1>1, <1>9, <1>10, <1>11, <2>2 DEF IvfLacks
  <2> QED  BY <1>2, <2>1, <2>2 DEF RecordBehind
<1>12. (ivf.open \/ main = "done" \/ NothingKept
          \/ \E d \in Conns : track[d] \in {"finishing", "ended"})'
  <2>1. ASSUME ~ivf'.open, NothingKept PROVE NothingKept'
    BY <1>2, <1>10, <2>1 DEF NothingKept, RecordBehind
  <2> QED  BY <1>1, <1>2, <1>9, <2>1 DEF IvfLacks, RecordBehind
<1>13. ASSUME NEW u \in Gone', NEW i \in Whole', ivf'.recs[i][1] = u[1]
       PROVE  u[2] < ivf'.recs[i][2]
  <2>1. i \in DOMAIN ivf'.recs /\ ivf'.recs[i] # Torn
    BY DEF Whole
  <2>2. CASE i \in 1 .. Len(r)
    <3>1. ivf'.recs[i] = r[i]
      BY <1>2, <2>2 DEF RecordBehind
    <3>2. r = ivf.recs
      BY <1>2, <2>2 DEF RecordBehind
    <3>3. i \in Whole
      BY <1>3, <2>1, <2>2, <3>1, <3>2 DEF Whole
    <3> QED  BY <1>5, <1>13, <3>1, <3>2, <3>3 DEF IvfLacks
  <2>3. CASE ivf'.recs[i] = tu
    <3>1. tu[1] = c /\ tu[2] = k + 1
      BY DEF tu
    <3> QED  BY <1>4, <1>13, <2>3, <3>1
  <2> QED  BY <1>2, <2>1, <2>2, <2>3 DEF RecordBehind
<1> QED  BY <1>11, <1>12, <1>13 DEF IvfLacks

\* Every step keeps the IVF file.
LEMMA NextKeepsIvf ==
  ASSUME IInv, IvfKept, [Next]_vars
  PROVE  IvfKept' /\ (IvfLacks => IvfLacks')
<1>1. ASSUME NEW c \in Conns, RecordTemporalUnit(c)
      PROVE  IvfKept' /\ (IvfLacks => IvfLacks')
  BY <1>1, RecordKeepsIvf, RecordKeepsWhatIsThere
<1>2. CASE ~ \E c \in Conns : RecordTemporalUnit(c)
  <2>1. /\ received' = received /\ (main = "done" => main' = "done")
        /\ \A c \in Conns : track[c] \in {"finishing", "ended"} => track'[c] \in {"finishing", "ended"}
        /\ \/ ivf' = ivf
           \/ /\ ivf' \in IvfCloses
              /\ main' = "done" \/ \E c \in Conns : track'[c] = "finishing"
    BY <1>2, OthersWriteNoRecord
  <2>2. ivf'.recs = ivf.recs /\ ivf'.lost = ivf.lost
    BY <2>1, IvfClosesType DEF IInv
  <2>3. IvfKept'
    <3>1. CASE ivf' = ivf
      BY <2>1, <3>1 DEF IvfKept, Whole
    <3>2. CASE ivf' \in IvfCloses
      BY <2>1, <3>2, CloseKeepsIvf
    <3> QED  BY <2>1, <3>1, <3>2
  <2>4. Whole' = Whole /\ Gone' = Gone
    BY <2>1, <2>2 DEF Whole, Missing, Gone
  <2>5. ASSUME IvfLacks PROVE IvfLacks'
    <3>1. Recreated => Recreated'
      BY <2>1 DEF Recreated
    <3>2. NothingKept => NothingKept'
      BY <2>2, <2>4 DEF NothingKept
    <3>3. (ivf.open \/ main = "done" \/ NothingKept
             \/ \E c \in Conns : track[c] \in {"finishing", "ended"})'
      BY <2>1, <2>5, <3>2 DEF IvfLacks
    <3> QED  BY <2>2, <2>4, <2>5, <3>1, <3>3 DEF IvfLacks
  <2> QED  BY <2>3, <2>5
<1> QED  BY <1>1, <1>2

-----------------------------------------------------------------------------
(* The theorems. *)

OneTrack == \E c \in Conns : Conns = {c}
FileInv ==
  /\ \A c \in Conns : QueueOrdered(c)
  /\ Flow
  /\ IvfKept /\ IvfLacks
  /\ OneTrack /\ "yuv" \notin DiskFaults => \A c \in Conns : Accounted(c)

\* A step of the recorder keeps the way of the units.
LEMMA FilesInvariantKept ==
  ASSUME IInv, FileInv, [Next]_vars
  PROVE  FileInv'
<1>1. (\A c \in Conns : QueueOrdered(c))'
  BY NextKeepsQueues DEF FileInv
<1>2. Flow'
  BY NextKeepsPictures DEF FileInv
<1>3. (IvfKept /\ IvfLacks)'
  BY NextKeepsIvf DEF FileInv
<1>4. ASSUME OneTrack, "yuv" \notin DiskFaults, NEW c \in Conns PROVE Accounted(c)'
  <2>1. Conns = {c} /\ Accounted(c)
    BY <1>4 DEF FileInv, OneTrack
  <2> QED  BY <1>4, <2>1, OthersLoseNoPicture, WorkerLosesNoPicture
<1> QED  BY <1>1, <1>2, <1>3, <1>4 DEF FileInv, OneTrack

\* At the start there are no units.
LEMMA FilesInvariantStarts ==
  ASSUME Init
  PROVE  FileInv
<1>1. /\ \A c \in Conns : /\ track[c] = "none" /\ received[c] = 0 /\ worker[c] = "none"
                          /\ unit[c] = NoUnit /\ queue[c].items = <<>>
      /\ outQ = <<>> /\ yuv.frames = <<>> /\ shown = {}
      /\ ivf.recs = <<>> /\ ~ivf.open /\ ivf.count = 0 /\ ivf.written = 0
  BY DEF Init
<1>2. \A c \in Conns : Popped(c) = 0
  BY <1>1 DEF Popped, NoUnit
<1>3. \A c \in Conns : QueueOrdered(c) /\ Accounted(c)
  BY <1>1, <1>2 DEF QueueOrdered, Accounted
<1>4. Writing = {}
  BY <1>1 DEF Writing
<1>5. Flow
  BY <1>1, <1>4 DEF Flow, PicturesShown, PicturesOrdered, PicturesDue
<1>6. Whole = {}
  BY <1>1 DEF Whole
<1>7. Missing = {}
  <2>1. \A u \in Units : u[1] \in Conns /\ u[2] \in Nat /\ u[2] > 0
    BY RecorderAssumption DEF Units
  <2> QED  BY <1>1, <2>1 DEF Missing
<1>8. IvfKept
  BY <1>1, <1>6, FS_EmptySet DEF IvfKept
<1>9. IvfLacks
  BY <1>1, <1>6, <1>7 DEF IvfLacks, NothingKept, Gone
<1> QED  BY <1>3, <1>5, <1>8, <1>9 DEF FileInv

\* Every unit is queued once and in order, every picture is in one place, the
\* decoder's queue, a worker's hand or the file, and the IVF file lacks only
\* what the disk refused and what was thrown away with a file another track had
\* closed.
THEOREM UnitsFlow == Spec => [](IInv /\ FileInv)
<1>1. Init => FileInv
  BY FilesInvariantStarts
<1>2. IInv /\ FileInv /\ [Next]_vars => FileInv'
  BY FilesInvariantKept
<1> QED  BY <1>1, <1>2, RecorderInvariant, PTL DEF Spec

\* yuvWriter gets no picture twice, though workers share the decoder, and from
\* each worker the pictures of a track in the order of the bitstream.
THEOREM YuvStaysInOrder == Spec => []YuvInOrder
<1>1. IInv /\ FileInv => YuvInOrder
  <2> SUFFICES ASSUME IInv, FileInv PROVE YuvInOrder
    OBVIOUS
  <2>1. DOMAIN yuv.frames = 1 .. Len(yuv.frames)
    BY PictureTypes
  <2> QED  BY <2>1 DEF FileInv, Flow, PicturesOrdered, Follows, YuvInOrder
<1> QED  BY <1>1, UnitsFlow, PTL

\* decodeTemporalUnit stamps a picture of its own track with its unit's time,
\* or, after an error, with a later one's.
THEOREM YuvTimesRight == Spec => []YuvStamped
<1>1. IInv /\ FileInv => YuvStamped
  <2> SUFFICES ASSUME IInv, FileInv PROVE YuvStamped
    OBVIOUS
  <2>1. DOMAIN yuv.frames = 1 .. Len(yuv.frames)
    BY PictureTypes
  <2> QED  BY <2>1 DEF FileInv, Flow, PicturesDue, InTime, YuvStamped
<1> QED  BY <1>1, UnitsFlow, PTL

\* When the only track closes its outputs, its worker has decoded everything
\* that was queued and written every picture.
THEOREM YuvLosesNothing == OneTrack /\ "yuv" \notin DiskFaults => (Spec => []YuvComplete)
<1> SUFFICES ASSUME OneTrack, "yuv" \notin DiskFaults PROVE Spec => []YuvComplete
  OBVIOUS
<1>1. IInv /\ FileInv => YuvComplete
  <2> SUFFICES ASSUME IInv, FileInv, NEW p \in shown,
                      track[p[1]] \in {"closeIvf", "finishing", "ended"},
                      UnitOf(p) \notin failed
               PROVE  \E i \in DOMAIN yuv.frames : yuv.frames[i].pic = p
    BY DEF YuvComplete
  <2>1. PICK c \in Conns : Conns = {c} /\ p[1] = c
    BY PictureType, PictureTypes DEF OneTrack
  <2>2. worker[c] \in {"none", "done"}
    BY <2>1 DEF IInv, ReaderOutlivesWorker
  <2>3. \A j \in 1 .. Len(outQ) : UnitOf(outQ[j]) \in failed
    <3>1. ASSUME NEW j \in 1 .. Len(outQ) PROVE UnitOf(outQ[j]) \in failed
      <4>1. Due(outQ[j]) /\ outQ[j][1] = c
        BY <2>1, PictureType, PictureTypes DEF FileInv, Flow, PicturesDue
      <4> QED  BY <2>2, <4>1 DEF Due, Delivering
    <3> QED  BY <3>1
  <2>4. \E i \in 1 .. Len(yuv.frames) : yuv.frames[i].pic = p
    BY <2>1, <2>2, <2>3 DEF FileInv, Accounted
  <2>5. DOMAIN yuv.frames = 1 .. Len(yuv.frames)
    BY PictureTypes
  <2> QED  BY <2>4, <2>5
<1> QED  BY <1>1, UnitsFlow, PTL

\* recordTemporalUnit has written every unit of a file nobody created anew, in
\* order, but for those the disk refused, and a closed file says how many records
\* it holds, however often it was closed and whatever writes failed.
THEOREM IvfStaysComplete == Spec => []IvfComplete
<1>1. IInv /\ FileInv => IvfComplete
  <2> SUFFICES ASSUME IInv, FileInv PROVE IvfComplete
    OBVIOUS
  <2>1. \A i \in Whole : ivf.recs[i] \in Units
    BY WholeFinite DEF IInv
  <2>2. IvfKept /\ IvfLacks
    BY DEF FileInv
  <2> QED  BY <2>1, <2>2 DEF IvfKept, IvfLacks, IvfComplete
<1> QED  BY <1>1, UnitsFlow, PTL
=============================================================================
