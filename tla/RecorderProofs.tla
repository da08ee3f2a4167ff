---------------------------- MODULE RecorderProofs ----------------------------
(***************************************************************************)
(* Theorems about Recorder, for any number of connections and temporal     *)
(* units, with or without disk faults: the types, that every registered    *)
(* connection is closed on shutdown, and that main finalizes the outputs   *)
(* only when nobody uses them any more.                                    *)
(***************************************************************************)
EXTENDS Recorder, FiniteSetTheorems, TLAPS

-----------------------------------------------------------------------------
(* The inductive invariant. *)

\* Main is past serving exactly when it has set stopping.
Stopped == stopping <=> main # "serving"

\* Who is between the check and the update of a critical section holds its mutex.
RegisterLocks ==
  /\ \A c \in Conns : offer[c] = "registering" <=> connectionMu = c
  /\ \A c \in connections : offer[c] = "registered"
StartLocks == \A c \in Conns : track[c] = "starting" <=> trackMu = c

\* Once main has copied the map, the open connections are those it will close.
Closing ==
  /\ main \notin {"serving", "stopping"} => connectionMu = Nil
  /\ main = "closing" => connections \cap pcOpen \subseteq toClose
  /\ main \notin {"serving", "stopping", "closing"} => connections \cap pcOpen = {}

\* The counter main polls is the number of tracks.
Counted == activeTracks = Cardinality(Active)

\* What a worker and a reader have in hand is a temporal unit, or a picture.
UnitsInHand ==
  \A c \in Conns :
    /\ worker[c] \in {"sending", "taking", "writing"} => unit[c] \in Units
    /\ worker[c] = "writing" => pic[c] \in Pictures
    /\ track[c] \in {"queueing", "lastQueueing"} => received[c] > 0

\* A reader outlives its worker, and the worker what is queued.
ReaderOutlivesWorker ==
  \A c \in Conns :
    /\ worker[c] = "none" => track[c] \in {"none", "starting", "ended"}
    /\ worker[c] \in {"none", "done"} => queue[c].items = <<>>
    /\ worker[c] = "done" => queue[c].closed
    /\ queue[c].closed => track[c] \in {"draining", "closeYuv", "closeIvf",
                                        "finishing", "ended"}
    /\ track[c] \in {"none", "starting"} => worker[c] = "none"
    /\ track[c] \in {"closeYuv", "closeIvf", "finishing", "ended"} =>
         worker[c] \in {"none", "done"}

\* When main finalizes, tracks have ended or can no longer start.
Finalizing ==
  /\ main \in {"closeYuv", "closeIvf", "done"} =>
       \A c \in Conns : track[c] \in {"none", "ended"}
  /\ main \in {"closeIvf", "done"} => ~yuv.open
  /\ main = "done" => ~ivf.open

IInv == /\ TypeOK /\ Stopped /\ RegisterLocks /\ StartLocks /\ Closing /\ Counted
        /\ UnitsInHand /\ ReaderOutlivesWorker /\ Finalizing

-----------------------------------------------------------------------------
(* Types. *)

\* A queue with other items, or closed, is still a queue.
LEMMA QueueType ==
  ASSUME TypeOK, NEW c \in Conns
  PROVE  /\ queue[c].items \in Seq(Units)
         /\ \A s \in Seq(Units), b \in BOOLEAN :
              [queue EXCEPT ![c] = [items |-> s, closed |-> b]]
                \in [Conns -> [items : Seq(Units), closed : BOOLEAN]]
         /\ queue[c].closed \in BOOLEAN
BY DEF TypeOK

\* A record is written, torn or not written; the file keeps its type.
LEMMA IvfWritesType ==
  ASSUME TypeOK, NEW tu \in Units, NEW f \in IvfWrites(tu)
  PROVE  f \in IvfFiles
<1> DEFINE recs == IF ivf.open THEN ivf.recs ELSE <<>>
           n    == ivf.written
           lost == ivf.lost \cup {tu}
<1>1. /\ recs \in Seq(Units \cup {Torn}) /\ n \in Nat /\ ivf.open \in BOOLEAN
      /\ ivf.lost \in SUBSET Units /\ lost \in SUBSET Units /\ ivf \in IvfFiles
  BY DEF TypeOK, IvfFiles
<1>2. Append(recs, tu) \in Seq(Units \cup {Torn})
      /\ Append(recs, Torn) \in Seq(Units \cup {Torn})
  BY <1>1
<1>3. \/ f = [open |-> TRUE, recs |-> Append(recs, tu), written |-> n + 1, count |-> 0,
             lost |-> ivf.lost]
      \/ f = [open |-> TRUE, recs |-> Append(recs, Torn), written |-> n, count |-> 0, lost |-> lost]
      \/ f = [open |-> ivf.open, recs |-> recs, written |-> n, count |-> 0, lost |-> lost]
      \/ f = [ivf EXCEPT !.lost = lost]
  BY DEF IvfWrites
<1>4. n + 1 \in Nat /\ 0 \in Nat
  BY <1>1
<1> HIDE DEF recs, n, lost
<1>5. ASSUME NEW o \in BOOLEAN, NEW s \in Seq(Units \cup {Torn}), NEW k \in Nat,
             NEW l \in SUBSET Units
      PROVE  [open |-> o, recs |-> s, written |-> k, count |-> 0, lost |-> l] \in IvfFiles
  BY DEF IvfFiles
<1>6. [open |-> TRUE, recs |-> Append(recs, tu), written |-> n + 1, count |-> 0,
       lost |-> ivf.lost] \in IvfFiles
  BY <1>1, <1>2, <1>4, <1>5
<1>7. [open |-> TRUE, recs |-> Append(recs, Torn), written |-> n, count |-> 0, lost |-> lost]
        \in IvfFiles
  BY <1>1, <1>2, <1>5
<1>8. [open |-> ivf.open, recs |-> recs, written |-> n, count |-> 0, lost |-> lost] \in IvfFiles
  BY <1>1, <1>5
<1>9. [ivf EXCEPT !.lost = lost] \in IvfFiles
  BY <1>1 DEF IvfFiles
<1> QED  BY <1>3, <1>6, <1>7, <1>8, <1>9

\* A closed file keeps its records and its type.
LEMMA IvfClosesType ==
  ASSUME TypeOK, NEW f \in IvfCloses
  PROVE  /\ f \in IvfFiles
         /\ ~f.open /\ f.recs = ivf.recs /\ f.lost = ivf.lost
<1>1. ivf \in IvfFiles
  BY DEF TypeOK, IvfFiles
<1>2. ASSUME NEW k \in Nat
      PROVE  LET g == [ivf EXCEPT !.open = FALSE, !.written = 0, !.count = k]
             IN  g \in IvfFiles /\ ~g.open /\ g.recs = ivf.recs /\ g.lost = ivf.lost
  BY <1>1 DEF IvfFiles
<1>3. \/ f = ivf /\ ~ivf.open
      \/ \E k \in {ivf.written, 0} : f = [ivf EXCEPT !.open = FALSE, !.written = 0, !.count = k]
  BY DEF IvfCloses
<1>4. ivf.written \in Nat
  BY <1>1 DEF IvfFiles
<1>5. ASSUME NEW k \in {ivf.written, 0},
             f = [ivf EXCEPT !.open = FALSE, !.written = 0, !.count = k]
      PROVE  f \in IvfFiles /\ ~f.open /\ f.recs = ivf.recs /\ f.lost = ivf.lost
  <2>1. k \in Nat
    BY <1>4
  <2> QED  BY <1>2, <1>5, <2>1, Zenon
<1> QED  BY <1>1, <1>3, <1>5

\* The handlers and main.
LEMMA ServerTypes ==
  ASSUME TypeOK,
         \/ Interrupt \/ Shutdown
         \/ \E c \in Conns :
              CreatePeerConnection(c) \/ Handler(c) \/ ConnectionLost(c)
  PROVE  TypeOK'
<1>1. ASSUME NEW c \in Conns, CreatePeerConnection(c) PROVE TypeOK'
  BY <1>1 DEF TypeOK, CreatePeerConnection, OfferStates, trackVars, workVars
<1>2. ASSUME NEW c \in Conns, Handler(c) PROVE TypeOK'
  BY <1>2 DEF TypeOK, Handler, RegisterCheck, RegisterAdd, OfferStates,
              trackVars, workVars
<1>3. ASSUME NEW c \in Conns, ConnectionLost(c) PROVE TypeOK'
  BY <1>3 DEF TypeOK, ConnectionLost, Dropped, trackVars, workVars
<1>4. CASE Interrupt
  BY <1>4 DEF TypeOK, Interrupt, Goto, MainStates, trackVars, workVars
<1>5. CASE SnapshotConnections \/ PeerConnectionsClosed \/ HttpShutdown \/ TracksFinished
  BY <1>5 DEF TypeOK, SnapshotConnections, PeerConnectionsClosed, HttpShutdown,
              TracksFinished, Goto, MainStates, trackVars, workVars
<1>6. CASE \E d \in Conns : ClosePeerConnection(d)
  BY <1>6 DEF TypeOK, ClosePeerConnection, Dropped, trackVars, workVars
<1>7. CASE MainCloseYuv
  BY <1>7 DEF TypeOK, MainCloseYuv, ClosedYuv, Goto, MainStates, trackVars, workVars
<1>8. CASE MainCloseIvf
  BY <1>8, IvfClosesType DEF TypeOK, MainCloseIvf, Goto, MainStates, trackVars, workVars
<1> QED
  BY <1>1, <1>2, <1>3, <1>4, <1>5, <1>6, <1>7, <1>8 DEF Shutdown

\* A pass of the decode worker changes its own state, the queues and the files.
WorkTypes ==
  /\ queue \in [Conns -> [items : Seq(Units), closed : BOOLEAN]]
  /\ worker \in [Conns -> WorkerStates]
  /\ unit \in [Conns -> Units \cup {NoUnit}]
  /\ pic \in [Conns -> Pictures \cup {NoPicture}]
  /\ outQ \in Seq(Pictures)
  /\ shown \subseteq Pictures
  /\ failed \subseteq Units
  /\ yuv \in [open : BOOLEAN, frames : Seq([pic : Pictures, pts : Units])]

\* The worker.
LEMMA WorkerTypes ==
  ASSUME TypeOK, UnitsInHand, NEW c \in Conns, Worker(c)
  PROVE  TypeOK'
<1> USE DEF Doing, Turn
<1>1. WorkTypes /\ worker[c] \in WorkerStates
  BY DEF TypeOK, WorkTypes
<1>2. UNCHANGED <<srvVars, trackVars, ivf>>
  BY DEF Worker, Pop, SendData, GetPicture, WriteYuv
<1>3. ASSUME WorkTypes' PROVE TypeOK'
  BY <1>2, <1>3 DEF TypeOK, WorkTypes, srvVars, trackVars
<1>4. ASSUME NEW s \in WorkerStates PROVE [worker EXCEPT ![c] = s] \in [Conns -> WorkerStates]
  BY <1>1, <1>4 DEF WorkTypes
<1>5. ASSUME NEW u \in Units
      PROVE  [unit EXCEPT ![c] = u] \in [Conns -> Units \cup {NoUnit}]
  BY <1>1, <1>5 DEF WorkTypes
<1>6. CASE Pop(c)
  <2>1. worker' \in [Conns -> WorkerStates]
    BY <1>4, <1>6 DEF Pop, WorkerStates
  <2>2. CASE queue[c].items # <<>>
    <3>1. Head(queue[c].items) \in Units /\ Tail(queue[c].items) \in Seq(Units)
      BY <2>2, QueueType
    <3>2. queue' \in [Conns -> [items : Seq(Units), closed : BOOLEAN]]
      <4>1. queue' = [queue EXCEPT ![c] = [items  |-> Tail(queue[c].items),
                                           closed |-> queue[c].closed]]
        BY <1>6, <2>2, Zenon DEF Pop
      <4> QED  BY <3>1, <4>1, QueueType
    <3>3. unit' \in [Conns -> Units \cup {NoUnit}]
      BY <1>5, <1>6, <2>2, <3>1 DEF Pop
    <3>4. UNCHANGED <<pic, outQ, shown, failed, yuv>>
      BY <1>6 DEF Pop
    <3> QED  BY <1>1, <1>3, <2>1, <3>2, <3>3, <3>4 DEF WorkTypes
  <2>3. CASE queue[c].items = <<>>
    <3>1. UNCHANGED <<queue, unit, pic, outQ, shown, failed, yuv>>
      BY <1>6, <2>3 DEF Pop
    <3> QED  BY <1>1, <1>3, <2>1, <3>1 DEF WorkTypes
  <2> QED  BY <2>2, <2>3
<1>7. CASE SendData(c)
  <2>1. worker' \in [Conns -> WorkerStates]
    BY <1>4, <1>7 DEF SendData, WorkerStates
  <2>2. unit[c] \in Units
    BY <1>7 DEF SendData, UnitsInHand
  <2>3. outQ' \in Seq(Pictures) /\ shown' \subseteq Pictures /\ failed' \subseteq Units
    <3>1. PICK n \in 0 .. MaxShown, err \in BOOLEAN :
            LET new == [i \in 1 .. n |-> <<c, unit[c][2], i>>]
            IN  /\ outQ' = outQ \o new
                /\ shown' = shown \cup {new[i] : i \in 1 .. n}
                /\ failed' = IF err THEN failed \cup {unit[c]} ELSE failed
      BY <1>7 DEF SendData
    <3> DEFINE new == [i \in 1 .. n |-> <<c, unit[c][2], i>>]
    <3>2. unit[c][2] \in 1 .. MaxTU /\ n \in Nat /\ \A i \in 1 .. n : i \in 1 .. MaxShown
      BY <2>2, RecorderAssumption DEF Units
    <3>3. \A i \in 1 .. n : <<c, unit[c][2], i>> \in Pictures
      BY <3>2 DEF Pictures
    <3>4. new \in Seq(Pictures)
      BY <3>2, <3>3
    <3>5. \A i \in 1 .. n : new[i] \in Pictures
      BY <3>3
    <3> HIDE DEF new
    <3>6. outQ' \in Seq(Pictures)
      BY <1>1, <3>1, <3>4 DEF WorkTypes, new
    <3>7. shown' \subseteq Pictures
      BY <1>1, <3>1, <3>5 DEF WorkTypes, new
    <3>8. failed' \subseteq Units
      BY <1>1, <2>2, <3>1 DEF WorkTypes
    <3> QED  BY <3>6, <3>7, <3>8
  <2>4. UNCHANGED <<queue, unit, pic, yuv>>
    BY <1>7 DEF SendData
  <2> QED  BY <1>1, <1>3, <2>1, <2>3, <2>4 DEF WorkTypes
<1>8. CASE GetPicture(c)
  <2>1. worker' \in [Conns -> WorkerStates]
    BY <1>4, <1>8 DEF GetPicture, WorkerStates
  <2>2. outQ' \in Seq(Pictures) /\ pic' \in [Conns -> Pictures \cup {NoPicture}]
    <3>1. CASE outQ = <<>>
      BY <1>1, <1>8, <3>1 DEF GetPicture, WorkTypes
    <3>2. CASE outQ # <<>>
      <4>1. Head(outQ) \in Pictures /\ Tail(outQ) \in Seq(Pictures)
        BY <1>1, <3>2 DEF WorkTypes
      <4> QED  BY <1>1, <1>8, <3>2, <4>1 DEF GetPicture, WorkTypes
    <3> QED  BY <3>1, <3>2
  <2>3. UNCHANGED <<queue, unit, shown, failed, yuv>>
    BY <1>8 DEF GetPicture
  <2> QED  BY <1>1, <1>3, <2>1, <2>2, <2>3 DEF WorkTypes
<1>9. CASE WriteYuv(c)
  <2> DEFINE frames == IF yuv.open THEN yuv.frames ELSE <<>>
             Shot   == [pic : Pictures, pts : Units]
  <2>1. frames \in Seq(Shot) /\ yuv.open \in BOOLEAN
    BY <1>1 DEF WorkTypes
  <2>2. Stamped(c) \in Shot
    BY <1>9 DEF WriteYuv, Stamped, UnitsInHand
  <2>3. \/ yuv' = [open |-> TRUE, frames |-> Append(frames, Stamped(c))]
        \/ yuv' = [open |-> yuv.open, frames |-> frames]
    BY <1>9 DEF WriteYuv
  <2>4. worker' \in [Conns -> WorkerStates] /\ UNCHANGED <<queue, unit, pic, outQ, shown, failed>>
    BY <1>4, <1>9 DEF WriteYuv, WorkerStates
  <2>5. yuv' \in [open : BOOLEAN, frames : Seq(Shot)]
    <3> HIDE DEF frames, Shot
    <3>1. Append(frames, Stamped(c)) \in Seq(Shot)
      BY <2>1, <2>2
    <3>2. ASSUME NEW o \in BOOLEAN, NEW s \in Seq(Shot)
          PROVE  [open |-> o, frames |-> s] \in [open : BOOLEAN, frames : Seq(Shot)]
      OBVIOUS
    <3>3. CASE yuv' = [open |-> TRUE, frames |-> Append(frames, Stamped(c))]
      BY <3>1, <3>2, <3>3
    <3>4. CASE yuv' = [open |-> yuv.open, frames |-> frames]
      BY <2>1, <3>2, <3>4
    <3> QED  BY <2>3, <3>3, <3>4
  <2> QED  BY <1>1, <1>3, <2>4, <2>5 DEF WorkTypes
<1> QED  BY <1>6, <1>7, <1>8, <1>9 DEF Worker

\* The reader.
LEMMA ReaderTypes ==
  ASSUME TypeOK, UnitsInHand, Counted, NEW c \in Conns,
         TrackCheck(c) \/ RecordTemporalUnit(c) \/ ReadError(c) \/ Finish(c)
  PROVE  TypeOK'
<1> USE DEF TrackStates, srvVars, workVars, At, Move
<1>1. CASE TrackCheck(c)
  BY <1>1 DEF TypeOK, TrackCheck
<1>2. CASE RecordTemporalUnit(c)
  <2>1. <<c, received[c] + 1>> \in Units /\ received[c] + 1 \in 0 .. MaxTU
    BY <1>2, RecorderAssumption DEF RecordTemporalUnit, Units, TypeOK
  <2>2. ivf' \in IvfFiles
    BY <1>2, <2>1, IvfWritesType DEF RecordTemporalUnit
  <2> QED  BY <1>2, <2>1, <2>2 DEF TypeOK, RecordTemporalUnit
<1>3. CASE ReadError(c)
  BY <1>3 DEF TypeOK, ReadError
<1>4. CASE TrackStarted(c)
  BY <1>4 DEF TypeOK, TrackStarted, WorkerStates
<1>5. CASE QueueTemporalUnit(c)
  <2>1. <<c, received[c]>> \in Units
    BY <1>5 DEF QueueTemporalUnit, UnitsInHand, TypeOK, Units
  <2>2. queue' \in [Conns -> [items : Seq(Units), closed : BOOLEAN]]
    <3>1. Append(queue[c].items, <<c, received[c]>>) \in Seq(Units)
      BY <2>1, QueueType
    <3> QED  BY <1>5, <3>1, QueueType DEF QueueTemporalUnit, Push
  <2> QED  BY <1>5, <2>2 DEF TypeOK, QueueTemporalUnit, Push, Woken, WorkerStates
<1>6. CASE CloseQueue(c)
  <2>1. queue' \in [Conns -> [items : Seq(Units), closed : BOOLEAN]]
    BY <1>6, QueueType DEF CloseQueue
  <2> QED  BY <1>6, <2>1 DEF TypeOK, CloseQueue, Woken, WorkerStates
<1>7. CASE Drained(c)
  BY <1>7 DEF TypeOK, Drained
<1>8. CASE TrackCloseYuv(c)
  BY <1>8 DEF TypeOK, TrackCloseYuv, ClosedYuv
<1>9. CASE TrackCloseIvf(c)
  BY <1>9, IvfClosesType DEF TypeOK, TrackCloseIvf
<1>10. CASE TrackFinished(c)
  <2>1. c \in Active /\ IsFiniteSet(Active)
    BY <1>10, RecorderAssumption, FS_Subset DEF Active, TrackFinished
  <2>2. Cardinality(Active) - 1 \in Nat
    <3>1. IsFiniteSet(Active \ {c}) /\ Cardinality(Active \ {c}) = Cardinality(Active) - 1
      BY <2>1, FS_RemoveElement
    <3> QED  BY <3>1, FS_CardinalityType
  <2> QED  BY <1>10, <2>2 DEF TypeOK, TrackFinished, Counted
<1> QED
  BY <1>1, <1>2, <1>3, <1>4, <1>5, <1>6, <1>7, <1>8, <1>9, <1>10 DEF Finish

\* Every step keeps the types.
LEMMA NextTypes ==
  TypeOK /\ UnitsInHand /\ Counted /\ [Next]_vars => TypeOK'
<1> SUFFICES ASSUME TypeOK, UnitsInHand, Counted, [Next]_vars PROVE TypeOK'
  OBVIOUS
<1>1. CASE UNCHANGED vars
  BY <1>1 DEF TypeOK, vars, srvVars, trackVars, workVars
<1> QED
  BY <1>1, ServerTypes, ReaderTypes, WorkerTypes DEF Next
-----------------------------------------------------------------------------
(* Connections and main's shutdown. *)

ConnInv == Stopped /\ RegisterLocks /\ Closing
ServerVars == <<main, stopping, connections, connectionMu, offer, toClose, pcOpen>>

\* The handlers, with main anywhere.
LEMMA HandlersKeepConnections ==
  ASSUME TypeOK, ConnInv, NEW c \in Conns,
         CreatePeerConnection(c) \/ Handler(c) \/ ConnectionLost(c)
  PROVE  ConnInv'
<1> USE RecorderAssumption DEF ConnInv, Stopped, RegisterLocks, Closing
<1>1. CASE CreatePeerConnection(c)
  BY <1>1 DEF TypeOK, CreatePeerConnection
<1>2. CASE RegisterCheck(c)
  BY <1>2 DEF TypeOK, RegisterCheck
<1>3. CASE RegisterAdd(c)
  BY <1>3 DEF TypeOK, RegisterAdd
<1>4. CASE ConnectionLost(c)
  BY <1>4 DEF TypeOK, ConnectionLost, Dropped
<1> QED  BY <1>1, <1>2, <1>3, <1>4 DEF Handler

\* Main's own steps.
LEMMA MainKeepsConnections ==
  ASSUME TypeOK, ConnInv, Interrupt \/ Shutdown
  PROVE  ConnInv'
<1> USE RecorderAssumption DEF ConnInv, Stopped, RegisterLocks, Closing, Goto
<1>1. CASE Interrupt
  BY <1>1 DEF TypeOK, Interrupt
<1>2. CASE SnapshotConnections
  BY <1>2 DEF TypeOK, SnapshotConnections
<1>3. CASE PeerConnectionsClosed
  BY <1>3 DEF TypeOK, PeerConnectionsClosed
<1>4. CASE HttpShutdown \/ TracksFinished \/ MainCloseYuv \/ MainCloseIvf
  BY <1>4 DEF TypeOK, HttpShutdown, TracksFinished, MainCloseYuv, MainCloseIvf
<1>5. ASSUME NEW c \in Conns, ClosePeerConnection(c) PROVE ConnInv'
  BY <1>5 DEF TypeOK, ClosePeerConnection, Dropped
<1> QED  BY <1>1, <1>2, <1>3, <1>4, <1>5 DEF Shutdown

\* Readers and workers touch none of it, but a refused track closes its connection.
LEMMA NextConnections ==
  TypeOK /\ ConnInv /\ [Next]_vars => ConnInv'
<1> SUFFICES ASSUME TypeOK, ConnInv, [Next]_vars PROVE ConnInv'
  OBVIOUS
<1>1. CASE UNCHANGED ServerVars
  BY <1>1 DEF ConnInv, Stopped, RegisterLocks, Closing, ServerVars
<1>2. ASSUME NEW c \in Conns, TrackCheck(c) PROVE ConnInv'
  BY <1>2 DEF TypeOK, ConnInv, Stopped, RegisterLocks, Closing, TrackCheck
<1>3. ASSUME NEW c \in Conns,
             RecordTemporalUnit(c) \/ ReadError(c) \/ Finish(c) \/ Worker(c)
      PROVE  UNCHANGED ServerVars
  BY <1>3 DEF RecordTemporalUnit, ReadError, Finish, TrackStarted,
     QueueTemporalUnit, CloseQueue, Drained, TrackCloseYuv, TrackCloseIvf,
     TrackFinished, Worker, Pop, SendData, GetPicture, WriteYuv, srvVars, ServerVars
<1>4. CASE UNCHANGED vars
  BY <1>1, <1>4 DEF vars, srvVars, ServerVars
<1> QED
  BY <1>1, <1>2, <1>3, <1>4, HandlersKeepConnections, MainKeepsConnections DEF Next

-----------------------------------------------------------------------------
(* Tracks and their workers. *)

TrackInv == StartLocks /\ UnitsInHand /\ ReaderOutlivesWorker

\* The worker's own steps.
LEMMA WorkerKeepsTracks ==
  ASSUME TypeOK, TrackInv, NEW c \in Conns, Worker(c)
  PROVE  TrackInv'
<1> USE DEF TrackInv, StartLocks, UnitsInHand, ReaderOutlivesWorker, trackVars, Doing, Turn
<1>1. CASE Pop(c)
  <2>1. CASE queue[c].items # <<>>
    <3>1. Head(queue[c].items) \in Units
      BY <2>1, QueueType
    <3>2. /\ queue' = [queue EXCEPT ![c] = [items  |-> Tail(queue[c].items),
                                           closed |-> queue[c].closed]]
          /\ unit' = [unit EXCEPT ![c] = Head(queue[c].items)]
          /\ worker' = [worker EXCEPT ![c] = "sending"]
          /\ worker[c] = "idle"
          /\ UNCHANGED <<track, trackMu, received, pic>>
      BY <1>1, <2>1 DEF Pop
    <3> QED  BY <3>1, <3>2 DEF TypeOK
  <2>2. CASE queue[c].items = <<>>
    BY <1>1, <2>2 DEF Pop, TypeOK
  <2> QED  BY <2>1, <2>2
<1>2. CASE SendData(c)
  BY <1>2 DEF SendData, TypeOK
<1>3. CASE GetPicture(c)
  <2>1. CASE outQ = <<>>
    BY <1>3, <2>1 DEF GetPicture, TypeOK
  <2>2. CASE outQ # <<>>
    <3>1. Head(outQ) \in Pictures
      BY <2>2 DEF TypeOK
    <3> QED  BY <1>3, <2>2, <3>1 DEF GetPicture, TypeOK
  <2> QED  BY <2>1, <2>2
<1>4. CASE WriteYuv(c)
  BY <1>4 DEF WriteYuv, TypeOK
<1> QED  BY <1>1, <1>2, <1>3, <1>4 DEF Worker

\* The reader's steps.
LEMMA ReaderKeepsTracks ==
  ASSUME TypeOK, TrackInv, NEW c \in Conns,
         TrackCheck(c) \/ RecordTemporalUnit(c) \/ ReadError(c) \/ Finish(c)
  PROVE  TrackInv'
<1> USE RecorderAssumption
    DEF TrackInv, StartLocks, UnitsInHand, ReaderOutlivesWorker, At, Move, workVars
<1>1. CASE TrackCheck(c)
  BY <1>1 DEF TrackCheck, TypeOK
<1>2. CASE RecordTemporalUnit(c)
  BY <1>2 DEF RecordTemporalUnit, TypeOK
<1>3. CASE ReadError(c)
  BY <1>3 DEF ReadError, TypeOK
<1>4. CASE TrackStarted(c)
  BY <1>4 DEF TrackStarted, TypeOK
<1>5. CASE QueueTemporalUnit(c)
  BY <1>5 DEF QueueTemporalUnit, Push, Woken, TypeOK
<1>6. CASE CloseQueue(c)
  BY <1>6 DEF CloseQueue, Woken, TypeOK
<1>7. CASE Drained(c)
  BY <1>7 DEF Drained, TypeOK
<1>8. CASE TrackCloseYuv(c)
  BY <1>8 DEF TrackCloseYuv, TypeOK
<1>9. CASE TrackCloseIvf(c)
  BY <1>9 DEF TrackCloseIvf, TypeOK
<1>10. CASE TrackFinished(c)
  BY <1>10 DEF TrackFinished, TypeOK
<1> QED
  BY <1>1, <1>2, <1>3, <1>4, <1>5, <1>6, <1>7, <1>8, <1>9, <1>10 DEF Finish

\* Handlers and main leave tracks alone.
LEMMA ServerLeavesTracks ==
  ASSUME \/ Interrupt \/ Shutdown
         \/ \E c \in Conns :
              CreatePeerConnection(c) \/ Handler(c) \/ ConnectionLost(c)
  PROVE  UNCHANGED <<trackVars, queue, workVars>>
BY DEF Interrupt, Shutdown, CreatePeerConnection, Handler, RegisterCheck,
   RegisterAdd, ConnectionLost, SnapshotConnections, PeerConnectionsClosed,
   HttpShutdown, TracksFinished, MainCloseYuv, MainCloseIvf, ClosePeerConnection

\* Every step keeps reader and worker together.
LEMMA NextTracks ==
  TypeOK /\ TrackInv /\ [Next]_vars => TrackInv'
<1> SUFFICES ASSUME TypeOK, TrackInv, [Next]_vars PROVE TrackInv'
  OBVIOUS
<1>1. CASE UNCHANGED <<trackVars, queue, workVars>>
  BY <1>1 DEF TrackInv, StartLocks, UnitsInHand, ReaderOutlivesWorker,
              trackVars, workVars
<1>2. CASE UNCHANGED vars
  BY <1>1, <1>2 DEF vars
<1> QED
  BY <1>1, <1>2, ServerLeavesTracks, WorkerKeepsTracks, ReaderKeepsTracks DEF Next
-----------------------------------------------------------------------------
(* The counter. *)

\* The track counted in or out is the one that joins or leaves Active.
LEMMA NextCounted ==
  TypeOK /\ StartLocks /\ Counted /\ [Next]_vars => Counted'
<1> SUFFICES ASSUME TypeOK, StartLocks, Counted, [Next]_vars PROVE Counted'
  OBVIOUS
<1>1. IsFiniteSet(Active)
  BY RecorderAssumption, FS_Subset DEF Active
<1>2. CASE UNCHANGED <<track, activeTracks>>
  BY <1>2 DEF Counted, Active
<1>3. ASSUME NEW c \in Conns, TrackStarted(c) PROVE Counted'
  <2>1. Active' = Active \cup {c} /\ c \notin Active
    BY <1>3 DEF TrackStarted, At, Move, Active, TypeOK
  <2>2. Cardinality(Active \cup {c}) = Cardinality(Active) + 1
    BY <1>1, <2>1, FS_AddElement
  <2> QED  BY <1>3, <2>1, <2>2 DEF Counted, TrackStarted
<1>4. ASSUME NEW c \in Conns, TrackFinished(c) PROVE Counted'
  <2>1. Active' = Active \ {c} /\ c \in Active
    BY <1>4 DEF TrackFinished, At, Move, Active, TypeOK
  <2>2. Cardinality(Active \ {c}) = Cardinality(Active) - 1
    BY <1>1, <2>1, FS_RemoveElement
  <2> QED  BY <1>4, <2>1, <2>2 DEF Counted, TrackFinished
<1>5. ASSUME NEW c \in Conns,
             \/ TrackCheck(c) \/ RecordTemporalUnit(c) \/ ReadError(c)
             \/ QueueTemporalUnit(c) \/ CloseQueue(c) \/ Drained(c)
             \/ TrackCloseYuv(c) \/ TrackCloseIvf(c)
      PROVE  Active' = Active /\ UNCHANGED activeTracks
  BY <1>5 DEF TrackCheck, RecordTemporalUnit, ReadError, QueueTemporalUnit,
     CloseQueue, Drained, TrackCloseYuv, TrackCloseIvf, At, Move, Active, TypeOK
<1>6. ASSUME NEW c \in Conns, Worker(c) PROVE UNCHANGED <<track, activeTracks>>
  BY <1>6 DEF Worker, Pop, SendData, GetPicture, WriteYuv, trackVars
<1>7. CASE UNCHANGED vars
  BY <1>2, <1>7 DEF vars, trackVars
<1>8. ASSUME UNCHANGED <<trackVars, queue, workVars>> PROVE Counted'
  BY <1>2, <1>8 DEF trackVars
<1>9. ASSUME NEW c \in Conns, Finish(c) PROVE Counted'
  BY <1>3, <1>4, <1>5, <1>9 DEF Finish, Counted
<1>10. ASSUME NEW c \in Conns, TrackCheck(c) \/ RecordTemporalUnit(c) \/ ReadError(c)
       PROVE  Counted'
  BY <1>5, <1>10 DEF Counted
<1> QED
  BY <1>2, <1>6, <1>7, <1>8, <1>9, <1>10, ServerLeavesTracks DEF Next

-----------------------------------------------------------------------------
(* The end of main. *)

\* Nothing of a track moves once main finalizes: it ended or will be refused.
LEMMA NextFinalizing ==
  IInv /\ [Next]_vars => Finalizing'
<1> SUFFICES ASSUME IInv, [Next]_vars PROVE Finalizing'
  OBVIOUS
<1> USE DEF Finalizing
<1>1. CASE UNCHANGED <<main, track, yuv, ivf>>
  BY <1>1 DEF IInv
<1>2. CASE UNCHANGED vars
  BY <1>1, <1>2 DEF vars, trackVars, srvVars
<1>3. CASE Interrupt
  BY <1>3 DEF Interrupt, Goto
<1>4. CASE SnapshotConnections \/ PeerConnectionsClosed \/ HttpShutdown
  BY <1>4 DEF SnapshotConnections, PeerConnectionsClosed, HttpShutdown, Goto
<1>5. CASE TracksFinished
  <2>1. IsFiniteSet(Active) /\ Cardinality(Active) = 0
    BY <1>5, RecorderAssumption, FS_Subset DEF Active, TracksFinished, IInv, Counted
  <2>2. Active = {}
    BY <2>1, FS_EmptySet
  <2>3. \A c \in Conns : track[c] \in {"none", "ended"}
    BY <1>5, <2>2, RecorderAssumption DEF Active, TracksFinished, IInv, StartLocks
  <2> QED  BY <1>5, <2>3 DEF TracksFinished, Goto, trackVars
<1>6. CASE MainCloseYuv
  BY <1>6 DEF MainCloseYuv, ClosedYuv, Goto, IInv, trackVars
<1>7. CASE MainCloseIvf
  BY <1>7, IvfClosesType DEF MainCloseIvf, Goto, IInv, trackVars
<1>8. ASSUME NEW c \in Conns, \/ ClosePeerConnection(c) \/ CreatePeerConnection(c)
                              \/ Handler(c) \/ ConnectionLost(c)
      PROVE  UNCHANGED <<main, track, yuv, ivf>>
  BY <1>8 DEF ClosePeerConnection, CreatePeerConnection, Handler, RegisterCheck,
              RegisterAdd, ConnectionLost, trackVars
<1>9. ASSUME NEW c \in Conns, TrackCheck(c) PROVE Finalizing'
  BY <1>9 DEF TrackCheck, At, Move, IInv, Stopped, TypeOK
<1>10. ASSUME NEW c \in Conns, RecordTemporalUnit(c) \/ ReadError(c) \/ Finish(c)
       PROVE  Finalizing'
  <2>1. track[c] \notin {"none", "ended"} /\ UNCHANGED main
    BY <1>10 DEF RecordTemporalUnit, ReadError, Finish, TrackStarted,
       QueueTemporalUnit, CloseQueue, Drained, TrackCloseYuv, TrackCloseIvf,
       TrackFinished, At, srvVars
  <2> QED  BY <2>1 DEF IInv
<1>11. ASSUME NEW c \in Conns, Worker(c) PROVE Finalizing'
  <2>1. worker[c] \notin {"none", "done"} /\ UNCHANGED <<main, track, ivf>>
    BY <1>11 DEF Worker, Pop, SendData, GetPicture, WriteYuv, Doing, srvVars, trackVars
  <2>2. track[c] \notin {"none", "ended"}
    BY <2>1 DEF IInv, ReaderOutlivesWorker
  <2> QED  BY <2>1, <2>2 DEF IInv
<1> QED
  BY <1>1, <1>2, <1>3, <1>4, <1>5, <1>6, <1>7, <1>8, <1>9, <1>10, <1>11
     DEF Next, Shutdown

-----------------------------------------------------------------------------
(* The theorems. *)

\* The invariant holds at the start.
LEMMA InitInvariant == Init => IInv
<1> SUFFICES ASSUME Init PROVE IInv
  OBVIOUS
<1>1. TypeOK
  <2>1. /\ queue \in [Conns -> [items : Seq(Units), closed : BOOLEAN]]
        /\ unit \in [Conns -> Units \cup {NoUnit}] /\ pic \in [Conns -> Pictures \cup {NoPicture}]
        /\ outQ \in Seq(Pictures)
    BY DEF Init
  <2>2. ivf \in IvfFiles /\ yuv \in [open : BOOLEAN, frames : Seq([pic : Pictures, pts : Units])]
    BY DEF Init, IvfFiles
  <2>3. /\ main \in MainStates /\ offer \in [Conns -> OfferStates]
        /\ track \in [Conns -> TrackStates] /\ worker \in [Conns -> WorkerStates]
        /\ received \in [Conns -> 0 .. MaxTU]
    BY RecorderAssumption DEF Init, MainStates, OfferStates, TrackStates, WorkerStates
  <2>4. /\ stopping \in BOOLEAN /\ connections \subseteq Conns /\ toClose \subseteq Conns
        /\ pcOpen \subseteq Conns /\ connectionMu \in Conns \cup {Nil}
        /\ trackMu \in Conns \cup {Nil} /\ activeTracks \in Nat /\ shown \subseteq Pictures /\ failed \subseteq Units
    BY DEF Init
  <2> QED  BY <2>1, <2>2, <2>3, <2>4, Zenon DEF TypeOK
<1>2. Counted
  <2>1. Active = {}
    BY DEF Init, Active
  <2> QED  BY <2>1, FS_EmptySet DEF Init, Counted
<1>3. Stopped /\ RegisterLocks /\ StartLocks /\ Closing
  BY RecorderAssumption DEF Init, Stopped, RegisterLocks, StartLocks, Closing
<1>4. UnitsInHand /\ ReaderOutlivesWorker /\ Finalizing
  BY DEF Init, UnitsInHand, ReaderOutlivesWorker, Finalizing
<1> QED  BY <1>1, <1>2, <1>3, <1>4 DEF IInv

\* The inductive invariant of the recorder: who holds which mutex, what main
\* has left to close, that the counter is the number of tracks, and that a
\* reader outlives its worker.
THEOREM RecorderInvariant == Spec => []IInv
<1>1. Init => IInv
  BY InitInvariant
<1>2. IInv /\ [Next]_vars => IInv'
  BY NextTypes, NextConnections, NextTracks, NextCounted, NextFinalizing
     DEF IInv, ConnInv, TrackInv
<1> QED  BY <1>1, <1>2, PTL DEF Spec

\* Every variable keeps its type; the track counter never goes below zero.
THEOREM RecorderTypes == Spec => []TypeOK
<1>1. IInv => TypeOK
  BY DEF IInv
<1> QED  BY <1>1, RecorderInvariant, PTL

\* closePeerConnections reaches every connection that was registered before
\* or while main set stopping, however offers, losses and the copy of the map
\* interleave, for any number of them.
THEOREM AllConnectionsClosed == Spec => []ConnectionsClosed
<1>1. IInv => ConnectionsClosed
  BY RecorderAssumption DEF IInv, TypeOK, MainStates, RegisterLocks, Closing, ConnectionsClosed
<1> QED  BY <1>1, RecorderInvariant, PTL

\* When main finalizes the outputs, no track reads, decodes or is about to,
\* nothing is queued, and the files it closes stay closed.
THEOREM OutputsAreFinal == Spec => []OutputsFinal
<1>1. IInv => OutputsFinal
  BY DEF IInv, Finalizing, ReaderOutlivesWorker, OutputsFinal, Active
<1> QED  BY <1>1, RecorderInvariant, PTL
=============================================================================
