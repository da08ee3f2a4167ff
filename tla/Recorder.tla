------------------------------ MODULE Recorder ------------------------------
(***************************************************************************)
(* The WebRTC recorder (cmd/webrtc-av1d): an HTTP handler per offer, a     *)
(* reader and a decode worker per incoming AV1 track, and the main         *)
(* goroutine that finalizes the recording on Ctrl+C.  All tracks share one *)
(* decoder, one IVF writer and one YUV writer.                             *)
(*                                                                         *)
(* A step is what a goroutine does between two operations another one can  *)
(* see: a critical section of one mutex, an atomic load or store, a system *)
(* call on a shared file.  connectionMu and trackMu are variables, because *)
(* `stopping` is stored without them and read under them; the mutexes of   *)
(* the queue, the decoder and the writers only make their methods atomic.  *)
(***************************************************************************)
EXTENDS Integers, Sequences, FiniteSets

CONSTANTS
  Conns,      \* peer connections; each carries one video track
  MaxTU,      \* bound: temporal units received on a track
  MaxShown,   \* bound: pictures the decoder shows for a temporal unit
  DiskFaults, \* the output files whose writes may fail
  Nil         \* an unlocked mutex

ASSUME RecorderAssumption ==
  /\ MaxTU \in Nat /\ MaxShown \in Nat /\ DiskFaults \subseteq {"ivf", "yuv"}
  /\ IsFiniteSet(Conns) /\ Nil \notin Conns

VARIABLES
  main,         \* where the main goroutine is
  stopping,     \* server.stopping
  connections,  \* server.connections
  connectionMu, \* who holds it
  toClose,      \* closePeerConnections' copy of the map
  offer,        \* where each connection's handleOffer is
  pcOpen,       \* peer connections nobody has closed
  activeTracks, \* server.activeTracks
  trackMu,      \* who holds it
  track,        \* where each track's reader is
  received,     \* temporal units each reader has assembled
  queue,        \* each track's temporalUnitQueue: items and closed
  worker,       \* where each track's decode worker is
  unit,         \* the temporal unit it decodes
  pic,          \* the picture it writes
  outQ,         \* the decoder's output queue
  shown,        \* pictures the decoder has put there so far
  failed,       \* temporal units SendData returned an error for
  ivf, yuv      \* the writers, and what their files contain; ivf.lost are the
                \* temporal units whose write failed

srvVars   == <<main, stopping, connections, connectionMu, toClose, offer, pcOpen>>
trackVars == <<activeTracks, trackMu, track, received>>
workVars  == <<worker, unit, pic, outQ, shown, failed>>
vars == <<srvVars, trackVars, queue, workVars, ivf, yuv>>

\* The n-th temporal unit of connection c, and the i-th picture it shows.
Units == Conns \X (1 .. MaxTU)
NoUnit == <<Nil, 0>>
Pictures == Conns \X (1 .. MaxTU) \X (1 .. MaxShown)
NoPicture == <<Nil, 0, 0>>
UnitOf(p) == <<p[1], p[2]>>
Torn == <<Nil, -1>>   \* a record whose write failed half way
IvfFiles == [open : BOOLEAN, recs : Seq(Units \cup {Torn}), written : Nat,
             count : Nat, lost : SUBSET Units]

MainStates == {"serving", "stopping", "closing", "shutdown", "waiting",
               "closeYuv", "closeIvf", "done"}
OfferStates == {"none", "created", "refused", "registering", "registered"}
TrackStates == {"none", "starting", "reading", "queueing", "flushing",
                "lastQueueing", "closing", "draining", "closeYuv", "closeIvf",
                "finishing", "ended"}
WorkerStates == {"none", "idle", "waiting", "sending", "taking", "writing", "done"}

\* Every variable keeps its type.
TypeOK ==
  /\ main \in MainStates /\ stopping \in BOOLEAN
  /\ connections \subseteq Conns /\ toClose \subseteq Conns
  /\ pcOpen \subseteq Conns
  /\ connectionMu \in Conns \cup {Nil} /\ trackMu \in Conns \cup {Nil}
  /\ offer \in [Conns -> OfferStates]
  /\ activeTracks \in Nat
  /\ track \in [Conns -> TrackStates]
  /\ received \in [Conns -> 0 .. MaxTU]
  /\ queue \in [Conns -> [items : Seq(Units), closed : BOOLEAN]]
  /\ worker \in [Conns -> WorkerStates]
  /\ unit \in [Conns -> Units \cup {NoUnit}]
  /\ pic \in [Conns -> Pictures \cup {NoPicture}]
  /\ outQ \in Seq(Pictures)
  /\ shown \subseteq Pictures
  /\ failed \subseteq Units
  /\ ivf \in IvfFiles
  /\ yuv \in [open : BOOLEAN, frames : Seq([pic : Pictures, pts : Units])]

\* main has not returned: when it does, every goroutine stops.  A process that
\* is killed, or whose HTTP server fails, takes no further step at all.
Running == main # "done"

-----------------------------------------------------------------------------
(* handleOffer.  The HTTP server accepts requests until Shutdown. *)

CreatePeerConnection(c) ==
  /\ main \in {"serving", "stopping", "closing"} /\ offer[c] = "none"
  /\ offer' = [offer EXCEPT ![c] = "created"]
  /\ pcOpen' = pcOpen \cup {c}
  /\ UNCHANGED <<main, stopping, connections, connectionMu, toClose, trackVars,
                 queue, workVars, ivf, yuv>>

\* Mutant: stopping is read before connectionMu is taken.
MutRegisterCheck(c) ==
  /\ Running /\ offer[c] = "created"
  /\ IF stopping
     THEN /\ offer' = [offer EXCEPT ![c] = "refused"]
          /\ pcOpen' = pcOpen \ {c}
     ELSE offer' = [offer EXCEPT ![c] = "registering"] /\ UNCHANGED pcOpen
  /\ UNCHANGED <<main, stopping, connections, connectionMu, toClose, trackVars,
                 queue, workVars, ivf, yuv>>

\* registerPeerConnection up to the load of stopping.  A refused connection
\* is closed and the request answered.
RegisterCheck(c) ==
  /\ Running /\ offer[c] = "created" /\ connectionMu = Nil
  /\ IF stopping
     THEN /\ offer' = [offer EXCEPT ![c] = "refused"]
          /\ pcOpen' = pcOpen \ {c}
          /\ UNCHANGED connectionMu
     ELSE /\ offer' = [offer EXCEPT ![c] = "registering"]
          /\ connectionMu' = c
          /\ UNCHANGED pcOpen
  /\ UNCHANGED <<main, stopping, connections, toClose, trackVars, queue,
                 workVars, ivf, yuv>>

RegisterAdd(c) ==
  /\ Running /\ offer[c] = "registering"
  /\ connections' = connections \cup {c}
  /\ connectionMu' = Nil
  /\ offer' = [offer EXCEPT ![c] = "registered"]
  /\ UNCHANGED <<main, stopping, toClose, pcOpen, trackVars, queue, workVars,
                 ivf, yuv>>

Dropped(c) ==
  /\ connectionMu = Nil
  /\ pcOpen' = pcOpen \ {c}
  /\ connections' = connections \ {c}

\* The rest of the negotiation fails, or OnICEConnectionStateChange reports a
\* failed or closed connection.
ConnectionLost(c) ==
  /\ Running /\ c \in connections
  /\ Dropped(c)
  /\ UNCHANGED <<main, stopping, connectionMu, toClose, offer, trackVars, queue,
                 workVars, ivf, yuv>>

-----------------------------------------------------------------------------
(* The shutdown sequence of main. *)

Goto(m) == main' = m

Interrupt ==
  /\ main = "serving"
  /\ Goto("stopping")
  /\ stopping' = TRUE
  /\ UNCHANGED <<connections, connectionMu, toClose, offer, pcOpen, trackVars,
                 queue, workVars, ivf, yuv>>

\* closePeerConnections: a copy of the map, then one connection at a time.
SnapshotConnections ==
  /\ main = "stopping" /\ connectionMu = Nil
  /\ Goto("closing")
  /\ toClose' = connections
  /\ UNCHANGED <<stopping, connections, connectionMu, offer, pcOpen, trackVars,
                 queue, workVars, ivf, yuv>>

ClosePeerConnection(c) ==
  /\ main = "closing" /\ c \in toClose
  /\ Dropped(c)
  /\ toClose' = toClose \ {c}
  /\ UNCHANGED <<main, stopping, connectionMu, offer, trackVars, queue,
                 workVars, ivf, yuv>>

PeerConnectionsClosed ==
  /\ main = "closing" /\ toClose = {}
  /\ Goto("shutdown")
  /\ UNCHANGED <<stopping, connections, connectionMu, toClose, offer, pcOpen,
                 trackVars, queue, workVars, ivf, yuv>>

\* httpServer.Shutdown returns when the handlers have, or after ten seconds.
HttpShutdown ==
  /\ main = "shutdown"
  /\ Goto("waiting")
  /\ UNCHANGED <<stopping, connections, connectionMu, toClose, offer, pcOpen,
                 trackVars, queue, workVars, ivf, yuv>>

\* waitForTracks(0) polls the counter.
TracksFinished ==
  /\ main = "waiting" /\ trackMu = Nil /\ activeTracks = 0
  /\ Goto("closeYuv")
  /\ UNCHANGED <<stopping, connections, connectionMu, toClose, offer, pcOpen,
                 trackVars, queue, workVars, ivf, yuv>>

\* Mutant: a writer that is closed keeps its counter.
MutIvfCloses ==
  LET Patched(n) == [ivf EXCEPT !.open = FALSE, !.count = n]
  IN  IF ivf.open
      THEN {Patched(ivf.written)} \cup (IF "ivf" \in DiskFaults THEN {Patched(0)} ELSE {})
      ELSE {ivf}
\* ivfWriter.Close patches the header with the number of records written, or
\* leaves the placeholder there when the disk fails.
IvfCloses ==
  LET Patched(n) == [ivf EXCEPT !.open = FALSE, !.written = 0, !.count = n]
  IN  IF ivf.open
      THEN {Patched(ivf.written)} \cup (IF "ivf" \in DiskFaults THEN {Patched(0)} ELSE {})
      ELSE {ivf}
ClosedYuv == [open |-> FALSE, frames |-> yuv.frames]

MainCloseYuv ==
  /\ main = "closeYuv"
  /\ Goto("closeIvf")
  /\ yuv' = ClosedYuv
  /\ UNCHANGED <<stopping, connections, connectionMu, toClose, offer, pcOpen,
                 trackVars, queue, workVars, ivf>>

MainCloseIvf ==
  /\ main = "closeIvf"
  /\ Goto("done")
  /\ ivf' \in IvfCloses
  /\ UNCHANGED <<stopping, connections, connectionMu, toClose, offer, pcOpen,
                 trackVars, queue, workVars, yuv>>

-----------------------------------------------------------------------------
(* The reader of a track.  The library may call OnTrack late: on a         *)
(* connection that has been closed meanwhile.                              *)

At(c, s) == Running /\ track[c] = s
Move(c, s) == track' = [track EXCEPT ![c] = s]

\* Mutant: stopping is read before trackMu is taken.
MutTrackCheck(c) ==
  /\ At(c, "none") /\ offer[c] = "registered"
  /\ IF stopping
     THEN Move(c, "ended") /\ pcOpen' = pcOpen \ {c}
     ELSE Move(c, "starting") /\ UNCHANGED pcOpen
  /\ UNCHANGED <<main, stopping, connections, connectionMu, toClose, offer,
                 activeTracks, trackMu, received, queue, workVars, ivf, yuv>>

\* OnTrack and trackStarted up to the load of stopping.
TrackCheck(c) ==
  /\ At(c, "none") /\ offer[c] = "registered"
  /\ trackMu = Nil
  /\ IF stopping
     THEN /\ Move(c, "ended")
          /\ pcOpen' = pcOpen \ {c}
          /\ UNCHANGED trackMu
     ELSE Move(c, "starting") /\ trackMu' = c /\ UNCHANGED pcOpen
  /\ UNCHANGED <<main, stopping, connections, connectionMu, toClose, offer,
                 activeTracks, received, queue, workVars, ivf, yuv>>

\* The rest of trackStarted, and the start of consumeAV1Track.
TrackStarted(c) ==
  /\ At(c, "starting")
  /\ activeTracks' = activeTracks + 1
  /\ trackMu' = Nil
  /\ Move(c, "reading")
  /\ worker' = [worker EXCEPT ![c] = "idle"]
  /\ UNCHANGED <<srvVars, received, queue, unit, pic, outQ, shown, failed, ivf, yuv>>

\* ivfWriter.WriteFrame: a closed writer, whose counter is zero, creates the
\* file anew.  When the disk fails the file cannot be created (ivf), has no
\* header, or a torn record at its end, behind which the next is written.
IvfWrites(tu) ==
  LET recs == IF ivf.open THEN ivf.recs ELSE <<>>
      n    == ivf.written
      lost == ivf.lost \cup {tu}
      File(open, r, k, l) == [open |-> open, recs |-> r, written |-> k, count |-> 0, lost |-> l]
  IN  {File(TRUE, Append(recs, tu), n + 1, ivf.lost)}
        \cup (IF "ivf" \in DiskFaults
              THEN {[ivf EXCEPT !.lost = lost], File(ivf.open, recs, n, lost),
                    File(TRUE, Append(recs, Torn), n, lost)}
              ELSE {})

\* A temporal unit is complete; recordTemporalUnit writes it.
RecordTemporalUnit(c) ==
  /\ track[c] \in {"reading", "flushing"} /\ Running
  /\ track[c] = "reading" => c \in pcOpen
  /\ received[c] < MaxTU
  /\ received' = [received EXCEPT ![c] = @ + 1]
  /\ ivf' \in IvfWrites(<<c, received[c] + 1>>)
  /\ Move(c, IF track[c] = "reading" THEN "queueing" ELSE "lastQueueing")
  /\ UNCHANGED <<srvVars, activeTracks, trackMu, queue, workVars, yuv>>

\* temporalUnitQueue.Push signals the worker.
Woken(c) == [worker EXCEPT ![c] = IF @ = "waiting" THEN "idle" ELSE @]

\* Mutant: Push does not signal.
MutPush(c) ==
  /\ queue' = [queue EXCEPT ![c] = [items  |-> Append(@.items, <<c, received[c]>>),
                                     closed |-> @.closed]]
  /\ UNCHANGED worker
Push(c) ==
  /\ queue' = [queue EXCEPT ![c] = [items  |-> Append(@.items, <<c, received[c]>>),
                                     closed |-> @.closed]]
  /\ worker' = Woken(c)

QueueTemporalUnit(c) ==
  /\ At(c, "queueing") \/ At(c, "lastQueueing")
  /\ Push(c)
  /\ Move(c, IF track[c] = "queueing" THEN "reading" ELSE "closing")
  /\ UNCHANGED <<srvVars, activeTracks, trackMu, received, unit, pic, outQ,
                 shown, failed, ivf, yuv>>

\* ReadRTP fails: the track ended, or its connection was closed.
ReadError(c) ==
  /\ At(c, "reading")
  /\ Move(c, "flushing")
  /\ UNCHANGED <<srvVars, activeTracks, trackMu, received, queue, workVars, ivf,
                 yuv>>

\* Mutant: Close does not wake the worker.
MutCloseQueue(c) ==
  /\ At(c, "flushing") \/ At(c, "closing")
  /\ queue' = [queue EXCEPT ![c] = [items |-> @.items, closed |-> TRUE]]
  /\ Move(c, "draining")
  /\ UNCHANGED <<srvVars, activeTracks, trackMu, received, workVars, ivf, yuv>>

\* temporalUnitQueue.Close, when nothing is left to record.
CloseQueue(c) ==
  /\ At(c, "flushing") \/ At(c, "closing")
  /\ queue' = [queue EXCEPT ![c] = [items |-> @.items, closed |-> TRUE]]
  /\ worker' = Woken(c)
  /\ Move(c, "draining")
  /\ UNCHANGED <<srvVars, activeTracks, trackMu, received, unit, pic, outQ,
                 shown, failed, ivf, yuv>>

\* Mutant: the reader does not wait for its decode worker.
MutDrained(c) ==
  /\ At(c, "draining")
  /\ Move(c, "closeYuv")
  /\ UNCHANGED <<srvVars, activeTracks, trackMu, received, queue, workVars, ivf,
                 yuv>>

\* <-decodeDone
Drained(c) ==
  /\ At(c, "draining") /\ worker[c] = "done"
  /\ Move(c, "closeYuv")
  /\ UNCHANGED <<srvVars, activeTracks, trackMu, received, queue, workVars, ivf,
                 yuv>>

\* closeTrackOutputs: first one writer, then the other.
TrackCloseYuv(c) ==
  /\ At(c, "closeYuv")
  /\ yuv' = ClosedYuv
  /\ Move(c, "closeIvf")
  /\ UNCHANGED <<srvVars, activeTracks, trackMu, received, queue, workVars, ivf>>

TrackCloseIvf(c) ==
  /\ At(c, "closeIvf")
  /\ ivf' \in IvfCloses
  /\ Move(c, "finishing")
  /\ UNCHANGED <<srvVars, activeTracks, trackMu, received, queue, workVars, yuv>>

TrackFinished(c) ==
  /\ At(c, "finishing") /\ trackMu = Nil
  /\ activeTracks' = activeTracks - 1
  /\ Move(c, "ended")
  /\ UNCHANGED <<srvVars, trackMu, received, queue, workVars, ivf, yuv>>

-----------------------------------------------------------------------------
(* The decode worker of a track. *)

Doing(c, s) == Running /\ worker[c] = s
Turn(c, s) == worker' = [worker EXCEPT ![c] = s]

\* Mutant: the newest unit is taken first.
MutPop(c) ==
  /\ Doing(c, "idle")
  /\ LET items == queue[c].items
     IN  IF items # <<>>
         THEN /\ unit' = [unit EXCEPT ![c] = items[Len(items)]]
              /\ queue' = [queue EXCEPT ![c] = [items |-> SubSeq(items, 1, Len(items) - 1),
                                                 closed |-> @.closed]]
              /\ Turn(c, "sending")
         ELSE /\ Turn(c, IF queue[c].closed THEN "done" ELSE "waiting")
              /\ UNCHANGED <<unit, queue>>
  /\ UNCHANGED <<srvVars, trackVars, pic, outQ, shown, failed, ivf, yuv>>

\* temporalUnitQueue.Pop: wait, take the oldest unit, or end.
Pop(c) ==
  /\ Doing(c, "idle")
  /\ LET items == queue[c].items
     IN  IF items # <<>>
         THEN /\ unit' = [unit EXCEPT ![c] = Head(items)]
              /\ queue' = [queue EXCEPT ![c] = [items |-> Tail(items), closed |-> @.closed]]
              /\ Turn(c, "sending")
         ELSE /\ Turn(c, IF queue[c].closed THEN "done" ELSE "waiting")
              /\ UNCHANGED <<unit, queue>>
  /\ UNCHANGED <<srvVars, trackVars, pic, outQ, shown, failed, ivf, yuv>>

\* decoder.SendData shows the unit's pictures, none, one or several, and may
\* then fail.
SendData(c) ==
  /\ Doing(c, "sending")
  /\ \E n \in 0 .. MaxShown, err \in BOOLEAN :
       LET new == [i \in 1 .. n |-> <<c, unit[c][2], i>>]
       IN  /\ outQ' = outQ \o new
           /\ shown' = shown \cup {new[i] : i \in 1 .. n}
           /\ failed' = IF err THEN failed \cup {unit[c]} ELSE failed
           /\ Turn(c, IF err THEN "idle" ELSE "taking")
  /\ UNCHANGED <<srvVars, trackVars, queue, unit, pic, ivf, yuv>>

GetPicture(c) ==
  /\ Doing(c, "taking")
  /\ IF outQ = <<>>
     THEN Turn(c, "idle") /\ UNCHANGED <<pic, outQ>>
     ELSE /\ pic' = [pic EXCEPT ![c] = Head(outQ)]
          /\ outQ' = Tail(outQ)
          /\ Turn(c, "writing")
  /\ UNCHANGED <<srvVars, trackVars, queue, unit, shown, failed, ivf, yuv>>

\* Mutant: the time is that of the unit the reader assembled last.
MutStamped(c) == [pic |-> pic[c], pts |-> <<c, received[c]>>]
Stamped(c) == [pic |-> pic[c], pts |-> unit[c]]

\* yuvWriter.WriteFrame, and the release of the picture.
WriteYuv(c) ==
  /\ Doing(c, "writing")
  /\ LET frames == IF yuv.open THEN yuv.frames ELSE <<>>
     IN  yuv' \in {[open |-> TRUE, frames |-> Append(frames, Stamped(c))]}
                    \cup (IF "yuv" \in DiskFaults
                          THEN {[open |-> yuv.open, frames |-> frames]} ELSE {})
  /\ Turn(c, "taking")
  /\ UNCHANGED <<srvVars, trackVars, queue, unit, pic, outQ, shown, failed, ivf>>

-----------------------------------------------------------------------------
Init ==
  /\ main = "serving" /\ stopping = FALSE
  /\ connections = {} /\ toClose = {} /\ pcOpen = {}
  /\ connectionMu = Nil /\ trackMu = Nil
  /\ offer = [c \in Conns |-> "none"]
  /\ activeTracks = 0
  /\ track = [c \in Conns |-> "none"]
  /\ received = [c \in Conns |-> 0]
  /\ queue = [c \in Conns |-> [items |-> <<>>, closed |-> FALSE]]
  /\ worker = [c \in Conns |-> "none"]
  /\ unit = [c \in Conns |-> NoUnit]
  /\ pic = [c \in Conns |-> NoPicture]
  /\ outQ = <<>>
  /\ shown = {} /\ failed = {}
  /\ ivf = [open |-> FALSE, recs |-> <<>>, written |-> 0, count |-> 0, lost |-> {}]
  /\ yuv = [open |-> FALSE, frames |-> <<>>]

Handler(c) == RegisterCheck(c) \/ RegisterAdd(c)

Shutdown ==
  \/ SnapshotConnections \/ PeerConnectionsClosed \/ HttpShutdown
  \/ TracksFinished \/ MainCloseYuv \/ MainCloseIvf
  \/ \E c \in Conns : ClosePeerConnection(c)

\* What the reader of a track does by itself once reading has failed.
Finish(c) ==
  \/ TrackStarted(c) \/ QueueTemporalUnit(c) \/ CloseQueue(c) \/ Drained(c)
  \/ TrackCloseYuv(c) \/ TrackCloseIvf(c) \/ TrackFinished(c)

Worker(c) == Pop(c) \/ SendData(c) \/ GetPicture(c) \/ WriteYuv(c)

Next ==
  \/ Interrupt \/ Shutdown
  \/ \E c \in Conns :
       \/ CreatePeerConnection(c) \/ Handler(c) \/ ConnectionLost(c)
       \/ TrackCheck(c) \/ RecordTemporalUnit(c) \/ ReadError(c) \/ Finish(c)
       \/ Worker(c)

Spec == Init /\ [][Next]_vars

\* Go schedules every goroutine that can run, and reading from a closed
\* connection fails.  No packet, offer or signal need ever arrive.
FairSpec ==
  /\ Spec
  /\ WF_vars(Shutdown)
  /\ \A c \in Conns :
       /\ WF_vars(Handler(c))
       /\ WF_vars(Finish(c))
       /\ WF_vars(c \notin pcOpen /\ ReadError(c))
       /\ WF_vars(Worker(c))

-----------------------------------------------------------------------------
(* Properties. *)

Active == {c \in Conns : track[c] \notin {"none", "starting", "ended"}}

\* "Wait for queued reference frames before touching the shared output
\* writers" (main): when main finalizes the outputs no track is reading,
\* decoding or about to, so the files it closes stay closed and complete.
OutputsFinal ==
  main \in {"closeYuv", "closeIvf", "done"} =>
    /\ Active = {} /\ \A c \in Conns : track[c] # "starting"
    /\ \A c \in Conns : worker[c] \in {"none", "done"} /\ queue[c].items = <<>>
    /\ main = "done" => ~ivf.open /\ ~yuv.open

\* closePeerConnections reaches every connection: none that was registered,
\* or was about to be, is still open when main goes on.
ConnectionsClosed ==
  main \in {"shutdown", "waiting", "closeYuv", "closeIvf", "done"} =>
    /\ connections \cap pcOpen = {}
    /\ \A c \in Conns : offer[c] # "registering"

\* The records that were written whole, and the units that are not in the file.
Whole == {i \in DOMAIN ivf.recs : ivf.recs[i] # Torn}
Missing ==
  {u \in Units : u[2] <= received[u[1]] /\ \A i \in DOMAIN ivf.recs : ivf.recs[i] # u}
\* Missing, though its write did not fail.
Gone == Missing \ ivf.lost
\* A track closed the writer and another one recorded.
Recreated ==
  \E c, d \in Conns : c # d /\ track[c] \in {"finishing", "ended"} /\ received[d] > 0

\* recordTemporalUnit: "IVF recording therefore remains complete".  The records
\* of a track are units received, each once and in order; the writer counts the
\* whole ones of the file it has, and a finalized file says how many there are,
\* however often the writer was closed and the file created anew, and whatever
\* writes failed.  A unit whose write did not fail is missing only with all such
\* units before it, from a file created anew after another track closed it.
IvfComplete ==
  /\ \A i \in Whole : ivf.recs[i] \in Units /\ ivf.recs[i][2] <= received[ivf.recs[i][1]]
  /\ \A i, j \in Whole :
       i < j /\ ivf.recs[i][1] = ivf.recs[j][1] => ivf.recs[i][2] < ivf.recs[j][2]
  /\ IF ivf.open THEN ivf.written = Cardinality(Whole)
     ELSE ivf.count = Cardinality(Whole) \/ ("ivf" \in DiskFaults /\ ivf.count = 0)
  /\ Gone # {} => Recreated
  /\ \A u \in Gone, i \in Whole : ivf.recs[i][1] = u[1] => u[2] < ivf.recs[i][2]

\* The pictures of one track are numbered by unit, and within it.
Earlier(p, q) == p[2] < q[2] \/ (p[2] = q[2] /\ p[3] < q[3])

\* decodeTemporalUnit: "AV1 reference frames and decoded YUV output therefore
\* retain bitstream order".  No picture is written twice, though all workers take
\* from one decoder, and each worker writes the pictures of a track in order.
YuvInOrder ==
  \A i, j \in DOMAIN yuv.frames : i < j =>
    LET f == yuv.frames[i]
        g == yuv.frames[j]
    IN  /\ f.pic # g.pic
        /\ f.pic[1] = g.pic[1] /\ f.pts[1] = g.pts[1] => Earlier(f.pic, g.pic)

\* A picture that its own track's worker writes is stamped with the time of its
\* temporal unit, or of a later one when the decoder reported an error after the
\* picture was queued.
YuvStamped ==
  \A i \in DOMAIN yuv.frames :
    LET f == yuv.frames[i]
    IN  f.pic[1] = f.pts[1] =>
          UnitOf(f.pic) = f.pts \/ (UnitOf(f.pic) \in failed /\ f.pic[2] < f.pts[2])

\* Asynchronous decoding loses nothing: a track whose outputs are closed has
\* every picture of a unit that decoded in the YUV file.
YuvComplete ==
  \A p \in shown : track[p[1]] \in {"closeIvf", "finishing", "ended"} =>
    UnitOf(p) \in failed \/ \E i \in DOMAIN yuv.frames : yuv.frames[i].pic = p

\* Shutdown ends: readers fail, workers drain their queues, main returns.
ShutdownCompletes == stopping ~> main = "done"

\* Every temporal unit that is queued gets decoded.
QueueDrains == \A c \in Conns : queue[c].items # <<>> ~> queue[c].items = <<>>
=============================================================================
