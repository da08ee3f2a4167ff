# A TLA+ model of go-av1

go-av1 is an AV1 decoder and encoder in Go (`pkg/av1`, `internal/`) with a
WebRTC recorder (`cmd/webrtc-av1d`) that uses the decoder from several
goroutines. This directory models

- what keeps state between calls and between goroutines: the decoder with its
  pictures, the encoder's references, the recorder, the assembly of RTP packets;
- what two sides must keep in step: the range coder, the headers, the syntax of
  a tile with its contexts and motion vector candidates, the deblocking passes;
- what the format defines and the code computes another way: transforms, filters,
  prediction within a picture and from others.

TLC checks all of it on small instances. TLAPS proves the safety of the decoder,
the recorder with its RTP reader and files, and the encoder's references for
every value of their parameters, that the range decoder reads what the range
encoder wrote, and that the walk over a frame's blocks decodes every sample once
with its neighbours' contexts.

## 1. Inventory

| Part | State | Operations | Hard because | What must hold |
|---|---|---|---|---|
| Decoder (`pkg/av1/decoder_impl.go`) | sequence header, 8 reference slots (header, picture, CDFs, motion vectors), output queue, the pending frame | `SendData` (routes OBUs), `GetPicture`, `Flush`, `Close` | OBUs come in any order after losses; a frame may be split over calls; each error path releases what was taken | slots hold one frame each; nothing a strict decoder dropped is shown; every resource goes back once |
| Pictures (`pkg/av1/picture.go`) | atomic reference count, planes from a pool | `Retain`, `Release`, the release callback | no lock: they interleave with a running `SendData`; a count that reaches zero is seen by one goroutine and acted on later | count = number of holders; nobody has a picture that is in the pool |
| Tile groups (`internal/tile/group.go`, `framestate.go`) | frame samples, FrameState pool, CDFs | `DecodeTileGroupWithContext`, `ReleaseFrameState` | groups are partial and may fail half way | between OBUs, FrameState out of the pool exactly when the pending frame has it |
| `DecodeReader` (`pkg/av1/reader.go`) | none | loop over `GetPicture`, callback, `Release` | the callback may stop it | releases what it took |
| Encoder (`internal/encoder/impl.go`, `core`, `reference`) | frame number, packets, last picture, 8 reconstructions, slot history | `SendPicture`, `ReceivePacket`, `Flush`, `Close` | its slots must agree with those of a decoder it never talks to, through wrap-around and repeats | decoder and encoder slots agree; pictures come out as sent |
| Rate control (`internal/encoder/ratecontrol`) | quantizer, virtual buffer | `Update` | feedback over many frames | limits on steps and range |
| Recorder (`cmd/webrtc-av1d/main.go`) | connections, active tracks, a queue per track, shared decoder and writers, `stopping` | offer handler, `OnTrack`, RTP reader, decode worker, shutdown | goroutines per offer, track and worker; three mutexes, two atomics; Ctrl+C at any time; shared outputs | shutdown waits for all; nothing lost; order and times kept |
| RTP aggregation (same file) | fragment and unit buffers | `consumeAV1Track`'s loop | lost packets | units = what was sent |
| Containers (`pkg/ivf`, `internal/encoder/ivf`, `y4m`) | position, count | read and write records | truncated files | framing |
| OBUs and headers (`internal/obu`, `internal/header`) | none; what a header leaves for the next | parse functions, the encoder's writers | a field decides whether later ones are there | parsing is the inverse of writing |
| Range coder (`internal/bitstream`, `internal/encoder/bitwriter`) | window or pending bits, range, CDFs | read or write a symbol, a literal, a bit; `Flush` | a carry into bytes already out; padding after the last byte | the decoder reads what was written |
| Blocks of a tile (`internal/tile`, `encoder_context.go`) | contexts above and to the left, grids of modes and transforms, CDEF indices, chroma pairs | the partition walk, a block's syntax | one goroutine, but two sides with different code; 4:2:0 blocks that share chroma; picture edges | each sample once; contexts are the neighbours'; both sides choose the same |
| Motion vectors (`internal/refmvs`) | the neighbours' references and vectors, a stack of candidates | scan, weigh, sort, clamp | order and ties decide the syntax | both sides build one stack |
| Samples (`predict`, `transform`, `loopfilter`, `cdef`, `looprestoration`) | sample planes | pure kernels and the passes that call them over a picture | shortcuts, saturation, an order of edges and rows, borders | equal to the format's definition |
| Tools (`cmd/*`, `internal/conformance`) | none | sequential drivers | - | - |

How they interact. The recorder's reader turns RTP packets into temporal units,
writes each to the IVF file and pushes it on its track's queue; the worker pops
it, calls `SendData`, then `GetPicture` until `ErrAgain`, writes each picture
to the YUV file and releases it. `SendData` splits the unit into OBUs; a frame
takes a picture from the pool, is decoded tile by tile into it, and
`finishFrame` gives references to it to the slots it refreshes and to the
output queue. The encoder's packets are temporal units of the same form.
`PROJECT.json` lists the hazards of this code, each at its line.

## 2. Modules

### State machines

| Module | Models | State and actions |
|---|---|---|
| `Decoder` | `decoderImpl` and `Picture` | `seq, refs, outQ, pending, closed` are the fields of the same name; `heap` is reference counts, pool, and pictures whose callback has not run; `busy` is the mutex during `SendData`, inside which each routed OBU is one action (`FrameObu`, `TileGroupObu`, ...); `samples` says which frame wrote each tile; `held` are the consumers' references; `nextTile` is the stream's position |
| `FrameStore` | what the decoder promises | a store of immutable frames: slots, shown frames and loans; `Decoder` implements it with samples for frames (`Store`, `ImplementsFrameStore`) |
| `Recorder` | `cmd/webrtc-av1d` | program counters of main, of each offer handler, reader and worker; `connectionMu` and `trackMu` are variables because `stopping` is written without them; a write to a file is a step |
| `RtpAssembler` | the loop of `consumeAV1Track` that puts temporal units together | `tuBuf, fragBuf, inFragment, ptsBase, pts` are its local variables; a pass of the loop is `ReadRTP`, an element `TakeElement`, the end of the track `ReadError`; the sender and its packets are external |
| `Encoder` | `encoder.Impl`, `reference.Manager`, the slots of `core.FrameEncoder`, and a decoder of their packets | a reconstruction is named by the frame that coded it; an inter packet carries the reconstructions it was predicted from, and a decoder whose slots differ produces `Drift` |
| `RangeCoder` | `bitwriter/msac.go` and `bitstream/msac.go` | the encoder's `low, rng, cnt` and bytes, the decoder's `dif, rng, cnt` and window; an action codes one symbol, bit or literal, `Flush` ends the tile, and then each read is an action. 16-bit ranges are exact; the width of the window and the point at which bytes are written are constants |
| `BlockWalk` | `decodeSuperblock` down to the transform loops of `tile/decoder.go`, `filter_edges.go` | the walk over a frame's tiles, superblocks and blocks, with any partition tree: `at` is the superblock (`StartSuperblock` the loop over them), `todo` what recursion has still to do in it (`Partition`, `DecodeBlock`, and `PassOver` for the early returns outside the frame), `done` what a reader of the planes may use; the flags handed down the tree, the contexts and the CDEF and restoration reads are those of the code |
| `TileState`, `RefMvs`, `TileCodec` | one tile written by `encoder_context.go` and `core/encode.go` and read by `tile/decoder.go` | each side has the contexts, grids and motion vectors its own code keeps (`TileState`), builds its candidates from them (`RefMvs`), and an action of `TileCodec` codes a block on both sides: the symbols, with the context each was coded under |

### Pure parts

| Module | Models |
|---|---|
| `Headers` | LEB128, OBU headers, sequence and frame headers as sequences of bits: the encoder's writers and the decoder's parser |
| `Residual` | the coefficients of a transform block: end of block, levels, signs, Golomb codes, with their contexts, on both sides |
| `Transforms` | the inverse transforms of `itx1d.go` and `itx2d.go` (DCT, ADST, flip, identity; 4 to 64), the encoder's integer forward transforms and quantizer, reconstruction on both sides |
| `Deblock` | levels and edge widths of both passes, and the filters of `loopfilter.go` |
| `Cdef` | direction search, filter, and the passage over a picture with its saved rows |
| `Restoration` | the Wiener and self-guided filters, and the stripes over deblocked and filtered rows |
| `IntraPred` | the choice of a kernel, the edges of a block, every kernel, chroma from luma, the encoder's prediction |
| `IntraFormat` | the format's definition of intra prediction, which `IntraPred` is compared with |
| `InterPred` | where a vector leads, the window around it, the subpixel and bilinear filters, scaled references; blocks of two pictures with weights, wedges and difference masks; inter-intra; overlapped blocks; chroma shared by small blocks |
| `InterFormat` | the format's one process for all of these, which `InterPred` is compared with |
| `Codec` | composes `TileCodec` with the pure parts: a step either codes a block of the tile or takes one input of a bounded set, and each property speaks of one kind of input |

`MCDecoder`, `MCRecorder`, `MCEncoder`, `MCRangeCoder`, `MCBlockWalk` and
`MCCodec` hold the instances; `DecoderProofs`, `EncoderProofs`, `RecorderProofs`,
`RecorderFileProofs`, `RtpProofs`, `RangeCoderProofs`, `BlockWalkProofs` and
`BlockWalkEdgeProofs` the theorems of section 5.

### Abstractions

`Decoder`: samples are named by the frame that wrote them, one value per
tile; CDFs and motion vectors by the frame that left them. A frame header keeps
the fields that steer the decoder (`Header`). A damaged tile group stops at any
tile, or does not parse. The post-filters change the samples of the frame being
finished only, so they do not appear. A tile group takes its FrameState
(`AcquiredState`) and each way out of it gives it back (`ReleasedState`) within
the action, where the code has its error paths.

`Recorder`: a temporal unit shows up to `MaxShown` pictures or none, and decoding
may then fail; a write to a file in `DiskFaults` may fail whole or half way; the
YUV flag is on. A killed process or a failed HTTP server is a behaviour that
stops, which every safety property allows for.

`RtpAssembler`: a stream is a row of numbered parts, an OBU a number of
consecutive parts, and the sender cuts it at any part; what `ensureOBUSizeField`
is given together stays one OBU, so one that was cut wrongly is not equal to a
whole one. Elements whose LEB128 size lies are not modelled.

`Encoder`: `SendPicture`'s checks of size and nil change nothing and are left
out. The decoder beside it may refresh all slots when a key frame is shown
again, as AV1 asks and `pkg/av1` does not: the encoder must be right for both.

`BlockWalk`: 4:2:2 excludes the partitions the format forbids there (`Valid`).

`TileCodec`: what this encoder can write. Its choice of partition (none or
split), mode, vector and coefficients is open where small, and drawn from a
seed in larger jobs: what matters here is that both sides understand it alike.
A block's coefficients are one symbol with the block's context; the symbols
within are in `Residual`. Temporal candidates are off, as in its headers.

Samples are eight bits wide.

## 3. Runs and bounds

| Run | Checks | Instance |
|---|---|---|
| `DecoderStrict` | a strict decoder hands out and stores whole frames only; it implements `FrameStore` | 2 slots, 4 pictures, 2 tiles, 3 frames, queue of 2, tile groups whole and in order |
| `DecoderLossy` | exact reference counts, no dangling picture, snapshot of a split frame, slots of one frame each, their samples included; FrameState balance; `Close` gives every picture back in the end | best effort, invisible output, OBUs lost or out of place, 3 pictures, 2 references per consumer, 2 frames, fair |
| `RecorderOne` | YUV file complete, in order, stamped; queue drains; shutdown ends | 1 connection, 3 units of up to 2 pictures, fair |
| `RecorderTwo` | outputs stay final, connections are closed; the IVF file that two tracks write and close has its records in order, counts those that are whole, and lacks only what the disk refused or creating it anew threw away | 2 connections, 1 unit each of up to 1 picture, IVF writes that fail |
| `EncoderSync` | slots agree, output is the input, history order | 12 frames, 2 picture contents, 2 packets waiting |
| `RtpLoss` | nothing that arrives is lost, repeated or reordered; units not touched by a loss are whole and under their time; times go up across the clock's wrap | 3 units of 2 OBUs of 3 parts, cut anywhere, any packet lost, a clock of 4 values that starts at the last |
| `RangeCoder` | the decoder reads what was written; its window never shows bits it has not; every value of an alphabet can be coded | window of 30 bits, bytes written from 5 pending bits on, 4 operations over two adapting contexts, bits and literals |
| `BlockWalk` | each sample is decoded once; edge flags say what is decoded; contexts belong to the adjacent blocks; the partition context is exact; one CDEF index per 64x64; restoration units are read by one tile | frames of 84x77 in 4:2:0 in two tile rows, 40x47 in 4:2:2, 44x36 in 4:4:4, 136x40 with superblocks of 128 |
| `Codec` | headers and coefficients read back; both sides of a tile in step; deblocking, transforms, directional filter, restoration and prediction equal their definitions; the encoder's reconstruction is the decoder's | the sets of `MCCodec` and of `Codec`; see below |
| `DecoderGrouped`, `BlockWalkTiled`, `CodecFiltered` | each refutes a sentence of the code's documentation (`findings`) | small |

Why the bounds are enough. Two slots distinguish a slot that is refreshed from
one that is not, and allow a picture in both; two tiles distinguish a first
group from a last one, and a failure before, in and after a tile. Four pictures
are two in slots, one pending and one held: the pool never hides a leak by
running out first (`MaxFrames` pictures are in use at most, plus those
consumers hold). Three frames let a frame predict from one that predicted from
another, and reuse a buffer. Two connections are all that interfere through a
counter, a map and a shared writer. Twelve frames go past the first time the
eight slots wrap, so the history is full and slots are replaced. Three parts of
an OBU are the least that give a first, a middle and a last fragment in packets
of their own, two OBUs the least that share a packet or are split across its
end, and three units give one before and one after the unit a loss hits.

A window of 30 bits refills within four operations, and writing bytes from 5
bits on makes a carry run into bytes already written; with the code's 64 and 40
both would need sequences too long to enumerate (the proof takes any sizes; a
window below 29 bits is too small for a range and the bits `Flush` leaves out). The frames of `BlockWalk` are
cut inside a block at the right and at the bottom, and their rows of superblocks
give a block neighbours above, to the left, above right and below left.

The sets of `Codec`: headers for sizes on both sides of the limits where a field
grows; coefficient blocks with each end-of-block class and with levels past each
escape; transforms of every type and size on impulses, saturating values and
seeded blocks (the kernels were also compared with the Go code's own results,
bit for bit, on 192 vectors); deblocking lines that meet and miss each flatness
condition at each width; pictures with luma and chroma blocks at every edge, for
CDEF with every direction and strength class; restoration planes of 30 to 66 rows, which put the
end of the plane before, at and after a stripe's, units side by side and
stacked; intra blocks of seven shapes with each of the 56 angles, the five other modes
and the five recursive filters, in seven surroundings; blocks from other pictures with
vectors to whole samples, between them one way and both, over an edge, just and
far outside, in luma and in both chroma layouts, cut by the coded plane, and
from pictures larger and smaller; every wedge of every size; every pair of
distances of order hints of three and seven bits; every kind of edge of overlapped blocks
(two neighbours, a long one, an intra one between, one more than is used). The forward transforms
round, so `KernelsAsDefined` allows a block of size 4, 8, 16, 32 to come back
off by 2, 4, 5, 7.

The type invariants of `Decoder`, `Recorder`, `Encoder`, `RangeCoder` and
`BlockWalk` are proved; those of the other modules document their state and are
not run, the number of properties the project runs being better spent.

Deadlock is checked where the system must reach its end (`BlockWalk`); elsewhere
a stream may end, callers may stop, and the program terminates.

## 4. Fairness

- `Decoder.FairSpec`: a consumer whose `Release` reached zero runs the callback;
  it is the next statement of the same goroutine.
- `Recorder.FairSpec`: main's shutdown steps, the handlers past their check, the
  reader once reading has failed and the worker make progress, as every runnable
  goroutine does in Go; reading from a closed connection fails. Nothing obliges
  a packet, an offer or a signal to come. Mutex waits need no strong fairness:
  a holder's next step releases the mutex, and only finitely many others contend.

## 5. Proofs

The decoder's theorems hold for any finite sets of slots and pictures, any headers,
options, delivery and bounds. Assumptions: those of `Decoder`
(`ConstantsAssumption`, `DeliveryAssumption`, `NilAssumption`), which TLC
evaluates in every decoder run.

- `TypeCorrect`: `Spec => []TypeOK`, one lemma per action.
- `PicturesBalanced`: `Spec => []PictureInv`. Exact counts alone are not
  inductive: a step that releases a picture must know that a count of zero
  means no holder, that pictures in the pool and in `releasing` have count zero
  and are disjoint, and that the pending frame's aliases are the slots' own
  pictures, which keeps them alive. `PictureInv` is their conjunction.
- `CountsExact`, `NoPictureDangles` follow from it and from `SnapshotKept`
  (`Spec => []PendingSnapshot`), which is inductive with the types.
- `FrameStatesBalanced`: inductive with the types alone.
- `SlotsConsistent`: that a slot's parts are one frame's is inductive with the
  types (`SlotPartsKept`); that in best-effort decoding its picture has no other
  frame's samples is `OwnInv`: what slots and the pending frame's picture hold is
  their own. A frame writes only a picture that no slot has (`PendingAlone`,
  kept because pictures come from the pool and `NoPictureDangles`).
- `StrictWhole`: `Delivery = "whole" => (Spec => []StrictOutputWhole)`. The
  strengthening (`PendingWhole`) says that the pending frame has its picture to
  itself, has written every tile before the one the stream is at, and is not
  pending between frames. That a new frame overwrites no picture a slot or the
  queue shows is `NoPictureDangles`; that a slot shown again is one frame is
  `SlotPartsKept`. The run `DecoderGrouped` shows why delivery must be whole.

The lemmas count holders: how `InSlots` and `InQueue` change when a frame
refreshes slots, when the queue grows or shrinks, and what `Released` adds to
the pool.

- `StoreImplemented`: `Spec => ImplementsFrameStore`,
  whatever the delivery. Each step of the decoder is a step of the store or
  none: a tile group writes into the pending frame's picture, which no slot,
  queue entry or consumer has (`PendingAlone`, kept because pictures come from
  the pool and `NoPictureDangles`); slots and queue change only while the
  decoder is open and in `SendData` (`BusyOpen`).
- `RecorderInvariant`: `Spec => []IInv`, from which `RecorderTypes`,
  `AllConnectionsClosed` and `OutputsAreFinal` follow, for any number of
  connections and units. `ConnectionsClosed` is not inductive: main closes what
  the map holds at one instant, so a handler must be known to be past its check
  only while it holds `connectionMu`, and `stopping` to be set before main
  takes it. `OutputsFinal` needs that `activeTracks` is the number of tracks
  whose worker or reader runs (`Cardinality(Active)`), that a reader outlives
  its worker, that nobody else holds the mutex a process is inside, and that
  main finalizes (`Finalizing`) only when the count was zero with `stopping`
  set, after which no track can start.

- `EncoderInvariant`: `Spec => []IInv`, from which `EncoderTypes`,
  `SlotsStayInSync`, `OutputIsFaithful` and `HistoryStaysOrdered` follow, for any
  set of pictures and any number of frames and of packets on their way
  (`EncoderAssumption` alone). `HistoryOrdered` needs that the manager's history
  is a ring: the slots written last, by age, each with an earlier frame than the
  one before it. The loop of `CommitInter` over it runs at most eight times
  (`RotatedRing` unrolls it). `SlotsInSync` speaks only of an encoder whose
  packets are all taken; what is inductive (`InStep`) is a trail of slot
  contents from the decoder's slots, through each waiting packet, to the
  encoder's. Each packet names only slots that hold, on the trail, what they held
  when it was coded. `OutputFaithful` adds that the newest slot holds the last
  picture (`LatestIsLast`), so that a repeat may show it. A repeated key frame
  refreshes all slots with itself, on the decoder's side only, which changes
  nothing: while the key frame is the newest, every slot holds it.

- `UnitsFlow` (in `RecorderFileProofs`): `Spec => [](IInv /\ FileInv)`, for any
  number of tracks that share decoder and writers, of units and pictures, queue
  length, errors of decoder and disk, and moments of shutdown. A unit moves from
  its track's queue to the decoder, its pictures to a worker's hand and to the
  file. `PicturesOrdered` says that no picture is in two places, and that those
  of a track are in order up to the hand of whichever worker takes them;
  `PicturesDue` that a picture still to be written is its track's current
  unit's or was left behind by an error. From it follow `YuvStaysInOrder` and
  `YuvTimesRight`. Both say less of a picture that another track's worker takes:
  it has that worker's time, and its order is kept among what that worker
  writes (section 6).
  `IvfStaysComplete` rests on `IvfKept` (the records of a track rise, and a
  closed file's header counts them) and `IvfLacks` (a missing unit whose write did
  not fail is older than any record of its track, and the file was created anew).
  `YuvLosesNothing` has the hypothesis `OneTrack /\ "yuv" \notin DiskFaults`:
  every picture shown is then in the decoder, in the worker's hand or in the
  file (`Accounted`); with two tracks the first to end closes the file, and the
  next write creates it anew.
- `NothingIsDropped` (in `RtpProofs`): `Spec => []NothingDropped`, for any sizes of
  OBUs, units and streams, any cut into packets, any element counts and losses.
  Inductive (`Kept`): the buffers are tidy (no fragment is left in a closed
  buffer) and records, unit and fragment flatten to what arrived. That an
  element adds just its parts is `ElementKept`; that the elements of a packet do,
  whose loop is a recursive function, is an induction (`ElementsKept`); that a
  packet's elements are its run of parts is `ElementsFlat`.
- `TimesStayOrdered`: `MaxTU <= ClockMod` gives `Spec => []TimesOrdered`. The
  hypothesis is the code's own limit: times are differences in `uint32`, so a
  stream that goes once round the RTP clock (13 hours at 90 kHz) starts
  again at 0. Inductive (`Timed`): the time of the last packet is its unit's
  distance from the first unit read, buffers and records have no parts of later
  units than their time's, and when the newest record has the time of the unit
  at hand, a marker has ended that unit and the buffers are empty.
- `UnitsStayWhole`: `~Legacy /\ NObus <= 3` gives `Spec => []UnitsWhole`. The
  hypotheses are where the element count `W` tells the last element of a packet:
  it has two bits. With `W = 0`, from a legacy sender or with more than three
  elements, the code knows no last element and takes a fragment at the end of a
  packet for a whole OBU; there the property does not hold.
  Inductive (`Assembled`): while the parts of the unit at hand have
  all arrived (`Intact`), the buffers are what was sent so far (`Reached`: the
  OBUs that ended and the parts of the open one), and a unit that arrived is
  recorded. `ElementTaken` takes `Reached` over one element, `PacketTaken` by
  induction over a packet; a lost packet leaves neither its unit nor the next
  one intact (`LossAssembles`).
- `ValuesStayCodable` (in `RangeCoderProofs`): `Spec => []EveryValueCodable`, for
  any contexts whose CDFs fall to zero (`ProbabilitiesAssumption`, the shape of
  every table in `internal/tile`), any number of symbols and any window. Inductive
  (`CodableInv`): the range is normalized and every CDF falls. The lemmas are the
  coder's arithmetic: cuts are inside the range (`CutInside`), apart by the reserve
  of 4 (`CutFalls`, `SymbolCutsFall`), adapting at any rate keeps a CDF falling
  (`AdaptedFalling`), and a shift of at most 15 normalizes (`ShiftBrings`).
- `DecodesWhatWasCoded` and `WindowStaysInside`: `Spec => []DecodedAsCoded` and
  `Spec => []WindowInside`, for any contexts and probabilities, any number of
  operations, windows of 29 to 64 bits and any `FlushAt` up to the code's 40
  (`SizesAssumption`). Inductive is `CoderInv`: `CodingInv` until the tile is
  flushed, `DecodingInv` from then on. The argument:
  - The bytes written and the encoder's `low` make up one number, which only a
    carry changes in the bytes already out (`Writes`; `EmitsNumber` for the run of
    0xFF bytes). Every operation takes a part of the interval of that number and
    the range (`Marked`, `FollowingMark`), and `Flush` writes a number of the last
    interval, whatever is read after it (`FlushReads`, `Tile`).
  - The intervals are nested, so the number written lies in each of them
    (`Marks`, `Inside`). This is a history of the encoder; the decoder goes
    through it again from the start.
  - The decoder's window says how far the number is below the end of the interval
    (`Reader`): as exactly as the bytes taken so far can, with fewer than that many
    bits unknown (`Ahead`), and past the last byte with ones for what is unknown
    (`Past`). A cut never falls within the unknown bits (`ReaderBounds`), so the
    comparison of the window's top 16 bits finds the value that was coded
    (`BoolRead`, `SymbolRead`).
  - The shift and the refill lead to the next interval (`RefillIs` for the loop
    over the bytes, `RefillReads`, `DecodedReads`). The bits a refill adds into are
    zero, so that the code's `|=` is the model's `+`.
- `RangeCoderTypes` and `RegistersStayWide`: the model's `low` and `dif` are
  integers; the second says that 64 bits hold both at any time, so nothing is lost
  that the model keeps.

- `WalkInvariant` (in `BlockWalkProofs`): `Spec => []Inv`, from which `WalkTypes`,
  `EverySampleOnce`, `ContextsAreNeighbours` and `CdefIndexInStep` follow, for
  frames of any size in the three chroma layouts, any tiles, both superblock sizes
  and any partition tree (`FramesAssumption`: tile bounds rise from 0 to the
  frame's end, as `parseTileInfo` leaves them). `DecodedOnce` compares a block with
  what is decoded, which says nothing of the blocks to come. Inductive is:
  - `WalkInv`: what is still to do lies in the superblock, each part at a multiple
    of its size, in order: of two that share a column the upper comes first, of two
    that share a row the left one (`Precedes`). So no two meet, and what comes later
    is neither above nor to the left. That the parts of a node are in order and
    cover it is `PartsTile`, one lemma per kind of partition.
  - `DoneInv`: a luma sample is decoded exactly if its superblock has begun and
    nothing to do holds it; a chroma sample, if that is so of the last luma cell
    it stands for, since of the small blocks that share it the last has it
    (`RectLuma`). After the last superblock that is the coded grid (`LastIs`).
  - `ContextInv`: in the tile, the decoded cells of a column are those above its
    entry, and those of a row are left of its entry. The block to be decoded has
    decoded cells, or the tile's end, right above and left of it
    (`AdjacentAbove`, `AdjacentLeft`), so the entries there are its own edges.
  - `CdefInv`: the regions read are those with coefficients, and none of them belongs
    to a block or node to come that spans several regions: such a block finds none
    or all of its regions read.
- `PartitionEntriesExact`: from the types, kind by kind of partition.
- `UnitsTileThePlanes` (in `BlockWalkProofs`): `Spec => []RestorationTiles`, for
  the same frames and every size of units `parseLR` can read
  (`obu/frame_more.go:343-360`, the last part of `FramesAssumption`: a power of two,
  at least a superblock, and half of luma's for chroma in 4:2:0 only). Inductive, with
  the walk's invariant, is `UnitsInv`: the list has the unit of each superblock begun
  that has one, and none twice. Of one axis it says that the units cover it
  (`AxisCovered`) and are apart (`AxisApart`), though the last one is up to half a
  size longer or shorter and rows of units end 8 luma rows early; of a plane, that
  each place where a unit starts is where some superblock starts (`UnitStarts`),
  which needs units of whole superblocks: with smaller ones, units would be lost.
- `EdgesHandedDown` and `EdgesExact` (in `BlockWalkEdgeProofs`): `Spec => []EdgeInv`
  and `Spec => []EdgesAsDecoded`, for the same frames, with every partition, chroma
  layout and transform size. `EdgesAsDecoded` speaks of one block and one moment, of
  flags set several levels up in the tree. `EdgeInv` is inductive with the walk's
  invariant: every node and block still to do is told the truth about the luma
  cell beyond each of two of its corners (`Corner`; `Back` for the small blocks that
  share their chroma), namely that it is there exactly if its superblock was begun
  and nothing from here on in `todo` holds it. It speaks of cells in the frame and in
  the tile, the flags being about nothing else, and of blocks that have samples in
  such a plane (`HasArea`). The argument:
  - The corner of a part of a node (`AllPartsJudged`, one lemma per kind of
    partition) is the node's own corner, and the part has the node's flag; or it is in
    another part, and the flag says whether that one comes earlier
    (`InsideClassified`); or it is above or left of the node, where all is decoded; or
    below or right of it in its own columns or rows, where nothing is.
  - A superblock's own corners follow from the order of superblocks in the tile
    (`RootEdges`).
  - In a plane, cells lie to a block's rectangle as the last luma cells they stand
    for lie to the block (`PlacedAlike`), so `DoneInv` says which are decoded
    (`AboutHead`). A transform's corner is the block's, in the block, or beside it
    (`ToldRight`, `ToldBottom`).
  Of blocks wider or higher than 64 `EdgesAsDecoded` says nothing (section 6), and
  what the code does at the right end of a tile is the run `BlockWalkTiled`.

The library's induction theorems take a predicate and cannot be used; the
inductions over data above go over sets of numbers instead (`BoundedInduction`,
`RunExists` for recursive functions, `FlatIs` for `FlattenSeq`, `TwoDefined` for
powers of two, on whose `TwoSum` and `TwoMonotone` the range coder's proofs rest).

Only model-checked:

- all liveness, which needs fairness and `ENABLED`;
- the modules under `Codec`, which are recursive, or compare the code with a
  definition input by input.

## 6. What disagrees

Three disagreements between the code and what it says of itself have a run:
`DecoderGrouped` (a frame whose first tile group is in an `OBU_FRAME` is shown
with tiles nobody decoded), `BlockWalkTiled` (prediction from the next tile
column) and `CodecFiltered` (the encoder's deblocking is not the decoder's). Others, met
while modelling, have none; the models keep to what the code does, or leave the
case out where it says so:

- Intra prediction at the right and bottom edge of a picture whose size is not a
  multiple of 8: the encoder repeats the picture's last sample
  (`core/encode.go:1210-1283`), the decoder reads the padding it has decoded
  (`tile/decoder.go:1810-1818`, `2904-3040`).
- Overlapped prediction: the encoder blends luma only, because "AV1 does not
  apply chroma OBMC" to its 8x8 blocks (`encoder_context.go:226-228`). The format
  and the decoder (`tile/decoder.go:6191-6256`) leave out the neighbours above a
  block whose chroma is smaller than 8x8, and blend those to the left always.
- Compound prediction: the encoder averages two predictions already rounded to
  eight bits (`encoder_context.go:195-212`, used for fractional vectors by
  `encode.go:693`), the decoder two with four more bits (`inter/mc.go`, `Avg`).
- `encodePlaneDC` (`encode.go:1113-1128`) leaves the source's mean as its
  reconstruction in sizes the transform coder does not take.
- PAETH with no neighbour becomes the mean of the made-up edges (127 and 129)
  (`tile/decoder.go:3220`): 128, but for blocks of 1:4.
- Bilinear prediction rounds its horizontal pass to eight bits; `mc.go:27-28`
  says four more bits are kept. `PrepBilin` with fractions both ways leaves
  samples (`mc.go:402-430`, and `mc_test.go:424` wants them) where `Avg`, `WAvg` and the masks
  expect four more bits: such a compound is a sixteenth as bright.
- A sign in the chroma masks of 4:4:4 (`SubsampleMaskSigned`), and the masks and
  filters of compound and scaled blocks cut at the right or bottom, which are
  chosen by the cut size (`tile/decoder.go:6533-6534` against `1750-1753`).
- 4:4:4: CDEF halves the coded chroma size and counts directions in 4x4 blocks.
  The chroma contexts are kept as far as the visible plane (`framestate.go:454-480`),
  the coded blocks go on to a multiple of 8: a chroma transform there reads entries
  no neighbour wrote, where the format keeps them for the coded grid
  (`ContextsAdjacent` speaks of the columns and rows that are kept, `EdgeW`,
  `EdgeH`; the frame of 44x36 has such a column and row). `Edge` flags of blocks wider than 64 in
  superblocks of 128 (`tile/decoder.go:1459`).
- `SGR5x5SnapshotStripeStart` returns without doing the row below a stripe's
  boundary when fewer than six rows follow it (`looprestoration.go:215`). Where the
  5x5 filter stands alone nothing makes that row again, so `RestorationInputs`
  leaves such planes out. `LoopFilterH/V` would filter chroma with width 8, and
  nothing calls them.
- `EncodeShowExisting` shows the newest slot, `refMgr.Latest()`; its comment
  (`core/encode.go:40`) says slot zero, which is right after a key frame only.
- `errors.go:23` says methods of a closed encoder return `ErrClosed`; `Close`
  throws queued packets away and `SendPicture` goes on (`impl.go:191`).
- `Flush` says it "discards internal references" (`decoder.go:101`) and keeps
  CDFs and motion vectors (`decoder_impl.go:136`).
- `DecodeReader`: a callback that returns false leaves the loop before the
  picture it was given is released (`reader.go:36`).
- "AV1 reference frames and decoded YUV output therefore retain bitstream order"
  (`main.go:670-671`) is so of one track. Tracks share decoder and writers: a
  worker may take the picture of another track's unit and stamp it with its own
  unit's time, and two workers' writes may come in either order. The first track
  that ends closes both writers, and a later write creates (and truncates) the
  file again. A record that failed half way stays in the IVF file, and the next
  one follows it.
- A packet whose first element continues a fragment
  never begun is kept (`W = 0`); the encoder writes one tile beyond a width of
  4096, and `PutBits` loses the height of 8192x8192.

## 7. Not modelled

- Warped blocks (`warp.go`, `FindAffine`, `DeriveShear`): 64-bit least squares,
  where TLC has 32 bits. Of the modelled inter prediction these inputs are left
  out, where the code disagrees with the format (section 6): bilinear blocks with
  fractions both ways or scaled, signed masks in 4:4:4, compound and scaled blocks that are
  cut. Which blocks are coded so, and with which vectors, is in `TileCodec` and
  `RefMvs`.
- Palettes, intra block copy, segmentation, delta q and delta lf, lossless
  blocks, global motion, temporal vectors: the decoder's syntax this encoder
  does not write.
- Headers: timing and decoder models, explicit tile sizes, segmentation
  features, sizes taken from references, film grain parameters.
- Residual: transforms of 64, rectangular ones and one-dimensional classes; the
  older `EncodeCoefficients` and `ac.go`, which nothing uses.
- Restoration's in-place passes over stripes, which the decoder overwrites or
  does not call; CDEF in 4:2:2 and 4:4:4; sharpness and deltas in deblocking;
  the floating-point forward DCT; chroma from luma where a block's transforms
  leave the coded plane.
- Rate control (floating point, a control loop), motion search and
  rate-distortion (they choose, and any choice is allowed here).
- `DecodeReader`, the YUV writer's segments, IVF and Y4M files: sequential I/O
  around operations modelled here. Reordered packets, for which the recorder
  promises nothing.
- Assembly and CPU dispatch (the Go kernels are the reference they are tested
  against), constant CDF tables, more than eight bits, logging, HTTP and WebRTC
  library internals, measurement tools.
