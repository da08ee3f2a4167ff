--------------------------- MODULE DecoderProofs ---------------------------
(***************************************************************************)
(* Theorems about Decoder, for every number of slots, pictures and tiles:  *)
(* who holds a picture, what a slot holds, which frames a strict decoder   *)
(* lets through, and that Decoder implements FrameStore.                   *)
(***************************************************************************)
EXTENDS Decoder, FiniteSetTheorems, SequenceTheorems, FunctionTheorems, TLAPS

-----------------------------------------------------------------------------
(* Counting the holders of a picture. *)

\* The number of slots of R that point to a picture is a natural number.
LEMMA InSlotsType ==
  ASSUME NEW R \in SUBSET Slots
  PROVE  InSlots(R) \in [Pics -> Nat]
<1>1. ASSUME NEW q \in Pics
      PROVE  Cardinality({s \in R : refs[s].pic = q}) \in Nat
  <2>1. {s \in R : refs[s].pic = q} \in SUBSET Slots  OBVIOUS
  <2>2. IsFiniteSet({s \in R : refs[s].pic = q})
    BY <2>1, FS_Subset, ConstantsAssumption
  <2> QED  BY <2>2, FS_CardinalityType
<1> QED  BY <1>1 DEF InSlots

\* So is the number of times it occurs in a sequence.
LEMMA OccurrencesType ==
  ASSUME NEW sq \in Seq(Pics), NEW q
  PROVE  /\ IsFiniteSet({i \in DOMAIN sq : sq[i] = q})
         /\ Occurrences(sq, q) \in Nat
<1>1. IsFiniteSet(DOMAIN sq)
  BY LenProperties, FS_Interval
<1>2. {i \in DOMAIN sq : sq[i] = q} \in SUBSET DOMAIN sq  OBVIOUS
<1>3. IsFiniteSet({i \in DOMAIN sq : sq[i] = q})
  BY <1>1, <1>2, FS_Subset
<1> QED  BY <1>3, FS_CardinalityType DEF Occurrences

\* Appending adds one occurrence.
LEMMA OccurrencesAppend ==
  ASSUME NEW sq \in Seq(Pics), NEW x \in Pics, NEW q
  PROVE  Occurrences(Append(sq, x), q) =
           Occurrences(sq, q) + IF x = q THEN 1 ELSE 0
<1> DEFINE A == {i \in DOMAIN sq : sq[i] = q}
           B == {i \in DOMAIN Append(sq, x) : Append(sq, x)[i] = q}
           n == Len(sq) + 1
<1>1. n \in Nat /\ DOMAIN sq = 1 .. Len(sq) /\ DOMAIN Append(sq, x) = 1 .. n
  BY LenProperties, AppendProperties
<1>2. /\ \A i \in 1 .. Len(sq) : Append(sq, x)[i] = sq[i]
      /\ Append(sq, x)[n] = x
  BY <1>1, AppendProperties
<1>3. B = IF x = q THEN A \cup {n} ELSE A
  BY <1>1, <1>2
<1>4. n \notin A
  BY <1>1
<1>5. IsFiniteSet(A) /\ Cardinality(A) \in Nat
  BY OccurrencesType DEF Occurrences
<1> HIDE DEF A, B, n
<1>6. Cardinality(A \cup {n}) = Cardinality(A) + 1
  BY <1>4, <1>5, FS_AddElement
<1>7. Cardinality(B) = Cardinality(A) + IF x = q THEN 1 ELSE 0
  BY <1>3, <1>5, <1>6
<1> QED  BY <1>7 DEF A, B, Occurrences

\* Taking the head away removes one.
LEMMA OccurrencesTail ==
  ASSUME NEW sq \in Seq(Pics), sq # <<>>, NEW q
  PROVE  Occurrences(sq, q) =
           Occurrences(Tail(sq), q) + IF Head(sq) = q THEN 1 ELSE 0
<1> DEFINE A == {i \in DOMAIN sq : sq[i] = q}
           B == {i \in DOMAIN Tail(sq) : Tail(sq)[i] = q}
           C == A \ {1}
           F == [i \in B |-> i + 1]
<1>1. /\ Len(sq) \in Nat \ {0} /\ DOMAIN sq = 1 .. Len(sq)
      /\ Tail(sq) \in Seq(Pics) /\ DOMAIN Tail(sq) = 1 .. (Len(sq) - 1)
  BY LenProperties, EmptySeq, HeadTailProperties
<1>2. /\ Head(sq) = sq[1]
      /\ \A i \in 1 .. (Len(sq) - 1) : Tail(sq)[i] = sq[i + 1]
  BY <1>1, HeadTailProperties
<1>3. IsFiniteSet(A) /\ IsFiniteSet(B) /\ Cardinality(A) \in Nat
  BY <1>1, OccurrencesType DEF Occurrences
<1>4. Cardinality(C) = Cardinality(B)
  <2>1. F \in [B -> C]
    BY <1>1, <1>2
  <2>2. \A a, b \in B : F[a] = F[b] => a = b
    BY <1>1
  <2>3. ASSUME NEW c \in C PROVE \E b \in B : F[b] = c
    <3>1. c - 1 \in B
      BY <1>1, <1>2
    <3> QED  BY <3>1, <1>1
  <2>4. F \in Bijection(B, C)
    <3> HIDE DEF F, B, C
    <3> QED  BY <2>1, <2>2, <2>3, Fun_IsBij
  <2>5. ExistsBijection(B, C)
    BY <2>4 DEF ExistsBijection
  <2> HIDE DEF B, C
  <2> QED  BY <2>5, <1>3, FS_Bijection
<1>5. 1 \in A <=> Head(sq) = q
  BY <1>1, <1>2
<1>6. Cardinality(C) = IF 1 \in A THEN Cardinality(A) - 1 ELSE Cardinality(A)
  <2> HIDE DEF A
  <2> QED  BY <1>3, FS_RemoveElement
<1> HIDE DEF A, B, C
<1>7. Cardinality(A) = Cardinality(B) + IF Head(sq) = q THEN 1 ELSE 0
  BY <1>3, <1>4, <1>5, <1>6
<1> QED  BY <1>7 DEF A, B, Occurrences

\* The number of times a picture is queued is a natural number.
LEMMA InQueueType ==
  ASSUME outQ \in Seq(Pics)
  PROVE  InQueue \in [Pics -> Nat]
BY OccurrencesType DEF InQueue

\* The operations on the heap keep its type.
LEMMA HoldersType ==
  /\ \A p : One(p) \in [Pics -> Nat]
  /\ \A m, n \in [Pics -> Nat] : Both(m, n) \in [Pics -> Nat]
BY DEF One, Both

\* Releasing, retaining and acquiring keep the heap's type.
LEMMA HeapOperations ==
  ASSUME NEW hp \in Heap
  PROVE  /\ \A n \in [Pics -> Nat] : Released(hp, n) \in Heap
         /\ \A p \in Pics, n \in Nat : Retained(hp, p, n) \in Heap
         /\ \A p \in Pics : Acquired(hp, p) \in Heap
<1>1. ASSUME NEW n \in [Pics -> Nat]
      PROVE  Released(hp, n) \in Heap
  BY <1>1 DEF Released, Heap
<1>2. ASSUME NEW p \in Pics, NEW n \in Nat
      PROVE  Retained(hp, p, n) \in Heap
  BY DEF Retained, Heap
<1>3. ASSUME NEW p \in Pics
      PROVE  Acquired(hp, p) \in Heap
  BY DEF Acquired, Heap
<1> QED  BY <1>1, <1>2, <1>3

\* So does dropping the pending frame.
LEMMA DiscardedHeapType ==
  ASSUME heap \in Heap
  PROVE  DiscardedHeap \in Heap
BY HoldersType, HeapOperations DEF DiscardedHeap

-----------------------------------------------------------------------------
(* Type correctness. *)

\* The CDF a refreshed slot receives is never nil.
LEMMA CdfType ==
  ASSUME refs \in [Slots -> Ref], NEW h \in Header, NEW cdf \in Frames \cup {Nil}
  PROVE  CdfForReferenceUpdate(h, cdf) \in (Frames \cup {DefaultCdf}) \ {Nil}
<1>1. InitialFrameCDF(h) \in Frames \cup {DefaultCdf, Nil}
  BY DEF InitialFrameCDF, Header, Ref
<1>2. Nil \notin Frames /\ Nil # DefaultCdf
  BY NilAssumption DEF Frames, DefaultCdf
<1> QED  BY <1>1, <1>2 DEF CdfForReferenceUpdate

\* Finishing a frame keeps the heap, the slots and the queue well typed.
LEMMA FinishFrameType ==
  ASSUME TypeOK, NEW hp \in Heap, NEW pic \in Pics, NEW h \in Header,
         NEW f \in Frames, NEW cdf \in Frames \cup {Nil},
         NEW mv \in Frames \cup {Nil}, FinishFrame(hp, pic, h, f, cdf, mv)
  PROVE  /\ heap' \in Heap
         /\ refs' \in [Slots -> Ref]
         /\ outQ' \in Seq(Pics)
<1>1. h.refresh \in SUBSET Slots
  BY DEF Header
<1>2. Cardinality(h.refresh) \in Nat
  BY <1>1, FS_Subset, FS_CardinalityType, ConstantsAssumption
<1> DEFINE n == Cardinality(h.refresh) + IF IsShown(h) THEN 1 ELSE 0
<1>3. n \in Nat
  BY <1>2
<1>4. Retained(hp, pic, n) \in Heap
  BY <1>3, HeapOperations
<1>5. Both(InSlots(h.refresh), One(pic)) \in [Pics -> Nat]
  BY <1>1, InSlotsType, HoldersType
<1>6. heap' \in Heap
  <2>1. heap' = Released(Retained(hp, pic, n),
                         Both(InSlots(h.refresh), One(pic)))
    BY DEF FinishFrame
  <2> QED  BY <2>1, <1>4, <1>5, HeapOperations
<1>7. refs' \in [Slots -> Ref]
  <2>1. CdfForReferenceUpdate(h, cdf) \in Frames \cup {DefaultCdf, Nil}
    BY CdfType DEF TypeOK
  <2> DEFINE new == [fhdr |-> f, pic |-> pic,
                     cdf |-> CdfForReferenceUpdate(h, cdf),
                     mv  |-> IF h.intra THEN Nil ELSE mv]
  <2>2. new \in Ref
    BY <2>1 DEF Ref
  <2>3. refs' = [s \in Slots |-> IF s \in h.refresh THEN new ELSE refs[s]]
    BY DEF FinishFrame, RefreshedSlots
  <2> HIDE DEF new
  <2> QED  BY <2>2, <2>3 DEF TypeOK
<1>8. outQ' \in Seq(Pics)
  BY AppendProperties DEF FinishFrame, TypeOK
<1> QED  BY <1>6, <1>7, <1>8

\* Dropping the pending frame keeps the types.
LEMMA DiscardPendingType ==
  ASSUME TypeOK
  PROVE  /\ DiscardedHeap \in Heap
         /\ fsOut - PendingState \in Int
         /\ \A p : p \in DiscardedHeap.pool => p \in Pics
<1>1. DiscardedHeap \in Heap
  BY DiscardedHeapType DEF TypeOK
<1>2. fsOut - PendingState \in Int
  BY DEF TypeOK, PendingState
<1> QED  BY <1>1, <1>2 DEF Heap

\* Decoding a tile group writes samples of that frame, or damaged ones.
LEMMA DecodedType ==
  ASSUME NEW f \in Frames, NEW a, NEW b, NEW cut,
         NEW old \in Contents
  PROVE  Decoded(old, f, a, b, cut) \in Contents
BY DEF Decoded, Contents

\* The samples a frame starts from.
LEMMA SeededType ==
  ASSUME TypeOK, NEW p \in Pics
  PROVE  Seeded(p) \in Contents
BY DEF Seeded, TypeOK, Contents

\* The CDFs a tile group leaves.
LEMMA DecodedCdfType ==
  ASSUME NEW f \in Frames, NEW h, NEW a, NEW b, NEW cut
  PROVE  DecodedCdf(h, f, a, b, cut) \in Frames \cup {Nil}
BY DEF DecodedCdf

\* The tile the stream is at stays within the frame.
LEMMA ExpectType ==
  ASSUME NEW t \in 1 .. (NTiles + 1), Expect(t)
  PROVE  nextTile' \in 1 .. (NTiles + 1)
BY ConstantsAssumption DEF Expect

\* The pending frame is one.
LEMMA PendingType ==
  ASSUME TypeOK, pending # Nil
  PROVE  pending \in Pending
BY DEF TypeOK

\* What a frame header makes pending.
LEMMA PendingRecordType ==
  ASSUME TypeOK, frames < MaxFrames
  PROVE  \A h \in Headers, p \in Pics :
           [frame |-> frames + 1, hdr |-> h, pic |-> p, cdf |-> Nil, fs |-> FALSE,
            alias |-> [s \in Slots |-> refs[s].pic],
            mvs   |-> [s \in Slots |-> refs[s].mv]] \in Pending
<1>1. frames + 1 \in Frames
  BY ConstantsAssumption DEF Frames, TypeOK
<1>2. /\ [s \in Slots |-> refs[s].pic] \in [Slots -> Pics \cup {Nil}]
      /\ [s \in Slots |-> refs[s].mv] \in [Slots -> Frames \cup {Nil}]
  BY DEF TypeOK, Ref
<1> QED  BY <1>1, <1>2 DEF Pending

\* The initial state is well typed.
LEMMA InitTypeOK == Init => TypeOK
<1> HAVE Init
<1>1. refs \in [Slots -> Ref]
  BY DEF Init, Ref
<1>2. heap \in Heap
  BY DEF Init, Heap
<1>3. samples \in [Pics -> Contents]
  BY DEF Init, Contents
<1>4. outQ \in Seq(Pics)
  BY EmptySeq DEF Init
<1>5. frames \in 0 .. MaxFrames /\ nextTile \in 1 .. (NTiles + 1)
  BY ConstantsAssumption DEF Init
<1>6. seq \in BOOLEAN /\ closed \in BOOLEAN /\ busy \in BOOLEAN
  BY Zenon DEF Init
<1>7. pending \in Pending \cup {Nil}
  BY Zenon DEF Init
<1>8. fsOut \in Int /\ held \in [Pics -> Nat]
  BY DEF Init
<1> HIDE DEF Init
<1> QED  BY <1>1, <1>2, <1>3, <1>4, <1>5, <1>6, <1>7, <1>8 DEF TypeOK

\* Every step keeps the types.
LEMMA NextTypeOK == TypeOK /\ [Next]_vars => TypeOK'
<1> SUFFICES ASSUME TypeOK, [Next]_vars PROVE TypeOK'
  OBVIOUS
<1> USE DiscardPendingType
<1>1. CASE SendData \/ SendDataReturn
  BY <1>1 DEF SendData, SendDataReturn, TypeOK
<1>2. ASSUME NEW ok \in BOOLEAN, SequenceHeader(ok) PROVE TypeOK'
  BY <1>2 DEF SequenceHeader, TypeOK
<1>3. CASE TemporalDelimiter
  BY <1>3 DEF TemporalDelimiter, DiscardPending, TypeOK
<1>4. CASE HeaderError
  <2>1. PICK t \in {1, NTiles + 1} : Expect(t)
    BY <1>4 DEF HeaderError
  <2>2. nextTile' \in 1 .. (NTiles + 1)
    BY <2>1, ExpectType, ConstantsAssumption
  <2>3. busy' \in BOOLEAN
    BY <1>4, ConstantsAssumption DEF HeaderError
  <2> QED
    BY <1>4, <2>2, <2>3 DEF HeaderError, HeaderArrives, DiscardPending, TypeOK
<1>5. ASSUME NEW s \in Slots, ShowExistingFrame(s) PROVE TypeOK'
  <2>1. CASE refs[s].pic = Nil
    BY <1>5, <2>1 DEF ShowExistingFrame, HeaderArrives, DiscardPending, TypeOK
  <2>2. CASE refs[s].pic # Nil
    <3>1. refs[s].pic \in Pics
      BY <2>2 DEF TypeOK, Ref
    <3>2. heap' \in Heap
      <4>1. heap' = Retained(DiscardedHeap, refs[s].pic, 1)
        BY <1>5, <2>2 DEF ShowExistingFrame
      <4> QED  BY <4>1, <3>1, HeapOperations
    <3>3. outQ' \in Seq(Pics)
      <4>1. outQ' = Append(outQ, refs[s].pic) /\ outQ \in Seq(Pics)
        BY <1>5, <2>2 DEF ShowExistingFrame, TypeOK
      <4> QED  BY <4>1, <3>1, AppendProperties
    <3> QED
      BY <1>5, <3>2, <3>3
      DEF ShowExistingFrame, HeaderArrives, DiscardPending, TypeOK
  <2> QED  BY <2>1, <2>2
<1>6. ASSUME NEW h \in Headers, FrameHeaderObu(h) PROVE TypeOK'
  <2>1. PICK p \in DiscardedHeap.pool :
          /\ heap' = Acquired(DiscardedHeap, p)
          /\ samples' = [samples EXCEPT ![p] = Seeded(p)]
          /\ pending' = [frame |-> frames + 1, hdr |-> h, pic |-> p, cdf |-> Nil,
                         fs |-> FALSE,
                         alias |-> [s \in Slots |-> refs[s].pic],
                         mvs   |-> [s \in Slots |-> refs[s].mv]]
    BY <1>6 DEF FrameHeaderObu
  <2>2. p \in Pics
    BY <2>1
  <2>3. heap' \in Heap
    BY <2>1, <2>2, HeapOperations
  <2>4. samples' \in [Pics -> Contents]
    BY <2>1, <2>2, SeededType DEF TypeOK
  <2>5. frames + 1 \in Frames
    BY <1>6, ConstantsAssumption DEF FrameHeaderObu, Frames, TypeOK
  <2>6. pending' \in Pending
    BY <1>6, <2>1, <2>2, PendingRecordType DEF FrameHeaderObu
  <2>7. nextTile' \in 1 .. (NTiles + 1)
    BY <1>6, ExpectType, ConstantsAssumption DEF FrameHeaderObu
  <2>8. frames' \in 0 .. MaxFrames
    BY <1>6, <2>5 DEF FrameHeaderObu, Frames
  <2> QED
    BY <1>6, <2>3, <2>4, <2>6, <2>7, <2>8 DEF FrameHeaderObu, TypeOK
<1>7. ASSUME NEW b \in Tiles, SkippedTileGroup(b) PROVE TypeOK'
  <2>1. nextTile' \in 1 .. (NTiles + 1)
    BY <1>7, ExpectType, ConstantsAssumption DEF SkippedTileGroup, Tiles
  <2> QED  BY <1>7, <2>1 DEF SkippedTileGroup, TypeOK
<1>8. ASSUME NEW a \in Tiles, NEW b \in Tiles, NEW cut \in 0 .. (NTiles + 1),
             TileGroupError(a, b, cut)
      PROVE  TypeOK'
  <2>1. pending \in Pending
    BY <1>8, PendingType DEF TileGroupError
  <2>2. nextTile' \in 1 .. (NTiles + 1)
    BY <1>8, ExpectType, ConstantsAssumption DEF TileGroupError, Tiles
  <2>3. samples' \in [Pics -> Contents]
    BY <1>8, <2>1, DecodedType DEF TileGroupError, Pending, TypeOK
  <2>4. fsOut' \in Int
    BY <1>8 DEF TileGroupError, AcquiredState, ReleasedState, TypeOK
  <2>5. heap' \in Heap
    BY <1>8 DEF TileGroupError
  <2> QED  BY <1>8, <2>2, <2>3, <2>4, <2>5 DEF TileGroupError, TypeOK
<1>9. ASSUME NEW a \in Tiles, NEW b \in Tiles, NEW cut \in 0 .. (NTiles + 1),
             TileGroupObu(a, b, cut)
      PROVE  TypeOK'
  <2>1. pending \in Pending
    BY <1>9, PendingType DEF TileGroupObu
  <2> DEFINE new == DecodedCdf(pending.hdr, pending.frame, a, b, cut)
             cdf == IF new # Nil THEN new ELSE pending.cdf
             out == AcquiredState(fsOut, pending.fs, cut)
  <2>2. nextTile' \in 1 .. (NTiles + 1)
    BY <1>9, ExpectType, ConstantsAssumption DEF TileGroupObu, Tiles
  <2>3. samples' \in [Pics -> Contents]
    BY <1>9, <2>1, DecodedType DEF TileGroupObu, Pending, TypeOK
  <2>4. cdf \in Frames \cup {Nil}
    BY <2>1, DecodedCdfType DEF Pending
  <2>5. CASE cut # 0 /\ Completes(b)
    <3>1. /\ FinishFrame(heap, pending.pic, pending.hdr, pending.frame, cdf,
                         pending.frame)
          /\ pending' = Nil
          /\ fsOut' = ReleasedState(out, TRUE)
      BY <1>9, <2>5 DEF TileGroupObu
    <3>3. fsOut' \in Int
      BY <3>1 DEF AcquiredState, ReleasedState, TypeOK
    <3>2. heap' \in Heap /\ refs' \in [Slots -> Ref] /\ outQ' \in Seq(Pics)
      <4>1. /\ pending.pic \in Pics /\ pending.hdr \in Header
            /\ pending.frame \in Frames /\ heap \in Heap
        BY <2>1, ConstantsAssumption DEF Pending, TypeOK
      <4> HIDE DEF cdf
      <4> QED  BY <4>1, <3>1, <2>4, FinishFrameType
    <3> QED  BY <1>9, <2>2, <2>3, <3>1, <3>2, <3>3 DEF TileGroupObu, TypeOK
  <2>6. CASE ~(cut # 0 /\ Completes(b))
    <3>1. /\ pending' = [pending EXCEPT !.cdf = cdf, !.fs = @ \/ cut # 0]
          /\ fsOut' = out
          /\ UNCHANGED <<heap, refs, outQ>>
      BY <1>9, <2>6 DEF TileGroupObu
    <3>2. pending' \in Pending
      BY <2>1, <2>4, <3>1 DEF Pending
    <3>3. fsOut' \in Int
      BY <3>1 DEF AcquiredState, TypeOK
    <3> QED  BY <1>9, <2>2, <2>3, <3>1, <3>2, <3>3 DEF TileGroupObu, TypeOK
  <2> QED  BY <2>5, <2>6
<1>10. ASSUME NEW h \in Headers, NEW a \in Tiles, NEW b \in Tiles,
              NEW cut \in 0 .. (NTiles + 1), FrameObu(h, a, b, cut)
       PROVE  TypeOK'
  <2> DEFINE f  == frames + 1
             mv == IF cut = 0 THEN Nil ELSE f
  <2>1. PICK p \in DiscardedHeap.pool :
          /\ samples' = [samples EXCEPT ![p] = Decoded(Seeded(p), f, a, b, cut)]
          /\ IF cut = b + 1 \/ BestEffort
             THEN /\ FinishFrame(Acquired(DiscardedHeap, p), p, h, f,
                                 DecodedCdf(h, f, a, b, cut), mv)
                  /\ UNCHANGED busy
             ELSE /\ heap' = Released(Acquired(DiscardedHeap, p), One(p))
                  /\ busy' = FALSE
                  /\ UNCHANGED <<refs, outQ>>
    BY <1>10 DEF FrameObu
  <2>2. p \in Pics /\ h \in Header
    BY <2>1, ConstantsAssumption
  <2>3. f \in Frames
    BY <1>10, ConstantsAssumption DEF FrameObu, Frames, TypeOK
  <2>4. samples' \in [Pics -> Contents]
    BY <2>1, <2>2, <2>3, SeededType, DecodedType DEF TypeOK
  <2>5. nextTile' \in 1 .. (NTiles + 1)
    BY <1>10, ExpectType, ConstantsAssumption DEF FrameObu, Tiles
  <2>6. Acquired(DiscardedHeap, p) \in Heap
    BY <2>2, HeapOperations
  <2>7. DecodedCdf(h, f, a, b, cut) \in Frames \cup {Nil} /\ mv \in Frames \cup {Nil}
    BY <2>3, DecodedCdfType
  <2>8. /\ heap' \in Heap /\ refs' \in [Slots -> Ref] /\ outQ' \in Seq(Pics)
        /\ busy' \in BOOLEAN
    <3>1. CASE cut = b + 1 \/ BestEffort
      <4> HIDE DEF f, mv
      <4>1. FinishFrame(Acquired(DiscardedHeap, p), p, h, f,
                        DecodedCdf(h, f, a, b, cut), mv)
        BY <2>1, <3>1
      <4>2. heap' \in Heap /\ refs' \in [Slots -> Ref] /\ outQ' \in Seq(Pics)
        BY <4>1, <2>2, <2>3, <2>6, <2>7, FinishFrameType
      <4> QED  BY <4>2, <2>1, <3>1 DEF TypeOK
    <3>2. CASE ~(cut = b + 1 \/ BestEffort)
      <4>1. heap' = Released(Acquired(DiscardedHeap, p), One(p))
        BY <2>1, <3>2
      <4>2. heap' \in Heap
        BY <4>1, <2>6, HeapOperations, HoldersType
      <4> QED  BY <4>2, <2>1, <3>2 DEF TypeOK
    <3> QED  BY <3>1, <3>2
  <2>9. frames' \in 0 .. MaxFrames
    BY <1>10, <2>3 DEF FrameObu, Frames
  <2>10. fsOut' \in Int
    <3>1. fsOut' =
            ReleasedState(AcquiredState(fsOut - PendingState, FALSE, cut), cut # 0)
      BY <1>10 DEF FrameObu
    <3> QED  BY <3>1, DiscardPendingType DEF AcquiredState, ReleasedState
  <2> QED
    BY <1>10, <2>4, <2>5, <2>8, <2>9, <2>10 DEF FrameObu, TypeOK
<1>11. CASE GetPicture
  <2>1. Head(outQ) \in Pics /\ outQ' \in Seq(Pics)
    BY <1>11, HeadTailProperties DEF GetPicture, TypeOK
  <2> QED  BY <1>11, <2>1 DEF GetPicture, TypeOK
<1>12. CASE Flush
  <2>1. nextTile' \in 1 .. (NTiles + 1)
    <3>1. PICK t \in {nextTile, NTiles + 1} : Expect(t)
      BY <1>12 DEF Flush
    <3> QED  BY <3>1, ExpectType, ConstantsAssumption DEF TypeOK
  <2>2. refs' \in [Slots -> Ref]
    BY <1>12 DEF Flush, TypeOK, Ref
  <2>3. heap' \in Heap
    BY <1>12, InSlotsType, HoldersType, HeapOperations DEF Flush, TypeOK
  <2> QED  BY <1>12, <2>1, <2>2, <2>3 DEF Flush, DiscardPending, TypeOK
<1>13. CASE Close
  <2>1. refs' \in [Slots -> Ref]
    BY <1>13 DEF Close, TypeOK, Ref
  <2>2. outQ' \in Seq(Pics)
    BY <1>13, EmptySeq, Zenon DEF Close
  <2>3. heap' \in Heap
    BY <1>13, InSlotsType, InQueueType, HoldersType, HeapOperations
    DEF Close, TypeOK
  <2> QED  BY <1>13, <2>1, <2>2, <2>3 DEF Close, DiscardPending, TypeOK
<1>14. ASSUME NEW p \in Pics, RetainPicture(p) PROVE TypeOK'
  <2>1. heap' \in Heap
    BY <1>14, HeapOperations DEF RetainPicture, TypeOK
  <2>2. held' \in [Pics -> Nat]
    BY <1>14 DEF RetainPicture, TypeOK
  <2> QED  BY <1>14, <2>1, <2>2 DEF RetainPicture, TypeOK
<1>15. ASSUME NEW p \in Pics, ReleasePicture(p) PROVE TypeOK'
  <2>1. heap' \in Heap
    BY <1>15 DEF ReleasePicture, TypeOK, Heap
  <2>2. held' \in [Pics -> Nat]
    BY <1>15 DEF ReleasePicture, TypeOK
  <2> QED  BY <1>15, <2>1, <2>2 DEF ReleasePicture, TypeOK
<1>16. ASSUME NEW p \in Pics, ReleaseCallback(p) PROVE TypeOK'
  <2>1. heap' \in Heap
    BY <1>16 DEF ReleaseCallback, TypeOK, Heap
  <2> QED  BY <1>16, <2>1 DEF ReleaseCallback, TypeOK
<1>17. CASE UNCHANGED vars
  BY <1>17 DEF vars, TypeOK
<1> QED
  BY <1>1, <1>2, <1>3, <1>4, <1>5, <1>6, <1>7, <1>8, <1>9, <1>10, <1>11, <1>12,
     <1>13, <1>14, <1>15, <1>16, <1>17
  DEF Next, RouteOBU, Consumer

\* Every reachable state is well typed, whatever the stream carries.
THEOREM TypeCorrect == Spec => []TypeOK
<1>1. Init => TypeOK
  BY InitTypeOK
<1>2. TypeOK /\ [Next]_vars => TypeOK'
  BY NextTypeOK
<1> QED  BY <1>1, <1>2, PTL DEF Spec

-----------------------------------------------------------------------------
(* Reference counts. *)

\* Every count of hp is the number n of holders, and what is free has none.
Balanced(hp, n) ==
  /\ \A q \in Pics : hp.cnt[q] = n[q]
  /\ \A q \in hp.pool \cup hp.releasing : hp.cnt[q] = 0
  /\ hp.pool \cap hp.releasing = {}

\* The inductive invariant: counts are exact, and free pictures are idle.
PictureInv == TypeOK /\ Balanced(heap, Holders)

\* Giving holders up leaves the heap balanced by the others.
LEMMA ReleaseBalanced ==
  ASSUME NEW hp \in Heap, NEW n \in [Pics -> Nat], NEW m \in [Pics -> Nat],
         Balanced(hp, n), \A q \in Pics : m[q] <= n[q]
  PROVE  Balanced(Released(hp, m), [q \in Pics |-> n[q] - m[q]])
<1> DEFINE cnt == [p \in Pics |-> hp.cnt[p] - m[p]]
           freed == {p \in Pics : m[p] > 0 /\ cnt[p] = 0}
<1>1. /\ Released(hp, m).cnt = cnt
      /\ Released(hp, m).pool = hp.pool \cup freed
      /\ Released(hp, m).releasing = hp.releasing
  BY DEF Released
<1>2. \A q \in Pics : cnt[q] = n[q] - m[q] /\ cnt[q] \in Nat
  BY DEF Balanced, Heap
<1>3. \A q \in hp.pool \cup hp.releasing : cnt[q] = 0
  <2>1. TAKE q \in hp.pool \cup hp.releasing
  <2>2. q \in Pics /\ hp.cnt[q] = 0 /\ n[q] = 0
    BY DEF Balanced, Heap
  <2>3. m[q] = 0
    BY <2>2
  <2> QED  BY <2>2, <2>3
<1>4. \A q \in freed : q \notin hp.releasing
  BY DEF Balanced, Heap
<1>5. \A q \in freed : cnt[q] = 0
  OBVIOUS
<1> HIDE DEF cnt, freed
<1> QED  BY <1>1, <1>2, <1>3, <1>4, <1>5 DEF Balanced

\* More holders of a picture that has one.
LEMMA RetainBalanced ==
  ASSUME NEW hp \in Heap, NEW n \in [Pics -> Nat], NEW p \in Pics, NEW k \in Nat,
         Balanced(hp, n), n[p] > 0
  PROVE  Balanced(Retained(hp, p, k), [n EXCEPT ![p] = @ + k])
<1>1. /\ Retained(hp, p, k).cnt = [hp.cnt EXCEPT ![p] = @ + k]
      /\ Retained(hp, p, k).pool = hp.pool /\ Retained(hp, p, k).releasing = hp.releasing
  BY DEF Retained
<1>2. p \notin hp.pool \cup hp.releasing
  BY DEF Balanced
<1> QED  BY <1>1, <1>2 DEF Balanced, Heap

\* A picture from the pool has no holder, and then one.
LEMMA AcquireBalanced ==
  ASSUME NEW hp \in Heap, NEW n \in [Pics -> Nat], Balanced(hp, n),
         NEW p \in hp.pool
  PROVE  n[p] = 0 /\ Balanced(Acquired(hp, p), [n EXCEPT ![p] = 1])
<1>1. /\ Acquired(hp, p).cnt = [hp.cnt EXCEPT ![p] = 1]
      /\ Acquired(hp, p).pool = hp.pool \ {p} /\ Acquired(hp, p).releasing = hp.releasing
  BY DEF Acquired
<1>2. p \in Pics /\ n[p] = 0
  BY DEF Balanced, Heap
<1> QED  BY <1>1, <1>2 DEF Balanced, Heap

\* A subset of the slots holds a picture at most as often as all of them.
LEMMA InSlotsMonotone ==
  ASSUME NEW R \in SUBSET Slots, NEW q \in Pics
  PROVE  InSlots(R)[q] <= InSlots(Slots)[q]
<1> DEFINE A == {s \in R : refs[s].pic = q}
           B == {s \in Slots : refs[s].pic = q}
<1>1. A \in SUBSET B /\ B \in SUBSET Slots  OBVIOUS
<1>2. IsFiniteSet(B)
  BY <1>1, FS_Subset, ConstantsAssumption
<1>3. Cardinality(A) <= Cardinality(B)
  BY <1>1, <1>2, FS_Subset
<1> QED  BY <1>3 DEF InSlots

\* Refreshing the slots of R exchanges the pictures they held for pic.
LEMMA RefreshCounts ==
  ASSUME NEW R \in SUBSET Slots, NEW q \in Pics, NEW pic,
         \A s \in Slots : refs'[s].pic = IF s \in R THEN pic ELSE refs[s].pic
  PROVE  InSlots(Slots)'[q] = InSlots(Slots)[q] - InSlots(R)[q]
                                + IF q = pic THEN Cardinality(R) ELSE 0
<1> DEFINE A == {s \in Slots : refs[s].pic = q}
           B == {s \in R : refs[s].pic = q}
           C == {s \in Slots : refs'[s].pic = q}
           D == A \ R
<1>1. /\ A \in SUBSET Slots /\ B = A \cap R
      /\ C = IF q = pic THEN D \cup R ELSE D
      /\ D \cap R = {}
  OBVIOUS
<1>2. /\ IsFiniteSet(A) /\ IsFiniteSet(R) /\ IsFiniteSet(D)
      /\ Cardinality(A) \in Nat /\ Cardinality(R) \in Nat
  BY <1>1, FS_Subset, FS_CardinalityType, FS_Difference, ConstantsAssumption
<1>3. /\ Cardinality(D) = Cardinality(A) - Cardinality(B)
      /\ Cardinality(D) \in Nat /\ Cardinality(B) \in Nat
  <2>1. Cardinality(D) = Cardinality(A) - Cardinality(A \cap R)
    <3> HIDE DEF A
    <3> QED  BY <1>2, FS_Difference
  <2>2. IsFiniteSet(B)
    BY <1>2, FS_Subset
  <2> HIDE DEF A, B, D
  <2> QED  BY <2>1, <2>2, <1>1, <1>2, FS_CardinalityType
<1>4. Cardinality(D \cup R) = Cardinality(D) + Cardinality(R)
  <2>1. Cardinality(D \cup R) =
          Cardinality(D) + Cardinality(R) - Cardinality(D \cap R)
    <3> HIDE DEF D
    <3> QED  BY <1>2, FS_Union
  <2>2. Cardinality(D \cap R) = 0
    BY <1>1, FS_EmptySet, Zenon
  <2> HIDE DEF D
  <2> QED  BY <2>1, <2>2, <1>2, <1>3
<1>5. InSlots(Slots)'[q] = Cardinality(C)
  BY DEF InSlots
<1>6. InSlots(Slots)[q] = Cardinality(A) /\ InSlots(R)[q] = Cardinality(B)
  BY DEF InSlots
<1> HIDE DEF A, B, C, D
<1>7. Cardinality(C) = Cardinality(A) - Cardinality(B)
                         + IF q = pic THEN Cardinality(R) ELSE 0
  BY <1>1, <1>2, <1>3, <1>4
<1> QED  BY <1>5, <1>6, <1>7

\* The holders other than the pending frame.
Rest == [q \in Pics |-> InSlots(Slots)[q] + InQueue[q] + held[q]]

\* All holders but the pending frame.
LEMMA RestType ==
  ASSUME TypeOK
  PROVE  /\ Rest \in [Pics -> Nat]
         /\ Holders \in [Pics -> Nat]
         /\ \A q \in Pics : Holders[q] = Rest[q] + One(PendingPic)[q]
         /\ InSlots(Slots) \in [Pics -> Nat] /\ InQueue \in [Pics -> Nat]
<1>1. InSlots(Slots) \in [Pics -> Nat] /\ InQueue \in [Pics -> Nat]
      /\ held \in [Pics -> Nat] /\ One(PendingPic) \in [Pics -> Nat]
  BY InSlotsType, InQueueType, HoldersType DEF TypeOK
<1> QED  BY <1>1 DEF Rest, Holders

\* Balance depends on the numbers only.
LEMMA BalancedCongruence ==
  ASSUME NEW hp, NEW n, NEW m, Balanced(hp, n), \A q \in Pics : n[q] = m[q]
  PROVE  Balanced(hp, m)
BY DEF Balanced

\* Dropping the pending frame leaves the heap balanced by the others.
LEMMA DiscardBalanced ==
  ASSUME PictureInv
  PROVE  Balanced(DiscardedHeap, Rest)
<1>1. One(PendingPic) \in [Pics -> Nat] /\ heap \in Heap
  BY HoldersType DEF PictureInv, TypeOK
<1>2. \A q \in Pics : One(PendingPic)[q] <= Holders[q]
  BY <1>1, RestType DEF PictureInv
<1>3. Balanced(DiscardedHeap, [q \in Pics |-> Holders[q] - One(PendingPic)[q]])
  BY <1>1, <1>2, ReleaseBalanced, RestType DEF PictureInv, DiscardedHeap
<1>4. \A q \in Pics : Holders[q] - One(PendingPic)[q] = Rest[q]
  BY <1>1, RestType DEF PictureInv
<1> QED  BY <1>3, <1>4, BalancedCongruence

\* A slot's picture has a holder.
LEMMA SlotHolds ==
  ASSUME TypeOK, NEW s \in Slots, refs[s].pic # Nil
  PROVE  refs[s].pic \in Pics /\ InSlots(Slots)[refs[s].pic] > 0
<1> DEFINE A == {t \in Slots : refs[t].pic = refs[s].pic}
<1>1. refs[s].pic \in Pics
  BY DEF TypeOK, Ref
<1>2. s \in A /\ A \in SUBSET Slots
  OBVIOUS
<1>3. IsFiniteSet(A)
  BY <1>2, FS_Subset, ConstantsAssumption
<1>4. Cardinality(A) \in Nat /\ Cardinality(A) # 0
  <2> HIDE DEF A
  <2> QED  BY <1>2, <1>3, FS_CardinalityType, FS_EmptySet
<1>5. InSlots(Slots)[refs[s].pic] = Cardinality(A)
  BY <1>1 DEF InSlots
<1> HIDE DEF A
<1> QED  BY <1>1, <1>4, <1>5

\* finishFrame turns the initial reference of pic into those of the slots it
\* refreshes and of the queue, and gives back those of the pictures it evicts.
LEMMA FinishFrameBalanced ==
  ASSUME TypeOK, NEW hp \in Heap, NEW pic \in Pics, NEW h \in Header,
         NEW f, NEW cdf, NEW mv,
         Balanced(hp, [q \in Pics |-> Rest[q] + One(pic)[q]]),
         FinishFrame(hp, pic, h, f, cdf, mv)
  PROVE  \A n : (\A q \in Pics : n[q] = InSlots(Slots)'[q] + InQueue'[q] + held[q])
                  => Balanced(heap', n)
<1> DEFINE R    == h.refresh
           k    == Cardinality(R) + IF IsShown(h) THEN 1 ELSE 0
           n0   == [q \in Pics |-> Rest[q] + One(pic)[q]]
           n1   == [n0 EXCEPT ![pic] = @ + k]
           gone == Both(InSlots(R), One(pic))
           n2   == [q \in Pics |-> n1[q] - gone[q]]
<1>1. R \in SUBSET Slots
  BY DEF Header
<1>2. Cardinality(R) \in Nat
  BY <1>1, FS_Subset, FS_CardinalityType, ConstantsAssumption
<1>3. k \in Nat
  BY <1>2
<1>4. One(pic) \in [Pics -> Nat] /\ \A q \in Pics : One(pic)[q] = IF q = pic THEN 1 ELSE 0
  BY DEF One
<1>5. n0 \in [Pics -> Nat] /\ n0[pic] > 0
  BY <1>4, RestType
<1>6. Balanced(Retained(hp, pic, k), n1)
  <2> HIDE DEF n0, k
  <2>1. Balanced(hp, n0)
    BY DEF n0
  <2> QED  BY <2>1, <1>3, <1>5, RetainBalanced
<1>7. n1 \in [Pics -> Nat] /\ \A q \in Pics : n1[q] = n0[q] + IF q = pic THEN k ELSE 0
  <2> HIDE DEF n0, k
  <2> QED  BY <1>3, <1>5
<1>8. /\ gone \in [Pics -> Nat]
      /\ \A q \in Pics : gone[q] = InSlots(R)[q] + One(pic)[q]
      /\ InSlots(R) \in [Pics -> Nat]
  <2>1. InSlots(R) \in [Pics -> Nat]
    BY <1>1, InSlotsType
  <2> QED  BY <2>1, <1>4 DEF Both
<1>9. \A q \in Pics : gone[q] <= n1[q]
  <2> TAKE q \in Pics
  <2>1. InSlots(R)[q] <= InSlots(Slots)[q]
    BY <1>1, InSlotsMonotone
  <2>2. /\ InSlots(R)[q] \in Nat /\ InSlots(Slots)[q] \in Nat /\ InQueue[q] \in Nat
        /\ held[q] \in Nat /\ One(pic)[q] \in Nat
    BY <1>4, <1>8, RestType DEF TypeOK
  <2>3. n1[q] >= InSlots(Slots)[q] + One(pic)[q]
    <3>1. n0[q] = InSlots(Slots)[q] + InQueue[q] + held[q] + One(pic)[q]
      BY DEF Rest
    <3> HIDE DEF n0, n1, k
    <3> QED  BY <3>1, <2>2, <1>3, <1>7
  <2> HIDE DEF gone, n1
  <2>4. gone[q] = InSlots(R)[q] + One(pic)[q] /\ n1[q] \in Nat
    BY <1>7, <1>8
  <2> HIDE DEF R
  <2> QED  BY <2>1, <2>2, <2>3, <2>4
<1>10. Retained(hp, pic, k) \in Heap
  BY <1>3, HeapOperations
<1>11. Balanced(heap', n2)
  <2>1. heap' = Released(Retained(hp, pic, k), gone)
    BY DEF FinishFrame
  <2> HIDE DEF gone, n1, k
  <2> QED  BY <2>1, <1>6, <1>7, <1>8, <1>9, <1>10, ReleaseBalanced
<1>12. ASSUME NEW q \in Pics
       PROVE  n2[q] = InSlots(Slots)'[q] + InQueue'[q] + held[q]
  <2>1. InSlots(Slots)'[q] = InSlots(Slots)[q] - InSlots(R)[q]
                               + IF q = pic THEN Cardinality(R) ELSE 0
    <3>1. \A s \in Slots : refs'[s].pic = IF s \in R THEN pic ELSE refs[s].pic
      BY DEF FinishFrame, RefreshedSlots
    <3> QED  BY <1>1, <3>1, RefreshCounts
  <2>2. InQueue'[q] = InQueue[q] + IF IsShown(h) /\ q = pic THEN 1 ELSE 0
    <3>1. outQ \in Seq(Pics) /\ InQueue'[q] = Occurrences(outQ', q)
          /\ InQueue[q] = Occurrences(outQ, q)
      BY DEF InQueue, TypeOK
    <3>2. outQ' = IF IsShown(h) THEN Append(outQ, pic) ELSE outQ
      BY DEF FinishFrame
    <3>3. Occurrences(outQ, q) \in Nat
      BY <3>1, OccurrencesType
    <3>4. Occurrences(Append(outQ, pic), q) =
            Occurrences(outQ, q) + IF pic = q THEN 1 ELSE 0
      BY <3>1, OccurrencesAppend
    <3>5. CASE IsShown(h)
      BY <3>1, <3>2, <3>3, <3>4, <3>5
    <3>6. CASE ~IsShown(h)
      BY <3>1, <3>2, <3>3, <3>6
    <3> QED  BY <3>5, <3>6
  <2>3. /\ InSlots(R)[q] \in Nat /\ InSlots(Slots)[q] \in Nat /\ InQueue[q] \in Nat
        /\ held[q] \in Nat /\ One(pic)[q] = IF q = pic THEN 1 ELSE 0
    BY <1>4, <1>8, RestType DEF TypeOK
  <2>4. n0[q] = InSlots(Slots)[q] + InQueue[q] + held[q] + One(pic)[q]
    BY DEF Rest
  <2>5. n2[q] = (n0[q] + IF q = pic THEN k ELSE 0)
                  - (InSlots(R)[q] + One(pic)[q])
    <3>1. n2[q] = n1[q] - gone[q]
      OBVIOUS
    <3>2. /\ n1[q] = n0[q] + IF q = pic THEN k ELSE 0
          /\ gone[q] = InSlots(R)[q] + One(pic)[q]
      BY <1>7, <1>8
    <3> HIDE DEF n0, n1, n2, gone, k, R
    <3> QED  BY <3>1, <3>2
  <2> HIDE DEF n0, n1, n2, gone, R
  <2> QED  BY <2>1, <2>2, <2>3, <2>4, <2>5, <1>2
<1> HIDE DEF n2
<1> QED  BY <1>11, <1>12, BalancedCongruence

\* The invariant holds at the start: every picture is in the pool.
LEMMA InitBalanced == Init => Balanced(heap, Holders)
<1> HAVE Init
<1>1. ASSUME NEW q \in Pics PROVE Holders[q] = 0
  <2>1. {s \in Slots : refs[s].pic = q} = {}
    BY NilAssumption DEF Init
  <2>2. {i \in DOMAIN outQ : outQ[i] = q} = {}
    BY DEF Init
  <2>3. InSlots(Slots)[q] = 0 /\ InQueue[q] = 0
    BY <2>1, <2>2, FS_EmptySet, Zenon DEF InSlots, InQueue, Occurrences
  <2>4. One(PendingPic)[q] = 0 /\ held[q] = 0
    BY NilAssumption DEF Init, One, PendingPic
  <2> QED  BY <2>3, <2>4 DEF Holders
<1>2. /\ \A q \in Pics : heap.cnt[q] = 0
      /\ heap.pool = Pics /\ heap.releasing = {}
  BY DEF Init
<1> QED  BY <1>1, <1>2 DEF Balanced

\* A step that drops the pending frame and touches no other holder.
LEMMA DiscardStep ==
  ASSUME PictureInv, heap' = DiscardedHeap, pending' = Nil,
         UNCHANGED <<refs, outQ, held>>
  PROVE  Balanced(heap, Holders)'
<1>1. \A q \in Pics : Holders'[q] = Rest[q]
  <2> TAKE q \in Pics
  <2>1. One(PendingPic)'[q] = 0
    BY NilAssumption DEF One, PendingPic
  <2>2. Holders'[q] = InSlots(Slots)[q] + InQueue[q] + 0 + held[q]
    BY <2>1 DEF Holders, InSlots, InQueue
  <2>3. InSlots(Slots)[q] \in Nat /\ InQueue[q] \in Nat /\ held[q] \in Nat
    BY RestType DEF PictureInv, TypeOK
  <2> QED  BY <2>2, <2>3 DEF Rest
<1> QED  BY <1>1, DiscardBalanced DEF Balanced

\* A step that touches no holder and no count.
LEMMA StutterStep ==
  ASSUME PictureInv, PendingPic' = PendingPic, UNCHANGED <<heap, refs, outQ, held>>
  PROVE  Balanced(heap, Holders)'
<1>1. \A q \in Pics : Holders'[q] = Holders[q]
  BY DEF Holders, InSlots, InQueue, One
<1> QED  BY <1>1 DEF Balanced, PictureInv

\* A step that finishes the frame in pic, no frame being pending after it.
LEMMA FinishStep ==
  ASSUME TypeOK, NEW hp \in Heap, NEW pic \in Pics, NEW h \in Header,
         NEW f, NEW cdf, NEW mv,
         Balanced(hp, [q \in Pics |-> Rest[q] + One(pic)[q]]),
         FinishFrame(hp, pic, h, f, cdf, mv), TypeOK',
         pending' = Nil, held' = held
  PROVE  Balanced(heap, Holders)'
<1>1. \A q \in Pics : Holders'[q] = InSlots(Slots)'[q] + InQueue'[q] + held[q]
  <2> TAKE q \in Pics
  <2>1. One(PendingPic)'[q] = 0
    BY NilAssumption DEF One, PendingPic
  <2>2. InSlots(Slots)' \in [Pics -> Nat] /\ InQueue' \in [Pics -> Nat]
    <3>1. ASSUME NEW r \in Pics
          PROVE  Cardinality({s \in Slots : refs'[s].pic = r}) \in Nat
      <4>1. IsFiniteSet({s \in Slots : refs'[s].pic = r})
        BY FS_Subset, ConstantsAssumption
      <4> QED  BY <4>1, FS_CardinalityType
    <3>2. InSlots(Slots)' \in [Pics -> Nat]
      BY <3>1 DEF InSlots
    <3>3. \A r \in Pics : Occurrences(outQ', r) \in Nat
      BY OccurrencesType DEF TypeOK
    <3> QED  BY <3>2, <3>3 DEF InQueue
  <2>3. held[q] \in Nat
    BY DEF TypeOK
  <2>4. Holders'[q] = InSlots(Slots)'[q] + InQueue'[q] + One(PendingPic)'[q] + held'[q]
    BY DEF Holders
  <2> QED  BY <2>1, <2>2, <2>3, <2>4
<1>2. Balanced(heap', Holders')
  BY <1>1, FinishFrameBalanced
<1> QED  BY <1>2 DEF Balanced

\* Slots without pictures hold nothing.
LEMMA EmptySlots ==
  ASSUME \A s \in Slots : refs'[s].pic = Nil
  PROVE  \A q \in Pics : InSlots(Slots)'[q] = 0
<1> TAKE q \in Pics
<1>1. {s \in Slots : refs'[s].pic = q} = {}
  BY NilAssumption
<1>2. InSlots(Slots)'[q] = Cardinality({s \in Slots : refs'[s].pic = q})
  BY DEF InSlots
<1> QED  BY <1>1, <1>2, FS_EmptySet, Zenon

\* A step that empties the slots and drops the pending frame, with or without
\* the queue, gives back as many references as these held.
LEMMA EvictStep ==
  ASSUME PictureInv, NEW kept \in [Pics -> Nat], NEW gone \in [Pics -> Nat],
         \A q \in Pics : Holders[q] = kept[q] + gone[q],
         \A q \in Pics : Holders'[q] = kept[q],
         heap' = Released(heap, gone)
  PROVE  Balanced(heap, Holders)'
<1>1. heap \in Heap /\ Holders \in [Pics -> Nat] /\ Balanced(heap, Holders)
  BY RestType DEF PictureInv, TypeOK
<1>2. \A q \in Pics : gone[q] <= Holders[q] /\ Holders[q] - gone[q] = kept[q]
  OBVIOUS
<1>3. Balanced(heap', [q \in Pics |-> Holders[q] - gone[q]])
  BY <1>1, <1>2, ReleaseBalanced
<1> QED  BY <1>2, <1>3 DEF Balanced

\* A reference is added to picture p, by the queue or by a consumer.
LEMMA AppendStep ==
  ASSUME TypeOK, NEW p \in Pics, outQ' = Append(outQ, p)
  PROVE  \A q \in Pics : InQueue'[q] = InQueue[q] + IF q = p THEN 1 ELSE 0
<1> TAKE q \in Pics
<1>1. outQ \in Seq(Pics)
  BY DEF TypeOK
<1>2. Occurrences(Append(outQ, p), q) = Occurrences(outQ, q) + IF p = q THEN 1 ELSE 0
  BY <1>1, OccurrencesAppend
<1> QED  BY <1>2 DEF InQueue

\* A consumer's references count among the holders.
LEMMA ConsumerHolds ==
  ASSUME TypeOK, NEW p \in Pics, held[p] > 0
  PROVE  Holders[p] > 0
<1>1. /\ InSlots(Slots)[p] \in Nat /\ InQueue[p] \in Nat /\ held[p] \in Nat
      /\ One(PendingPic)[p] \in Nat
  BY RestType DEF TypeOK, One
<1> QED  BY <1>1 DEF Holders

\* When only the consumers' references change, the holders change alike.
LEMMA ConsumerStep ==
  ASSUME TypeOK, TypeOK', UNCHANGED <<refs, outQ, pending>>
  PROVE  \A q \in Pics : Holders'[q] = (Holders[q] - held[q]) + held'[q]
<1> TAKE q \in Pics
<1>1. /\ InSlots(Slots)[q] \in Nat /\ InQueue[q] \in Nat /\ held[q] \in Nat
      /\ One(PendingPic)[q] \in Nat /\ held'[q] \in Nat
  BY RestType DEF TypeOK, One
<1>2. Holders[q] = InSlots(Slots)[q] + InQueue[q] + One(PendingPic)[q] + held[q]
  BY DEF Holders
<1>3. Holders'[q] = InSlots(Slots)[q] + InQueue[q] + One(PendingPic)[q] + held'[q]
  BY DEF Holders, InSlots, InQueue, One, PendingPic
<1> QED  BY <1>1, <1>2, <1>3

\* Every step keeps the counts exact and the free pictures idle.
LEMMA NextBalanced == PictureInv /\ TypeOK' /\ [Next]_vars => Balanced(heap, Holders)'
<1> SUFFICES ASSUME PictureInv, TypeOK', [Next]_vars
             PROVE  Balanced(heap, Holders)'
  OBVIOUS
<1>0. /\ TypeOK /\ Balanced(heap, Holders)
      /\ heap \in Heap /\ held \in [Pics -> Nat]
      /\ Rest \in [Pics -> Nat] /\ Holders \in [Pics -> Nat]
      /\ InSlots(Slots) \in [Pics -> Nat] /\ InQueue \in [Pics -> Nat]
      /\ DiscardedHeap \in Heap
  BY RestType, DiscardedHeapType DEF PictureInv, TypeOK
<1>1. CASE SendData \/ SendDataReturn
  BY <1>1, StutterStep DEF SendData, SendDataReturn, PendingPic
<1>2. ASSUME NEW ok \in BOOLEAN, SequenceHeader(ok)
      PROVE  Balanced(heap, Holders)'
  BY <1>2, StutterStep DEF SequenceHeader, PendingPic
<1>3. CASE TemporalDelimiter
  BY <1>3, DiscardStep DEF TemporalDelimiter, DiscardPending
<1>4. CASE HeaderError
  BY <1>4, DiscardStep DEF HeaderError, HeaderArrives, DiscardPending
<1>5. ASSUME NEW s \in Slots, ShowExistingFrame(s)
      PROVE  Balanced(heap, Holders)'
  <2>1. CASE refs[s].pic = Nil
    BY <1>5, <2>1, DiscardStep DEF ShowExistingFrame, HeaderArrives, DiscardPending
  <2>2. CASE refs[s].pic # Nil
    <3> DEFINE p == refs[s].pic
    <3>1. p \in Pics /\ InSlots(Slots)[p] > 0
      BY <1>0, <2>2, SlotHolds
    <3>2. Rest[p] > 0
      BY <1>0, <3>1 DEF Rest
    <3>3. /\ heap' = Retained(DiscardedHeap, p, 1)
          /\ outQ' = Append(outQ, p) /\ pending' = Nil
          /\ UNCHANGED <<refs, held>>
      BY <1>5, <2>2 DEF ShowExistingFrame, HeaderArrives, DiscardPending
    <3> HIDE DEF p
    <3>4. Balanced(heap', [Rest EXCEPT ![p] = @ + 1])
      BY <1>0, <3>1, <3>2, <3>3, DiscardBalanced, RetainBalanced
    <3>5. ASSUME NEW q \in Pics
          PROVE  Holders'[q] = [Rest EXCEPT ![p] = @ + 1][q]
      <4>1. One(PendingPic)'[q] = 0
        BY <3>3, NilAssumption DEF One, PendingPic
      <4>2. InQueue'[q] = InQueue[q] + IF q = p THEN 1 ELSE 0
        BY <1>0, <3>1, <3>3, AppendStep
      <4>3. Holders'[q] = InSlots(Slots)[q] + InQueue'[q] + One(PendingPic)'[q] + held[q]
        BY <3>3 DEF Holders, InSlots
      <4> QED  BY <1>0, <3>1, <4>1, <4>2, <4>3 DEF Rest
    <3> QED  BY <3>4, <3>5 DEF Balanced
  <2> QED  BY <2>1, <2>2
<1>6. ASSUME NEW h \in Headers, FrameHeaderObu(h)
      PROVE  Balanced(heap, Holders)'
  <2>1. PICK p \in DiscardedHeap.pool :
          heap' = Acquired(DiscardedHeap, p) /\ pending'.pic = p /\ pending' # Nil
    <3>1. PICK p \in DiscardedHeap.pool :
            /\ heap' = Acquired(DiscardedHeap, p)
            /\ pending' = [frame |-> frames + 1, hdr |-> h, pic |-> p, cdf |-> Nil,
                           fs |-> FALSE,
                           alias |-> [s \in Slots |-> refs[s].pic],
                           mvs   |-> [s \in Slots |-> refs[s].mv]]
      BY <1>6 DEF FrameHeaderObu
    <3>2. pending' \in Pending
      BY <3>1, <1>6, <1>0, ConstantsAssumption, DiscardPendingType, PendingRecordType
      DEF FrameHeaderObu
    <3> QED  BY <3>1, <3>2, NilAssumption
  <2>2. UNCHANGED <<refs, outQ, held>>
    BY <1>6 DEF FrameHeaderObu
  <2>3. p \in Pics /\ Rest[p] = 0 /\ Balanced(heap', [Rest EXCEPT ![p] = 1])
    BY <1>0, <2>1, DiscardBalanced, AcquireBalanced DEF Heap
  <2>4. ASSUME NEW q \in Pics
        PROVE  Holders'[q] = [Rest EXCEPT ![p] = 1][q]
    <3>1. One(PendingPic)'[q] = IF q = p THEN 1 ELSE 0
      BY <2>1 DEF One, PendingPic
    <3>2. Holders'[q] = InSlots(Slots)[q] + InQueue[q] + One(PendingPic)'[q] + held[q]
      BY <2>2 DEF Holders, InSlots, InQueue
    <3> QED  BY <1>0, <2>3, <3>1, <3>2 DEF Rest
  <2> QED  BY <2>3, <2>4 DEF Balanced
<1>7. ASSUME NEW b \in Tiles, SkippedTileGroup(b)
      PROVE  Balanced(heap, Holders)'
  BY <1>7, StutterStep DEF SkippedTileGroup, PendingPic
<1>8. ASSUME NEW a \in Tiles, NEW b \in Tiles, NEW cut \in 0 .. (NTiles + 1),
             TileGroupError(a, b, cut)
      PROVE  Balanced(heap, Holders)'
  BY <1>8, DiscardStep DEF TileGroupError
<1>9. ASSUME NEW a \in Tiles, NEW b \in Tiles, NEW cut \in 0 .. (NTiles + 1),
             TileGroupObu(a, b, cut)
      PROVE  Balanced(heap, Holders)'
  <2> DEFINE new == DecodedCdf(pending.hdr, pending.frame, a, b, cut)
             cdf == IF new # Nil THEN new ELSE pending.cdf
  <2>1. pending \in Pending /\ pending # Nil
    BY <1>9, <1>0, PendingType DEF TileGroupObu
  <2>2. CASE cut # 0 /\ Completes(b)
    <3>1. /\ FinishFrame(heap, pending.pic, pending.hdr, pending.frame, cdf,
                         pending.frame)
          /\ pending' = Nil /\ held' = held
      BY <1>9, <2>2 DEF TileGroupObu
    <3>2. /\ pending.pic \in Pics /\ pending.hdr \in Header
          /\ PendingPic = pending.pic
      BY <2>1, ConstantsAssumption DEF Pending, PendingPic
    <3>3. Balanced(heap, [q \in Pics |-> Rest[q] + One(pending.pic)[q]])
      BY <1>0, <3>2, RestType, BalancedCongruence
    <3> HIDE DEF cdf
    <3> QED  BY <1>0, <3>1, <3>2, <3>3, FinishStep
  <2>3. CASE ~(cut # 0 /\ Completes(b))
    <3>1. /\ pending' = [pending EXCEPT !.cdf = cdf, !.fs = @ \/ cut # 0]
          /\ UNCHANGED <<heap, refs, outQ, held>>
      BY <1>9, <2>3 DEF TileGroupObu
    <3>2. pending'.pic = pending.pic
      BY <2>1, <3>1 DEF Pending
    <3>3. pending' # Nil
      <4>1. cdf \in Frames \cup {Nil}
        BY <2>1, DecodedCdfType DEF Pending
      <4>2. pending' \in Pending
        BY <2>1, <3>1, <4>1 DEF Pending
      <4> QED  BY <4>2, NilAssumption
    <3> QED  BY <2>1, <3>1, <3>2, <3>3, StutterStep DEF PendingPic
  <2> QED  BY <2>2, <2>3
<1>10. ASSUME NEW h \in Headers, NEW a \in Tiles, NEW b \in Tiles,
              NEW cut \in 0 .. (NTiles + 1), FrameObu(h, a, b, cut)
       PROVE  Balanced(heap, Holders)'
  <2> DEFINE f   == frames + 1
             cdf == DecodedCdf(h, f, a, b, cut)
             mv  == IF cut = 0 THEN Nil ELSE f
  <2>1. PICK p \in DiscardedHeap.pool :
          IF cut = b + 1 \/ BestEffort
          THEN FinishFrame(Acquired(DiscardedHeap, p), p, h, f, cdf, mv)
          ELSE /\ heap' = Released(Acquired(DiscardedHeap, p), One(p))
               /\ UNCHANGED <<refs, outQ>>
    BY <1>10 DEF FrameObu
  <2> HIDE DEF f, cdf, mv
  <2>2. pending' = Nil /\ held' = held
    BY <1>10 DEF FrameObu
  <2>3. /\ p \in Pics /\ Rest[p] = 0
        /\ Balanced(Acquired(DiscardedHeap, p), [Rest EXCEPT ![p] = 1])
    BY <1>0, DiscardBalanced, AcquireBalanced DEF Heap
  <2>4. \A q \in Pics : One(p)[q] = IF q = p THEN 1 ELSE 0
    BY DEF One
  <2>5. \A q \in Pics : [Rest EXCEPT ![p] = 1][q] = Rest[q] + One(p)[q]
    BY <1>0, <2>3, <2>4
  <2>6. Acquired(DiscardedHeap, p) \in Heap
    BY <1>0, <2>3, HeapOperations
  <2>7. CASE cut = b + 1 \/ BestEffort
    <3>1. Balanced(Acquired(DiscardedHeap, p), [q \in Pics |-> Rest[q] + One(p)[q]])
      BY <2>3, <2>5 DEF Balanced
    <3>2. h \in Header
      BY ConstantsAssumption
    <3>3. FinishFrame(Acquired(DiscardedHeap, p), p, h, f, cdf, mv)
      BY <2>1, <2>7
    <3> QED  BY <1>0, <2>2, <2>3, <2>6, <3>1, <3>2, <3>3, FinishStep
  <2>8. CASE ~(cut = b + 1 \/ BestEffort)
    <3> DEFINE n == [Rest EXCEPT ![p] = 1]
    <3>1. /\ heap' = Released(Acquired(DiscardedHeap, p), One(p))
          /\ UNCHANGED <<refs, outQ>>
      BY <2>1, <2>8
    <3>2. n \in [Pics -> Nat] /\ \A q \in Pics : One(p)[q] <= n[q]
      BY <1>0, <2>3, <2>4
    <3>3. \A q \in Pics : n[q] - One(p)[q] = Rest[q]
      BY <1>0, <2>3, <2>4
    <3> HIDE DEF n
    <3>4. Balanced(heap', [q \in Pics |-> n[q] - One(p)[q]])
      <4>1. Balanced(Acquired(DiscardedHeap, p), n)
        BY <2>3 DEF n
      <4> QED  BY <4>1, <2>6, <3>1, <3>2, HoldersType, ReleaseBalanced
    <3>5. ASSUME NEW q \in Pics PROVE Holders'[q] = Rest[q]
      <4>1. One(PendingPic)'[q] = 0
        BY <2>2, NilAssumption DEF One, PendingPic
      <4>2. Holders'[q] = InSlots(Slots)[q] + InQueue[q] + One(PendingPic)'[q] + held[q]
        BY <2>2, <3>1 DEF Holders, InSlots, InQueue
      <4> QED  BY <1>0, <4>1, <4>2 DEF Rest
    <3> QED  BY <3>3, <3>4, <3>5 DEF Balanced
  <2> QED  BY <2>7, <2>8
<1>11. CASE GetPicture
  <2> DEFINE p == Head(outQ)
  <2>1. /\ outQ # <<>> /\ outQ' = Tail(outQ)
        /\ held' = [held EXCEPT ![p] = @ + 1]
        /\ UNCHANGED <<heap, refs, pending>>
    BY <1>11 DEF GetPicture
  <2>2. ASSUME NEW q \in Pics PROVE Holders'[q] = Holders[q]
    <3>1. Occurrences(outQ, q) = Occurrences(Tail(outQ), q) + IF p = q THEN 1 ELSE 0
      BY <1>0, <2>1, OccurrencesTail DEF TypeOK
    <3>2. InQueue[q] = InQueue'[q] + IF p = q THEN 1 ELSE 0
      BY <2>1, <3>1 DEF InQueue
    <3>3. InQueue'[q] \in Nat
      <4>1. InQueue'[q] = Occurrences(outQ', q)
        BY DEF InQueue
      <4> QED  BY <4>1, OccurrencesType DEF TypeOK
    <3>4. held'[q] = held[q] + IF p = q THEN 1 ELSE 0
      <4> HIDE DEF p
      <4> QED  BY <1>0, <2>1
    <3>5. Holders'[q] = InSlots(Slots)[q] + InQueue'[q] + One(PendingPic)[q] + held'[q]
      BY <2>1 DEF Holders, InSlots, One, PendingPic
    <3>6. Holders[q] = InSlots(Slots)[q] + InQueue[q] + One(PendingPic)[q] + held[q]
          /\ One(PendingPic)[q] \in Nat
      BY DEF Holders, One
    <3> HIDE DEF p
    <3> QED  BY <1>0, <3>2, <3>3, <3>4, <3>5, <3>6
  <2> QED  BY <1>0, <2>1, <2>2 DEF Balanced
<1>12. CASE Flush
  <2>1. /\ heap' = Released(heap, Both(InSlots(Slots), One(PendingPic)))
        /\ pending' = Nil /\ UNCHANGED <<outQ, held>>
        /\ \A s \in Slots : refs'[s].pic = Nil
    BY <1>12, <1>0 DEF Flush, DiscardPending, TypeOK, Ref
  <2>2. \A q \in Pics : InSlots(Slots)'[q] = 0
    BY <2>1, EmptySlots
  <2> DEFINE kept == [q \in Pics |-> InQueue[q] + held[q]]
             gone == Both(InSlots(Slots), One(PendingPic))
  <2>3. kept \in [Pics -> Nat] /\ gone \in [Pics -> Nat]
    BY <1>0, HoldersType
  <2>4. ASSUME NEW q \in Pics
        PROVE  Holders[q] = kept[q] + gone[q] /\ Holders'[q] = kept[q]
    <3>1. One(PendingPic)'[q] = 0 /\ InQueue'[q] = InQueue[q]
      BY <2>1, NilAssumption DEF One, PendingPic, InQueue
    <3>2. Holders'[q] = InSlots(Slots)'[q] + InQueue'[q] + One(PendingPic)'[q] + held'[q]
      BY DEF Holders
    <3>3. One(PendingPic)[q] \in Nat
      BY DEF One
    <3> QED  BY <1>0, <2>1, <2>2, <3>1, <3>2, <3>3 DEF Holders, Both
  <2> HIDE DEF kept
  <2> QED  BY <2>1, <2>3, <2>4, EvictStep
<1>13. CASE Close
  <2> DEFINE rest == Both(InSlots(Slots), One(PendingPic))
             gone == Both(InQueue, rest)
  <2>1. /\ heap' = Released(heap, gone)
        /\ pending' = Nil /\ outQ' = <<>> /\ held' = held
        /\ \A s \in Slots : refs'[s].pic = Nil
    BY <1>13, <1>0 DEF Close, DiscardPending, TypeOK, Ref
  <2>2. \A q \in Pics : InSlots(Slots)'[q] = 0
    BY <2>1, EmptySlots
  <2>3. gone \in [Pics -> Nat]
    BY <1>0, HoldersType
  <2>4. ASSUME NEW q \in Pics
        PROVE  Holders[q] = held[q] + gone[q] /\ Holders'[q] = held[q]
    <3>1. One(PendingPic)'[q] = 0
      BY <2>1, NilAssumption DEF One, PendingPic
    <3>2. {i \in DOMAIN outQ' : outQ'[i] = q} = {}
      BY <2>1
    <3>3. InQueue'[q] = 0
      BY <3>2, FS_EmptySet, Zenon DEF InQueue, Occurrences
    <3>4. Holders'[q] = InSlots(Slots)'[q] + InQueue'[q] + One(PendingPic)'[q] + held'[q]
      BY DEF Holders
    <3>5. One(PendingPic)[q] \in Nat
      BY DEF One
    <3> QED  BY <1>0, <2>1, <2>2, <3>1, <3>3, <3>4, <3>5 DEF Holders, Both
  <2> HIDE DEF gone
  <2> QED  BY <1>0, <2>1, <2>3, <2>4, EvictStep
<1>14. ASSUME NEW p \in Pics, RetainPicture(p)
       PROVE  Balanced(heap, Holders)'
  <2>1. /\ held[p] > 0 /\ held' = [held EXCEPT ![p] = @ + 1]
        /\ heap' = Retained(heap, p, 1)
        /\ UNCHANGED <<refs, outQ, pending>>
    BY <1>14, <1>0, ConstantsAssumption DEF RetainPicture
  <2>2. ASSUME NEW q \in Pics
        PROVE  Holders'[q] = Holders[q] + IF q = p THEN 1 ELSE 0
    <3>1. Holders'[q] = (Holders[q] - held[q]) + held'[q]
      BY <1>0, <2>1, ConsumerStep
    <3>2. held'[q] = held[q] + IF q = p THEN 1 ELSE 0
      BY <1>0, <2>1
    <3> QED  BY <1>0, <3>1, <3>2
  <2>3. Holders[p] > 0
    BY <1>0, <2>1, ConsumerHolds
  <2>4. Balanced(heap', [Holders EXCEPT ![p] = @ + 1])
    BY <1>0, <2>1, <2>3, RetainBalanced
  <2> QED  BY <1>0, <2>2, <2>4 DEF Balanced
<1>15. ASSUME NEW p \in Pics, ReleasePicture(p)
       PROVE  Balanced(heap, Holders)'
  <2>1. /\ held[p] > 0 /\ held' = [held EXCEPT ![p] = @ - 1]
        /\ heap' = [cnt |-> [heap.cnt EXCEPT ![p] = @ - 1], pool |-> heap.pool,
                    releasing |-> heap.releasing
                                    \cup (IF heap.cnt[p] = 1 THEN {p} ELSE {})]
        /\ UNCHANGED <<refs, outQ, pending>>
    BY <1>15 DEF ReleasePicture
  <2>2. Holders[p] > 0
    BY <1>0, <2>1, ConsumerHolds
  <2>3. ASSUME NEW q \in Pics
        PROVE  Holders'[q] = Holders[q] - IF q = p THEN 1 ELSE 0
    <3>1. Holders'[q] = (Holders[q] - held[q]) + held'[q]
      BY <1>0, <2>1, ConsumerStep
    <3>2. held'[q] = held[q] - IF q = p THEN 1 ELSE 0
      BY <1>0, <2>1
    <3> QED  BY <1>0, <3>1, <3>2
  <2>4. p \notin heap.pool \cup heap.releasing
    BY <1>0, <2>2 DEF Balanced
  <2> QED  BY <1>0, <2>1, <2>2, <2>3, <2>4 DEF Balanced, Heap
<1>16. ASSUME NEW p \in Pics, ReleaseCallback(p)
       PROVE  Balanced(heap, Holders)'
  <2>1. /\ p \in heap.releasing
        /\ heap' = [cnt |-> heap.cnt, pool |-> heap.pool \cup {p},
                    releasing |-> heap.releasing \ {p}]
        /\ UNCHANGED <<refs, outQ, pending, held>>
    BY <1>16 DEF ReleaseCallback
  <2>2. \A q \in Pics : Holders'[q] = Holders[q]
    BY <2>1 DEF Holders, InSlots, InQueue, One, PendingPic
  <2> QED  BY <1>0, <2>1, <2>2 DEF Balanced, Heap
<1>17. CASE UNCHANGED vars
  BY <1>17, StutterStep DEF vars, PendingPic
<1> QED
  BY <1>1, <1>2, <1>3, <1>4, <1>5, <1>6, <1>7, <1>8, <1>9, <1>10, <1>11, <1>12,
     <1>13, <1>14, <1>15, <1>16, <1>17
  DEF Next, RouteOBU, Consumer

\* The counts of pictures are exact in every reachable state, for any stream,
\* any number of slots and any interleaving with the consumers.
THEOREM PicturesBalanced == Spec => []PictureInv
<1>1. Init => PictureInv
  BY InitTypeOK, InitBalanced DEF PictureInv
<1>2. PictureInv /\ [Next]_vars => PictureInv'
  BY NextTypeOK, NextBalanced DEF PictureInv
<1> QED  BY <1>1, <1>2, PTL DEF Spec

\* A picture's reference count is the number of its holders.
THEOREM CountsExact == Spec => []RefCountExact
<1>1. PictureInv => RefCountExact
  BY DEF PictureInv, Balanced, RefCountExact
<1> QED  BY <1>1, PicturesBalanced, PTL

-----------------------------------------------------------------------------
(* No step changes the slots under a pending frame, and nobody points to a  *)
(* picture in the pool.                                                     *)

\* What was copied from the slots at the frame header stays what they hold.
LEMMA NextSnapshot == TypeOK /\ PendingSnapshot /\ [Next]_vars => PendingSnapshot'
<1> SUFFICES ASSUME TypeOK, PendingSnapshot, [Next]_vars, pending' # Nil
             PROVE  \A s \in Slots : /\ pending'.alias[s] = refs'[s].pic
                                     /\ pending'.mvs[s] = refs'[s].mv
  BY DEF PendingSnapshot
<1>1. CASE UNCHANGED <<refs, pending>>
  BY <1>1 DEF PendingSnapshot
<1>2. ASSUME NEW h \in Headers, FrameHeaderObu(h)
      PROVE  \A s \in Slots : /\ pending'.alias[s] = refs'[s].pic
                              /\ pending'.mvs[s] = refs'[s].mv
  <2>1. /\ pending'.alias = [s \in Slots |-> refs[s].pic]
        /\ pending'.mvs = [s \in Slots |-> refs[s].mv]
        /\ refs' = refs
    BY <1>2 DEF FrameHeaderObu
  <2> QED  BY <2>1
<1>3. ASSUME NEW a \in Tiles, NEW b \in Tiles, NEW cut \in 0 .. (NTiles + 1),
             TileGroupObu(a, b, cut)
      PROVE  \A s \in Slots : /\ pending'.alias[s] = refs'[s].pic
                              /\ pending'.mvs[s] = refs'[s].mv
  <2> DEFINE new == DecodedCdf(pending.hdr, pending.frame, a, b, cut)
             cdf == IF new # Nil THEN new ELSE pending.cdf
  <2>1. pending # Nil /\ pending \in Pending
    BY <1>3, PendingType DEF TileGroupObu
  <2>2. /\ pending' = [pending EXCEPT !.cdf = cdf, !.fs = @ \/ cut # 0]
        /\ refs' = refs
    BY <1>3 DEF TileGroupObu
  <2>3. pending'.alias = pending.alias /\ pending'.mvs = pending.mvs
    <3> HIDE DEF cdf
    <3> QED  BY <2>1, <2>2 DEF Pending
  <2> QED  BY <2>1, <2>2, <2>3 DEF PendingSnapshot
<1>4. ASSUME pending' = Nil PROVE FALSE
  BY <1>4
<1>5. CASE Consumer
  BY <1>1, <1>5 DEF Consumer, RetainPicture, ReleasePicture, ReleaseCallback
<1>6. CASE SendData \/ SendDataReturn \/ GetPicture
  BY <1>1, <1>6 DEF SendData, SendDataReturn, GetPicture
<1>7. CASE Flush \/ Close
  BY <1>4, <1>7 DEF Flush, Close, DiscardPending
<1>8. CASE RouteOBU
  <2>1. CASE \E ok \in BOOLEAN : SequenceHeader(ok)
    BY <1>1, <2>1 DEF SequenceHeader
  <2>2. CASE TemporalDelimiter \/ HeaderError \/ \E s \in Slots : ShowExistingFrame(s)
    BY <1>4, <2>2
    DEF TemporalDelimiter, HeaderError, ShowExistingFrame, HeaderArrives, DiscardPending
  <2>3. CASE \E b \in Tiles : SkippedTileGroup(b)
    BY <1>1, <2>3 DEF SkippedTileGroup
  <2>4. ASSUME NEW a \in Tiles, NEW b \in Tiles, NEW cut \in 0 .. (NTiles + 1),
               \/ TileGroupError(a, b, cut)
               \/ \E h \in Headers : FrameObu(h, a, b, cut)
        PROVE  FALSE
    BY <1>4, <2>4 DEF TileGroupError, FrameObu
  <2> QED  BY <1>2, <1>3, <1>8, <2>1, <2>2, <2>3, <2>4 DEF RouteOBU
<1>9. CASE UNCHANGED vars
  BY <1>1, <1>9 DEF vars
<1> QED  BY <1>5, <1>6, <1>7, <1>8, <1>9 DEF Next

\* A frame in split mode predicts from the pictures and motion vectors its
\* slots still have when its tile groups arrive.
THEOREM SnapshotKept == Spec => []PendingSnapshot
<1>1. Init => PendingSnapshot
  BY DEF Init, PendingSnapshot
<1>2. TypeOK /\ TypeOK' /\ PendingSnapshot /\ [Next]_vars => PendingSnapshot'
  BY NextSnapshot
<1> QED  BY <1>1, <1>2, TypeCorrect, PTL DEF Spec

\* A free picture has no holder of any kind.
LEMMA FreeIsUnused == PictureInv /\ PendingSnapshot => NoDanglingPicture
<1> SUFFICES ASSUME PictureInv, PendingSnapshot PROVE NoDanglingPicture
  OBVIOUS
<1>1. TypeOK /\ Balanced(heap, Holders)
  BY DEF PictureInv
<1>2. ASSUME NEW p \in Free
      PROVE  p \in Pics /\ p # Nil /\ Holders[p] = 0
  BY <1>1, NilAssumption DEF Free, Balanced, TypeOK, Heap
<1>3. ASSUME NEW p \in Free
      PROVE  InSlots(Slots)[p] = 0 /\ InQueue[p] = 0 /\ One(PendingPic)[p] = 0
             /\ held[p] = 0
  <2>1. /\ InSlots(Slots)[p] \in Nat /\ InQueue[p] \in Nat /\ held[p] \in Nat
        /\ One(PendingPic)[p] \in Nat
    BY <1>1, <1>2, RestType DEF TypeOK, One
  <2>2. InSlots(Slots)[p] + InQueue[p] + One(PendingPic)[p] + held[p] = 0
    BY <1>2 DEF Holders
  <2>3. \A w, x, y, z \in Nat :
          w + x + y + z = 0 => w = 0 /\ x = 0 /\ y = 0 /\ z = 0
    OBVIOUS
  <2> QED  BY <2>1, <2>2, <2>3
<1>4. ASSUME NEW p \in Free, NEW s \in Slots
      PROVE  refs[s].pic # p
  BY <1>1, <1>2, <1>3, SlotHolds
<1>5. ASSUME NEW p \in Free, NEW i \in DOMAIN outQ
      PROVE  outQ[i] # p
  <2>1. Cardinality({j \in DOMAIN outQ : outQ[j] = p}) = 0
    BY <1>2, <1>3 DEF InQueue, Occurrences
  <2>2. IsFiniteSet({j \in DOMAIN outQ : outQ[j] = p})
    BY <1>1, OccurrencesType DEF TypeOK
  <2>3. {j \in DOMAIN outQ : outQ[j] = p} = {}
    BY <2>1, <2>2, FS_EmptySet
  <2> QED  BY <2>3
<1>6. ASSUME NEW p \in Free, pending # Nil
      PROVE  pending.pic # p /\ \A s \in Slots : pending.alias[s] # p
  <2>1. pending.pic # p
    <3>1. One(PendingPic)[p] = IF p = pending.pic THEN 1 ELSE 0
      BY <1>2, <1>6 DEF One, PendingPic
    <3> QED  BY <1>3, <3>1
  <2> QED  BY <1>4, <1>6, <2>1 DEF PendingSnapshot
<1>7. Free \cap InUse = {}
  BY <1>3, <1>4, <1>5, <1>6 DEF InUse
<1>8. heap.pool \cap heap.releasing = {}
  BY <1>1 DEF Balanced
<1> QED  BY <1>7, <1>8 DEF NoDanglingPicture

\* No slot, queue entry, consumer or pending frame points to a picture whose
\* buffers the pool may hand out again.
THEOREM NoPictureDangles == Spec => []NoDanglingPicture
<1> QED  BY PicturesBalanced, SnapshotKept, FreeIsUnused, PTL

-----------------------------------------------------------------------------
(* A slot's parts belong together. *)

\* What SlotConsistent says of a slot but for the samples of its picture.
SlotParts ==
  \A s \in Slots : refs[s].pic # Nil =>
    /\ refs[s].fhdr # Nil /\ refs[s].cdf # Nil
    /\ refs[s].mv \in {Nil, refs[s].fhdr}

\* A finished frame fills its slots with parts of itself.
LEMMA FinishParts ==
  ASSUME TypeOK, SlotParts, NEW hp, NEW pic, NEW h \in Header,
         NEW f \in Frames, NEW cdf \in Frames \cup {Nil}, NEW mv \in {Nil, f},
         FinishFrame(hp, pic, h, f, cdf, mv)
  PROVE  SlotParts'
<1>1. CdfForReferenceUpdate(h, cdf) # Nil
  BY CdfType DEF TypeOK
<1>2. f # Nil
  BY NilAssumption DEF Frames
<1>3. ASSUME NEW s \in Slots, s \in h.refresh
      PROVE  /\ refs'[s].fhdr = f /\ refs'[s].cdf # Nil
             /\ refs'[s].mv \in {Nil, f}
  <2> DEFINE new == [fhdr |-> f, pic |-> pic,
                     cdf |-> CdfForReferenceUpdate(h, cdf),
                     mv  |-> IF h.intra THEN Nil ELSE mv]
  <2>1. refs'[s] = new
    BY <1>3 DEF FinishFrame, RefreshedSlots
  <2>2. new.fhdr = f /\ new.cdf = CdfForReferenceUpdate(h, cdf)
        /\ new.mv \in {Nil, f}
    OBVIOUS
  <2> HIDE DEF new
  <2> QED  BY <1>1, <2>1, <2>2
<1>4. ASSUME NEW s \in Slots, s \notin h.refresh
      PROVE  refs'[s] = refs[s]
  BY <1>4 DEF FinishFrame, RefreshedSlots
<1> QED  BY <1>2, <1>3, <1>4 DEF SlotParts

\* Every step keeps the parts of a slot together.
LEMMA NextSlotParts ==
  TypeOK /\ SlotParts /\ [Next]_vars => SlotParts'
<1> SUFFICES ASSUME TypeOK, SlotParts, [Next]_vars PROVE SlotParts'
  OBVIOUS
<1>1. CASE UNCHANGED refs
  BY <1>1 DEF SlotParts
<1>2. ASSUME NEW a \in Tiles, NEW b \in Tiles, NEW cut \in 0 .. (NTiles + 1),
             TileGroupObu(a, b, cut)
      PROVE  SlotParts'
  <2> DEFINE new == DecodedCdf(pending.hdr, pending.frame, a, b, cut)
             cdf == IF new # Nil THEN new ELSE pending.cdf
  <2>1. pending \in Pending
    BY <1>2, PendingType DEF TileGroupObu
  <2>2. /\ pending.hdr \in Header /\ pending.frame \in Frames
        /\ cdf \in Frames \cup {Nil}
    BY <2>1, DecodedCdfType, ConstantsAssumption DEF Pending
  <2>3. \/ FinishFrame(heap, pending.pic, pending.hdr, pending.frame, cdf,
                       pending.frame)
        \/ UNCHANGED refs
    BY <1>2 DEF TileGroupObu
  <2> HIDE DEF cdf
  <2> QED  BY <1>1, <2>2, <2>3, FinishParts
<1>3. ASSUME NEW h \in Headers, NEW a \in Tiles, NEW b \in Tiles,
             NEW cut \in 0 .. (NTiles + 1), FrameObu(h, a, b, cut)
      PROVE  SlotParts'
  <2> DEFINE f  == frames + 1
             mv == IF cut = 0 THEN Nil ELSE f
  <2>1. PICK p \in DiscardedHeap.pool :
          \/ FinishFrame(Acquired(DiscardedHeap, p), p, h, f,
                         DecodedCdf(h, f, a, b, cut), mv)
          \/ UNCHANGED refs
    BY <1>3 DEF FrameObu
  <2>2. f \in Frames
    BY <1>3, ConstantsAssumption DEF FrameObu, Frames, TypeOK
  <2>3. h \in Header /\ mv \in {Nil, f}
    BY ConstantsAssumption
  <2> HIDE DEF f, mv
  <2>4. DecodedCdf(h, f, a, b, cut) \in Frames \cup {Nil}
    BY <2>2, DecodedCdfType
  <2> QED  BY <1>1, <2>1, <2>2, <2>3, <2>4, FinishParts
<1>4. CASE Flush
  BY <1>4 DEF Flush, TypeOK, Ref, SlotParts
<1>5. CASE Close
  BY <1>5 DEF Close, TypeOK, Ref, SlotParts
<1>6. CASE SendData \/ SendDataReturn \/ GetPicture \/ Consumer
  BY <1>1, <1>6 DEF SendData, SendDataReturn, GetPicture, Consumer,
                    RetainPicture, ReleasePicture, ReleaseCallback
<1>7. CASE \/ \E ok \in BOOLEAN : SequenceHeader(ok)
           \/ TemporalDelimiter \/ HeaderError
           \/ \E s \in Slots : ShowExistingFrame(s)
           \/ \E h \in Headers : FrameHeaderObu(h)
           \/ \E b \in Tiles : SkippedTileGroup(b)
           \/ \E a, b \in Tiles, cut \in 0 .. (NTiles + 1) :
                TileGroupError(a, b, cut)
  BY <1>1, <1>7 DEF SequenceHeader, TemporalDelimiter, HeaderError,
     ShowExistingFrame, FrameHeaderObu, SkippedTileGroup, TileGroupError
<1>8. CASE UNCHANGED vars
  BY <1>1, <1>8 DEF vars
<1> QED
  BY <1>2, <1>3, <1>4, <1>5, <1>6, <1>7, <1>8 DEF Next, RouteOBU

\* A slot with a picture has a header and CDFs, and no other frame's motion
\* vectors.
LEMMA SlotPartsKept == Spec => []SlotParts
<1>1. Init => SlotParts
  BY DEF Init, SlotParts
<1>2. TypeOK /\ SlotParts /\ [Next]_vars => SlotParts'
  BY NextSlotParts
<1> QED  BY <1>1, <1>2, TypeCorrect, PTL DEF Spec

-----------------------------------------------------------------------------
(* FrameStates. *)

\* Dropping the pending frame gives its FrameState back.
LEMMA DiscardBalancesFrameState ==
  ASSUME TypeOK, FrameStateBalanced, pending' = Nil, fsOut' = fsOut - PendingState
  PROVE  FrameStateBalanced'
BY DEF FrameStateBalanced, PendingState, TypeOK

\* A tile group that takes a FrameState, or finds one, and a ReleaseFrameState
\* after it leave out of the pool what DiscardPending would.
LEMMA StateGivenBack ==
  ASSUME TypeOK, pending # Nil, NEW cut
  PROVE  /\ ReleasedState(AcquiredState(fsOut, pending.fs, cut), pending.fs \/ cut # 0)
              = fsOut - PendingState
         /\ cut # 0 => ReleasedState(AcquiredState(fsOut, pending.fs, cut), TRUE)
                          = fsOut - PendingState
<1>1. pending.fs \in BOOLEAN /\ fsOut \in Int
  BY PendingType DEF Pending, TypeOK
<1>2. CASE pending.fs
  BY <1>1, <1>2 DEF AcquiredState, ReleasedState, PendingState
<1>3. CASE ~pending.fs
  BY <1>1, <1>3 DEF AcquiredState, ReleasedState, PendingState
<1> QED  BY <1>1, <1>2, <1>3

\* Every step keeps the balance of the FrameState pool.
LEMMA NextFrameState ==
  TypeOK /\ FrameStateBalanced /\ [Next]_vars => FrameStateBalanced'
<1> SUFFICES ASSUME TypeOK, FrameStateBalanced, [Next]_vars
             PROVE  FrameStateBalanced'
  OBVIOUS
<1>1. CASE UNCHANGED <<pending, fsOut>>
  BY <1>1 DEF FrameStateBalanced, PendingState
<1>2. CASE DiscardPending
  BY <1>2, DiscardBalancesFrameState DEF DiscardPending
<1>3. ASSUME NEW a \in Tiles, NEW b \in Tiles, NEW cut \in 0 .. (NTiles + 1),
             TileGroupObu(a, b, cut)
      PROVE  FrameStateBalanced'
  <2> DEFINE new == DecodedCdf(pending.hdr, pending.frame, a, b, cut)
             cdf == IF new # Nil THEN new ELSE pending.cdf
             out == AcquiredState(fsOut, pending.fs, cut)
  <2>1. pending \in Pending /\ pending # Nil
    BY <1>3, PendingType DEF TileGroupObu
  <2>2. CASE cut # 0 /\ Completes(b)
    <3>1. pending' = Nil /\ fsOut' = ReleasedState(out, TRUE)
      BY <1>3, <2>2 DEF TileGroupObu
    <3>2. ReleasedState(out, TRUE) = fsOut - PendingState
      BY <2>1, <2>2, StateGivenBack
    <3> QED  BY <3>1, <3>2, DiscardBalancesFrameState
  <2>3. CASE ~(cut # 0 /\ Completes(b))
    <3>1. /\ pending' = [pending EXCEPT !.cdf = cdf, !.fs = @ \/ cut # 0]
          /\ fsOut' = out
      BY <1>3, <2>3 DEF TileGroupObu
    <3>2. cdf \in Frames \cup {Nil}
      BY <2>1, DecodedCdfType DEF Pending
    <3>3. pending' \in Pending /\ pending'.fs = (pending.fs \/ cut # 0)
      BY <2>1, <3>1, <3>2 DEF Pending
    <3>4. pending' # Nil /\ pending.fs \in BOOLEAN
      BY <2>1, <3>3, NilAssumption DEF Pending
    <3>5. PendingState = IF pending.fs THEN 1 ELSE 0
      BY <2>1, Zenon DEF PendingState
    <3>6. PendingState' = IF pending.fs \/ cut # 0 THEN 1 ELSE 0
      BY <3>3, <3>4, Zenon DEF PendingState
    <3> QED  BY <3>1, <3>4, <3>5, <3>6 DEF FrameStateBalanced, AcquiredState
  <2> QED  BY <2>2, <2>3
<1>4. CASE \/ TemporalDelimiter \/ HeaderError \/ Flush \/ Close
           \/ \E s \in Slots : ShowExistingFrame(s)
  BY <1>2, <1>4 DEF TemporalDelimiter, HeaderError, HeaderArrives, Flush, Close,
     ShowExistingFrame
<1>5. ASSUME NEW h \in Headers, FrameHeaderObu(h)
      PROVE  FrameStateBalanced'
  <2>1. PICK p \in DiscardedHeap.pool :
          pending' = [frame |-> frames + 1, hdr |-> h, pic |-> p, cdf |-> Nil,
                      fs |-> FALSE,
                      alias |-> [s \in Slots |-> refs[s].pic],
                      mvs   |-> [s \in Slots |-> refs[s].mv]]
    BY <1>5 DEF FrameHeaderObu
  <2>2. pending'.fs = FALSE
    BY <2>1
  <2>3. PendingState' = 0
    BY <2>2 DEF PendingState
  <2>4. fsOut' = fsOut - PendingState
    BY <1>5 DEF FrameHeaderObu
  <2> QED  BY <2>3, <2>4 DEF FrameStateBalanced, TypeOK
<1>6. CASE SendData \/ SendDataReturn \/ GetPicture \/ Consumer
  BY <1>1, <1>6 DEF SendData, SendDataReturn, GetPicture, Consumer,
                    RetainPicture, ReleasePicture, ReleaseCallback
<1>7. CASE \/ \E ok \in BOOLEAN : SequenceHeader(ok)
           \/ \E b \in Tiles : SkippedTileGroup(b)
  BY <1>1, <1>7 DEF SequenceHeader, SkippedTileGroup
<1>8. CASE UNCHANGED vars
  BY <1>1, <1>8 DEF vars
<1>9. ASSUME NEW a \in Tiles, NEW b \in Tiles, NEW cut \in 0 .. (NTiles + 1),
             TileGroupError(a, b, cut)
      PROVE  FrameStateBalanced'
  <2>1. pending # Nil /\ pending' = Nil
    BY <1>9 DEF TileGroupError
  <2>2. fsOut' = fsOut - PendingState
    BY <1>9, <2>1, StateGivenBack DEF TileGroupError
  <2> QED  BY <2>1, <2>2, DiscardBalancesFrameState
<1>10. ASSUME NEW a \in Tiles, NEW b \in Tiles, NEW cut \in 0 .. (NTiles + 1),
              NEW h \in Headers, FrameObu(h, a, b, cut)
       PROVE  FrameStateBalanced'
  <2>1. pending' = Nil
    BY <1>10 DEF FrameObu
  <2>2. fsOut' =
          ReleasedState(AcquiredState(fsOut - PendingState, FALSE, cut), cut # 0)
    BY <1>10 DEF FrameObu
  <2>3. fsOut' = fsOut - PendingState
    BY <2>2 DEF AcquiredState, ReleasedState, PendingState, TypeOK
  <2> QED  BY <2>1, <2>3, DiscardBalancesFrameState
<1> QED
  BY <1>3, <1>4, <1>5, <1>6, <1>7, <1>8, <1>9, <1>10 DEF Next, RouteOBU

\* A FrameState is out of its pool exactly while a pending frame owns it: no
\* path that abandons a frame forgets it or gives it back twice.
THEOREM FrameStatesBalanced == Spec => []FrameStateBalanced
<1>1. Init => FrameStateBalanced
  BY DEF Init, FrameStateBalanced, PendingState
<1>2. TypeOK /\ FrameStateBalanced /\ [Next]_vars => FrameStateBalanced'
  BY NextFrameState
<1> QED  BY <1>1, <1>2, TypeCorrect, PTL DEF Spec

-----------------------------------------------------------------------------
(* Strict decoding. *)

\* Neither a slot nor the queue points to q.
Unused(q) ==
  /\ \A s \in Slots : refs[s].pic # q
  /\ \A i \in DOMAIN outQ : outQ[i] # q

\* The pending frame has its picture to itself and has written every tile that
\* came before the one the stream is at, which is one of its own.
PendingWhole ==
  pending # Nil =>
    /\ Unused(pending.pic)
    /\ nextTile <= NTiles
    /\ \A t \in 1 .. (nextTile - 1) : samples[pending.pic][t] = pending.frame

WholeInv == ~BestEffort => PendingWhole /\ StrictOutputWhole

\* A picture of the pool is unused, and between frames the pool is what
\* DiscardedHeap says it is: nothing is pending.
LEMMA PoolUnused ==
  ASSUME TypeOK, NoDanglingPicture, PendingWhole, BetweenFrames,
         NEW p \in DiscardedHeap.pool
  PROVE  p \in Pics /\ Unused(p)
<1>1. pending = Nil
  BY ConstantsAssumption DEF PendingWhole, BetweenFrames
<1>2. p \in heap.pool
  <2>1. \A q \in Pics : One(PendingPic)[q] = 0
    BY <1>1, NilAssumption DEF One, PendingPic
  <2> QED  BY <2>1 DEF DiscardedHeap, Released
<1>3. p \in Pics
  BY <1>2 DEF TypeOK, Heap
<1> QED  BY <1>2, <1>3 DEF NoDanglingPicture, Free, InUse, Unused

\* Output stays whole when only samples of an unused picture change, slots
\* lose their pictures or keep them, and the queue gains nothing.
LEMMA OutputKept ==
  ASSUME TypeOK, StrictOutputWhole, ~BestEffort, NEW q, Unused(q),
         \A p \in Pics \ {q} : samples'[p] = samples[p],
         \A s \in Slots : \/ refs'[s].pic = Nil
                          \/ refs'[s] = refs[s],
         \A i \in DOMAIN outQ' : \E j \in DOMAIN outQ : outQ'[i] = outQ[j]
  PROVE  StrictOutputWhole'
<1>1. ASSUME NEW s \in Slots, refs'[s].pic # Nil
      PROVE  WrittenBy(refs[s].pic, refs[s].fhdr)'
  <2>1. refs'[s] = refs[s] /\ refs[s].pic \in Pics \ {q}
    BY <1>1 DEF Unused, TypeOK, Ref
  <2> QED  BY <2>1, <1>1 DEF StrictOutputWhole, WrittenBy
<1>2. ASSUME NEW i \in DOMAIN outQ'
      PROVE  \E f \in Frames : WrittenBy(outQ[i], f)'
  <2>1. PICK j \in DOMAIN outQ : outQ'[i] = outQ[j]
    OBVIOUS
  <2>2. outQ[j] \in Pics \ {q}
    BY LenProperties DEF Unused, TypeOK
  <2>3. PICK f \in Frames : WrittenBy(outQ[j], f)
    BY DEF StrictOutputWhole
  <2>4. WrittenBy(outQ[i], f)'
    BY <2>1, <2>2, <2>3 DEF WrittenBy
  <2> QED  BY <2>4
<1> QED  BY <1>1, <1>2 DEF StrictOutputWhole

\* Output stays whole when a frame is finished that wrote all its tiles.
LEMMA FinishWhole ==
  ASSUME TypeOK, StrictOutputWhole, ~BestEffort, NEW pic \in Pics, Unused(pic),
         NEW hp, NEW h \in Header, NEW f \in Frames, NEW cdf, NEW mv,
         FinishFrame(hp, pic, h, f, cdf, mv),
         \A p \in Pics \ {pic} : samples'[p] = samples[p],
         \A t \in Tiles : samples'[pic][t] = f
  PROVE  StrictOutputWhole'
<1>1. ASSUME NEW s \in Slots, refs'[s].pic # Nil
      PROVE  WrittenBy(refs[s].pic, refs[s].fhdr)'
  <2>1. CASE s \in h.refresh
    <3>1. refs'[s].pic = pic /\ refs'[s].fhdr = f
      BY <2>1 DEF FinishFrame, RefreshedSlots
    <3> QED  BY <3>1 DEF WrittenBy
  <2>2. CASE s \notin h.refresh
    <3>1. refs'[s] = refs[s]
      BY <2>2 DEF FinishFrame, RefreshedSlots
    <3>2. refs[s].pic \in Pics \ {pic}
      BY <1>1, <3>1 DEF Unused, TypeOK, Ref
    <3> QED  BY <1>1, <3>1, <3>2 DEF StrictOutputWhole, WrittenBy
  <2> QED  BY <2>1, <2>2
<1>2. ASSUME NEW i \in DOMAIN outQ'
      PROVE  \E g \in Frames : WrittenBy(outQ[i], g)'
  <2>1. CASE outQ'[i] = pic
    <3>1. WrittenBy(outQ[i], f)'
      BY <2>1 DEF WrittenBy
    <3> QED  BY <3>1
  <2>2. CASE outQ'[i] # pic
    <3>1. outQ' = outQ \/ outQ' = Append(outQ, pic)
      BY DEF FinishFrame
    <3>2. i \in DOMAIN outQ /\ outQ'[i] = outQ[i]
      <4>1. outQ \in Seq(Pics)
        BY DEF TypeOK
      <4>2. CASE outQ' = Append(outQ, pic)
        <5>1. /\ DOMAIN outQ = 1 .. Len(outQ) /\ Len(outQ) \in Nat
              /\ DOMAIN outQ' = 1 .. (Len(outQ) + 1)
              /\ outQ'[Len(outQ) + 1] = pic
              /\ \A j \in 1 .. Len(outQ) : outQ'[j] = outQ[j]
          BY <4>1, <4>2, LenProperties, AppendProperties
        <5> QED  BY <5>1, <2>2
      <4> QED  BY <3>1, <4>2
    <3>3. outQ[i] \in Pics \ {pic}
      BY <3>2, LenProperties DEF Unused, TypeOK
    <3>4. PICK g \in Frames : WrittenBy(outQ[i], g)
      BY <3>2 DEF StrictOutputWhole
    <3>5. WrittenBy(outQ[i], g)'
      BY <3>2, <3>3, <3>4 DEF WrittenBy
    <3> QED  BY <3>5
  <2> QED  BY <2>1, <2>2
<1> QED  BY <1>1, <1>2 DEF StrictOutputWhole

\* It stays whole when no samples change at all.
LEMMA OutputUntouched ==
  ASSUME TypeOK, StrictOutputWhole, ~BestEffort, UNCHANGED samples,
         \A s \in Slots : refs'[s].pic = Nil \/ refs'[s] = refs[s],
         \A i \in DOMAIN outQ' : \E j \in DOMAIN outQ : outQ'[i] = outQ[j]
  PROVE  StrictOutputWhole'
<1>1. ASSUME NEW s \in Slots, refs'[s].pic # Nil
      PROVE  WrittenBy(refs[s].pic, refs[s].fhdr)'
  <2>1. refs'[s] = refs[s]
    BY <1>1
  <2> QED  BY <2>1, <1>1 DEF StrictOutputWhole, WrittenBy
<1>2. ASSUME NEW i \in DOMAIN outQ'
      PROVE  \E f \in Frames : WrittenBy(outQ[i], f)'
  <2>1. PICK j \in DOMAIN outQ : outQ'[i] = outQ[j]
    OBVIOUS
  <2>2. PICK f \in Frames : WrittenBy(outQ[j], f)
    BY DEF StrictOutputWhole
  <2>3. WrittenBy(outQ[i], f)'
    BY <2>1, <2>2 DEF WrittenBy
  <2> QED  BY <2>3
<1> QED  BY <1>1, <1>2 DEF StrictOutputWhole

\* Every step of a strict decoder on a stream with whole frames in order keeps
\* the pending frame its own and the output whole.
LEMMA NextWhole ==
  ASSUME Delivery = "whole", ~BestEffort, TypeOK, SlotParts,
         NoDanglingPicture, PendingWhole, StrictOutputWhole, [Next]_vars
  PROVE  PendingWhole' /\ StrictOutputWhole'
<1>1. ASSUME UNCHANGED <<refs, samples, pending, nextTile>>,
             \A i \in DOMAIN outQ' : \E j \in DOMAIN outQ : outQ'[i] = outQ[j]
      PROVE  PendingWhole' /\ StrictOutputWhole'
  <2>1. StrictOutputWhole'
    BY <1>1, OutputUntouched
  <2>2. pending # Nil => Unused(pending.pic)'
    BY <1>1 DEF PendingWhole, Unused
  <2> QED  BY <1>1, <2>1, <2>2 DEF PendingWhole
<1>2. CASE SendData \/ SendDataReturn \/ \E ok \in BOOLEAN : SequenceHeader(ok)
  BY <1>1, <1>2 DEF SendData, SendDataReturn, SequenceHeader
<1>3. CASE Consumer
  BY <1>1, <1>3 DEF Consumer, RetainPicture, ReleasePicture, ReleaseCallback
<1>4. CASE UNCHANGED vars
  BY <1>1, <1>4 DEF vars
<1>5. CASE GetPicture
  <2>1. outQ \in Seq(Pics) /\ outQ # <<>> /\ outQ' = Tail(outQ)
    BY <1>5 DEF GetPicture, TypeOK
  <2>2. /\ DOMAIN outQ = 1 .. Len(outQ) /\ Len(outQ) \in Nat
        /\ DOMAIN outQ' = 1 .. (Len(outQ) - 1)
        /\ \A i \in 1 .. (Len(outQ) - 1) : outQ'[i] = outQ[i + 1]
    BY <2>1, LenProperties, HeadTailProperties, EmptySeq
  <2>3. \A i \in DOMAIN outQ' : \E j \in DOMAIN outQ : outQ'[i] = outQ[j]
    <3>1. TAKE i \in DOMAIN outQ'
    <3>2. i + 1 \in DOMAIN outQ /\ outQ'[i] = outQ[i + 1]
      BY <2>2
    <3> QED  BY <3>2
  <2> QED  BY <1>1, <1>5, <2>3 DEF GetPicture
<1>6. CASE TemporalDelimiter \/ HeaderError
  <2>1. pending' = Nil /\ UNCHANGED <<refs, outQ, samples>>
    BY <1>6 DEF TemporalDelimiter, HeaderError, HeaderArrives, DiscardPending
  <2> QED  BY <2>1, OutputUntouched DEF PendingWhole
<1>7. CASE Flush \/ Close
  <2>1. /\ pending' = Nil /\ UNCHANGED samples
        /\ \A s \in Slots : refs'[s].pic = Nil \/ refs'[s] = refs[s]
        /\ outQ' = outQ \/ outQ' = <<>>
    BY <1>7 DEF Flush, Close, DiscardPending, TypeOK, Ref
  <2>2. \A i \in DOMAIN outQ' : \E j \in DOMAIN outQ : outQ'[i] = outQ[j]
    BY <2>1
  <2> QED  BY <2>1, <2>2, OutputUntouched DEF PendingWhole
<1>8. ASSUME NEW s \in Slots, ShowExistingFrame(s)
      PROVE  PendingWhole' /\ StrictOutputWhole'
  <2>1. /\ pending' = Nil /\ UNCHANGED <<refs, samples>>
        /\ \/ outQ' = outQ
           \/ refs[s].pic # Nil /\ outQ' = Append(outQ, refs[s].pic)
    BY <1>8 DEF ShowExistingFrame, HeaderArrives, DiscardPending
  <2>2. CASE outQ' = outQ
    BY <2>1, <2>2, OutputUntouched DEF PendingWhole
  <2>3. CASE refs[s].pic # Nil /\ outQ' = Append(outQ, refs[s].pic)
    <3>1. refs[s].pic \in Pics /\ refs[s].fhdr \in Frames
      BY <2>3 DEF SlotParts, TypeOK, Ref
    <3>2. WrittenBy(refs[s].pic, refs[s].fhdr)
      BY <2>3 DEF StrictOutputWhole
    <3>3. /\ DOMAIN outQ = 1 .. Len(outQ) /\ Len(outQ) \in Nat
          /\ DOMAIN outQ' = 1 .. (Len(outQ) + 1)
          /\ outQ'[Len(outQ) + 1] = refs[s].pic
          /\ \A j \in 1 .. Len(outQ) : outQ'[j] = outQ[j]
      <4>1. outQ \in Seq(Pics)
        BY DEF TypeOK
      <4> QED  BY <2>3, <3>1, <4>1, LenProperties, AppendProperties
    <3>4. ASSUME NEW i \in DOMAIN outQ'
          PROVE  \E f \in Frames : WrittenBy(outQ[i], f)'
      <4>1. CASE i \in DOMAIN outQ
        <5>1. PICK f \in Frames : WrittenBy(outQ[i], f)
          BY <4>1 DEF StrictOutputWhole
        <5>2. WrittenBy(outQ[i], f)'
          BY <2>1, <3>3, <4>1, <5>1 DEF WrittenBy
        <5> QED  BY <5>2
      <4>2. CASE i \notin DOMAIN outQ
        <5>1. outQ'[i] = refs[s].pic
          BY <3>3, <4>2
        <5> QED  BY <2>1, <3>1, <3>2, <5>1 DEF WrittenBy
      <4> QED  BY <4>1, <4>2
    <3>5. ASSUME NEW r \in Slots, refs'[r].pic # Nil
          PROVE  WrittenBy(refs[r].pic, refs[r].fhdr)'
      BY <2>1, <3>5 DEF StrictOutputWhole, WrittenBy
    <3> QED  BY <2>1, <3>4, <3>5 DEF StrictOutputWhole, PendingWhole
  <2> QED  BY <2>1, <2>2, <2>3
<1>9. ASSUME NEW h \in Headers, FrameHeaderObu(h)
      PROVE  PendingWhole' /\ StrictOutputWhole'
  <2>1. PICK p \in DiscardedHeap.pool :
          /\ samples' = [samples EXCEPT ![p] = Seeded(p)]
          /\ pending' = [frame |-> frames + 1, hdr |-> h, pic |-> p, cdf |-> Nil,
                         fs |-> FALSE,
                         alias |-> [s \in Slots |-> refs[s].pic],
                         mvs   |-> [s \in Slots |-> refs[s].mv]]
    BY <1>9 DEF FrameHeaderObu
  <2>2. p \in Pics /\ Unused(p)
    BY <1>9, PoolUnused DEF FrameHeaderObu
  <2>3. UNCHANGED <<refs, outQ>> /\ nextTile' = 1
    BY <1>9 DEF FrameHeaderObu, Expect
  <2>4. \A q \in Pics \ {p} : samples'[q] = samples[q]
    BY <2>1 DEF TypeOK
  <2>5. StrictOutputWhole'
    BY <2>2, <2>3, <2>4, OutputKept
  <2>6. pending'.pic = p
    BY <2>1
  <2>7. Unused(pending.pic)'
    BY <2>2, <2>3, <2>6 DEF Unused
  <2> QED  BY <2>3, <2>5, <2>7, ConstantsAssumption DEF PendingWhole
<1>10. ASSUME NEW b \in Tiles, SkippedTileGroup(b)
       PROVE  PendingWhole' /\ StrictOutputWhole'
  <2>1. pending' = Nil /\ UNCHANGED <<refs, outQ, samples>>
    BY <1>10 DEF SkippedTileGroup
  <2> QED  BY <2>1, OutputUntouched DEF PendingWhole
<1>11. ASSUME NEW a \in Tiles, NEW b \in Tiles, NEW cut \in 0 .. (NTiles + 1),
              TileGroupError(a, b, cut)
       PROVE  PendingWhole' /\ StrictOutputWhole'
  <2>1. /\ pending' = Nil /\ UNCHANGED <<refs, outQ>> /\ Unused(pending.pic)
        /\ \A q \in Pics \ {pending.pic} : samples'[q] = samples[q]
    BY <1>11 DEF TileGroupError, PendingWhole, TypeOK
  <2> QED  BY <2>1, OutputKept DEF PendingWhole
<1>12. ASSUME NEW a \in Tiles, NEW b \in Tiles, NEW cut \in 0 .. (NTiles + 1),
              TileGroupObu(a, b, cut)
       PROVE  PendingWhole' /\ StrictOutputWhole'
  <2> DEFINE new == DecodedCdf(pending.hdr, pending.frame, a, b, cut)
             cdf == IF new # Nil THEN new ELSE pending.cdf
  <2>1. pending \in Pending /\ pending # Nil
    BY <1>12, PendingType DEF TileGroupObu
  <2>2. /\ pending.pic \in Pics /\ pending.hdr \in Header
        /\ pending.frame \in Frames
    BY <2>1, ConstantsAssumption DEF Pending
  <2>3. /\ a = nextTile /\ a <= b /\ cut = b + 1 /\ nextTile' = b + 1
        /\ samples' = [samples EXCEPT
                         ![pending.pic] = Decoded(@, pending.frame, a, b, cut)]
    BY <1>12 DEF TileGroupObu, GroupDue, Expect
  <2>4. \A q \in Pics \ {pending.pic} : samples'[q] = samples[q]
    BY <2>3 DEF TypeOK
  <2>5. Unused(pending.pic)
    BY <2>1 DEF PendingWhole
  <2>6. ASSUME NEW t \in 1 .. b
        PROVE  samples'[pending.pic][t] = pending.frame
    <3>1. t \in Tiles
      BY ConstantsAssumption DEF Tiles
    <3>2. samples'[pending.pic] =
            Decoded(samples[pending.pic], pending.frame, a, b, cut)
      BY <2>2, <2>3 DEF TypeOK
    <3>3. t \notin a .. (cut - 1) => samples[pending.pic][t] = pending.frame
      BY <2>1, <2>3 DEF PendingWhole, Tiles
    <3>4. t # cut
      BY <2>3 DEF Tiles
    <3> QED  BY <3>1, <3>2, <3>3, <3>4 DEF Decoded
  <2>7. CASE b = NTiles
    <3>1. cut # 0 /\ Completes(b)
      BY <2>3, <2>7, ConstantsAssumption DEF Completes
    <3>2. /\ FinishFrame(heap, pending.pic, pending.hdr, pending.frame, cdf,
                         pending.frame)
          /\ pending' = Nil
      BY <1>12, <3>1 DEF TileGroupObu
    <3>3. \A t \in Tiles : samples'[pending.pic][t] = pending.frame
      BY <2>6, <2>7 DEF Tiles
    <3> HIDE DEF cdf
    <3> QED  BY <2>2, <2>4, <2>5, <3>2, <3>3, FinishWhole DEF PendingWhole
  <2>8. CASE b # NTiles
    <3>1. /\ pending' = [pending EXCEPT !.cdf = cdf, !.fs = @ \/ cut # 0]
          /\ UNCHANGED <<refs, outQ>>
      BY <1>12, <2>8 DEF TileGroupObu, Completes
    <3>2. pending'.pic = pending.pic /\ pending'.frame = pending.frame
      BY <2>1, <3>1 DEF Pending
    <3>3. StrictOutputWhole'
      BY <2>4, <2>5, <3>1, OutputKept
    <3>4. Unused(pending.pic)'
      BY <2>5, <3>1, <3>2 DEF Unused
    <3>5. nextTile' <= NTiles
      BY <2>3, <2>8, ConstantsAssumption DEF Tiles
    <3>6. \A t \in 1 .. (nextTile' - 1) : samples'[pending'.pic][t] = pending'.frame
      BY <2>3, <2>6, <3>2 DEF Tiles
    <3> QED  BY <3>3, <3>4, <3>5, <3>6 DEF PendingWhole
  <2> QED  BY <2>7, <2>8
<1>13. ASSUME NEW h \in Headers, NEW a \in Tiles, NEW b \in Tiles,
              NEW cut \in 0 .. (NTiles + 1), FrameObu(h, a, b, cut)
       PROVE  PendingWhole' /\ StrictOutputWhole'
  <2> DEFINE f  == frames + 1
             mv == IF cut = 0 THEN Nil ELSE f
  <2>1. PICK p \in DiscardedHeap.pool :
          /\ samples' = [samples EXCEPT ![p] = Decoded(Seeded(p), f, a, b, cut)]
          /\ \/ /\ cut = b + 1
                /\ FinishFrame(Acquired(DiscardedHeap, p), p, h, f,
                               DecodedCdf(h, f, a, b, cut), mv)
             \/ UNCHANGED <<refs, outQ>>
    BY <1>13 DEF FrameObu
  <2>2. p \in Pics /\ Unused(p)
    BY <1>13, PoolUnused DEF FrameObu
  <2>3. pending' = Nil /\ a = 1 /\ b = NTiles
    BY <1>13 DEF FrameObu, GroupInFrame
  <2>4. \A q \in Pics \ {p} : samples'[q] = samples[q]
    BY <2>1 DEF TypeOK
  <2>5. f \in Frames
    BY <1>13, ConstantsAssumption DEF FrameObu, Frames, TypeOK
  <2>6. h \in Header
    BY ConstantsAssumption
  <2>7. CASE UNCHANGED <<refs, outQ>>
    BY <2>2, <2>3, <2>4, <2>7, OutputKept DEF PendingWhole
  <2>8. CASE /\ cut = b + 1
             /\ FinishFrame(Acquired(DiscardedHeap, p), p, h, f,
                            DecodedCdf(h, f, a, b, cut), mv)
    <3>1. samples'[p] = Decoded(Seeded(p), f, a, b, cut)
      BY <2>1, <2>2 DEF TypeOK
    <3>2. \A t \in Tiles : samples'[p][t] = f
      BY <2>3, <2>8, <3>1, ConstantsAssumption DEF Decoded, Tiles
    <3> HIDE DEF f, mv
    <3> QED  BY <2>2, <2>3, <2>4, <2>5, <2>6, <2>8, <3>2, FinishWhole
             DEF PendingWhole
  <2> HIDE DEF f, mv
  <2> QED  BY <2>1, <2>7, <2>8
<1> QED
  BY <1>2, <1>3, <1>4, <1>5, <1>6, <1>7, <1>8, <1>9, <1>10, <1>11, <1>12, <1>13
  DEF Next, RouteOBU

\* When frames arrive whole and their tile groups in order, nothing a strict
\* decoder failed to decode in full is ever in a slot or in the queue.
THEOREM StrictWhole == Delivery = "whole" => (Spec => []StrictOutputWhole)
<1> SUFFICES ASSUME Delivery = "whole" PROVE Spec => []StrictOutputWhole
  OBVIOUS
<1>1. Init => WholeInv
  BY EmptySeq DEF Init, WholeInv, PendingWhole, StrictOutputWhole
<1>2. /\ TypeOK /\ SlotParts /\ NoDanglingPicture
      /\ WholeInv /\ [Next]_vars
      => WholeInv'
  <2> SUFFICES ASSUME TypeOK, SlotParts, NoDanglingPicture, ~BestEffort,
                      PendingWhole, StrictOutputWhole, [Next]_vars
               PROVE  PendingWhole' /\ StrictOutputWhole'
    BY DEF WholeInv
  <2> QED  BY NextWhole
<1>3. WholeInv => StrictOutputWhole
  BY DEF WholeInv, StrictOutputWhole
<1> QED
  BY <1>1, <1>2, <1>3, TypeCorrect, SlotPartsKept, NoPictureDangles, PTL
  DEF Spec

-----------------------------------------------------------------------------
(* The picture that is written has no other holder. *)

\* No slot, queue entry or consumer has the picture.
Idle(p) == Unused(p) /\ held[p] = 0

\* The pending frame has its picture to itself, and SendData runs on an open
\* decoder.
PendingAlone == pending # Nil => Idle(pending.pic)
BusyOpen == busy => ~closed
StoreInv == PendingAlone /\ BusyOpen

\* A picture from the pool is idle.
LEMMA PoolIdle ==
  ASSUME TypeOK, NoDanglingPicture, PendingAlone, NEW p \in DiscardedHeap.pool
  PROVE  p \in Pics /\ Idle(p)
<1>1. p \in Pics
  BY DiscardPendingType
<1>2. p \in heap.pool \/ p = PendingPic
  BY DEF DiscardedHeap, Released, One
<1>3. CASE p \in heap.pool
  <2>1. p \notin InUse
    BY <1>3 DEF NoDanglingPicture, Free
  <2>2. held[p] = 0
    BY <1>1, <2>1 DEF InUse, TypeOK
  <2> QED  BY <1>1, <2>1, <2>2 DEF InUse, Unused, Idle
<1>4. CASE p = PendingPic
  BY <1>1, <1>4, NilAssumption DEF PendingPic, PendingAlone
<1> QED  BY <1>1, <1>2, <1>3, <1>4

\* OBUs are routed inside SendData and do not close the decoder.
LEMMA RouteOpen ==
  ASSUME RouteOBU
  PROVE  busy /\ UNCHANGED closed
<1> DEFINE Open == busy /\ UNCHANGED closed
<1>1. ASSUME NEW ok \in BOOLEAN, SequenceHeader(ok) PROVE Open
  BY <1>1 DEF SequenceHeader
<1>2. CASE TemporalDelimiter \/ HeaderError
  BY <1>2 DEF TemporalDelimiter, HeaderError, HeaderArrives
<1>3. ASSUME NEW s \in Slots, ShowExistingFrame(s) PROVE Open
  BY <1>3 DEF ShowExistingFrame, HeaderArrives
<1>4. ASSUME NEW h \in Headers, FrameHeaderObu(h) PROVE Open
  BY <1>4 DEF FrameHeaderObu
<1>5. ASSUME NEW b \in Tiles, SkippedTileGroup(b) PROVE Open
  BY <1>5 DEF SkippedTileGroup
<1>6. ASSUME NEW a \in Tiles, NEW b \in Tiles, NEW cut \in 0 .. (NTiles + 1),
             TileGroupError(a, b, cut) \/ TileGroupObu(a, b, cut)
      PROVE  Open
  BY <1>6 DEF TileGroupError, TileGroupObu
<1>7. ASSUME NEW a \in Tiles, NEW b \in Tiles, NEW cut \in 0 .. (NTiles + 1),
             NEW h \in Headers, FrameObu(h, a, b, cut)
      PROVE  Open
  BY <1>7 DEF FrameObu
<1> QED  BY <1>1, <1>2, <1>3, <1>4, <1>5, <1>6, <1>7 DEF RouteOBU

\* Every step keeps the pending frame alone with its picture.
LEMMA NextAlone ==
  TypeOK /\ NoDanglingPicture /\ StoreInv /\ [Next]_vars => StoreInv'
<1> SUFFICES ASSUME TypeOK, NoDanglingPicture, StoreInv, [Next]_vars PROVE StoreInv'
  OBVIOUS
<1>1. BusyOpen'
  <2>1. CASE SendData \/ SendDataReturn \/ Close \/ UNCHANGED <<busy, closed>>
    BY <2>1 DEF SendData, SendDataReturn, Close, StoreInv, BusyOpen
  <2>2. CASE RouteOBU
    BY <2>2, RouteOpen DEF StoreInv, BusyOpen
  <2>3. CASE GetPicture \/ Flush \/ Consumer
    BY <2>1, <2>3 DEF GetPicture, Flush, Consumer, RetainPicture, ReleasePicture,
       ReleaseCallback
  <2>4. CASE UNCHANGED vars
    BY <2>1, <2>4 DEF vars
  <2> QED  BY <2>1, <2>2, <2>3, <2>4 DEF Next
<1>2. CASE pending' = Nil
  BY <1>1, <1>2 DEF StoreInv, PendingAlone
<1>3. CASE UNCHANGED <<refs, outQ, held, pending>>
  BY <1>1, <1>3 DEF StoreInv, PendingAlone, Idle, Unused
<1>4. CASE \/ SendData \/ SendDataReturn \/ \E ok \in BOOLEAN : SequenceHeader(ok)
           \/ \E p \in Pics : ReleaseCallback(p)
  BY <1>3, <1>4 DEF SendData, SendDataReturn, SequenceHeader, ReleaseCallback
<1>5. CASE \/ TemporalDelimiter \/ HeaderError \/ Flush \/ Close
           \/ \E s \in Slots : ShowExistingFrame(s)
           \/ \E b \in Tiles : SkippedTileGroup(b)
  BY <1>2, <1>5 DEF TemporalDelimiter, HeaderError, HeaderArrives, DiscardPending,
     Flush, Close, ShowExistingFrame, SkippedTileGroup
<1>6. ASSUME NEW p \in Pics, RetainPicture(p) \/ ReleasePicture(p) PROVE StoreInv'
  <2>1. /\ UNCHANGED <<refs, outQ, pending>> /\ held[p] # 0
        /\ \A q \in Pics \ {p} : held'[q] = held[q]
    BY <1>6 DEF RetainPicture, ReleasePicture, TypeOK
  <2>2. ASSUME pending # Nil
        PROVE  pending.pic \in Pics \ {p} /\ Unused(pending.pic) /\ held[pending.pic] = 0
    <3>1. pending.pic \in Pics
      BY <2>2, PendingType DEF Pending
    <3> QED  BY <2>1, <2>2, <3>1 DEF StoreInv, PendingAlone, Idle
  <2> QED  BY <1>1, <2>1, <2>2 DEF StoreInv, PendingAlone, Idle, Unused
<1>7. CASE GetPicture
  <2>1. outQ \in Seq(Pics) /\ outQ # <<>> /\ outQ' = Tail(outQ)
    BY <1>7 DEF GetPicture, TypeOK
  <2>2. /\ DOMAIN outQ = 1 .. Len(outQ) /\ Len(outQ) \in Nat \ {0}
        /\ DOMAIN outQ' = 1 .. (Len(outQ) - 1)
        /\ \A i \in 1 .. (Len(outQ) - 1) : outQ'[i] = outQ[i + 1]
        /\ Head(outQ) = outQ[1]
    BY <2>1, LenProperties, HeadTailProperties, EmptySeq
  <2>3. ASSUME pending # Nil
        PROVE  /\ pending.pic \in Pics /\ Unused(pending.pic) /\ held[pending.pic] = 0
               /\ Head(outQ) # pending.pic
    <3>1. pending.pic \in Pics /\ Idle(pending.pic)
      BY <2>3, PendingType DEF Pending, StoreInv, PendingAlone
    <3> QED  BY <2>2, <3>1 DEF Idle, Unused
  <2>4. UNCHANGED <<refs, pending>> /\ held' = [held EXCEPT ![Head(outQ)] = @ + 1]
    BY <1>7 DEF GetPicture
  <2>5. \A q \in Pics : q # Head(outQ) => held'[q] = held[q]
    BY <2>4 DEF TypeOK
  <2>6. \A i \in DOMAIN outQ' : \E j \in DOMAIN outQ : outQ'[i] = outQ[j]
    <3>1. TAKE i \in DOMAIN outQ'
    <3>2. i + 1 \in DOMAIN outQ /\ outQ'[i] = outQ[i + 1]
      BY <2>2
    <3> QED  BY <3>2
  <2> QED  BY <1>1, <2>3, <2>4, <2>5, <2>6 DEF StoreInv, PendingAlone, Idle, Unused
<1>8. ASSUME NEW h \in Headers, FrameHeaderObu(h) PROVE StoreInv'
  <2>1. PICK p \in DiscardedHeap.pool : pending' # Nil => pending'.pic = p
    BY <1>8 DEF FrameHeaderObu
  <2>2. Idle(p)
    BY PoolIdle DEF StoreInv
  <2>3. UNCHANGED <<refs, outQ, held>>
    BY <1>8 DEF FrameHeaderObu
  <2> QED  BY <1>1, <2>1, <2>2, <2>3 DEF StoreInv, PendingAlone, Idle, Unused
<1>9. ASSUME NEW a \in Tiles, NEW b \in Tiles, NEW cut \in 0 .. (NTiles + 1),
             TileGroupObu(a, b, cut)
      PROVE  StoreInv'
  <2>1. CASE pending' = Nil
    BY <1>2, <2>1
  <2>2. CASE pending' # Nil
    <3>1. UNCHANGED <<refs, outQ, held>>
      BY <1>9, <2>2 DEF TileGroupObu
    <3>2. PICK c, d : pending' = [pending EXCEPT !.cdf = c, !.fs = d]
      BY <1>9, <2>2 DEF TileGroupObu
    <3>3. pending # Nil /\ pending \in Pending
      BY <1>9, PendingType DEF TileGroupObu
    <3>4. pending'.pic = pending.pic
      BY <3>2, <3>3 DEF Pending
    <3> QED  BY <1>1, <3>1, <3>3, <3>4 DEF StoreInv, PendingAlone, Idle, Unused
  <2> QED  BY <2>1, <2>2
<1>10. ASSUME NEW a \in Tiles, NEW b \in Tiles, NEW cut \in 0 .. (NTiles + 1),
              TileGroupError(a, b, cut) \/ \E h \in Headers : FrameObu(h, a, b, cut)
       PROVE  StoreInv'
  <2>1. pending' = Nil
    BY <1>10 DEF TileGroupError, FrameObu
  <2> QED  BY <1>2, <2>1
<1>11. CASE UNCHANGED vars
  BY <1>3, <1>11 DEF vars
<1> QED
  BY <1>4, <1>5, <1>6, <1>7, <1>8, <1>9, <1>10, <1>11 DEF Next, RouteOBU, Consumer
-----------------------------------------------------------------------------
(* The samples of a slot's picture in best-effort decoding. *)

\* A step may change the samples of idle pictures.
SamplesKept == \A p \in Pics : samples'[p] = samples[p] \/ Idle(p)

SlotsOwn ==
  \A s \in Slots : refs[s].pic # Nil => OnlyOf(refs[s].pic, refs[s].fhdr)
PendingOwn == pending # Nil => OnlyOf(pending.pic, pending.frame)

\* What was written of slots and pending frame is theirs.
OwnInv == BestEffort => SlotsOwn /\ PendingOwn

\* Slots that keep their pictures or lose them keep their own samples.
LEMMA SlotOwnKept ==
  ASSUME TypeOK, SlotsOwn, SamplesKept, NEW s \in Slots,
         refs'[s].pic = Nil \/ refs'[s] = refs[s]
  PROVE  refs'[s].pic # Nil => OnlyOf(refs[s].pic, refs[s].fhdr)'
<1> SUFFICES ASSUME refs'[s].pic # Nil
             PROVE  OnlyOf(refs[s].pic, refs[s].fhdr)'
  OBVIOUS
<1>1. refs'[s] = refs[s] /\ refs[s].pic \in Pics
  BY DEF TypeOK, Ref
<1>2. samples'[refs[s].pic] = samples[refs[s].pic]
  BY <1>1 DEF SamplesKept, Idle, Unused
<1> QED  BY <1>1, <1>2 DEF SlotsOwn, OnlyOf

\* So do all slots when none gets a picture,
LEMMA SlotsOwnKept ==
  ASSUME TypeOK, SlotsOwn, SamplesKept,
         \A s \in Slots : refs'[s].pic = Nil \/ refs'[s] = refs[s]
  PROVE  SlotsOwn'
BY SlotOwnKept DEF SlotsOwn

\* and when a frame is finished that wrote in its own picture.
LEMMA FinishOwn ==
  ASSUME TypeOK, SlotsOwn, SamplesKept, NEW hp, NEW pic, NEW h \in Header, NEW f,
         NEW cdf, NEW mv, FinishFrame(hp, pic, h, f, cdf, mv),
         \A t \in Tiles : samples'[pic][t] \in {f, NoFrame, Damaged}
  PROVE  SlotsOwn'
<1>1. ASSUME NEW s \in Slots, s \in h.refresh
      PROVE  OnlyOf(refs[s].pic, refs[s].fhdr)'
  <2>1. refs'[s].pic = pic /\ refs'[s].fhdr = f
    BY <1>1 DEF FinishFrame, RefreshedSlots
  <2> QED  BY <2>1 DEF OnlyOf
<1>2. ASSUME NEW s \in Slots, s \notin h.refresh
      PROVE  refs'[s] = refs[s]
  BY <1>2 DEF FinishFrame, RefreshedSlots
<1> QED  BY <1>1, <1>2, SlotOwnKept DEF SlotsOwn

\* A best-effort decoder clears a picture before a frame is decoded into it.
LEMMA DecodedOwn ==
  ASSUME BestEffort, NEW f, NEW a, NEW b, NEW cut, NEW t \in Tiles
  PROVE  /\ \A p : Seeded(p)[t] \in {f, NoFrame, Damaged}
         /\ \A old : old[t] \in {f, NoFrame, Damaged}
              => Decoded(old, f, a, b, cut)[t] \in {f, NoFrame, Damaged}
BY DEF Seeded, Decoded

\* Every step keeps a frame's samples its own.
LEMMA NextOwn ==
  ASSUME TypeOK, NoDanglingPicture, StoreInv, OwnInv, [Next]_vars
  PROVE  OwnInv'
<1> SUFFICES ASSUME BestEffort, SlotsOwn, PendingOwn
             PROVE  SlotsOwn' /\ PendingOwn'
  BY DEF OwnInv
<1>1. ASSUME UNCHANGED samples, pending' = Nil \/ pending' = pending,
             \A s \in Slots : refs'[s].pic = Nil \/ refs'[s] = refs[s]
      PROVE  SlotsOwn' /\ PendingOwn'
  <2>1. SamplesKept
    BY <1>1 DEF SamplesKept
  <2> QED  BY <1>1, <2>1, SlotsOwnKept DEF PendingOwn, OnlyOf
<1>2. CASE SendData \/ SendDataReturn \/ GetPicture \/ Consumer
  BY <1>1, <1>2 DEF SendData, SendDataReturn, GetPicture, Consumer,
                    RetainPicture, ReleasePicture, ReleaseCallback
<1>3. CASE Flush \/ Close
  BY <1>1, <1>3 DEF Flush, Close, DiscardPending, TypeOK, Ref
<1>4. CASE \/ \E ok \in BOOLEAN : SequenceHeader(ok)
           \/ TemporalDelimiter \/ HeaderError
           \/ \E s \in Slots : ShowExistingFrame(s)
           \/ \E b \in Tiles : SkippedTileGroup(b)
  BY <1>1, <1>4 DEF SequenceHeader, TemporalDelimiter, HeaderError, HeaderArrives,
     DiscardPending, ShowExistingFrame, SkippedTileGroup
<1>5. CASE UNCHANGED vars
  BY <1>1, <1>5 DEF vars
<1>6. ASSUME NEW h \in Headers, FrameHeaderObu(h)
      PROVE  SlotsOwn' /\ PendingOwn'
  <2>1. PICK p \in DiscardedHeap.pool :
          /\ samples' = [samples EXCEPT ![p] = Seeded(p)]
          /\ pending' = [frame |-> frames + 1, hdr |-> h, pic |-> p, cdf |-> Nil,
                         fs |-> FALSE,
                         alias |-> [s \in Slots |-> refs[s].pic],
                         mvs   |-> [s \in Slots |-> refs[s].mv]]
    BY <1>6 DEF FrameHeaderObu
  <2>2. p \in Pics /\ Idle(p)
    BY PoolIdle DEF StoreInv
  <2>3. SamplesKept /\ UNCHANGED refs
    BY <1>6, <2>1, <2>2 DEF SamplesKept, TypeOK, FrameHeaderObu
  <2>4. pending'.pic = p
    BY <2>1
  <2>5. samples'[p] = Seeded(p)
    BY <2>1, <2>2 DEF TypeOK
  <2>6. \A t \in Tiles : Seeded(p)[t] \in {pending'.frame, NoFrame, Damaged}
    BY DecodedOwn
  <2> QED  BY <2>3, <2>4, <2>5, <2>6, SlotsOwnKept DEF PendingOwn, OnlyOf
<1>7. ASSUME NEW a \in Tiles, NEW b \in Tiles, NEW cut \in 0 .. (NTiles + 1),
             TileGroupError(a, b, cut)
      PROVE  SlotsOwn' /\ PendingOwn'
  BY <1>7 DEF TileGroupError
<1>8. ASSUME NEW a \in Tiles, NEW b \in Tiles, NEW cut \in 0 .. (NTiles + 1),
             TileGroupObu(a, b, cut)
      PROVE  SlotsOwn' /\ PendingOwn'
  <2> DEFINE f   == pending.frame
             new == DecodedCdf(pending.hdr, f, a, b, cut)
             cdf == IF new # Nil THEN new ELSE pending.cdf
  <2>1. pending \in Pending /\ pending # Nil
    BY <1>8, PendingType DEF TileGroupObu
  <2>2. pending.pic \in Pics /\ pending.hdr \in Header /\ Idle(pending.pic)
    BY <2>1, ConstantsAssumption DEF Pending, StoreInv, PendingAlone
  <2>3. samples' = [samples EXCEPT ![pending.pic] = Decoded(@, f, a, b, cut)]
    BY <1>8 DEF TileGroupObu
  <2>4. SamplesKept
    BY <2>2, <2>3 DEF SamplesKept, TypeOK
  <2>5. samples'[pending.pic] = Decoded(samples[pending.pic], f, a, b, cut)
    BY <2>2, <2>3 DEF TypeOK
  <2>6. ASSUME NEW t \in Tiles
        PROVE  samples'[pending.pic][t] \in {f, NoFrame, Damaged}
    <3>1. samples[pending.pic][t] \in {f, NoFrame, Damaged}
      BY <2>1 DEF PendingOwn, OnlyOf
    <3> HIDE DEF f
    <3> QED  BY <2>5, <3>1, DecodedOwn
  <2>7. CASE cut # 0 /\ Completes(b)
    <3>1. /\ FinishFrame(heap, pending.pic, pending.hdr, f, cdf, f)
          /\ pending' = Nil
      BY <1>8, <2>7 DEF TileGroupObu
    <3> HIDE DEF f, cdf
    <3> QED  BY <2>2, <2>4, <2>6, <3>1, FinishOwn DEF PendingOwn
  <2>8. CASE ~(cut # 0 /\ Completes(b))
    <3>1. PICK c, d : pending' = [pending EXCEPT !.cdf = c, !.fs = d]
      BY <1>8, <2>8 DEF TileGroupObu
    <3>2. pending'.pic = pending.pic /\ pending'.frame = f
      BY <2>1, <3>1 DEF Pending
    <3>3. UNCHANGED refs
      BY <1>8, <2>8 DEF TileGroupObu
    <3> QED  BY <2>4, <2>6, <3>2, <3>3, SlotsOwnKept DEF PendingOwn, OnlyOf
  <2> QED  BY <2>7, <2>8
<1>9. ASSUME NEW a \in Tiles, NEW b \in Tiles, NEW cut \in 0 .. (NTiles + 1),
             NEW h \in Headers, FrameObu(h, a, b, cut)
      PROVE  SlotsOwn' /\ PendingOwn'
  <2> DEFINE f   == frames + 1
             cdf == DecodedCdf(h, f, a, b, cut)
             mv  == IF cut = 0 THEN Nil ELSE f
  <2>1. PICK p \in DiscardedHeap.pool :
          /\ samples' = [samples EXCEPT ![p] = Decoded(Seeded(p), f, a, b, cut)]
          /\ FinishFrame(Acquired(DiscardedHeap, p), p, h, f, cdf, mv)
    BY <1>9 DEF FrameObu
  <2>2. p \in Pics /\ Idle(p) /\ h \in Header
    BY PoolIdle, ConstantsAssumption DEF StoreInv
  <2>3. SamplesKept
    BY <2>1, <2>2 DEF SamplesKept, TypeOK
  <2>4. samples'[p] = Decoded(Seeded(p), f, a, b, cut)
    BY <2>1, <2>2 DEF TypeOK
  <2> HIDE DEF f, cdf, mv
  <2>5. \A t \in Tiles : samples'[p][t] \in {f, NoFrame, Damaged}
    BY <2>4, DecodedOwn
  <2>6. pending' = Nil
    BY <1>9 DEF FrameObu
  <2> QED  BY <2>1, <2>2, <2>3, <2>5, <2>6, FinishOwn DEF PendingOwn
<1> QED
  BY <1>2, <1>3, <1>4, <1>5, <1>6, <1>7, <1>8, <1>9 DEF Next, RouteOBU

\* A slot with a picture has the header, the CDFs and, if any, the motion
\* vectors of one frame, and a best-effort decoder's slot no sample of another,
\* whatever order losses, errors, Flush and refreshes come in.
THEOREM SlotsConsistent == Spec => []SlotConsistent
<1>1. Init => StoreInv /\ OwnInv
  BY DEF Init, StoreInv, PendingAlone, BusyOpen, OwnInv, SlotsOwn, PendingOwn
<1>2. TypeOK /\ NoDanglingPicture /\ StoreInv /\ OwnInv /\ [Next]_vars
        => StoreInv' /\ OwnInv'
  BY NextAlone, NextOwn
<1>3. SlotParts /\ OwnInv => SlotConsistent
  BY DEF SlotParts, OwnInv, SlotsOwn, SlotConsistent
<1> QED
  BY <1>1, <1>2, <1>3, TypeCorrect, NoPictureDangles, SlotPartsKept, PTL DEF Spec

-----------------------------------------------------------------------------
(* The refinement mapping. *)

SlotFrames ==
  [s \in Slots |-> IF refs[s].pic = Nil THEN Nil ELSE samples[refs[s].pic]]
QueueFrames == [i \in DOMAIN outQ |-> samples[outQ[i]]]
LoanFrames == [p \in Pics |-> IF held[p] = 0 THEN Nil ELSE samples[p]]

\* A slot whose picture stays and whose samples nobody writes shows the same
\* frame.
LEMMA SlotKept ==
  ASSUME TypeOK, SamplesKept, NEW s \in Slots, refs'[s].pic = refs[s].pic
  PROVE  SlotFrames'[s] = SlotFrames[s]
<1>1. refs[s].pic \in Pics \cup {Nil}
  BY DEF TypeOK, Ref
<1>2. refs[s].pic # Nil => samples'[refs[s].pic] = samples[refs[s].pic]
  BY <1>1 DEF SamplesKept, Idle, Unused
<1> QED  BY <1>2 DEF SlotFrames

\* So do all slots,
LEMMA SlotsKept ==
  ASSUME TypeOK, SamplesKept, \A s \in Slots : refs'[s].pic = refs[s].pic
  PROVE  SlotFrames' = SlotFrames
<1>1. \A s \in Slots : SlotFrames'[s] = SlotFrames[s]
  BY SlotKept
<1>2. /\ SlotFrames = [s \in Slots |-> SlotFrames[s]]
      /\ SlotFrames' = [s \in Slots |-> SlotFrames'[s]]
  BY DEF SlotFrames
<1> QED  BY <1>1, <1>2

\* What is in the queue keeps its samples.
LEMMA QueueElement ==
  ASSUME TypeOK, SamplesKept, NEW i \in DOMAIN outQ
  PROVE  outQ[i] \in Pics /\ samples'[outQ[i]] = samples[outQ[i]]
<1>1. outQ[i] \in Pics
  BY LenProperties DEF TypeOK
<1> QED  BY <1>1 DEF SamplesKept, Idle, Unused

\* and the queue.
LEMMA QueueKept ==
  ASSUME TypeOK, SamplesKept, UNCHANGED outQ
  PROVE  QueueFrames' = QueueFrames
<1>1. \A i \in DOMAIN outQ : samples'[outQ[i]] = samples[outQ[i]]
  BY QueueElement
<1> QED  BY <1>1 DEF QueueFrames

\* A picture that is queued adds its frame.
LEMMA QueueAppended ==
  ASSUME TypeOK, SamplesKept, NEW p \in Pics, outQ' = Append(outQ, p)
  PROVE  QueueFrames' = Append(QueueFrames, samples'[p])
<1> DEFINE n == Len(outQ)
<1>1. /\ DOMAIN outQ = 1 .. n /\ n \in Nat
      /\ DOMAIN outQ' = 1 .. (n + 1) /\ outQ'[n + 1] = p
      /\ \A i \in 1 .. n : outQ'[i] = outQ[i]
  <2>1. outQ \in Seq(Pics)
    BY DEF TypeOK
  <2> QED  BY <2>1, LenProperties, AppendProperties
<1>2. \A i \in 1 .. n : samples'[outQ'[i]] = samples[outQ[i]]
  BY <1>1, QueueElement
<1> DEFINE old == [i \in 1 .. n |-> samples[outQ[i]]]
<1>3. QueueFrames = old /\ QueueFrames' = [i \in 1 .. (n + 1) |-> samples'[outQ'[i]]]
  BY <1>1 DEF QueueFrames
<1>4. Append(old, samples'[p]) =
        [i \in 1 .. (n + 1) |-> IF i = n + 1 THEN samples'[p] ELSE old[i]]
  <2> DEFINE S == {samples[outQ[i]] : i \in 1 .. n} \cup {samples'[p]}
  <2>1. old \in Seq(S) /\ Len(old) = n
    BY <1>1
  <2>2. /\ Append(old, samples'[p]) \in Seq(S)
        /\ Len(Append(old, samples'[p])) = n + 1
        /\ \A i \in 1 .. (n + 1) : Append(old, samples'[p])[i] =
             IF i = n + 1 THEN samples'[p] ELSE old[i]
    BY <2>1, AppendProperties
  <2> HIDE DEF S, old
  <2>3. DOMAIN Append(old, samples'[p]) = 1 .. (n + 1)
        /\ Append(old, samples'[p]) \in [1 .. (n + 1) -> S]
    BY <2>2, LenProperties
  <2> QED  BY <2>2, <2>3
<1>5. \A i \in 1 .. (n + 1) :
        samples'[outQ'[i]] = IF i = n + 1 THEN samples'[p] ELSE old[i]
  BY <1>1, <1>2
<1> HIDE DEF old
<1> QED  BY <1>3, <1>4, <1>5

\* A picture that is taken is the queue's first frame.
LEMMA QueueTaken ==
  ASSUME TypeOK, UNCHANGED samples, outQ # <<>>, outQ' = Tail(outQ)
  PROVE  /\ QueueFrames # <<>>
         /\ Head(QueueFrames) = samples[Head(outQ)]
         /\ QueueFrames' = Tail(QueueFrames)
<1> DEFINE n == Len(outQ)
<1>1. /\ outQ \in Seq(Pics) /\ DOMAIN outQ = 1 .. n /\ n \in Nat \ {0}
      /\ DOMAIN outQ' = 1 .. (n - 1) /\ Head(outQ) = outQ[1]
      /\ \A i \in 1 .. (n - 1) : outQ'[i] = outQ[i + 1]
  <2>1. outQ \in Seq(Pics)
    BY DEF TypeOK
  <2> QED  BY <2>1, LenProperties, HeadTailProperties, EmptySeq
<1> DEFINE old == [i \in 1 .. n |-> samples[outQ[i]]]
           S   == {samples[outQ[i]] : i \in 1 .. n}
<1>2. QueueFrames = old /\ QueueFrames' = [i \in 1 .. (n - 1) |-> samples[outQ[i + 1]]]
  BY <1>1 DEF QueueFrames
<1>3. old \in Seq(S) /\ Len(old) = n /\ old[1] = samples[Head(outQ)]
  BY <1>1
<1>4. old # <<>>
  BY <1>1, <1>3
<1>5. \A i \in 1 .. (n - 1) : samples[outQ[i + 1]] = old[i + 1]
  BY <1>1
<1> HIDE DEF old, S
<1>6. /\ Head(old) = old[1] /\ Tail(old) \in Seq(S) /\ Len(Tail(old)) = n - 1
      /\ \A i \in 1 .. (n - 1) : Tail(old)[i] = old[i + 1]
  BY <1>3, <1>4, HeadTailProperties
<1>7. Tail(old) \in [1 .. (n - 1) -> S]
  BY <1>6, LenProperties
<1>8. Tail(old) = [i \in 1 .. (n - 1) |-> old[i + 1]]
  BY <1>6, <1>7
<1> QED  BY <1>2, <1>3, <1>4, <1>5, <1>6, <1>8

\* What consumers have stays what it was.
LEMMA LoansKept ==
  ASSUME TypeOK, SamplesKept, UNCHANGED held
  PROVE  LoanFrames' = LoanFrames
<1>1. \A p \in Pics : held[p] # 0 => samples'[p] = samples[p]
  BY DEF SamplesKept, Idle
<1> QED  BY <1>1 DEF LoanFrames
-----------------------------------------------------------------------------
(* Every step of the decoder is a step of the store, or none. *)

\* What the store shows does not change.
Unseen == UNCHANGED <<SlotFrames, QueueFrames, LoanFrames, closed>>

\* A step nobody sees is a stutter of the store.
LEMMA UnseenStutters == Unseen => UNCHANGED Store!svars
BY DEF Unseen, SlotFrames, QueueFrames, LoanFrames, Store!svars

\* A step that changes no holder and no held picture is not seen.
LEMMA QuietStep ==
  ASSUME TypeOK, SamplesKept, UNCHANGED <<refs, outQ, held, closed>>
  PROVE  Unseen
BY SlotsKept, QueueKept, LoansKept DEF Unseen

\* A finished frame fills its slots and is shown, and nobody else's samples
\* have changed.
LEMMA FinishDecodes ==
  ASSUME TypeOK, TypeOK', ~closed, SamplesKept, NEW pic \in Pics, NEW h \in Header,
         NEW hp, NEW f, NEW cdf, NEW mv, FinishFrame(hp, pic, h, f, cdf, mv),
         UNCHANGED <<held, closed>>
  PROVE  Store!Next
<1> DEFINE g == samples'[pic]
<1>1. /\ g \in Contents /\ h.refresh \in SUBSET Slots /\ IsShown(h) \in BOOLEAN
  BY ConstantsAssumption DEF TypeOK, Header, IsShown
<1>2. SlotFrames' = [s \in Slots |-> IF s \in h.refresh THEN g ELSE SlotFrames[s]]
  <2>1. ASSUME NEW s \in Slots, s \in h.refresh PROVE SlotFrames'[s] = g
    BY <2>1, NilAssumption DEF SlotFrames, FinishFrame, RefreshedSlots
  <2>2. ASSUME NEW s \in Slots, s \notin h.refresh
        PROVE  SlotFrames'[s] = SlotFrames[s]
    <3>1. refs'[s].pic = refs[s].pic
      BY <2>2 DEF FinishFrame, RefreshedSlots
    <3> QED  BY <3>1, SlotKept
  <2>3. SlotFrames' = [s \in Slots |-> SlotFrames'[s]]
    BY DEF SlotFrames
  <2> QED  BY <2>1, <2>2, <2>3
<1>3. QueueFrames' = IF IsShown(h) THEN Append(QueueFrames, g) ELSE QueueFrames
  <2>1. CASE IsShown(h)
    BY <2>1, QueueAppended DEF FinishFrame
  <2>2. CASE ~IsShown(h)
    BY <2>2, QueueKept DEF FinishFrame
  <2> QED  BY <2>1, <2>2
<1>4. LoanFrames' = LoanFrames
  BY LoansKept
<1>5. Store!Decode(g, h.refresh, IsShown(h))
  <2> HIDE DEF g
  <2> QED  BY <1>2, <1>3, <1>4 DEF Store!Decode, SlotFrames, QueueFrames, LoanFrames
<1> HIDE DEF g
<1> QED  BY <1>1, <1>5 DEF Store!Next

\* A slot is shown again.
LEMMA ShowStep ==
  ASSUME TypeOK, StoreInv, NEW s \in Slots, ShowExistingFrame(s)
  PROVE  Store!Next \/ Unseen
<1>1. SamplesKept /\ UNCHANGED <<refs, held, closed, samples>> /\ ~closed
  BY DEF ShowExistingFrame, HeaderArrives, SamplesKept, StoreInv, BusyOpen
<1>2. CASE refs[s].pic = Nil
  BY <1>1, <1>2, QuietStep DEF ShowExistingFrame
<1>3. CASE refs[s].pic # Nil
  <2>1. refs[s].pic \in Pics /\ samples[refs[s].pic] \in Contents
    BY <1>3 DEF TypeOK, Ref
  <2>2. SlotFrames[s] = samples[refs[s].pic] /\ SlotFrames[s] # Nil
    BY <1>3, <2>1, NilAssumption DEF SlotFrames
  <2>3. QueueFrames' = Append(QueueFrames, SlotFrames[s])
    BY <1>1, <1>3, <2>1, <2>2, QueueAppended DEF ShowExistingFrame
  <2>4. UNCHANGED <<SlotFrames, LoanFrames>>
    BY <1>1, SlotsKept, LoansKept
  <2>5. Store!ShowAgain(s)
    BY <1>1, <2>2, <2>3, <2>4 DEF Store!ShowAgain, SlotFrames, QueueFrames, LoanFrames
  <2> QED  BY <2>5 DEF Store!Next
<1> QED  BY <1>2, <1>3

\* GetPicture lends the oldest frame.
LEMMA TakeStep ==
  ASSUME TypeOK, GetPicture
  PROVE  Store!Next
<1> PICK p \in Pics : p = Head(outQ)
  BY HeadTailProperties DEF GetPicture, TypeOK
<1>1. /\ p = Head(outQ) /\ UNCHANGED <<refs, samples, closed>> /\ ~closed
      /\ outQ # <<>> /\ outQ' = Tail(outQ) /\ held' = [held EXCEPT ![p] = @ + 1]
  BY DEF GetPicture
<1>2. SamplesKept
  BY <1>1 DEF SamplesKept
<1>3. UNCHANGED SlotFrames
  BY <1>1, <1>2, SlotsKept
<1>4. /\ QueueFrames # <<>> /\ Head(QueueFrames) = samples[p]
      /\ QueueFrames' = Tail(QueueFrames)
  BY <1>1, QueueTaken
<1>5. LoanFrames[p] \in {Nil, samples[p]}
  BY <1>1 DEF LoanFrames
<1>6. LoanFrames' = [LoanFrames EXCEPT ![p] = samples[p]]
  <2>1. held'[p] # 0 /\ \A q \in Pics \ {p} : held'[q] = held[q]
    BY <1>1 DEF TypeOK
  <2> QED  BY <1>1, <2>1 DEF LoanFrames
<1>7. Store!Take(p)
  BY <1>1, <1>3, <1>4, <1>5, <1>6
     DEF Store!Take, SlotFrames, QueueFrames, LoanFrames
<1> QED  BY <1>7 DEF Store!Next

\* Flush drops the slots, Close the queue too.
LEMMA DropStep ==
  ASSUME TypeOK, Flush \/ Close
  PROVE  Store!Next
<1>1. /\ UNCHANGED <<samples, held>> /\ ~closed
      /\ \A s \in Slots : refs'[s].pic = Nil
  BY DEF Flush, Close, TypeOK, Ref
<1>2. SamplesKept
  BY <1>1 DEF SamplesKept
<1>3. SlotFrames' = [s \in Slots |-> Nil]
  BY <1>1 DEF SlotFrames
<1>4. UNCHANGED LoanFrames
  BY <1>1, <1>2, LoansKept
<1>5. CASE Flush
  <2>1. UNCHANGED <<QueueFrames, closed>>
    BY <1>2, <1>5, QueueKept DEF Flush
  <2>2. Store!Drop
    BY <1>1, <1>3, <1>4, <2>1 DEF Store!Drop, SlotFrames, QueueFrames, LoanFrames
  <2> QED  BY <2>2 DEF Store!Next
<1>6. CASE Close
  <2>1. QueueFrames' = <<>> /\ closed' = TRUE
    BY <1>6 DEF Close, QueueFrames
  <2>2. Store!Stop
    BY <1>1, <1>3, <1>4, <2>1 DEF Store!Stop, SlotFrames, QueueFrames, LoanFrames
  <2> QED  BY <2>2 DEF Store!Next
<1> QED  BY <1>5, <1>6

\* Release gives a frame back with its last reference.
LEMMA GiveBackStep ==
  ASSUME TypeOK, NEW p \in Pics, RetainPicture(p) \/ ReleasePicture(p)
  PROVE  Store!Next \/ Unseen
<1>1. /\ UNCHANGED <<refs, outQ, samples, closed>>
      /\ held' \in [Pics -> Int] /\ held[p] # 0
      /\ \A q \in Pics \ {p} : held'[q] = held[q]
  BY DEF RetainPicture, ReleasePicture, TypeOK
<1>2. SamplesKept
  BY <1>1 DEF SamplesKept
<1>3. UNCHANGED <<SlotFrames, QueueFrames>>
  BY <1>1, <1>2, SlotsKept, QueueKept
<1>4. CASE held'[p] = 0
  <2>1. LoanFrames' = [LoanFrames EXCEPT ![p] = Nil]
    BY <1>1, <1>4 DEF LoanFrames
  <2>2. Store!GiveBack(p)
    BY <1>1, <1>3, <2>1 DEF Store!GiveBack, SlotFrames, QueueFrames, LoanFrames
  <2> QED  BY <2>2 DEF Store!Next
<1>5. CASE held'[p] # 0
  <2>1. UNCHANGED LoanFrames
    BY <1>1, <1>5 DEF LoanFrames
  <2> QED  BY <1>1, <1>3, <2>1 DEF Unseen
<1> QED  BY <1>4, <1>5

\* A tile group writes the pending frame's picture, and may finish it.
LEMMA TileGroupStep ==
  ASSUME TypeOK, TypeOK', StoreInv, NEW a \in Tiles, NEW b \in Tiles,
         NEW cut \in 0 .. (NTiles + 1),
         TileGroupObu(a, b, cut) \/ TileGroupError(a, b, cut)
  PROVE  Store!Next \/ Unseen
<1> DEFINE new == DecodedCdf(pending.hdr, pending.frame, a, b, cut)
           cdf == IF new # Nil THEN new ELSE pending.cdf
<1>1. pending # Nil /\ ~closed /\ UNCHANGED <<held, closed>>
  BY DEF TileGroupObu, TileGroupError, StoreInv, BusyOpen
<1>2. pending.pic \in Pics /\ pending.hdr \in Header /\ Idle(pending.pic)
  BY <1>1, PendingType, ConstantsAssumption DEF Pending, StoreInv, PendingAlone
<1>3. SamplesKept
  <2>1. \A q \in Pics \ {pending.pic} : samples'[q] = samples[q]
    BY DEF TileGroupObu, TileGroupError, TypeOK
  <2> QED  BY <1>2, <2>1 DEF SamplesKept
<1>4. \/ UNCHANGED <<refs, outQ>>
      \/ FinishFrame(heap, pending.pic, pending.hdr, pending.frame, cdf, pending.frame)
  BY DEF TileGroupObu, TileGroupError
<1> HIDE DEF cdf
<1> QED  BY <1>1, <1>2, <1>3, <1>4, QuietStep, FinishDecodes

\* A whole OBU_FRAME writes a picture of the pool, and may finish it.
LEMMA FrameStep ==
  ASSUME TypeOK, TypeOK', NoDanglingPicture, StoreInv, NEW h \in Headers,
         NEW a \in Tiles, NEW b \in Tiles, NEW cut \in 0 .. (NTiles + 1),
         FrameObu(h, a, b, cut)
  PROVE  Store!Next \/ Unseen
<1> DEFINE f  == frames + 1
           mv == IF cut = 0 THEN Nil ELSE f
<1>1. PICK p \in DiscardedHeap.pool :
        /\ samples' = [samples EXCEPT ![p] = Decoded(Seeded(p), f, a, b, cut)]
        /\ \/ FinishFrame(Acquired(DiscardedHeap, p), p, h, f,
                          DecodedCdf(h, f, a, b, cut), mv)
           \/ UNCHANGED <<refs, outQ>>
  BY DEF FrameObu
<1>2. ~closed /\ UNCHANGED <<held, closed>> /\ h \in Header
  BY ConstantsAssumption DEF FrameObu, StoreInv, BusyOpen
<1>3. p \in Pics /\ Idle(p)
  BY PoolIdle DEF StoreInv
<1>4. SamplesKept
  BY <1>1, <1>3 DEF SamplesKept, TypeOK
<1> HIDE DEF f, mv
<1> QED  BY <1>1, <1>2, <1>3, <1>4, QuietStep, FinishDecodes

\* Every step of the decoder is a step of the store, or not seen.
LEMMA NextRefines ==
  TypeOK /\ TypeOK' /\ NoDanglingPicture /\ StoreInv /\ [Next]_vars
    => Store!Next \/ Unseen
<1> SUFFICES ASSUME TypeOK, TypeOK', NoDanglingPicture, StoreInv, [Next]_vars
             PROVE  Store!Next \/ Unseen
  OBVIOUS
<1>1. ASSUME UNCHANGED <<samples, refs, outQ, held, closed>> PROVE Unseen
  BY <1>1, QuietStep DEF SamplesKept
<1>2. CASE \/ SendData \/ SendDataReturn \/ \E ok \in BOOLEAN : SequenceHeader(ok)
           \/ TemporalDelimiter \/ HeaderError
           \/ \E b \in Tiles : SkippedTileGroup(b)
           \/ \E p \in Pics : ReleaseCallback(p)
  BY <1>1, <1>2 DEF SendData, SendDataReturn, SequenceHeader, TemporalDelimiter,
     HeaderError, SkippedTileGroup, ReleaseCallback
<1>3. ASSUME NEW h \in Headers, FrameHeaderObu(h) PROVE Unseen
  <2>1. PICK p \in DiscardedHeap.pool : samples' = [samples EXCEPT ![p] = Seeded(p)]
    BY <1>3 DEF FrameHeaderObu
  <2>2. p \in Pics /\ Idle(p)
    BY PoolIdle DEF StoreInv
  <2>3. SamplesKept /\ UNCHANGED <<refs, outQ, held, closed>>
    BY <1>3, <2>1, <2>2 DEF SamplesKept, TypeOK, FrameHeaderObu
  <2> QED  BY <2>3, QuietStep
<1>4. CASE UNCHANGED vars
  BY <1>1, <1>4 DEF vars
<1> QED
  BY <1>2, <1>3, <1>4, ShowStep, TakeStep, DropStep, GiveBackStep, TileGroupStep,
     FrameStep DEF Next, RouteOBU, Consumer

\* The decoder implements the store of immutable frames: whatever a slot, the
\* queue or a consumer has, no later OBU, Flush, Close, Retain or Release
\* changes it, for any number of slots, pictures, tiles and frames, strict or
\* best effort, on whole, grouped or lossy streams.
THEOREM StoreImplemented == Spec => ImplementsFrameStore
<1>1. Init => Store!Init /\ StoreInv
  <2> SUFFICES ASSUME Init PROVE Store!Init /\ StoreInv
    OBVIOUS
  <2>1. /\ SlotFrames = [s \in Slots |-> Nil] /\ QueueFrames = <<>>
        /\ LoanFrames = [p \in Pics |-> Nil] /\ closed = FALSE
    BY DEF Init, SlotFrames, QueueFrames, LoanFrames
  <2>2. Store!Init
    BY <2>1 DEF Store!Init, SlotFrames, QueueFrames, LoanFrames
  <2> QED  BY <2>2 DEF Init, StoreInv, PendingAlone, BusyOpen
<1>2. TypeOK /\ NoDanglingPicture /\ StoreInv /\ [Next]_vars => StoreInv'
  BY NextAlone
<1>3. TypeOK /\ TypeOK' /\ NoDanglingPicture /\ StoreInv /\ [Next]_vars
        => [Store!Next]_(Store!svars)
  BY NextRefines, UnseenStutters
<1> QED
  BY <1>1, <1>2, <1>3, TypeCorrect, NoPictureDangles, PTL
     DEF Spec, ImplementsFrameStore, Store!Spec

=============================================================================
