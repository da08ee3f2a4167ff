----------------------------- MODULE TileCodec ------------------------------
(* A tile from the encoder (internal/encoder/core/encode.go) to the decoder   *)
(* (internal/tile/decoder.go): node by node of the partition tree, the        *)
(* encoder chooses a partition and a block, writes their symbols and notes in *)
(* its state what it wrote; the decoder reads the symbols with the tables its *)
(* own state calls for and notes what it read.  A symbol is <<table, value>>, *)
(* wire the symbols under way; the coefficients of a block are one symbol     *)
(* here, whose value is the context they leave (Residual has what it stands   *)
(* for).  What the encoder finds best is left open: any choice, or, *)
(* to reach larger tiles, one drawn from the job's seed.                      *)
EXTENDS TileState, Residual

CONSTANTS Jobs   \* the tiles to code: records of the fields below

(* A job: w, h in samples; key; refs, the slot of each of the seven           *)
(* references; compound, obmc: the tools the frame header turns on; free: the *)
(* choices left open; seed: what the others are drawn from.                   *)
VARIABLES job, turn, wire, enc, dec, encTodo, decTodo, syn
tileVars == <<job, turn, wire, enc, dec, encTodo, decTodo, syn>>

LOCAL Flag(c) == IF c THEN 1 ELSE 0

NoTile == [w |-> 8, h |-> 8, key |-> TRUE, refs |-> <<0, 0, 0, 0, 0, 0, 0>>,
           compound |-> FALSE, obmc |-> FALSE, free |-> {}, seed |-> 0]
\* What the decoder knows of the block it reads; phase: what it reads next.
NoSyntax == [phase |-> "partition", b |-> [x |-> 0, y |-> 0, w |-> 0, h |-> 0], skip |-> FALSE, ymode |-> 0,
             mode |-> "none", frames |-> <<0, 0>>, found |-> Nothing, mvs |-> <<NoMotion, NoMotion>>, plane |-> 0]

NodeSize(n) == 32 \div 2^n.bl
NodeHalf(n) == NodeSize(n) \div 2
\* A child of a node; right: the samples above right of it come before it.
Child(n, i) ==
    [x |-> n.x + NodeHalf(n) * (i % 2), y |-> n.y + NodeHalf(n) * (i \div 2), bl |-> n.bl + 1,
     right |-> ~(i = 3 \/ (i = 1 /\ ~n.right))]
Children(n, which) == [k \in DOMAIN which |-> Child(n, which[k])]
Leaf(n) == [x |-> n.x, y |-> n.y, w |-> NodeSize(n), h |-> NodeSize(n)]

\* Does the grid reach into the right, the lower half of the node?  (A child in
\* a half it does not reach is never visited.)
ReachesRight(n, st) == st.w > n.x + NodeHalf(n)
ReachesBottom(n, st) == st.h > n.y + NodeHalf(n)

\* Superblocks of 128x128 samples, row by row.
Roots(st) ==
    LET cols == (st.w + 31) \div 32
    IN [k \in 1 .. cols * ((st.h + 31) \div 32) |->
          [x |-> 32 * ((k - 1) % cols), y |-> 32 * ((k - 1) \div cols), bl |-> 0, right |-> TRUE]]

Fresh(size) == NewFrameState(CodedUnits(size.w), CodedUnits(size.h))
\* The decoder's job ends with its last superblock.
DecoderFresh(size) ==
    [Fresh(size) EXCEPT !.endX = 32 * ((@ + 31) \div 32), !.endY = 32 * ((@ + 31) \div 32)]
TileInit ==
    /\ job \in Jobs \cup {NoTile}
    /\ turn = "encoder" /\ wire = [in |-> <<>>, bad |-> FALSE]
    /\ enc = Fresh(job) /\ dec = DecoderFresh(job)
    /\ encTodo = (IF job = NoTile THEN <<>> ELSE Roots(Fresh(job)))
    /\ decTodo = encTodo
    /\ syn = NoSyntax

-----------------------------------------------------------------------------
(* The symbols of a motion vector difference v # 0, in eighths of a sample.   *)

ClassBits(v, n) == [i \in 1 .. n |-> (v \div 2^(i - 1)) % 2]
ComponentSymbols(comp, v) ==
    LET m == (IF v < 0 THEN -v ELSE v) - 1
        up == m \div 8
        class == IF up < 2 THEN 0 ELSE BitLength(up) - 1
        fp == (m \div 2) % 4
    IN << << <<"MVSign", comp>>, Flag(v < 0)>>, << <<"MVClass", comp>>, class>> >>
       \o (IF class = 0
           THEN << << <<"MVClass0", comp>>, up>>, << <<"MVClass0FP", comp, up>>, fp>>, << <<"MVClass0HP", comp>>, m % 2>> >>
           ELSE [i \in 1 .. class |-> << <<"MVClassN", comp, i - 1>>, ClassBits(up, class)[i]>>]
                  \o << << <<"MVClassNFP", comp>>, fp>>, << <<"MVClassNHP", comp>>, m % 2>> >>)
MVSymbols(mv) ==
    << << <<"MVJoint">>, Flag(mv[2] # 0) + 2 * Flag(mv[1] # 0)>> >>
    \o (IF mv[1] = 0 THEN <<>> ELSE ComponentSymbols(0, mv[1]))
    \o (IF mv[2] = 0 THEN <<>> ELSE ComponentSymbols(1, mv[2]))

RECURSIVE ReadBits(_, _, _, _)
\* Bits i .. n - 1 of a class, the lowest first: <<value, rest>>.
ReadBits(s, comp, i, n) ==
    LET at == <<"MVClassN", comp, i>>
        And(bit, rest) == <<bit * 2^i + rest[1], rest[2]>>
    IN IF i = n THEN <<0, s>> ELSE And(Answer(s, at), ReadBits(Asked(s, at), comp, i + 1, n))
\* The two fractional symbols complete a difference: <<magnitude, rest>>.
WithFraction(s, up, fp, hp) ==
    <<8 * up + 2 * Answer(s, fp) + Answer(Asked(s, fp), hp) + 1, Asked(Asked(s, fp), hp)>>
Ranged(s, comp, class) ==
    LET class0 == <<"MVClass0", comp>>
        Low(up) == WithFraction(Asked(s, class0), up, <<"MVClass0FP", comp, up>>, <<"MVClass0HP", comp>>)
        High(up) == WithFraction(up[2], 2^class + up[1], <<"MVClassNFP", comp>>, <<"MVClassNHP", comp>>)
    IN IF class = 0 THEN Low(Answer(s, class0)) ELSE High(ReadBits(s, comp, 0, class))
Signed(sign, m) == <<IF sign = 1 THEN -m[1] ELSE m[1], m[2]>>
ReadMVComponentDiff(s, comp) ==
    LET afterSign == Asked(s, <<"MVSign", comp>>)
    IN Signed(Answer(s, <<"MVSign", comp>>),
              Ranged(Asked(afterSign, <<"MVClass", comp>>), comp, Answer(afterSign, <<"MVClass", comp>>)))
ReadColumn(joint, y, s) ==
    IF joint % 2 = 0 THEN << <<y, 0>>, s>>
    ELSE LET Pair(x) == << <<y, x[1]>>, x[2]>> IN Pair(ReadMVComponentDiff(s, 1))
ReadRow(joint, s) ==
    IF joint < 2 THEN ReadColumn(joint, 0, s)
    ELSE LET Then(y) == ReadColumn(joint, y[1], y[2]) IN Then(ReadMVComponentDiff(s, 0))
ReadMVResidual(s) == ReadRow(Answer(s, <<"MVJoint">>), Asked(s, <<"MVJoint">>))

Sum(a, b) == <<a[1] + b[1], a[2] + b[2]>>
Difference(a, b) == <<a[1] - b[1], a[2] - b[2]>>

-----------------------------------------------------------------------------
(* What both sides name alike.                                                *)

CoefTable(st, plane, b) == <<"Coef", plane, b.w, CoefSkipCtx(st, plane, b), DCSignCtx(st, plane, b)>>
KFYTable(st, b) == <<"KFYMode", TopModeCtx(st, b), LeftModeCtx(st, b)>>
RefTable(st, b, i, name) == <<"Ref", i, RefCtx(st, b, name)>>
PartitionTable(name, st, n) == <<name, n.bl, PartCtx(st, n)>>

\* The first vector of a stack, zero when there is none.
FirstOf(stack) == IF stack = <<>> THEN NoMotion ELSE stack[1].mvs[1]

IntraState(b, mode) ==
    [NoBlockState EXCEPT !.x = b.x, !.y = b.y, !.intra = TRUE, !.ymode = mode]
InterState(b, skip, frames, mode, mvs) ==
    [NoBlockState EXCEPT !.x = b.x, !.y = b.y, !.skip = skip, !.compound = frames[2] > 0, !.frames = frames,
                         !.slots = [i \in 1 .. 2 |-> IF frames[i] = 0 THEN 0 ELSE job.refs[frames[i]]],
                         !.mode = mode, !.mvs = mvs]

AllCoefCtx(st, b, res) == SetCoefCtx(SetCoefCtx(SetCoefCtx(st, 0, b, res[1]), 1, b, res[2]), 2, b, res[3])
NoResidual == <<64, 64, 64>>

-----------------------------------------------------------------------------
(* The encoder's choices.  What it searches for in the pictures is any of     *)
(* these, or the one the seed and the place draw.                             *)

Drawn(n, salt, k) ==
    LET a == ((job.seed * 31 + n.x * 17 + n.y * 71 + n.bl * 13) * 7919) % 10007
    IN ((a * a + salt * 389) % 10009) % k
Pick(n, salt, q) == IF salt \in job.free THEN ToSet(q) ELSE {q[Drawn(n, salt, Len(q)) + 1]}

Residuals == << <<133, 64, 3>>, NoResidual, <<3, 130, 130>>, <<66, 64, 64>>, <<64, 3, 64>> >>
Motions == <<"zero", "first", "one", "two">>
Kinds == IF job.compound THEN <<"single", "new", "global", "obmc">> ELSE <<"single", "obmc">>
Motion2(name) == IF name = "one" THEN <<4, -13>> ELSE <<-70, 8>>
VectorOf(name, first) == CASE name = "zero" -> NoMotion [] name = "first" -> first [] OTHER -> Motion2(name)

\* The first order of each slot: a picture is searched once.
Orders == {o \in 0 .. 6 : \A i \in 0 .. o - 1 : job.refs[i + 1] # job.refs[o + 1]}

\* Larger blocks lie inside the picture; intra ones are 16x16 at most.
MayBeLarge(n) == /\ n.bl = 3 \/ (n.bl = 2 /\ ~job.key)
                 /\ 4 * (n.x + NodeSize(n)) <= job.w /\ 4 * (n.y + NodeSize(n)) <= job.h
KeyModes(n) == <<0>> \o (IF n.y > 0 THEN <<1>> ELSE <<>>) \o (IF n.x > 0 THEN <<2>> ELSE <<>>)
                     \o (IF n.x > 0 /\ n.y > 0 THEN <<9, 10, 11, 12>> ELSE <<>>)

-----------------------------------------------------------------------------
(* The encoder: one node at a time.                                           *)

Writes(symbols) == wire' = [wire EXCEPT !.in = symbols]
Encoded(nodes) == encTodo' = nodes \o Tail(encTodo) /\ turn' = "decoder"

CoefSymbols(st, b, res) == [p \in 1 .. 3 |-> <<CoefTable(st, p - 1, b), res[p]>>]

\* encodeBlock: skip is never set.
KeySymbols(st, b, mode, res) ==
    << << <<"Skip", SkipCtx(st, b)>>, 0>>, <<KFYTable(st, b), mode>> >>
    \o (IF mode \in 1 .. 8 THEN << << <<"AngleDelta", mode - 1>>, 3>> >> ELSE <<>>)
    \o << << <<"UVMode", 1, mode>>, 0>> >> \o CoefSymbols(st, b, res)
KeyCommitted(st, b, mode, res) ==
    SetBlock(SetBlockState(AllCoefCtx(st, b, res), b, IntraState(b, mode)), b, FALSE, IntraToKFYCtx(mode))

RefSymbols(st, b, order) ==
    LET bit(i, name, v) == <<RefTable(st, b, i, name), Flag(v)>>
    IN IF order >= 4
       THEN <<bit(0, "ref", TRUE), bit(1, "ref2", order = 6)>>
              \o (IF order = 6 THEN <<>> ELSE <<bit(5, "ref6", order = 5)>>)
       ELSE <<bit(0, "ref", FALSE), bit(2, "ref3", order >= 2),
              IF order >= 2 THEN bit(4, "ref5", order = 3) ELSE bit(3, "ref4", order = 1)>>

\* Which mode says vector mv, given what was found.
ModeFor(mv, found) ==
    IF found.stack # <<>> /\ mv = FirstOf(found.stack) THEN "nearest"
    ELSE IF mv # NoMotion THEN "new" ELSE "global"
DRLTable(stack) == <<"DRLBit", DRLContext(stack, 0)>>
MutMotionSymbols(mv, found) ==
    LET mode == ModeFor(mv, found)
        newMV == << <<"NewMV", ModeContexts(found)[2]>>, Flag(mode # "new")>>
    IN CASE mode = "nearest" -> <<newMV, << <<"GlobalMV", 0>>, 1>>, << <<"RefMV", ModeContexts(found)[1]>>, 0>> >>
         [] mode = "global" -> <<newMV, << <<"GlobalMV", 0>>, 0>> >>
         [] mode = "new" -> <<newMV>> \o (IF found.stack # <<>> THEN << <<DRLTable(found.stack), 0>> >> ELSE <<>>)
                              \o MVSymbols(Difference(mv, FirstOf(found.stack)))
MotionSymbols(mv, found) ==
    LET mode == ModeFor(mv, found)
        newMV == << <<"NewMV", ModeContexts(found)[2]>>, Flag(mode # "new")>>
    IN CASE mode = "nearest" -> <<newMV, << <<"GlobalMV", 0>>, 1>>, << <<"RefMV", ModeContexts(found)[1]>>, 0>> >>
         [] mode = "global" -> <<newMV, << <<"GlobalMV", 0>>, 0>> >>
         [] mode = "new" -> <<newMV>> \o (IF Len(found.stack) > 1 THEN << <<DRLTable(found.stack), 0>> >> ELSE <<>>)
                              \o MVSymbols(Difference(mv, FirstOf(found.stack)))

OBMCSymbols(st, b, used) ==
    IF job.obmc /\ MotionModeNeighbours(st, b) THEN << << <<"OBMC", b.w>>, Flag(used)>> >> ELSE <<>>

\* A pair of references, LAST and LAST2: with vectors, or without any.
PairSymbols(st, b, kind, mvs, pairs) ==
    << << <<"CompDir", CompoundDirContext(st, b)>>, 0>>, << <<"CompUniRef", 0, RefCtx(st, b, "ref")>>, 0>>,
       << <<"CompUniRef", 1, RefCtx(st, b, "uniP1")>>, 0>>,
       << <<"CompInterMode", CompoundInterModeContext(st, b, <<1, 2>>)>>, IF kind = "new" THEN 7 ELSE 6>> >>
    \o (IF kind = "global" THEN <<>>
        ELSE << <<DRLTable(pairs.stack), 0>> >> \o MVSymbols(Difference(mvs[1], pairs.stack[1].mvs[1]))
                                                \o MVSymbols(Difference(mvs[2], pairs.stack[1].mvs[2])))

(* encodeInterBlock, for a choice c of reference order, kind, vectors and     *)
(* residual; found is what the search for the reference gave, or for the pair.*)
InterSymbols(st, b, c, mvs, found) ==
    LET skip == c.res = NoResidual
        pair == c.kind \in {"new", "global"}
    IN << << <<"Skip", SkipCtx(st, b)>>, Flag(skip)>>, << <<"Intra", IntraCtx(st, b)>>, 1>> >>
       \o (IF job.compound THEN << << <<"Comp", CompoundFlagContext(st, b)>>, Flag(pair)>> >> ELSE <<>>)
       \o (IF pair THEN PairSymbols(st, b, c.kind, mvs, found)
           ELSE RefSymbols(st, b, c.order) \o MotionSymbols(mvs[1], found) \o OBMCSymbols(st, b, c.kind = "obmc"))
       \o (IF skip THEN <<>> ELSE CoefSymbols(st, b, c.res))
InterMode(c, mvs, found) ==
    CASE c.kind = "new" -> "new_new" [] c.kind = "global" -> "global_global" [] OTHER -> ModeFor(mvs[1], found)
InterCommitted(st, b, c, mvs, found) ==
    LET blk == InterState(b, c.res = NoResidual, IF c.kind \in {"new", "global"} THEN <<1, 2>> ELSE <<c.order + 1, 0>>,
                          InterMode(c, mvs, found), mvs)
    IN CommitInterBlock(SetChromaBlockState(AllCoefCtx(st, b, c.res), b, WithUvTx(blk, b.w \div 2)), b, blk)

(* encodePartition: None(0) with its block, or Split(3); at an edge that cuts *)
(* the node only a split is left, and nothing says so at a corner.            *)
EncodeSplit ==
    /\ turn = "encoder" /\ encTodo # <<>>
    /\ LET n == Head(encTodo)
           right == ReachesRight(n, enc)
           bottom == ReachesBottom(n, enc)
       IN \/ ~right /\ ~bottom /\ wire' = wire /\ Encoded(Children(n, <<0>>))
          \/ /\ right /\ ~bottom
             /\ Writes(<< <<PartitionTable("PartitionTop", enc, n), 1>> >>) /\ Encoded(Children(n, <<0, 1>>))
          \/ /\ ~right /\ bottom
             /\ Writes(<< <<PartitionTable("PartitionLeft", enc, n), 1>> >>) /\ Encoded(Children(n, <<0, 2>>))
          \/ /\ right /\ bottom /\ n.bl < 4
             /\ MayBeLarge(n) => FALSE \in Pick(n, 1, <<TRUE, FALSE>>)
             /\ Writes(<< <<PartitionTable("Partition", enc, n), 3>> >>) /\ Encoded(Children(n, <<0, 1, 2, 3>>))
    /\ UNCHANGED <<job, enc, dec, decTodo, syn>>

\* The node at the head is coded whole.
IsLeaf(n) ==
    /\ ReachesRight(n, enc) /\ ReachesBottom(n, enc)
    /\ n.bl = 4 \/ (MayBeLarge(n) /\ TRUE \in Pick(n, 1, <<TRUE, FALSE>>))
None(n) == <<PartitionTable("Partition", enc, n), 0>>

EncodeKeyLeaf ==
    /\ turn = "encoder" /\ encTodo # <<>> /\ job.key
    /\ LET n == Head(encTodo)
           b == Leaf(n)
       IN /\ IsLeaf(n)
          /\ \E mode \in Pick(n, 2, KeyModes(n)), res \in Pick(n, 3, Residuals) :
                /\ Writes(<<None(n)>> \o KeySymbols(enc, b, mode, res))
                /\ enc' = SetPartition(KeyCommitted(enc, b, mode, res), n, NodeSize(n))
    /\ Encoded(<<>>) /\ UNCHANGED <<job, dec, decTodo, syn>>

\* Overlapped prediction and pairs are tried for 8x8 blocks only.
Allowed(n, kind) ==
    /\ kind # "single" => n.bl = 4
    /\ kind = "obmc" => job.obmc /\ MotionModeNeighbours(enc, Leaf(n))
InterChoices(n) ==
    [order : Pick(n, 4, SetToSeq(Orders)), kind : Pick(n, 5, SelectSeq(Kinds, LAMBDA k : Allowed(n, k))),
     mv : Pick(n, 6, Motions), mv2 : Pick(n, 7, Motions), res : Pick(n, 8, Residuals)]
WriteInter(n, c, mvs, found) ==
    /\ Writes(<<None(n)>> \o InterSymbols(enc, Leaf(n), c, mvs, found))
    /\ enc' = SetPartition(InterCommitted(enc, Leaf(n), c, mvs, found), n, NodeSize(n))
EncodeInter(n, c, found) ==
    LET first(i) == IF found.stack = <<>> THEN NoMotion ELSE found.stack[1].mvs[i]
    IN WriteInter(n, c, IF c.kind = "global" THEN <<NoMotion, NoMotion>>
                        ELSE <<VectorOf(c.mv, first(1)), IF c.kind = "new" THEN VectorOf(c.mv2, first(2)) ELSE NoMotion>>,
                  found)
EncodeInterLeaf ==
    /\ turn = "encoder" /\ encTodo # <<>> /\ ~job.key
    /\ LET n == Head(encTodo)
       IN /\ IsLeaf(n)
          /\ \E c \in InterChoices(n) :
                EncodeInter(n, c, IF c.kind \in {"new", "global"} THEN Find(PairSearch(enc, Leaf(n), <<1, 2>>))
                                  ELSE SingleRefSearch(enc, Leaf(n), c.order + 1))
    /\ Encoded(<<>>) /\ UNCHANGED <<job, dec, decTodo, syn>>

-----------------------------------------------------------------------------
(* The decoder: one symbol at a time, or the symbols of one vector or one     *)
(* reference.  Its phase says which comes next.                               *)

Phase(name) == turn = "decoder" /\ syn.phase = name
Took(cdf) == wire' = Asked(wire, cdf)
Goes(next) == syn' = next
Stays == UNCHANGED <<job, turn, enc, dec, encTodo, decTodo>>
\* Back to the encoder, with these nodes in place of the one at the head.
Parted(nodes) ==
    /\ decTodo' = nodes \o Tail(decTodo) /\ turn' = "encoder"
    /\ UNCHANGED <<job, enc, dec, encTodo, syn>>
\* What this encoder never says is left out: BlockWalk has every partition.
OnlyIf(c, s) == IF c THEN s ELSE [s EXCEPT !.bad = TRUE]
Expected(cdf, v) == wire' = OnlyIf(Answer(wire, cdf) = v, Asked(wire, cdf))

DecodePartition ==
    /\ Phase("partition") /\ decTodo # <<>> /\ ~wire.bad
    /\ LET n == Head(decTodo)
           right == ReachesRight(n, dec)
           bottom == ReachesBottom(n, dec)
           cdf == PartitionTable("Partition", dec, n)
       IN \/ ~right /\ ~bottom /\ wire' = wire /\ Parted(Children(n, <<0>>))
          \/ /\ right /\ ~bottom
             /\ Expected(PartitionTable("PartitionTop", dec, n), 1) /\ Parted(Children(n, <<0, 1>>))
          \/ /\ ~right /\ bottom
             /\ Expected(PartitionTable("PartitionLeft", dec, n), 1) /\ Parted(Children(n, <<0, 2>>))
          \/ right /\ bottom /\ Answer(wire, cdf) = 3 /\ Took(cdf) /\ Parted(Children(n, <<0, 1, 2, 3>>))
          \/ /\ right /\ bottom /\ Answer(wire, cdf) # 3 /\ Expected(cdf, 0)
             /\ Goes([NoSyntax EXCEPT !.phase = "skip", !.b = Leaf(n)])
             /\ UNCHANGED <<job, turn, enc, dec, encTodo, decTodo>>

DecodeSkip ==
    /\ Phase("skip") /\ Stays
    /\ LET cdf == <<"Skip", SkipCtx(dec, syn.b)>>
       IN Took(cdf) /\ Goes([syn EXCEPT !.skip = Answer(wire, cdf) = 1, !.phase = IF job.key THEN "ymode" ELSE "intra"])

\* Both modes and the angle, of which only the luma mode counts later on.
DecodeIntraModes ==
    /\ Phase("ymode") /\ Stays
    /\ LET cdf == KFYTable(dec, syn.b)
           mode == Answer(wire, cdf)
           angled == IF mode \in 1 .. 8 THEN Asked(Asked(wire, cdf), <<"AngleDelta", mode - 1>>) ELSE Asked(wire, cdf)
       IN /\ wire' = Asked(angled, <<"UVMode", 1, mode>>)
          /\ Goes([syn EXCEPT !.ymode = mode, !.phase = "coef"])

\* An intra block in an inter frame is left out: this encoder has none.
DecodeIntraFlag ==
    /\ Phase("intra") /\ Expected(<<"Intra", IntraCtx(dec, syn.b)>>, 1)
    /\ dec' = [dec EXCEPT !.topRight = Head(decTodo).right]
    /\ UNCHANGED <<job, turn, enc, encTodo, decTodo>>
    /\ Goes([syn EXCEPT !.phase = IF job.compound THEN "comp" ELSE "ref"])

DecodeCompFlag ==
    /\ Phase("comp") /\ Stays
    /\ LET cdf == <<"Comp", CompoundFlagContext(dec, syn.b)>>
       IN Took(cdf) /\ Goes([syn EXCEPT !.phase = IF Answer(wire, cdf) = 1 THEN "pair" ELSE "ref"])

(* decodeSingleRefReferenceSlot: <<order, rest>>.                             *)
Chosen(s, cdf, if0, if1) == <<IF Answer(s, cdf) = 1 THEN if1 ELSE if0, Asked(s, cdf)>>
ReadBackward(s, b) ==
    IF Answer(s, RefTable(dec, b, 1, "ref2")) = 1 THEN <<6, Asked(s, RefTable(dec, b, 1, "ref2"))>>
    ELSE Chosen(Asked(s, RefTable(dec, b, 1, "ref2")), RefTable(dec, b, 5, "ref6"), 4, 5)
ReadForward(s, b) ==
    IF Answer(s, RefTable(dec, b, 2, "ref3")) = 1
    THEN Chosen(Asked(s, RefTable(dec, b, 2, "ref3")), RefTable(dec, b, 4, "ref5"), 2, 3)
    ELSE Chosen(Asked(s, RefTable(dec, b, 2, "ref3")), RefTable(dec, b, 3, "ref4"), 0, 1)
ReadReference(b) ==
    LET cdf == RefTable(dec, b, 0, "ref")
    IN IF Answer(wire, cdf) = 1 THEN ReadBackward(Asked(wire, cdf), b) ELSE ReadForward(Asked(wire, cdf), b)
GoesToMode(order, s) ==
    /\ wire' = s
    /\ Goes([syn EXCEPT !.frames = <<order + 1, 0>>, !.found = SingleRefSearch(dec, syn.b, order + 1), !.phase = "newmv"])
DecodeReference ==
    /\ Phase("ref") /\ Stays
    /\ \E r \in {ReadReference(syn.b)} : GoesToMode(r[1], r[2])

\* decodeSingleRefInterSyntax and what its modes make of the stack.
DecodeMode ==
    /\ Phase("newmv") /\ Stays
    /\ LET ctx == ModeContexts(syn.found)
           newMV == <<"NewMV", ctx[2]>>
           after == Asked(wire, newMV)
           refMV == <<"RefMV", ctx[1]>>
       IN \/ Answer(wire, newMV) = 0 /\ wire' = after /\ Goes([syn EXCEPT !.mode = "new", !.phase = "drl"])
          \/ /\ Answer(wire, newMV) = 1 /\ Answer(after, <<"GlobalMV", 0>>) = 0
             /\ wire' = Asked(after, <<"GlobalMV", 0>>)
             /\ Goes([syn EXCEPT !.mode = "global", !.phase = "obmc"])
          \/ /\ Answer(wire, newMV) = 1 /\ Answer(after, <<"GlobalMV", 0>>) = 1
             /\ LET last == Asked(after, <<"GlobalMV", 0>>) IN wire' = OnlyIf(Answer(last, refMV) = 0, Asked(last, refMV))
             /\ Goes([syn EXCEPT !.mode = "nearest", !.mvs = <<FirstOf(syn.found.stack), NoMotion>>, !.phase = "obmc"])

DRLIndex(stack) == IF Len(stack) > 1 THEN Answer(wire, DRLTable(stack)) ELSE 0
AfterDRL(stack) == IF Len(stack) > 1 THEN Asked(wire, DRLTable(stack)) ELSE wire
GoesOn(stack, delta) ==
    /\ wire' = OnlyIf(DRLIndex(stack) = 0, delta[2])
    /\ Goes([syn EXCEPT !.mvs = <<Sum(FirstOf(stack), delta[1]), NoMotion>>, !.phase = "obmc"])
DecodeNewMotion ==
    /\ Phase("drl") /\ Stays
    /\ GoesOn(syn.found.stack, ReadMVResidual(AfterDRL(syn.found.stack)))

DecodeOBMC ==
    /\ Phase("obmc") /\ Stays
    /\ wire' = IF job.obmc /\ MotionModeNeighbours(dec, syn.b) THEN Asked(wire, <<"OBMC", syn.b.w>>) ELSE wire
    /\ Goes([syn EXCEPT !.phase = "coef"])

(* decodeCompoundInterSyntax: the pair of LAST and LAST2.                     *)
DecodePair ==
    /\ Phase("pair") /\ Stays
    /\ LET dir == <<"CompDir", CompoundDirContext(dec, syn.b)>>
           group == <<"CompUniRef", 0, RefCtx(dec, syn.b, "ref")>>
           second == <<"CompUniRef", 1, RefCtx(dec, syn.b, "uniP1")>>
           mode == <<"CompInterMode", CompoundInterModeContext(dec, syn.b, <<1, 2>>)>>
           zeros == Answer(wire, dir) + Answer(Asked(wire, dir), group) + Answer(Asked(Asked(wire, dir), group), second) = 0
           before == Asked(Asked(Asked(wire, dir), group), second)
       IN /\ wire' = OnlyIf(zeros /\ Answer(before, mode) \in {6, 7}, Asked(before, mode))
          /\ \/ Answer(before, mode) = 6 /\ Goes([syn EXCEPT !.frames = <<1, 2>>, !.mode = "global_global", !.phase = "coef"])
             \/ /\ Answer(before, mode) # 6
                /\ Goes([syn EXCEPT !.frames = <<1, 2>>, !.mode = "new_new", !.phase = "pairmv",
                                    !.found = Find(PairSearch(dec, syn.b, <<1, 2>>))])
GoesOnWith(stack, one, two) ==
    /\ wire' = OnlyIf(DRLIndex(stack) = 0, two[2])
    /\ Goes([syn EXCEPT !.mvs = <<Sum(stack[1].mvs[1], one[1]), Sum(stack[1].mvs[2], two[1])>>, !.phase = "coef"])
GoesOnPair(stack, one) == GoesOnWith(stack, one, ReadMVResidual(one[2]))
DecodePairMotion ==
    /\ Phase("pairmv") /\ Stays
    /\ GoesOnPair(syn.found.stack, ReadMVResidual(AfterDRL(syn.found.stack)))

\* The coefficients of the three planes, and what the block leaves.
CommitIntra(b, res) ==
    LET blk == IntraState(b, syn.ymode)
        coded == AllCoefCtx(dec, b, res)
    IN SetBlock(SetTxState(SetChromaBlockState(CommitIntraMVBlock(SetBlockState(coded, b, blk), b),
                                               b, WithUvTx(blk, b.w \div 2)), b, b.w), b, syn.skip, IntraToKFYCtx(syn.ymode))
CommitInter(b, res) ==
    LET blk == InterState(b, syn.skip, syn.frames, syn.mode, syn.mvs)
        coded == SetTxState(AllCoefCtx(dec, b, res), b, b.w)
    IN CommitInterBlock(SetChromaBlockState(coded, b, WithUvTx(blk, b.w \div 2)), b, blk)
DecodeResidual ==
    /\ Phase("coef")
    /\ LET b == syn.b
           one == Asked(wire, CoefTable(dec, 0, b))
           two == Asked(one, CoefTable(dec, 1, b))
           res == IF syn.skip THEN NoResidual
                  ELSE <<Answer(wire, CoefTable(dec, 0, b)), Answer(one, CoefTable(dec, 1, b)), Answer(two, CoefTable(dec, 2, b))>>
           n == Head(decTodo)
       IN /\ wire' = IF syn.skip THEN wire ELSE Asked(two, CoefTable(dec, 2, b))
          /\ dec' = SetPartition(IF job.key THEN CommitIntra(b, res) ELSE CommitInter(b, res), n, NodeSize(n))
    /\ decTodo' = Tail(decTodo) /\ turn' = "encoder" /\ syn' = NoSyntax
    /\ UNCHANGED <<job, enc, encTodo>>

TileNext ==
    \/ EncodeSplit \/ EncodeKeyLeaf \/ EncodeInterLeaf
    \/ DecodePartition \/ DecodeSkip \/ DecodeIntraModes \/ DecodeIntraFlag \/ DecodeCompFlag \/ DecodeReference
    \/ DecodeMode \/ DecodeNewMotion \/ DecodeOBMC \/ DecodePair \/ DecodePairMotion \/ DecodeResidual

-----------------------------------------------------------------------------
Alike(a, b) ==
    /\ a.above = b.above /\ a.left = b.left /\ a.blocks = b.blocks
    /\ ~job.key => a.mvs = b.mvs

(* The decoder reads every symbol of a job with the table the encoder used   *)
(* for it and reads no symbol too many or too few: node by node both have the *)
(* same tree before them, and every context array, the block states and the   *)
(* motion vectors of their neighbourhoods are the same.                       *)
SyntaxInStep ==
    /\ ~wire.bad
    /\ turn = "encoder" => wire.in = <<>> /\ encTodo = decTodo /\ Alike(enc, dec)
=============================================================================
