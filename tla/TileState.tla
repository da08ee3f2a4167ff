----------------------------- MODULE TileState ------------------------------
(* What the blocks of a tile leave for the ones after them                    *)
(* (internal/tile/framestate.go), as the encoder and the decoder each keep    *)
(* it, and the contexts both take from it (internal/tile/decoder.go).  4:2:0, *)
(* one tile, no segments, no skip mode: what this encoder writes.             *)
(*                                                                            *)
(* Positions and lengths are in units of 4 luma samples; a block b is a       *)
(* record with x, y, w, h.  A state st has                                    *)
(*   above, left  the entries along the tile's upper and left edge so far     *)
(*   blocks, uv   the block that covers each cell, of luma and of chroma      *)
(*   mvs          the motion vectors, as RefMvs searches them                 *)
(*   tx           the transform that covers each luma cell                    *)
(*   w, h, endX, endY, topRight   as in RefMvs                                *)
EXTENDS RefMvs, TLC

LOCAL Flag(c) == IF c THEN 1 ELSE 0
LOCAL Lesser(a, b) == IF a < b THEN a ELSE b

\* The grid is whole 8x8 blocks, the last ones reaching beyond the picture.
CodedUnits(samples) == 2 * ((samples + 7) \div 8)
Grid(w, h) == (0 .. w - 1) \X (0 .. h - 1)

\* The zero value of Av1Block: where no block was put.
NoBlockState == [x |-> 0, y |-> 0, intra |-> FALSE, skip |-> FALSE, compound |-> FALSE,
                 frames |-> <<0, 0>>, slots |-> <<0, 0>>, ymode |-> 0, mode |-> "none",
                 mvs |-> <<NoMotion, NoMotion>>]
NoTx == [size |-> 0, left |-> FALSE, top |-> FALSE]
\* In the chroma grid a block comes with the size of its chroma transforms.
WithUvTx(blk, size) == blk @@ [uvtx |-> size]

Entries(n) == [part |-> [i \in 0 .. n \div 2 - 1 |-> 0], skip |-> [i \in 0 .. n - 1 |-> 0],
               mode |-> [i \in 0 .. n - 1 |-> 0], present |-> [i \in 0 .. n - 1 |-> 0],
               coef |-> [p \in 0 .. 2 |-> [i \in 0 .. (IF p = 0 THEN n ELSE n \div 2) - 1 |-> 64]]]
\* The encoder never sets where the tile ends: the grid's end stands for it.
NewFrameState(w, h) ==
    [above |-> Entries(w), left |-> Entries(h), w |-> w, h |-> h, endX |-> w, endY |-> h, topRight |-> TRUE,
     blocks |-> [c \in Grid(w, h) |-> NoBlockState], mvs |-> [c \in Grid(w, h) |-> NoBlock],
     uv |-> [c \in Grid(w \div 2, h \div 2) |-> WithUvTx(NoBlockState, 1)], tx |-> [c \in Grid(w, h) |-> NoTx]]

\* An array with value v in its entries from .. from + n - 1.
Put(f, from, n, v) == [i \in DOMAIN f |-> IF i \in from .. from + n - 1 THEN v ELSE f[i]]
Covered(x, y, w, h, c) == c[1] \in x .. x + w - 1 /\ c[2] \in y .. y + h - 1

-----------------------------------------------------------------------------
(* What a block leaves.                                                       *)

(* A partition's entry: the level of its blocks, 0 (128 samples) .. 4 (8),    *)
(* which says for every larger node that they are narrower.  Encoder blocks   *)
(* are whole nodes.                                                           *)
SetPartition(st, n, size) ==
    [st EXCEPT !.above.part = Put(@, n.x \div 2, size \div 2, n.bl),
               !.left.part = Put(@, n.y \div 2, size \div 2, n.bl)]

SetBlock(st, b, skip, mode) ==
    [st EXCEPT !.above.skip = Put(@, b.x, b.w, Flag(skip)), !.left.skip = Put(@, b.y, b.h, Flag(skip)),
               !.above.mode = Put(@, b.x, b.w, mode), !.left.mode = Put(@, b.y, b.h, mode),
               !.above.present = Put(@, b.x, b.w, 1), !.left.present = Put(@, b.y, b.h, 1)]
SetBlockState(st, b, blk) ==
    [st EXCEPT !.blocks = [c \in DOMAIN @ |-> IF Covered(b.x, b.y, b.w, b.h, c) THEN blk ELSE @[c]]]
SetChromaBlockState(st, b, blk) ==
    [st EXCEPT !.uv = [c \in DOMAIN @ |->
        IF Covered(b.x \div 2, b.y \div 2, b.w \div 2, b.h \div 2, c) THEN blk ELSE @[c]]]
SetTxState(st, b, size) ==
    [st EXCEPT !.tx = [c \in DOMAIN @ |->
        IF Covered(b.x, b.y, b.w, b.h, c)
        THEN [size |-> size, left |-> c[1] = b.x, top |-> c[2] = b.y] ELSE @[c]]]
SetCoefCtx(st, plane, b, ctx) ==
    LET k == IF plane = 0 THEN 1 ELSE 2
    IN [st EXCEPT !.above.coef[plane] = Put(@, b.x \div k, b.w \div k, ctx),
                  !.left.coef[plane] = Put(@, b.y \div k, b.h \div k, ctx)]

PutMotion(st, b, motion) == [st EXCEPT !.mvs = PutGridBlock(@, b, motion)]
CommitIntraMVBlock(st, b) == PutMotion(st, b, IntraBlock(b))

\* setCurrentMVBlock, setCurrentCompoundMVBlock: one entry for a pair.
Motion(b, blk) ==
    [mvs |-> blk.mvs, refs |-> IF blk.compound THEN blk.frames ELSE <<blk.frames[1], -1>>,
     w |-> b.w, h |-> b.h,
     global |-> blk.mode \in {"global", "global_global"}, new |-> blk.mode \in {"new", "new_new"}]
\* The luma mode of an inter block counts as DC.
CommitInterBlock(st, b, blk) ==
    PutMotion(SetBlock(SetBlockState(st, b, blk), b, blk.skip, 0), b, Motion(b, blk))

-----------------------------------------------------------------------------
(* What the symbols of a block are coded with.                                *)

PartCtx(st, n) ==
    Flag(n.y > 0 /\ st.above.part[n.x \div 2] > n.bl) + 2 * Flag(n.x > 0 /\ st.left.part[n.y \div 2] > n.bl)
SkipCtx(st, b) ==
    (IF b.y > 0 THEN st.above.skip[b.x] ELSE 0) + (IF b.x > 0 THEN st.left.skip[b.y] ELSE 0)

\* intraToKFYCtx: the group of an intra mode (0 DC .. 12 Paeth).
IntraToKFYCtx(mode) ==
    CASE mode \in {1, 10} -> 1 [] mode \in {2, 11} -> 2 [] mode \in {3, 8} -> 3
      [] mode \in 4 .. 7 -> 4 [] OTHER -> 0
TopModeCtx(st, b) == IF b.y = 0 THEN 0 ELSE st.above.mode[b.x]
LeftModeCtx(st, b) == IF b.x = 0 THEN 0 ELSE st.left.mode[b.y]

\* The coefficient entries along a block of a plane.
CoefEntries(st, plane, b) ==
    LET k == IF plane = 0 THEN 1 ELSE 2
        side(f, from, n) == [i \in 1 .. n |-> f[from + i - 1]]
    IN [above |-> side(st.above.coef[plane], b.x \div k, b.w \div k),
        left |-> side(st.left.coef[plane], b.y \div k, b.h \div k)]
\* The transform covers the block, so luma has one context.
CoefSkipCtx(st, plane, b) ==
    LET e == CoefEntries(st, plane, b)
        coded(f) == Flag(\E i \in DOMAIN f : f[i] # 64)
    IN IF plane = 0 THEN 0 ELSE 7 + coded(e.above) + coded(e.left)
\* Signs of first coefficients: 0 even, 1 more negative ones, 2 more positive.
DCSignCtx(st, plane, b) ==
    LET e == CoefEntries(st, plane, b)
        signs == FoldSeq(LAMBDA v, sum : sum + (v \div 64) - 1, 0, e.above \o e.left)
    IN Flag(signs # 0) + Flag(signs > 0)

\* The blocks above and to the left, in this order, those there are.
BlockAbove(st, b) == IF b.y > 0 /\ st.above.present[b.x] = 1 THEN <<st.blocks[<<b.x, b.y - 1>>]>> ELSE <<>>
BlockLeft(st, b) == IF b.x > 0 /\ st.left.present[b.y] = 1 THEN <<st.blocks[<<b.x - 1, b.y>>]>> ELSE <<>>

IntraCtx(st, b) ==
    LET intra(q) == Flag(q # <<>> /\ Head(q).intra)
        sum == intra(BlockAbove(st, b)) + intra(BlockLeft(st, b))
    IN IF b.x > 0 /\ b.y > 0 THEN (IF sum = 2 THEN 3 ELSE sum) ELSE 2 * sum

\* Reference orders are reference frames counted from 0.
BlockRefOrders(blk) ==
    IF blk.intra THEN <<>>
    ELSE <<blk.frames[1] - 1>> \o (IF blk.compound THEN <<blk.frames[2] - 1>> ELSE <<>>)
NeighbourRefs(st, b) ==
    LET all == BlockAbove(st, b) \o BlockLeft(st, b)
    IN FlattenSeq([i \in DOMAIN all |-> BlockRefOrders(all[i])])

\* refCtx .. ref6Ctx, uniP1Context: which of two groups the neighbours use.
Balance(refs, group, other) ==
    LET n(g) == Len(SelectSeq(refs, LAMBDA r : r \in g))
    IN IF n(group) = n(other) THEN 1 ELSE IF n(group) < n(other) THEN 0 ELSE 2
RefGroups == [ref |-> <<0 .. 3, 4 .. 6>>, ref2 |-> <<{4, 5}, {6}>>, ref3 |-> <<{0, 1}, {2, 3}>>,
              ref4 |-> <<{0}, {1}>>, ref5 |-> <<{2}, {3}>>, ref6 |-> <<{4}, {5}>>, uniP1 |-> <<{1}, {2, 3}>>]
RefCtx(st, b, name) == Balance(NeighbourRefs(st, b), RefGroups[name][1], RefGroups[name][2])

Backward(blk) == ~blk.intra /\ blk.frames[1] >= 5
CompoundFlagContext(st, b) ==
    LET all == BlockAbove(st, b) \o BlockLeft(st, b)
        pairs == SelectSeq(all, LAMBDA blk : blk.compound)
        singles == SelectSeq(all, LAMBDA blk : ~blk.compound)
    IN CASE Len(all) = 0 -> 1
         [] Len(all) = 1 -> IF pairs # <<>> THEN 3 ELSE Flag(Backward(all[1]))
         [] Len(pairs) = 2 -> 4
         [] Len(pairs) = 1 -> 2 + Flag(singles[1].intra \/ Backward(singles[1]))
         [] OTHER -> Flag(Backward(all[1]) # Backward(all[2]))

\* A pair of two forward or two backward references.
Unidirectional(blk) == blk.compound /\ (blk.frames[1] >= 5) = (blk.frames[2] >= 5)
CompoundDirContext(st, b) ==
    LET all == BlockAbove(st, b) \o BlockLeft(st, b)
        inter == SelectSeq(all, LAMBDA blk : ~blk.intra)
        pairs == SelectSeq(all, LAMBDA blk : blk.compound)
        uni == SelectSeq(all, Unidirectional)
        alike == Flag((all[1].frames[1] >= 5) = (all[2].frames[1] >= 5))
    IN IF Len(all) = 0 \/ Len(inter) = 0 THEN 2
       ELSE IF Len(all) = 1 THEN (IF pairs = <<>> THEN 2 ELSE 4 * Len(uni))
       ELSE IF Len(inter) = 1 THEN (IF pairs = <<>> THEN 2 ELSE 1 + 2 * Len(uni))
       ELSE CASE Len(pairs) = 0 -> 1 + 2 * alike
              [] Len(pairs) = 1 -> IF uni = <<>> THEN 1 ELSE 3 + alike
              [] Len(uni) = 0 -> 0
              [] Len(uni) = 1 -> 2
              [] OTHER -> 3 + Flag((all[1].frames[1] = 5) = (all[2].frames[1] = 5))

SearchFor(st, b, frames, topRight) ==
    [grid |-> st.mvs, w |-> st.w, h |-> st.h, endX |-> st.endX, endY |-> st.endY, ref |-> frames,
     x |-> b.x, y |-> b.y, bw |-> b.w, bh |-> b.h, topRight |-> topRight]
\* Searches for one reference do not look at what is known of the top right.
SingleRefSearch(st, b, frame) == Find(SearchFor(st, b, <<frame>>, TRUE))
PairSearch(st, b, frames) == SearchFor(st, b, frames, st.topRight)

CompoundInterModeContext(st, b, frames) ==
    LET ctx == ModeContexts(FindSpatial(PairSearch(st, b, frames)))
    IN CASE ctx[1] < 2 -> Lesser(ctx[2], 1)
         [] ctx[1] \in 2 .. 3 -> 1 + Lesser(ctx[2], 3)
         [] OTHER -> IF ctx[2] < 1 THEN 4 ELSE Lesser(3 + ctx[2], 7)

\* Is there an inter block at the middle of some 8 samples of its edges?
MotionModeNeighbours(st, b) ==
    LET inter(c) == c \in DOMAIN st.blocks /\ ~st.blocks[c].intra
    IN \/ b.y > 0 /\ \E i \in 0 .. b.w \div 2 - 1 : inter(<<b.x + 1 + 2 * i, b.y - 1>>)
       \/ b.x > 0 /\ \E i \in 0 .. b.h \div 2 - 1 : inter(<<b.x - 1, b.y + 1 + 2 * i>>)
=============================================================================
