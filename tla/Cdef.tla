-------------------------------- MODULE Cdef --------------------------------
(* The constrained directional enhancement filter: the search for a block's   *)
(* direction and the filter of a block (internal/cdef/cdef.go), and how the   *)
(* decoder takes a picture through it block by block, in place, keeping the   *)
(* unfiltered rows it still needs in a stripe (pkg/av1/decoder_impl.go).      *)
(* Planes are sequences of rows, of a coded size that is a multiple of 8, and *)
(* chroma is 4:2:0.  A frame f has                                            *)
(*   w, h       the coded size of luma                                        *)
(*   blocks     the coded blocks: where they are, their size and if skipped   *)
(*   index      per 64x64 luma samples the index read, or -1                  *)
(*   y, uv      the strengths of the frame header, per index                  *)
(*   damping    its damping                                                   *)
(*   bestEffort whether the decoder tolerates damage                          *)
EXTENDS Transforms

LOCAL Lesser(a, b) == IF a < b THEN a ELSE b
LOCAL Greater(a, b) == IF a > b THEN a ELSE b
LOCAL Clip(v, lo, hi) == IF v < lo THEN lo ELSE IF v > hi THEN hi ELSE v
FloorLog2(v) == IF v <= 1 THEN 0 ELSE CHOOSE i \in 1 .. 20 : v \div 2^i = 1

-----------------------------------------------------------------------------
(* The direction of a block of 8x8 samples.  img has them row after row, less *)
(* 128.                                                                       *)

(* Which of a direction's sums a sample is added to.                          *)
PartialSum(d, y, x) ==
    CASE d = 0 -> y + x
      [] d = 1 -> y + x \div 2
      [] d = 2 -> y
      [] d = 3 -> (y + 3) - x \div 2
      [] d = 4 -> (y + 7) - x
      [] d = 5 -> (x + 3) - y \div 2
      [] d = 6 -> x
      [] d = 7 -> x + y \div 2
LastSum(d) == IF d \in {0, 4} THEN 14 ELSE IF d \in {2, 6} THEN 7 ELSE 10
SumPlaces ==
    [d \in 0 .. 7 |-> [n \in 0 .. LastSum(d) |->
        {i \in 0 .. 63 : PartialSum(d, i \div 8, i % 8) = n}]]

DivTable == <<840, 420, 280, 210, 168, 140, 120>>
Weight(d, n) ==
    CASE d \in {0, 4} -> IF n = 7 THEN 105 ELSE At(DivTable, Lesser(n, 14 - n))
      [] d \in {2, 6} -> 105
      [] OTHER -> IF n \in 3 .. 7 THEN 105 ELSE At(DivTable, 2 * Lesser(n, 10 - n) + 1)
Weighted(sum, weight) == sum * sum * weight
SumAt(img, places) == FoldSet(LAMBDA i, sum : sum + At(img, i), 0, places)
Cost(img, d) ==
    FoldSet(LAMBDA n, cost : cost + Weighted(SumAt(img, SumPlaces[d][n]), Weight(d, n)), 0, 0 .. LastSum(d))

(* The first direction of the highest cost, and how far it is above the one   *)
(* across.                                                                    *)
BestOf(costs, best) == [dir |-> best, variance |-> (At(costs, best) - At(costs, (best + 4) % 8)) \div 1024]
FirstBest(costs) ==
    BestOf(costs, CHOOSE d \in 0 .. 7 : /\ \A e \in 0 .. 7 : At(costs, e) <= At(costs, d)
                                        /\ \A e \in 0 .. d - 1 : At(costs, e) < At(costs, d))
FindDir(img) == FirstBest(Vector(8, LAMBDA d : Cost(img, d)))

-----------------------------------------------------------------------------
(* The filter of a block of n x n samples.  tmp has the block and two samples *)
(* around it on each side, row after row; what is not there is Absent.        *)

Absent == -32768
Directions ==
    <<<<<<1, 0>>, <<2, 0>>>>, <<<<1, 0>>, <<2, -1>>>>, <<<<-1, 1>>, <<-2, 2>>>>, <<<<0, 1>>, <<-1, 2>>>>,
      <<<<0, 1>>, <<0, 2>>>>, <<<<0, 1>>, <<1, 2>>>>, <<<<1, 1>>, <<2, 2>>>>, <<<<1, 0>>, <<2, 1>>>>,
      <<<<1, 0>>, <<2, 0>>>>, <<<<1, 0>>, <<2, -1>>>>, <<<<-1, 1>>, <<-2, 2>>>>, <<<<0, 1>>, <<-1, 2>>>>>>
Offset(n, step) == step[1] * (n + 4) + step[2]

Limited(size, limit) == Lesser(size, Greater(limit, 0))
Constrain(diff, threshold, shift) ==
    IF diff < 0 THEN -Limited(-diff, threshold - ((-diff) \div 2^shift))
                ELSE Limited(diff, threshold - (diff \div 2^shift))
ConstrainFromTable(diff, threshold, shift) ==
    IF diff \in -255 .. 255 THEN Constrain(diff, threshold, shift) ELSE 0
BothWays(tmp, i, offset, threshold, shift) ==
    ConstrainFromTable(At(tmp, i + offset) - At(tmp, i), threshold, shift)
    + ConstrainFromTable(At(tmp, i - offset) - At(tmp, i), threshold, shift)

PriSum(tmp, n, i, pri, steps, shift) ==
    (4 - (pri % 2)) * BothWays(tmp, i, Offset(n, steps[1]), pri, shift)
    + (2 + (pri % 2)) * BothWays(tmp, i, Offset(n, steps[2]), pri, shift)
SecSum(tmp, n, i, sec, one, other, shift) ==
    2 * (BothWays(tmp, i, Offset(n, one[1]), sec, shift) + BothWays(tmp, i, Offset(n, other[1]), sec, shift))
    + BothWays(tmp, i, Offset(n, one[2]), sec, shift) + BothWays(tmp, i, Offset(n, other[2]), sec, shift)

Moved(px, sum) == px + (((sum + (IF sum < 0 THEN -1 ELSE 0)) + 8) \div 16)
TapsAround(tmp, n, i, dir) ==
    {At(tmp, i + sign * Offset(n, At(Directions, d)[k])) : d \in {dir, dir + 2, dir + 4}, k \in {1, 2}, sign \in {-1, 1}}
Between(v, around) == Clip(v, Min(around), Max(around))

(* Only with both strengths is a sample kept between those it is made from.   *)
FilterSample(tmp, n, i, pri, sec, dir, damping) ==
    LET px == At(tmp, i)
        primary == PriSum(tmp, n, i, pri, At(Directions, dir + 2), Greater(0, damping - FloorLog2(pri)))
        secondary == SecSum(tmp, n, i, sec, At(Directions, dir + 4), At(Directions, dir), damping - FloorLog2(sec))
    IN IF pri # 0 /\ sec # 0
       THEN Between(Moved(px, primary + secondary), (TapsAround(tmp, n, i, dir) \cup {px}) \ {Absent})
       ELSE Moved(px, IF pri # 0 THEN primary ELSE secondary) % 256
FilterBlock(tmp, n, pri, sec, dir, damping) ==
    Vector(n * n, LAMBDA i : FilterSample(tmp, n, (i \div n + 2) * (n + 4) + (i % n) + 2, pri, sec, dir, damping))

-----------------------------------------------------------------------------
(* A plane (or both chroma planes) at a time.  p says which: the size of a    *)
(* block (n), if luma, the damping, and the size of the plane.                *)

LumaPass(f) == [luma |-> TRUE, n |-> 8, w |-> f.w, h |-> f.h, damping |-> f.damping]
ChromaPass(f) == [luma |-> FALSE, n |-> 4, w |-> f.w \div 2, h |-> f.h \div 2, damping |-> f.damping - 1]
InLuma(p, v) == IF p.luma THEN v ELSE 2 * v

\* As a bug would have it: the rows above are those of the picture.
MutLoadCDEFStripe(stripe, plane, p, by) == SubSeq(<<<<>>, <<>>>> \o plane, by + 1, Lesser(by + p.n + 4, p.h + 2))
(* Two rows above the blocks, from the stripe before, for in the picture they *)
(* are filtered by now; the rows of the blocks; and two below.                *)
LoadCDEFStripe(stripe, plane, p, by) ==
    (IF by > 0 THEN SubSeq(stripe, p.n + 1, p.n + 2) ELSE <<<<>>, <<>>>>)
    \o SubSeq(plane, by + 1, Lesser(by + p.n + 2, p.h))

NonSkipBits(f) ==
    UNION {(b.x \div 8 .. ((b.x + b.w + 7) \div 8) - 1) \X (b.y \div 8 .. ((b.y + b.h + 7) \div 8) - 1) :
               b \in {b \in f.blocks : ~b.skip}}
SkippedAt(f, x, y) == \E b \in f.blocks : b.skip /\ x \in b.x .. (b.x + b.w) - 1 /\ y \in b.y .. (b.y + b.h) - 1
BlockHasNonSkip(f, p, bx, by) ==
    IF f.bestEffort
    THEN \E x \in 0 .. InLuma(p, p.n) \div 4 - 1, y \in 0 .. InLuma(p, p.n) \div 4 - 1 :
             ~SkippedAt(f, InLuma(p, bx) + 4 * x, InLuma(p, by) + 4 * y)
    ELSE <<bx \div p.n, by \div p.n>> \in NonSkipBits(f)

Preset(f, p, bx, by) == Greater(0, f.index[<<InLuma(p, bx) \div 64, InLuma(p, by) \div 64>>])
Strength(f, p, preset) == At(IF p.luma THEN f.y ELSE f.uv, preset)
SecStrength(strength) == IF strength % 4 = 3 THEN 4 ELSE strength % 4

AdjustCDEFStrength(strength, variance) ==
    IF variance = 0 THEN 0
    ELSE (strength * (4 + Lesser(FloorLog2(variance \div 64), 12)) + 8) \div 16

AllEdges(p, bx, by) == bx > 0 /\ by > 0 /\ bx + p.n < p.w /\ by + p.n < p.h
IsThere(p, bx, by, x, y) == bx + x \in 0 .. p.w - 1 /\ by + y \in 0 .. p.h - 1
(* At the picture's border the block and what is right of it come from the    *)
(* picture, where they are not filtered yet; the rest comes from the stripe.  *)
Padding(plane, stripe, p, bx, by) ==
    Vector((p.n + 4) * (p.n + 4), LAMBDA i :
        LET x == (i % (p.n + 4)) - 2
            y == (i \div (p.n + 4)) - 2
        IN IF ~IsThere(p, bx, by, x, y) THEN Absent
           ELSE IF ~AllEdges(p, bx, by) /\ x >= 0 /\ y \in 0 .. p.n - 1 THEN plane[by + y + 1][bx + x + 1]
           ELSE stripe[y + 3][bx + x + 1])
PutBlock(plane, p, bx, by, block) ==
    [y \in 1 .. p.h |->
        IF y - 1 \in by .. (by + p.n) - 1
        THEN [x \in 1 .. p.w |-> IF x - 1 \in bx .. (bx + p.n) - 1
                                 THEN At(block, ((y - 1) - by) * p.n + ((x - 1) - bx)) ELSE plane[y][x]] \o <<>>
        ELSE plane[y]] \o <<>>
FilteredBlock(plane, stripe, p, bx, by, pri, sec, dir) ==
    PutBlock(plane, p, bx, by, FilterBlock(Padding(plane, stripe, p, bx, by), p.n, pri, sec, dir, p.damping))

FilteredPlanes(s, p, bx, by, pri, sec, dir) ==
    [s EXCEPT !.planes = [k \in DOMAIN @ |-> FilteredBlock(@[k], s.stripes[k], p, bx, by, pri, sec, dir)] \o <<>>]
Found(stripe, bx) == FindDir(Vector(64, LAMBDA i : stripe[3 + i \div 8][bx + 1 + (i % 8)] - 128))

\* Luma keeps the direction it finds for chroma, even where it has no use for it.
LumaBlock(s, p, bx, by, pri, sec, found) ==
    [FilteredPlanes(s, p, bx, by, IF pri = 0 THEN 0 ELSE AdjustCDEFStrength(pri, found.variance), sec, IF pri = 0 THEN 0 ELSE found.dir)
        EXCEPT !.dirs = (<<bx \div 8, by \div 8>> :> found.dir) @@ @]
ChromaDirection(s, bx, by, pri) ==
    IF pri # 0 /\ <<bx \div 4, by \div 4>> \in DOMAIN s.dirs THEN s.dirs[<<bx \div 4, by \div 4>>] ELSE 0
OneBlock(s, p, bx, by, pri, sec, uvPri) ==
    CASE pri = 0 /\ sec = 0 /\ ~(p.luma /\ uvPri # 0) -> s
      [] p.luma /\ (pri # 0 \/ uvPri # 0) -> LumaBlock(s, p, bx, by, pri, sec, Found(s.stripes[1], bx))
      [] OTHER -> FilteredPlanes(s, p, bx, by, pri, sec, ChromaDirection(s, bx, by, IF p.luma THEN 0 ELSE pri))
CDEFBlock(f, s, p, bx, by, preset) ==
    IF ~BlockHasNonSkip(f, p, bx, by) THEN s
    ELSE OneBlock(s, p, bx, by, Strength(f, p, preset) \div 4, SecStrength(Strength(f, p, preset)), At(f.uv, preset) \div 4)

Loaded(s, p, by) ==
    [s EXCEPT !.stripes = [k \in DOMAIN s.planes |-> LoadCDEFStripe(IF by > 0 THEN @[k] ELSE <<>>, s.planes[k], p, by)] \o <<>>]
RECURSIVE CDEFBlocks(_, _, _, _, _)
CDEFBlocks(f, s, p, bx, by) ==
    IF s.planes = <<>> \/ by >= p.h THEN s
    ELSE IF bx >= p.w THEN CDEFBlocks(f, s, p, 0, by + p.n)
    ELSE CDEFBlocks(f, CDEFBlock(f, IF bx = 0 THEN Loaded(s, p, by) ELSE s, p, bx, by, Preset(f, p, bx, by)), p, bx + p.n, by)
ApplyCDEFPlane(f, planes, p, dirs) ==
    CDEFBlocks(f, [planes |-> planes, stripes |-> <<>>, dirs |-> dirs], p, 0, 0)

(* Luma and its directions, then both chroma planes with them.                *)
WithChroma(f, chroma, luma) == luma.planes \o ApplyCDEFPlane(f, chroma, ChromaPass(f), luma.dirs).planes
ApplyCDEF(f, planes) == WithChroma(f, SubSeq(planes, 2, 3), ApplyCDEFPlane(f, SubSeq(planes, 1, 1), LumaPass(f), <<>>))
=============================================================================
