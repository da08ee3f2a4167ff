------------------------------- MODULE RefMvs --------------------------------
(* The motion vectors a block may take over from its neighbours               *)
(* (internal/refmvs): the stack of candidates that the encoder and the        *)
(* decoder each build from the blocks already coded, in the order in which    *)
(* the syntax numbers them.  Frames of this encoder carry no order hints and  *)
(* no global motion, so there are no temporal candidates, no vector is        *)
(* reversed and the global vector is zero.                                    *)
(*                                                                            *)
(* Positions and lengths are in units of 4 samples, a vector is <<y, x>> in   *)
(* eighths of a sample.  A search s is a record of                            *)
(*   grid         [<<x, y>> -> what PutGridBlock left there], w x h cells     *)
(*   endX, endY   where the tile ends, maybe beyond the grid                  *)
(*   ref          the references looked for: one, or a pair                   *)
(*   x, y, bw, bh the block                                                   *)
(*   topRight     FALSE when the block above right is known to be missing     *)
EXTENDS Integers, Sequences, FiniteSets, SequencesExt

LOCAL Lesser(a, b) == IF a < b THEN a ELSE b
LOCAL Greater(a, b) == IF a > b THEN a ELSE b
LOCAL Clamp(v, lo, hi) == IF v < lo THEN lo ELSE IF v > hi THEN hi ELSE v

NoMotion == <<0, 0>>

\* What GridBlock finds where no block was put: references to nothing, and the
\* dimensions of the first block size.
NoBlock == [mvs |-> <<NoMotion, NoMotion>>, refs |-> <<0, 0>>, w |-> 32, h |-> 32,
            global |-> FALSE, new |-> FALSE]

\* What CommitIntraMVBlock puts there: the dimensions only.
IntraBlock(b) == [NoBlock EXCEPT !.refs = <<0, -1>>, !.w = b.w, !.h = b.h]

PutGridBlock(grid, b, blk) ==
    [c \in DOMAIN grid |->
        IF c[1] \in b.x .. b.x + b.w - 1 /\ c[2] \in b.y .. b.y + b.h - 1 THEN blk ELSE grid[c]]

Compound(s) == Len(s.ref) = 2

-----------------------------------------------------------------------------
(* The stack: candidates with their weights, and what was met on the way.     *)

Nothing == [stack |-> <<>>, nearest |-> 0, new |-> FALSE, met |-> {}]

\* AddCandidate: a vector already there becomes heavier.
AddCandidate(stack, mvs, weight) ==
    LET same == {i \in DOMAIN stack : stack[i].mvs = mvs}
    IN IF same # {} THEN [i \in DOMAIN stack |->
                            IF i \in same THEN [stack[i] EXCEPT !.weight = @ + weight] ELSE stack[i]]
       ELSE IF Len(stack) >= 8 THEN stack
       ELSE Append(stack, [mvs |-> mvs, weight |-> weight])

\* The vectors a neighbour offers for the references looked for.
Offered(s, blk) ==
    IF Compound(s)
    THEN IF blk.refs # s.ref THEN {}
         ELSE {IF blk.global THEN <<NoMotion, NoMotion>> ELSE blk.mvs}
    ELSE LET hits == {i \in 1 .. 2 : blk.refs[i] = s.ref[1]}
         IN IF hits = {} THEN {}
            ELSE {<<IF blk.global THEN NoMotion ELSE blk.mvs[IF 1 \in hits THEN 1 ELSE 2], NoMotion>>}

\* A neighbour met on a side ("row" above, "col" to the left), next to the
\* block (direct) or farther away.
AddSpatial(s, r, blk, weight, side, direct) ==
    LET offered == Offered(s, blk)
    IN IF offered = {} THEN r
       ELSE [r EXCEPT !.stack = AddCandidate(@, CHOOSE m \in offered : TRUE, weight),
                      !.met = @ \cup {<<side, direct>>},
                      !.new = @ \/ (direct /\ blk.new)]

Cell(side, along, across) == IF side = "row" THEN <<along, across>> ELSE <<across, along>>
Along(side, blk) == IF side = "row" THEN blk.w ELSE blk.h
Across(side, blk) == IF side = "row" THEN blk.h ELSE blk.w

RECURSIVE ScanOn(_, _, _, _, _, _, _, _, _)
\* The neighbours of one line, each with a weight of twice its length.
ScanOn(s, r, side, from, across, done, step, direct, length) ==
    LET at == Cell(side, from + done + length, across)
        end == IF side = "row" THEN Lesser(Lesser(s.bw, 16), s.endX - s.x)
                               ELSE Lesser(Lesser(s.bh, 16), s.endY - s.y)
    IN IF done >= end \/ Cell(side, from + done, across) \notin DOMAIN s.grid THEN r
       ELSE ScanOn(s, AddSpatial(s, r, s.grid[Cell(side, from + done, across)], 2 * length, side, direct),
                   side, from, across, done + length, step, direct,
                   IF at \in DOMAIN s.grid THEN Greater(step, Along(side, s.grid[at])) ELSE step)

(* scanSpatialRow, scanSpatialCol: one neighbour that covers the whole side   *)
(* weighs as many lines as it has and stands for them; the result is the      *)
(* stack and the number of lines seen.                                        *)
ScanFrom(s, r, side, from, across, most, step, direct, size, blk, length) ==
    LET weight == IF size = 1 THEN 2 ELSE Greater(2, Lesser(2 * most, Across(side, blk)))
    IN IF size <= Along(side, blk)
       THEN [r |-> AddSpatial(s, r, blk, length * weight, side, direct), lines |-> weight \div 2]
       ELSE [r |-> ScanOn(s, r, side, from, across, 0, step, direct, length), lines |-> 1]
ScanLine(s, r, side, from, across, most, step, direct) ==
    LET size == IF side = "row" THEN s.bw ELSE s.bh
        at == Cell(side, from, across)
    IN IF at \notin DOMAIN s.grid THEN [r |-> r, lines |-> 0]
       ELSE ScanFrom(s, r, side, from, across, most, step, direct, size, s.grid[at],
                     Greater(step, Lesser(size, Along(side, s.grid[at]))))

\* The lines a side has at most, and none (-1) at the edge of the tile.
Lines(at, other) == IF at > 0 THEN Lesser((at + 1) \div 2, 2 + (IF other > 1 THEN 1 ELSE 0)) ELSE 0
Wide(n) == IF n >= 16 THEN 4 ELSE 1

\* The block above right, unless it is known not to be there.
AddTopRight(s, r) ==
    IF s.y > 0 /\ s.x + s.bw < s.w /\ Greater(s.bw, s.bh) <= 16 /\ s.topRight
    THEN AddSpatial(s, r, s.grid[<<s.x + s.bw, s.y - 1>>], 4, "row", TRUE)
    ELSE r

(* findNearestSpatialInto: the blocks that touch this one come first, and     *)
(* their bias keeps them first.                                               *)
NearAbove(s) ==
    IF s.y > 0 THEN ScanLine(s, Nothing, "row", s.x, s.y - 1, Lines(s.y, s.bh), Wide(s.bw), TRUE)
               ELSE [r |-> Nothing, lines |-> -1]
NearBeside(s, r) ==
    IF s.x > 0 THEN ScanLine(s, r, "col", s.y, s.x - 1, Lines(s.x, s.bw), Wide(s.bh), TRUE)
               ELSE [r |-> r, lines |-> -1]
Biased(r) == [r EXCEPT !.nearest = Len(r.stack),
                       !.stack = [i \in DOMAIN @ |-> [@[i] EXCEPT !.weight = @ + 640]]]

Odd(v) == IF v % 2 = 0 THEN v + 1 ELSE v
FarStep(n) == IF n >= 16 THEN 4 ELSE 2

\* Line n on each side, unless a nearer block already stood for it.
FartherRow(s, t, n) ==
    IF n > t.rows /\ n <= Lines(s.y, s.bh)
    THEN ScanLine(s, t.r, "row", Odd(s.x), Odd(s.y - 2 * n + 1), 1 + Lines(s.y, s.bh) - n, FarStep(s.bw), FALSE)
    ELSE [r |-> t.r, lines |-> 0]
FartherCol(s, t, n) ==
    IF n > t.cols /\ n <= Lines(s.x, s.bw)
    THEN ScanLine(s, t.r, "col", Odd(s.y), Odd(s.x - 2 * n + 1), 1 + Lines(s.x, s.bw) - n, FarStep(s.bh), FALSE)
    ELSE [r |-> t.r, lines |-> 0]
SeenRow(t, scan) == [t EXCEPT !.r = scan.r, !.rows = @ + scan.lines]
SeenCol(t, scan) == [t EXCEPT !.r = scan.r, !.cols = @ + scan.lines]
FartherIn(s, t, n) == SeenCol(t, FartherCol(s, t, n))
Farther(s, t, n) == FartherIn(s, SeenRow(t, FartherRow(s, t, n)), n)

\* appendSecondarySpatial, from the corner above left on.
Corner(s, t) ==
    IF t.rows >= 0 /\ t.cols >= 0
    THEN [t EXCEPT !.r = AddSpatial(s, @, s.grid[<<s.x - 1, s.y - 1>>], 4, "row", FALSE)]
    ELSE t
Secondary(s, t) == Farther(s, Farther(s, Corner(s, t), 2), 3).r

\* SortCandidates: heavier first, equal weights as they came, nearest first.
Heavier(stack, i) ==
    Cardinality({j \in DOMAIN stack : stack[j].weight > stack[i].weight
                                        \/ (stack[j].weight = stack[i].weight /\ j < i)})
SortCandidates(stack) ==
    [k \in DOMAIN stack |-> stack[CHOOSE i \in DOMAIN stack : Heavier(stack, i) = k - 1]]
Sorted(r) ==
    [r EXCEPT !.stack = SortCandidates(SubSeq(@, 1, r.nearest))
                          \o SortCandidates(SubSeq(@, r.nearest + 1, Len(@)))]

NearSides(s, above, beside) ==
    [r |-> Biased(AddTopRight(s, beside.r)), rows |-> above.lines, cols |-> beside.lines]
Near(s, above) == NearSides(s, above, NearBeside(s, above.r))
FindSpatial(s) == Sorted(Secondary(s, Near(s, NearAbove(s))))

-----------------------------------------------------------------------------
(* Fewer than two candidates: vectors of other references are taken.          *)

RECURSIVE Beside(_, _, _, _)
\* The blocks along one side, from its start, each once.
Beside(s, side, at, size) ==
    LET c == IF side = "row" THEN <<s.x + at, s.y - 1>> ELSE <<s.x - 1, s.y + at>>
    IN IF at >= size \/ c \notin DOMAIN s.grid THEN <<>>
       ELSE <<s.grid[c]>> \o Beside(s, side, at + Along(side, s.grid[c]), size)
Around(s) ==
    LET endX == IF Compound(s) THEN s.endX ELSE s.w
        endY == IF Compound(s) THEN s.endY ELSE s.h
        size == Lesser(Lesser(Lesser(s.bw, 16), endX - s.x), Lesser(Lesser(s.bh, 16), endY - s.y))
    IN (IF s.y > 0 THEN Beside(s, "row", 0, size) ELSE <<>>)
       \o (IF s.x > 0 THEN Beside(s, "col", 0, size) ELSE <<>>)

\* The vectors of a block with the reference of each, none for an intra block.
Vectors(blk) ==
    IF blk.refs[1] <= 0 THEN <<>>
    ELSE << <<blk.refs[1], blk.mvs[1]>> >>
         \o (IF blk.refs[2] <= 0 THEN <<>> ELSE << <<blk.refs[2], blk.mvs[2]>> >>)
VectorsOf(blocks) == FlattenSeq([i \in DOMAIN blocks |-> Vectors(blocks[i])])
AllVectors(s) == VectorsOf(Around(s))

RECURSIVE ExtendSingle(_, _)
ExtendSingle(stack, vectors) ==
    IF vectors = <<>> \/ Len(stack) >= 2 THEN stack
    ELSE ExtendSingle(AddCandidate(stack, <<Head(vectors)[2], NoMotion>>, 2), Tail(vectors))

\* For a pair each reference takes first its own vectors, then other ones.
FirstTwo(q) == SubSeq(q, 1, Lesser(2, Len(q)))
OfReference(s, n, vectors) ==
    FirstTwo(SelectSeq(vectors, LAMBDA v : v[1] = s.ref[n])) \o FirstTwo(SelectSeq(vectors, LAMBDA v : v[1] # s.ref[n]))
       \o <<<<0, NoMotion>>, <<0, NoMotion>>>>
Paired(stack, one, two) ==
    LET pair(i) == <<one[i][2], two[i][2]>>
        entry(m) == [mvs |-> m, weight |-> 2]
    IN IF stack = <<>> THEN <<entry(pair(1)), entry(pair(2))>>
       ELSE <<stack[1], entry(IF stack[1].mvs = pair(1) THEN pair(2) ELSE pair(1))>>
ExtendPair(s, stack, vectors) == Paired(stack, OfReference(s, 1, vectors), OfReference(s, 2, vectors))

\* clampCandidates: no vector reaches far outside the frame.
Clamped(s, mv) ==
    <<Clamp(mv[1], -((s.y + s.bh + 4) * 32), (s.h - s.y + 4) * 32),
      Clamp(mv[2], -((s.x + s.bw + 4) * 32), (s.w - s.x + 4) * 32)>>
ClampedEntry(s, c) ==
    [c EXCEPT !.mvs = <<Clamped(s, @[1]), IF Compound(s) THEN Clamped(s, @[2]) ELSE @[2]>>]

\* FindInto: the whole stack.
Extended(s, stack) ==
    IF Len(stack) >= 2 THEN stack
    ELSE IF Compound(s) THEN ExtendPair(s, stack, AllVectors(s))
    ELSE ExtendSingle(stack, AllVectors(s))
WithinFrame(s, stack) == [i \in DOMAIN stack |-> ClampedEntry(s, stack[i])]
Extend(s, r) == [r EXCEPT !.stack = WithinFrame(s, Extended(s, @))]
Find(s) == Extend(s, FindSpatial(s))

\* DRLContext: are the next two candidates nearest ones?  (i from 0)
DRLContext(stack, i) ==
    IF i + 2 > Len(stack) THEN 0
    ELSE LET strong == stack[i + 1].weight >= 640
             weak == stack[i + 2].weight < 640
         IN IF weak THEN (IF strong THEN 1 ELSE 2) ELSE 0

\* What the matches met say of the modes to expect: <<refMV, newMV>>.
ModeContexts(r) ==
    LET near == Cardinality({side \in {"row", "col"} : <<side, TRUE>> \in r.met})
        any == Cardinality({side \in {"row", "col"} : \E d \in BOOLEAN : <<side, d>> \in r.met})
        new == IF r.new THEN 1 ELSE 0
    IN CASE near = 0 -> <<any, Lesser(any, 1)>>
         [] near = 1 -> <<Lesser(3 * any, 4), 3 - new>>
         [] near = 2 -> <<5, 5 - new>>
=============================================================================
