---------------------------- MODULE Restoration -----------------------------
(* Loop restoration: the Wiener filter and the self-guided filter             *)
(* (internal/looprestoration), and how the decoder applies them to the units  *)
(* of a plane (pkg/av1/decoder_impl.go).  Each unit is filtered from a copy   *)
(* of the plane as the directional filter left it; then the rows at each      *)
(* stripe boundary are made again, with the rows across the boundary taken    *)
(* from the plane as it was before the directional filter.  A plane is a      *)
(* sequence of rows.  A unit has its place (x, y, w, h), its type, and        *)
(*   filterH, filterV  three taps of each Wiener filter, or                   *)
(*   index, weights    the self-guided filter's set and its two weights       *)
(* The passes over stripes that write into the plane itself (SGR3x3, SGR5x5)  *)
(* are left out: what they make is overwritten by the passes here.            *)
EXTENDS Transforms

LOCAL Lesser(a, b) == IF a < b THEN a ELSE b
LOCAL Greater(a, b) == IF a > b THEN a ELSE b
LOCAL Clip(v, lo, hi) == IF v < lo THEN lo ELSE IF v > hi THEN hi ELSE v

\* Rows and samples beyond the plane repeat the last one there is.
RowAt(plane, y) == plane[Clip(y, 0, Len(plane) - 1) + 1]
InRow(row, x) == row[Clip(x, 0, Len(row) - 1) + 1]
RowsAround(plane, y, reach) == Vector(2 * reach + 1, LAMBDA i : RowAt(plane, (y - reach) + i))

-----------------------------------------------------------------------------
(* The self-guided filter.                                                    *)

\* The strengths of the wide (5x5) and of the narrow (3x3) pass; zero is none.
SGRStrengths ==
    <<<<140, 3236>>, <<112, 2158>>, <<93, 1618>>, <<80, 1438>>, <<70, 1295>>, <<58, 1177>>, <<47, 1079>>,
      <<37, 996>>, <<30, 925>>, <<25, 863>>, <<0, 2589>>, <<0, 1618>>, <<0, 1177>>, <<0, 925>>, <<56, 0>>, <<22, 0>>>>
SGRParams(unit) ==
    [s0 |-> At(SGRStrengths, unit.index)[1], s1 |-> At(SGRStrengths, unit.index)[2],
     w0 |-> unit.weights[1], w1 |-> (128 - unit.weights[1]) - unit.weights[2]]

\* The table's values, each with the first index that has it.
SgrRuns ==
    {<<0, 255>>, <<1, 128>>, <<2, 85>>, <<3, 64>>, <<4, 51>>, <<5, 43>>, <<6, 37>>, <<7, 32>>, <<8, 28>>, <<9, 26>>,
     <<10, 23>>, <<11, 21>>, <<12, 20>>, <<13, 18>>, <<14, 17>>, <<15, 16>>, <<16, 15>>, <<17, 14>>, <<18, 13>>,
     <<20, 12>>, <<22, 11>>, <<24, 10>>, <<26, 9>>, <<30, 8>>, <<34, 7>>, <<39, 6>>, <<46, 5>>, <<56, 4>>,
     <<73, 3>>, <<102, 2>>, <<170, 1>>, <<255, 0>>}
SgrXbyX == [z \in 0 .. 255 |-> (CHOOSE r \in SgrRuns : r[1] <= z /\ \A o \in SgrRuns : o[1] <= z => o[1] <= r[1])[2]]

(* The product of a variance and a strength in units of 2^20, up to 255.      *)
Noise(p, strength) ==
    IF p > 2^28 \div strength THEN 255 ELSE Lesser((p * strength + 2^19) \div 2^20, 255)
OneByN(n) == IF n = 9 THEN 455 ELSE 164
SumAlong(reach, Term(_)) == Term(-1) + Term(0) + Term(1) + (IF reach = 2 THEN Term(-2) + Term(2) ELSE 0)
OfBox(rows, x, reach, Term(_)) ==
    SumAlong(reach, LAMBDA dy : SumAlong(reach, LAMBDA dx : Term(InRow(At(rows, reach + dy), x + dx))))
(* What the box around x in some rows adds to a sample s: how far its mean    *)
(* is above s, times how even the box is.                                     *)
Pull(factor, sum, n, s) == ((factor * sum * OneByN(n) + 2^11) \div 2^12) - factor * s
PullOf(sum, sumsq, n, strength, s) == Pull(SgrXbyX[Noise(Greater(sumsq * n - sum * sum, 0), strength)], sum, n, s)
BoxPull(rows, x, reach, strength, s) ==
    PullOf(OfBox(rows, x, reach, LAMBDA v : v), OfBox(rows, x, reach, LAMBDA v : v * v),
           (2 * reach + 1) * (2 * reach + 1), strength, s)

Projection3(src, x, y, strength, s) ==
    (SumAlong(1, LAMBDA dy : SumAlong(1, LAMBDA dx :
        (IF dx = 0 \/ dy = 0 THEN 4 ELSE 3) * BoxPull(RowsAround(src, y + dy, 1), x + dx, 1, strength, s))) + 2^8) \div 2^9
Row5(rows, x, strength, s) ==
    SumAlong(1, LAMBDA dx : (IF dx = 0 THEN 6 ELSE 5) * BoxPull(rows, x + dx, 2, strength, s))
\* Boxes stand on every other row: an even row is between two of them.
Between5(upper, lower, x, strength, s) == (Row5(upper, x, strength, s) + Row5(lower, x, strength, s) + 2^8) \div 2^9
On5(rows, x, strength, s) == (Row5(rows, x, strength, s) + 2^7) \div 2^8
Projection5(src, x, y, strength, s) ==
    IF y % 2 = 0 THEN Between5(RowsAround(src, y - 1, 2), RowsAround(src, y + 1, 2), x, strength, s)
                 ELSE On5(RowsAround(src, y, 2), x, strength, s)

Corrected(s, v) == Clip(s + ((v + 2^10) \div 2^11), 0, 255)
\* SGRMixSnapshot, and SGR3x3Snapshot and SGR5x5Snapshot when one strength is zero.
SGRSample(src, x, y, p, s) ==
    Corrected(s, (IF p.s0 = 0 THEN 0 ELSE p.w0 * Projection5(src, x, y, p.s0, s))
                 + (IF p.s1 = 0 THEN 0 ELSE p.w1 * Projection3(src, x, y, p.s1, s)))

-----------------------------------------------------------------------------
(* The Wiener filter.                                                         *)

Taps(filter, middle) ==
    Vector(7, LAMBDA k : IF k = 3 THEN middle - 2 * (filter[1] + filter[2] + filter[3])
                         ELSE filter[Lesser(k, 6 - k) + 1])
SevenTaps(taps, Sample(_)) ==
    At(taps, 0) * Sample(0) + At(taps, 1) * Sample(1) + At(taps, 2) * Sample(2) + At(taps, 3) * Sample(3)
    + At(taps, 4) * Sample(4) + At(taps, 5) * Sample(5) + At(taps, 6) * Sample(6)
\* The sample itself counts 128 times besides its tap, and the sum is lifted above zero.
Horizontal(row, x, taps) ==
    Clip((2^14 + 128 * InRow(row, x) + SevenTaps(taps, LAMBDA k : InRow(row, (x + k) - 3)) + 4) \div 8, 0, 8191)
WienerSample(src, x, y, fh, fv) ==
    Clip((SevenTaps(fv, LAMBDA k : Horizontal(RowAt(src, (y + k) - 3), x, fh)) - 2^18 + 2^10) \div 2^11, 0, 255)

-----------------------------------------------------------------------------
(* A unit.  Some of its rows are made from some source.                       *)

Sgr(unit) == unit.type = "SGRPROJ"
Sample(src, unit, x, y) ==
    IF Sgr(unit) THEN SGRSample(src, x, y, SGRParams(unit), RowAt(src, y)[x + 1])
    ELSE WienerSample(src, x, y, Taps(unit.filterH, 0), Taps(unit.filterV, 128))
Replace(plane, unit, rows, New(_, _)) ==
    [y \in 1 .. Len(plane) |->
        IF y - 1 \notin rows THEN plane[y]
        ELSE [x \in 1 .. Len(plane[y]) |-> IF x - 1 \in unit.x .. (unit.x + unit.w) - 1 THEN New(x - 1, y - 1)
                                           ELSE plane[y][x]] \o <<>>] \o <<>>
Snapshot(dst, src, unit, rows) == Replace(dst, unit, rows, LAMBDA x, y : Sample(src, unit, x, y))

\* copyRestorationRows and copyRestorationRow, for rows of the plane.
CopyRow(dst, from, dstY, srcY) ==
    IF dstY \notin 0 .. Len(dst) - 1 \/ srcY \notin 0 .. Len(from) - 1 THEN dst
    ELSE [dst EXCEPT ![dstY + 1] = from[srcY + 1]]

(* How many rows on each side are made again, and whether a third row across  *)
(* the boundary is written as well: only those that can reach it do.          *)
FullReach(unit) == Sgr(unit) => SGRParams(unit).s0 # 0 /\ SGRParams(unit).s1 # 0
Redone(unit) == IF FullReach(unit) THEN 3 ELSE 2
\* As a bug would have it: the third row below is the one that is there.
MutAboveSrc(src, boundary, b, unit) == CopyRow(CopyRow(src, boundary, b, b), boundary, b + 1, b + 1)
AboveSrc(src, boundary, b, unit) ==
    CopyRow(CopyRow(CopyRow(src, boundary, b, b), boundary, b + 1, b + 1), boundary, IF FullReach(unit) THEN b + 2 ELSE b + 1, b + 1)
BelowSrc(src, boundary, b, unit) ==
    CopyRow(CopyRow(CopyRow(src, boundary, b - 2, b - 2), boundary, b - 1, b - 1), boundary, IF FullReach(unit) THEN b - 3 ELSE b - 2, b - 2)

(* Below a boundary the wide pass alone has rows of its own, and is left out  *)
(* where the plane ends sooner than it reaches.                               *)
StripeStartSample(src, boundary, b, p, x, y, s) ==
    LET first  == <<RowAt(boundary, b - 2), RowAt(boundary, b - 2), RowAt(boundary, b - 1), RowAt(src, b), RowAt(src, b + 1)>>
        second == <<RowAt(boundary, b - 1), RowAt(src, b), RowAt(src, b + 1), RowAt(src, b + 2), RowAt(src, b + 3)>>
        third  == <<RowAt(src, b + 1), RowAt(src, b + 2), RowAt(src, b + 3), RowAt(src, b + 4), RowAt(src, b + 5)>>
    IN Corrected(s, p.w0 * (CASE y = b -> Between5(first, second, x, p.s0, s)
                              [] y = b + 1 -> On5(second, x, p.s0, s)
                              [] y = b + 2 -> Between5(second, third, x, p.s0, s)))
SGR5x5StripeStart(dst, src, boundary, b, unit, rows) ==
    IF b < 2 \/ b + 5 >= Len(src) THEN dst
    ELSE Replace(dst, unit, rows, LAMBDA x, y : StripeStartSample(src, boundary, b, SGRParams(unit), x, y, RowAt(src, y)[x + 1]))

FirstStripeEnd(ssV) == 56 \div 2^ssV
RegularStripe(ssV) == 64 \div 2^ssV
UnitEnd(unit) == unit.y + unit.h
AtBoundaryAbove(dst, src, boundary, b, unit) ==
    IF b <= unit.y \/ b > UnitEnd(unit) THEN dst
    ELSE Snapshot(dst, AboveSrc(src, boundary, b, unit), unit, Greater(unit.y, b - Redone(unit)) .. b - 1)
RowsBelow(b, unit, count) == b .. (b + Lesser(count, UnitEnd(unit) - b)) - 1
AtBoundaryBelow(dst, src, boundary, b, unit) ==
    IF b < unit.y \/ b >= UnitEnd(unit) THEN dst
    ELSE IF Sgr(unit) /\ SGRParams(unit).s1 = 0
         THEN SGR5x5StripeStart(dst, src, boundary, b, unit, RowsBelow(b, unit, 3))
         ELSE Snapshot(dst, BelowSrc(src, boundary, b, unit), unit, RowsBelow(b, unit, Redone(unit)))
RECURSIVE AtBoundaries(_, _, _, _, _, _)
AtBoundaries(dst, src, boundary, b, ssV, unit) ==
    IF b >= Len(src) THEN dst
    ELSE AtBoundaries(AtBoundaryBelow(AtBoundaryAbove(dst, src, boundary, b, unit), src, boundary, b, unit),
                      src, boundary, b + RegularStripe(ssV), ssV, unit)

InPlane(plane, unit) ==
    unit.w > 0 /\ unit.h > 0 /\ unit.x >= 0 /\ unit.y >= 0 /\ unit.x + unit.w <= Len(plane[1]) /\ UnitEnd(unit) <= Len(plane)
RestorationUnit(dst, src, boundary, ssV, unit) ==
    IF unit.type = "NONE" \/ ~InPlane(src, unit) THEN dst
    ELSE AtBoundaries(Snapshot(dst, src, unit, unit.y .. UnitEnd(unit) - 1), src, boundary, FirstStripeEnd(ssV), ssV, unit)
\* The units of a plane, in the order they were read.
ApplyRestoration(src, boundary, ssV, restored) ==
    FoldLeft(LAMBDA dst, unit : RestorationUnit(dst, src, boundary, ssV, unit), src, restored)
=============================================================================
