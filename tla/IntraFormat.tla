---------------------------- MODULE IntraFormat -----------------------------
(* Intra prediction as the AV1 format defines it, for the blocks of IntraPred *)
(* and from the same samples, but by one process for all directions, whose    *)
(* edges are functions that start before the block, and by one sum for each   *)
(* sample elsewhere.                                                          *)
EXTENDS IntraPred

LOCAL Lesser(a, b) == IF a < b THEN a ELSE b
LOCAL Size(v) == IF v < 0 THEN -v ELSE v
FormatRound(v, bits) == (v + 2^(bits - 1)) \div 2^bits
FormatRoundSigned(v, bits) == IF v < 0 THEN -FormatRound(-v, bits) ELSE FormatRound(v, bits)

MaxX(b) == Len(b.plane[1]) - 1
MaxY(b) == Len(b.plane) - 1
CurrFrame(b, x, y) == b.plane[y + 1][x + 1]

(* The samples above and to the left, each from the corner, which is at -1.   *)
FormatCorner(b) ==
    CASE b.haveTop /\ b.haveLeft -> CurrFrame(b, b.x - 1, b.y - 1)
      [] b.haveTop /\ ~b.haveLeft -> CurrFrame(b, b.x, b.y - 1)
      [] ~b.haveTop /\ b.haveLeft -> CurrFrame(b, b.x - 1, b.y)
      [] OTHER -> 128
AboveRow(b) ==
    [i \in -1 .. b.w + b.h - 1 |->
        CASE i = -1 -> FormatCorner(b)
          [] i >= 0 /\ b.haveTop -> CurrFrame(b, Lesser(MaxX(b), b.x + Lesser(i, IF b.topRight THEN 2 * b.w - 1 ELSE b.w - 1)), b.y - 1)
          [] i >= 0 /\ ~b.haveTop /\ b.haveLeft -> CurrFrame(b, b.x - 1, b.y)
          [] OTHER -> 127]
LeftCol(b) ==
    [i \in -1 .. b.w + b.h - 1 |->
        CASE i = -1 -> FormatCorner(b)
          [] i >= 0 /\ b.haveLeft -> CurrFrame(b, b.x - 1, Lesser(MaxY(b), b.y + Lesser(i, IF b.bottomLeft THEN 2 * b.h - 1 ELSE b.h - 1)))
          [] i >= 0 /\ ~b.haveLeft /\ b.haveTop -> CurrFrame(b, b.x, b.y - 1)
          [] OTHER -> 129]

(* An edge that is smoothed, up to its n-th sample, or made twice as fine.    *)
FormatSmoother(edge, n, strength) ==
    LET s(k) == edge[Lesser(n, IF k < -1 THEN -1 ELSE k)]
        sum(i) == CASE strength = 1 -> 4 * (s(i - 1) + 2 * s(i) + s(i + 1))
                    [] strength = 2 -> 5 * (s(i - 1) + s(i) + s(i + 1)) + s(i)
                    [] strength = 3 -> 2 * (s(i - 2) + s(i + 2)) + 4 * (s(i - 1) + s(i) + s(i + 1))
    IN [i \in DOMAIN edge |-> IF strength = 0 \/ i \notin 0 .. n THEN edge[i] ELSE FormatRound(sum(i), 4)]
FormatFiner(edge, n) ==
    LET s(k) == edge[Lesser(n, IF k < -1 THEN -1 ELSE k)]
    IN [k \in -2 .. 2 * n |->
          IF k % 2 = 0 THEN edge[k \div 2]
          ELSE Pixel(FormatRound(9 * (s(k \div 2) + s(k \div 2 + 1)) - s(k \div 2 - 1) - s(k \div 2 + 2), 4))]
Reached(d, thresholds) == Cardinality({i \in DOMAIN thresholds : d >= thresholds[i]})
EdgeStrength(b, d) ==
    LET size == b.w + b.h
    IN CASE size > 32 -> 3
         [] size \in 25 .. 32 -> IF b.smooth THEN 3 ELSE 1 + Reached(d, <<4, 32>>)
         [] size \in 17 .. 24 -> IF b.smooth THEN 3 * Reached(d, <<4>>) ELSE Reached(d, <<8, 16, 32>>)
         [] size \in 9 .. 16 -> Reached(d, IF b.smooth THEN <<20, 48>> ELSE <<40>>)
         [] OTHER -> Reached(d, IF b.smooth THEN <<40, 64>> ELSE <<56>>)
FormatTurn(b, angle) == Size(PredAngle(b) - angle)
FormatUpsampled(b, angle) == b.edgeFilter /\ FormatTurn(b, angle) \in 1 .. 39 /\ b.w + b.h <= (IF b.smooth THEN 8 ELSE 16)
\* An edge that is parallel to angle; inPicture samples of it are in the picture.
FormatEdge(b, edge, have, angle, length, inPicture, further) ==
    IF FormatUpsampled(b, angle) THEN FormatFiner(edge, length + further - 1)
    ELSE FormatSmoother(edge, (Lesser(length, inPicture) + further) - 1,
                        IF have /\ b.edgeFilter THEN EdgeStrength(b, FormatTurn(b, angle)) ELSE 0)
WithCorner(b, edge) ==
    IF PredAngle(b) \in 91 .. 179 /\ b.w + b.h >= 24 /\ b.edgeFilter
    THEN [edge EXCEPT ![-1] = FormatRound(5 * (LeftCol(b)[0] + AboveRow(b)[0]) + 6 * FormatCorner(b), 4)] ELSE edge

\* Where the line through a sample meets an edge, in 64ths.
AlongEdge(edge, fine, idx, offset, last) ==
    LET base == (idx * fine) \div 64 + offset * fine
        shift == ((idx * fine) \div 2) % 32
    IN IF base >= last THEN edge[last] ELSE FormatRound(edge[base] * (32 - shift) + edge[base + 1] * shift, 5)
FormatDirectional(b) ==
    LET angle == PredAngle(b)
        fineA == IF FormatUpsampled(b, 90) THEN 2 ELSE 1
        fineL == IF FormatUpsampled(b, 180) THEN 2 ELSE 1
        above == FormatEdge(b, WithCorner(b, AboveRow(b)), b.haveTop, 90, b.w, (MaxX(b) - b.x) + 1, IF angle < 90 THEN b.h ELSE 0)
        left == FormatEdge(b, WithCorner(b, LeftCol(b)), b.haveLeft, 180, b.h, (MaxY(b) - b.y) + 1, IF angle > 180 THEN b.w ELSE 0)
        dx == DrIntraDerivative[IF angle < 90 THEN angle ELSE 180 - angle]
        dy == DrIntraDerivative[IF angle < 180 THEN angle - 90 ELSE 270 - angle]
        far == 8192  \* beyond every edge
        onTop(x, y) == ((64 * x - (y + 1) * dx) * fineA) \div 64 >= -fineA
    IN [p \in (0 .. b.w - 1) \X (0 .. b.h - 1) |->
          CASE angle = 90 -> AboveRow(b)[p[1]]
            [] angle = 180 -> LeftCol(b)[p[2]]
            [] angle < 90 -> AlongEdge(above, fineA, (p[2] + 1) * dx, p[1], (b.w + b.h - 1) * fineA)
            [] angle > 180 -> AlongEdge(left, fineL, (p[1] + 1) * dy, p[2], far)
            [] OTHER -> IF onTop(p[1], p[2]) THEN AlongEdge(above, fineA, 64 * p[1] - (p[2] + 1) * dx, 0, far)
                        ELSE AlongEdge(left, fineL, 64 * p[2] - (p[1] + 1) * dy, 0, far)]

FormatMeanOf(samples, n) == (SumFunction(samples) + n \div 2) \div n
FormatDC(b) ==
    LET above == [i \in 0 .. b.w - 1 |-> AboveRow(b)[i]]
        left == [i \in -b.h .. -1 |-> LeftCol(b)[-1 - i]]
    IN CASE b.haveTop /\ b.haveLeft -> FormatMeanOf(above @@ left, b.w + b.h)
         [] b.haveTop /\ ~b.haveLeft -> FormatMeanOf(above, b.w)
         [] ~b.haveTop /\ b.haveLeft -> FormatMeanOf(left, b.h)
         [] OTHER -> 128
FormatPaeth(left, above, corner) ==
    LET base == above + left - corner
        nearest == Min({Size(base - v) : v \in {left, above, corner}})
    IN CASE Size(base - left) = nearest -> left
         [] Size(base - left) # nearest /\ Size(base - above) = nearest -> above
         [] OTHER -> corner

(* The recursive filters, sample by sample: around holds what is decided, at  *)
(* its place relative to the block.                                           *)
Unit(x, y) == <<4 * (x \div 4), 2 * (y \div 2)>>
UnitNeighbours(u) ==
    <<<<u[1] - 1, u[2] - 1>>, <<u[1], u[2] - 1>>, <<u[1] + 1, u[2] - 1>>, <<u[1] + 2, u[2] - 1>>, <<u[1] + 3, u[2] - 1>>,
      <<u[1] - 1, u[2]>>, <<u[1] - 1, u[2] + 1>>>>
WithSample(around, p, taps) ==
    LET near == UnitNeighbours(Unit(p[1], p[2]))
        taps7 == At(taps, 4 * (p[2] % 2) + (p[1] % 4))
    IN around @@ (p :> Pixel(FormatRoundSigned(SumFunction([k \in 1 .. 7 |-> taps7[k] * around[near[k]]]), 4)))
UnitsInOrder(w, h) ==
    Vector(w * h, LAMBDA n : <<4 * ((n \div 8) % (w \div 4)) + (n % 4), 2 * ((n \div 8) \div (w \div 4)) + ((n \div 4) % 2)>>)
FormatRecursive(b) ==
    FoldLeft(LAMBDA around, p : WithSample(around, p, At(FilterIntraTaps, b.filter)),
             [p \in {<<i, -1>> : i \in -1 .. b.w - 1} |-> AboveRow(b)[p[1]]] @@ [p \in {<<-1, i>> : i \in 0 .. b.h - 1} |-> LeftCol(b)[p[2]]],
             UnitsInOrder(b.w, b.h))

SmoothWeight(n, i) == SmWeights[n][i + 1]
FormatPlain(b) ==
    LET dc == FormatDC(b)
        down(x, y) == SmoothWeight(b.h, y) * AboveRow(b)[x] + (256 - SmoothWeight(b.h, y)) * LeftCol(b)[b.h - 1]
        across(x, y) == SmoothWeight(b.w, x) * LeftCol(b)[y] + (256 - SmoothWeight(b.w, x)) * AboveRow(b)[b.w - 1]
    IN [p \in (0 .. b.w - 1) \X (0 .. b.h - 1) |->
          CASE b.mode = "DC" -> dc
            [] b.mode = "PAETH" -> FormatPaeth(LeftCol(b)[p[2]], AboveRow(b)[p[1]], FormatCorner(b))
            [] b.mode = "SMOOTH" -> FormatRound(down(p[1], p[2]) + across(p[1], p[2]), 9)
            [] b.mode = "SMOOTH_V" -> FormatRound(down(p[1], p[2]), 8)
            [] b.mode = "SMOOTH_H" -> FormatRound(across(p[1], p[2]), 8)]
FormatIntra(b) ==
    CASE b.filter >= 0 -> FormatRecursive(b)
      [] b.filter < 0 /\ b.mode \in Directional -> FormatDirectional(b)
      [] OTHER -> FormatPlain(b)

(* Chroma from luma, in eighths of a luma sample.                             *)
FormatCfl(b, luma, lx, ly, ssHor, ssVer, alpha) ==
    LET sample(x, y) == luma[Lesser(y, Len(luma) - 1) + 1][Lesser(x, Len(luma[1]) - 1) + 1]
        l == [p \in (0 .. b.w - 1) \X (0 .. b.h - 1) |->
                 (8 * MapThenSumSet(LAMBDA o : sample(lx + p[1] * 2^ssHor + o[1], ly + p[2] * 2^ssVer + o[2]), (0 .. ssHor) \X (0 .. ssVer)))
                     \div 2^(ssHor + ssVer)]
        average == FormatMeanOf(l, b.w * b.h)
    IN [p \in DOMAIN l |-> Pixel(FormatDC(b) + FormatRoundSigned(alpha * (l[p] - average), 6))]

AsDefined(b, pred, defined) ==
    \A p \in (0 .. b.w - 1) \X (0 .. b.h - 1) : pred[p[2] + 1][p[1] + 1] = defined[p]
=============================================================================
