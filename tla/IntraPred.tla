----------------------------- MODULE IntraPred ------------------------------
(* Intra prediction: how the decoder gathers the samples around a transform   *)
(* block and chooses a kernel (internal/tile/decoder.go), the kernels         *)
(* (internal/predict/intra), and the encoder's own use of them                *)
(* (internal/encoder/core).  A plane is a sequence of rows.  A block b has    *)
(*   plane, x, y, w, h     its place                                          *)
(*   mode, delta           its mode, and the steps added to the mode's angle  *)
(*   filter                a recursive filter's set, or -1                    *)
(*   edgeFilter, smooth    whether the sequence filters edges, and whether a  *)
(*                         neighbour has a smooth mode                        *)
(*   haveTop, haveLeft     what is decoded around it, and beyond the corners: *)
(*   topRight, bottomLeft  the flags handed down the partition tree           *)
EXTENDS Transforms

LOCAL Lesser(a, b) == IF a < b THEN a ELSE b
LOCAL Greater(a, b) == IF a > b THEN a ELSE b
LOCAL Clip(v, lo, hi) == IF v < lo THEN lo ELSE IF v > hi THEN hi ELSE v
LOCAL Distance(a, b) == IF a < b THEN b - a ELSE a - b

-----------------------------------------------------------------------------
(* The choice of a kernel.                                                    *)

NominalAngle ==
    [V |-> 90, H |-> 180, D45 |-> 45, D135 |-> 135, D113 |-> 113, D157 |-> 157, D203 |-> 203, D67 |-> 67]
Directional == DOMAIN NominalAngle
PredAngle(b) == NominalAngle[b.mode] + 3 * b.delta

Dispatched(b, both, top, left, none) ==
    IF b.haveTop THEN (IF b.haveLeft THEN both ELSE top) ELSE IF b.haveLeft THEN left ELSE none
DirectionalKernel(b, angle) ==
    CASE angle <= 90 -> IF angle < 90 /\ b.haveTop THEN "Z1" ELSE "V"
      [] angle \in 91 .. 179 -> "Z2"
      [] angle >= 180 -> IF angle > 180 /\ b.haveLeft THEN "Z3" ELSE "H"
Dispatch(b) ==
    CASE b.filter >= 0 -> "FILTER"
      [] b.filter < 0 /\ b.mode \in Directional -> DirectionalKernel(b, PredAngle(b))
      [] b.filter < 0 /\ b.mode = "DC" -> Dispatched(b, "DC", "DC_TOP", "DC_LEFT", "DC_128")
      [] b.filter < 0 /\ b.mode = "PAETH" -> Dispatched(b, "PAETH", "V", "H", "DC")
      [] b.filter < 0 /\ b.mode \in {"SMOOTH", "SMOOTH_V", "SMOOTH_H"} -> b.mode

-----------------------------------------------------------------------------
(* The samples around a block: one at the corner, and twice the block's size  *)
(* on each side.  A side that is not decoded repeats a sample of the other    *)
(* side, and what is beyond the plane its last sample.  A kernel's edges are   *)
(* filled where it needs them; elsewhere the buffer stays at 128.             *)

BothSides == {"DC", "SMOOTH", "SMOOTH_V", "SMOOTH_H", "PAETH", "FILTER", "Z2"}
TopNeeds == BothSides \cup {"DC_TOP", "V", "Z1"}
LeftNeeds == BothSides \cup {"DC_LEFT", "H", "Z3"}
TopLeftNeeds == {"PAETH", "FILTER", "Z1", "Z2", "Z3"}
TopRightNeeds == {"Z1", "Z2"}
BottomLeftNeeds == {"Z2", "Z3"}
FilledIf(needed, edge) == IF needed THEN edge ELSE Vector(Len(edge), LAMBDA i : 128)

SampleAt(b, dx, dy) == b.plane[b.y + dy + 1][b.x + dx + 1]
RowAbove(b) == IF b.haveTop THEN Vector(Len(b.plane[1]) - b.x, LAMBDA i : SampleAt(b, i, -1)) ELSE <<>>
ColumnBefore(b) == IF b.haveLeft THEN Vector(Len(b.plane) - b.y, LAMBDA i : SampleAt(b, -1, i)) ELSE <<>>

Side(size, decoded, otherwise) ==
    Vector(size, LAMBDA i : IF decoded = <<>> THEN otherwise ELSE At(decoded, Lesser(i, Len(decoded) - 1)))
Beyond(size, decoded, last) ==
    Vector(size, LAMBDA i : IF Len(decoded) > size THEN At(decoded, Lesser(size + i, Len(decoded) - 1)) ELSE last)
\* What is not decoded beyond is clamped in the end, needed or not.
Whole(size, decoded, otherwise, further, needed, neededBeyond) ==
    LET near == FilledIf(needed, Side(size, decoded, otherwise))
    IN near \o FilledIf(neededBeyond \/ ~further, Beyond(size, IF further THEN decoded ELSE <<>>, At(near, size - 1)))

TopEdge(b, kernel) ==
    Whole(b.w, RowAbove(b), IF b.haveLeft THEN SampleAt(b, -1, 0) ELSE 127, b.topRight,
          kernel \in TopNeeds, kernel \in TopRightNeeds)
LeftEdge(b, kernel) ==
    Whole(b.h, ColumnBefore(b), IF b.haveTop THEN SampleAt(b, 0, -1) ELSE 129, b.bottomLeft,
          kernel \in LeftNeeds, kernel \in BottomLeftNeeds)
TopLeft(b, kernel) ==
    IF kernel \notin TopLeftNeeds \/ (~b.haveLeft /\ ~b.haveTop) THEN 128
    ELSE SampleAt(b, IF b.haveLeft THEN -1 ELSE 0, IF b.haveTop THEN -1 ELSE 0)

\* The sample k places from the corner: to the right, or down if k is negative.
EdgeAt(e, k) == IF k = 0 THEN e.corner ELSE IF k > 0 THEN e.top[k] ELSE e.left[-k]
Smoothed(e) == [e EXCEPT !.corner = ((e.left[1] + e.top[1]) * 5 + e.corner * 6 + 8) \div 16]
PreparedEdges(b, kernel) ==
    LET e == [corner |-> TopLeft(b, kernel), top |-> TopEdge(b, kernel), left |-> LeftEdge(b, kernel)]
    IN IF kernel = "Z2" /\ b.w + b.h >= 24 /\ b.edgeFilter THEN Smoothed(e) ELSE e

-----------------------------------------------------------------------------
(* Kernels without a direction: the value of each sample.                     *)

SumOf(v, n) == FoldLeft(LAMBDA s, i : s + v[i], 0, Vector(n, LAMBDA i : i + 1))
DcGenOne(side, n) == (n \div 2 + SumOf(side, n)) \div n
PowerOfTwoIn(n) == CHOOSE p \in {2^k : k \in 2 .. 7} : n % p = 0 /\ n % (2 * p) # 0
\* A division by 3 or 5 is a product, shifted.
DcGen(e, w, h) ==
    LET dc == ((w + h) \div 2 + SumOf(e.top, w) + SumOf(e.left, h)) \div PowerOfTwoIn(w + h)
    IN IF w = h THEN dc ELSE (dc * (IF w > 2 * h \/ h > 2 * w THEN 13108 ELSE 21846)) \div 2^16
PaethOf(left, top, corner) ==
    LET base == (left + top) - corner
    IN IF Distance(left, base) <= Distance(top, base) /\ Distance(left, base) <= Distance(corner, base) THEN left
       ELSE IF Distance(top, base) <= Distance(corner, base) THEN top ELSE corner

SmWeights ==
    (4 :> <<255, 149, 85, 64>>) @@ (8 :> <<255, 197, 146, 105, 73, 50, 37, 32>>)
    @@ (16 :> <<255, 225, 196, 170, 145, 123, 102, 84, 68, 54, 43, 33, 26, 20, 17, 16>>)
    @@ (32 :> <<255, 240, 225, 210, 196, 182, 169, 157, 145, 133, 122, 111, 101, 92, 83, 74,
                66, 59, 52, 45, 39, 34, 29, 25, 21, 17, 14, 12, 10, 9, 8, 8>>)
    @@ (64 :> <<255, 248, 240, 233, 225, 218, 210, 203, 196, 189, 182, 176, 169, 163, 156, 150,
                144, 138, 133, 127, 121, 116, 111, 106, 101, 96, 91, 86, 82, 77, 73, 69,
                65, 61, 57, 54, 50, 47, 44, 41, 38, 35, 32, 29, 27, 25, 22, 20,
                18, 16, 15, 13, 12, 10, 9, 8, 7, 6, 6, 5, 5, 4, 4, 4>>)
Blended(weight, near, far) == weight * near + (256 - weight) * far
SmoothDown(e, w, h, x, y) == Blended(At(SmWeights[h], y), At(e.top, x), e.left[h])
SmoothAcross(e, w, h, x, y) == Blended(At(SmWeights[w], x), At(e.left, y), e.top[w])

PredPlain(kernel, e, w, h) ==
    LET flat == CASE kernel = "DC" -> DcGen(e, w, h) [] kernel = "DC_TOP" -> DcGenOne(e.top, w)
                  [] kernel = "DC_LEFT" -> DcGenOne(e.left, h) [] OTHER -> 128
    IN Vector(h, LAMBDA y : Vector(w, LAMBDA x :
         CASE kernel = "V" -> At(e.top, x)
           [] kernel = "H" -> At(e.left, y)
           [] kernel = "PAETH" -> PaethOf(At(e.left, y), At(e.top, x), e.corner)
           [] kernel = "SMOOTH" -> (SmoothDown(e, w, h, x, y) + SmoothAcross(e, w, h, x, y) + 256) \div 512
           [] kernel = "SMOOTH_V" -> (SmoothDown(e, w, h, x, y) + 128) \div 256
           [] kernel = "SMOOTH_H" -> (SmoothAcross(e, w, h, x, y) + 128) \div 256
           [] OTHER -> flat))

(* The recursive filters: the eight samples of a 4x2 unit, each from seven    *)
(* around the unit, which are other units' samples or the block's edges.      *)
FilterIntraTaps ==
  <<<<<<-6, 10, 0, 0, 0, 12, 0>>, <<-5, 2, 10, 0, 0, 9, 0>>, <<-3, 1, 1, 10, 0, 7, 0>>, <<-3, 1, 1, 2, 10, 5, 0>>,
      <<-4, 6, 0, 0, 0, 2, 12>>, <<-3, 2, 6, 0, 0, 2, 9>>, <<-3, 2, 2, 6, 0, 2, 7>>, <<-3, 1, 2, 2, 6, 3, 5>>>>,
    <<<<-10, 16, 0, 0, 0, 10, 0>>, <<-6, 0, 16, 0, 0, 6, 0>>, <<-4, 0, 0, 16, 0, 4, 0>>, <<-2, 0, 0, 0, 16, 2, 0>>,
      <<-10, 16, 0, 0, 0, 0, 10>>, <<-6, 0, 16, 0, 0, 0, 6>>, <<-4, 0, 0, 16, 0, 0, 4>>, <<-2, 0, 0, 0, 16, 0, 2>>>>,
    <<<<-8, 8, 0, 0, 0, 16, 0>>, <<-8, 0, 8, 0, 0, 16, 0>>, <<-8, 0, 0, 8, 0, 16, 0>>, <<-8, 0, 0, 0, 8, 16, 0>>,
      <<-4, 4, 0, 0, 0, 0, 16>>, <<-4, 0, 4, 0, 0, 0, 16>>, <<-4, 0, 0, 4, 0, 0, 16>>, <<-4, 0, 0, 0, 4, 0, 16>>>>,
    <<<<-2, 8, 0, 0, 0, 10, 0>>, <<-1, 3, 8, 0, 0, 6, 0>>, <<-1, 2, 3, 8, 0, 4, 0>>, <<0, 1, 2, 3, 8, 2, 0>>,
      <<-1, 4, 0, 0, 0, 3, 10>>, <<-1, 3, 4, 0, 0, 4, 6>>, <<-1, 2, 3, 4, 0, 4, 4>>, <<-1, 2, 2, 3, 4, 3, 3>>>>,
    <<<<-12, 14, 0, 0, 0, 14, 0>>, <<-10, 0, 14, 0, 0, 12, 0>>, <<-9, 0, 0, 14, 0, 11, 0>>, <<-8, 0, 0, 0, 14, 10, 0>>,
      <<-10, 12, 0, 0, 0, 0, 14>>, <<-9, 1, 12, 0, 0, 0, 12>>, <<-8, 0, 0, 12, 0, 1, 11>>, <<-7, 0, 0, 1, 12, 1, 9>>>>>>
FilterUnit(taps, p) ==
    Vector(8, LAMBDA i : Pixel((SumFunction([k \in 1 .. 7 |-> At(taps, i)[k] * p[k]]) + 8) \div 16))
\* Rows of the block after n units, from left to right and from top to bottom.
RECURSIVE FilteredUnits(_, _, _, _, _)
FilteredUnits(dst, taps, e, w, n) ==
    IF n = (w \div 4) * (Len(dst) \div 2) THEN dst
    ELSE LET x == 4 * (n % (w \div 4))
             y == 2 * (n \div (w \div 4))
             above(i) == IF y = 0 THEN At(e.top, x + i) ELSE dst[y][x + i + 1]
             beside(i) == IF x = 0 THEN At(e.left, y + i) ELSE dst[y + i + 1][x]
             corner == IF x = 0 THEN EdgeAt(e, -y) ELSE above(-1)
             unit == FilterUnit(taps, <<corner, above(0), above(1), above(2), above(3), beside(0), beside(1)>>)
         IN FilteredUnits([dst EXCEPT ![y + 1] = [i \in 1 .. w |-> IF i - 1 \in x .. x + 3 THEN At(unit, (i - 1) - x) ELSE @[i]] \o <<>>,
                                      ![y + 2] = [i \in 1 .. w |-> IF i - 1 \in x .. x + 3 THEN At(unit, (i + 3) - x) ELSE @[i]] \o <<>>],
                          taps, e, w, n + 1)
PredFilter(e, w, h, set) == FilteredUnits([y \in 1 .. h |-> [x \in 1 .. w |-> 0]], At(FilterIntraTaps, set), e, w, 0)

-----------------------------------------------------------------------------
(* Kernels with a direction.                                                  *)

\* 64 over the tangent of an angle of 3 to 87 degrees.
DrIntraDerivative ==
    (3 :> 1023) @@ (6 :> 547) @@ (9 :> 372) @@ (14 :> 273) @@ (17 :> 215) @@ (20 :> 178) @@ (23 :> 151) @@ (26 :> 132)
    @@ (29 :> 116) @@ (32 :> 102) @@ (36 :> 90) @@ (39 :> 80) @@ (42 :> 71) @@ (45 :> 64) @@ (48 :> 57) @@ (51 :> 51)
    @@ (54 :> 45) @@ (58 :> 40) @@ (61 :> 35) @@ (64 :> 31) @@ (67 :> 27) @@ (70 :> 23) @@ (73 :> 19) @@ (76 :> 15)
    @@ (81 :> 11) @@ (84 :> 7) @@ (87 :> 3)

StrongestAt(thresholds, angle) == Max({0} \cup {t[2] : t \in {t \in thresholds : angle >= t[1]}})
GetFilterStrength(wh, angle, smooth) ==
    StrongestAt(IF smooth
                THEN CASE wh <= 8 -> {<<40, 1>>, <<64, 2>>} [] wh \in 9 .. 16 -> {<<20, 1>>, <<48, 2>>}
                       [] wh \in 17 .. 24 -> {<<4, 3>>} [] OTHER -> {<<0, 3>>}
                ELSE CASE wh <= 8 -> {<<56, 1>>} [] wh \in 9 .. 16 -> {<<40, 1>>}
                       [] wh \in 17 .. 24 -> {<<8, 1>>, <<16, 2>>, <<32, 3>>}
                       [] wh \in 25 .. 32 -> {<<0, 1>>, <<4, 2>>, <<32, 3>>} [] OTHER -> {<<0, 3>>},
                angle)
GetUpsample(wh, angle, smooth) == angle < 40 /\ wh <= (IF smooth THEN 8 ELSE 16)

EdgeKernel == <<<<0, 4, 8, 4, 0>>, <<0, 5, 6, 5, 0>>, <<2, 4, 4, 4, 2>>>>
\* An edge is a function from a range of places; from .. to - 1 are read.
ReadEdge(in, i, from, to) == in[Clip(i, from, to - 1)]
FilterEdge(size, limFrom, limTo, in, from, to, strength) ==
    Vector(size, LAMBDA i : IF i < limFrom \/ i >= limTo THEN ReadEdge(in, i, from, to)
        ELSE (SumFunction([j \in 1 .. 5 |-> EdgeKernel[strength][j] * ReadEdge(in, (i - 3) + j, from, to)]) + 8) \div 16)
UpsampleEdge(hsz, in, from, to) ==
    LET s(i) == ReadEdge(in, i, from, to)
    IN Vector(2 * hsz - 1, LAMBDA i : IF i % 2 = 0 THEN s(i \div 2)
         ELSE Pixel((9 * (s(i \div 2) + s(i \div 2 + 1)) - (s(i \div 2 - 1) + s(i \div 2 + 2)) + 8) \div 16))

\* The position v / 64 between two samples, as a whole part and a fraction.
Interpolated(near, far, v) ==
    LET frac == 2 * ((v \div 2) % 32) IN (near * (64 - frac) + far * frac + 32) \div 64

(* One edge only: the samples along it, raw, smoother by a strength or finer  *)
(* (made[0]), the last of them, and how many there are for one of the block.  *)
OneEdge(b, angle, raw, rawEnd, made) ==
    LET strength == IF b.edgeFilter THEN GetFilterStrength(b.w + b.h, angle, b.smooth) ELSE 0
    IN IF b.edgeFilter /\ GetUpsample(b.w + b.h, angle, b.smooth) THEN [samples |-> made[0], end |-> 2 * (b.w + b.h) - 2, inc |-> 2]
       ELSE IF strength # 0 THEN [samples |-> made[strength], end |-> (b.w + b.h) - 1, inc |-> 1]
       ELSE [samples |-> raw, end |-> rawEnd, inc |-> 1]
AlongOne(edge, slope, across, along) ==
    LET v == (across + 1) * slope * edge.inc
        base == v \div 64 + along * edge.inc
    IN IF base < edge.end THEN Interpolated(At(edge.samples, base), At(edge.samples, base + 1), v) ELSE At(edge.samples, edge.end)

PredZ1(b, e) ==
    LET to == b.w + Lesser(b.w, b.h)
        in == [i \in -1 .. to - 1 |-> EdgeAt(e, i + 1)]
        edge == OneEdge(b, 90 - PredAngle(b), e.top, to - 1,
                        [strength \in 0 .. 3 |-> IF strength = 0 THEN UpsampleEdge(b.w + b.h, in, -1, to)
                                                 ELSE FilterEdge(b.w + b.h, 0, b.w + b.h, in, -1, to, strength)])
    IN Vector(b.h, LAMBDA y : Vector(b.w, LAMBDA x : AlongOne(edge, DrIntraDerivative[PredAngle(b)], y, x)))

\* The left edge is worked on from its far end, and read from its near one.
PredZ3(b, e) ==
    LET from == Greater(b.w - b.h, 0)
        to == b.w + b.h + 1
        in == [i \in from .. to - 1 |-> EdgeAt(e, i - (b.w + b.h))]
        edge == OneEdge(b, PredAngle(b) - 180, e.left, (b.h + Lesser(b.w, b.h)) - 1,
                        [strength \in 0 .. 3 |-> Reverse(IF strength = 0 THEN UpsampleEdge(b.w + b.h, in, from, to)
                                                         ELSE FilterEdge(b.w + b.h, 0, b.w + b.h, in, from, to, strength))])
    IN Vector(b.h, LAMBDA y : Vector(b.w, LAMBDA x : AlongOne(edge, DrIntraDerivative[270 - PredAngle(b)], x, y)))

(* Both edges, each made finer or smoother by itself: those on top, and those *)
(* at the left from the bottom up, without the corner.                        *)
\* Mutant: the filter runs to the block's end, and not to the plane's.
MutTopOfTwo(b, e, finer) ==
    LET strength == IF b.edgeFilter THEN GetFilterStrength(b.w + b.h, PredAngle(b) - 90, b.smooth) ELSE 0
        in == [i \in -1 .. b.w |-> EdgeAt(e, i + 1)]
    IN IF finer THEN Tail(UpsampleEdge(b.w + 1, [i \in 0 .. b.w |-> in[i - 1]], 0, b.w + 1))
       ELSE IF strength # 0 THEN FilterEdge(b.w, 0, b.w, in, -1, b.w, strength)
       ELSE SubSeq(e.top, 1, b.w)
TopOfTwo(b, e, finer) ==
    LET strength == IF b.edgeFilter THEN GetFilterStrength(b.w + b.h, PredAngle(b) - 90, b.smooth) ELSE 0
        in == [i \in -1 .. b.w |-> EdgeAt(e, i + 1)]
    IN IF finer THEN Tail(UpsampleEdge(b.w + 1, [i \in 0 .. b.w |-> in[i - 1]], 0, b.w + 1))
       ELSE IF strength # 0 THEN FilterEdge(b.w, 0, Len(b.plane[1]) - b.x, in, -1, b.w, strength)
       ELSE SubSeq(e.top, 1, b.w)
LeftOfTwo(b, e, finer) ==
    LET strength == IF b.edgeFilter THEN GetFilterStrength(b.w + b.h, 180 - PredAngle(b), b.smooth) ELSE 0
        in == [i \in 0 .. b.h |-> EdgeAt(e, i - b.h)]
    IN IF finer THEN Front(UpsampleEdge(b.h + 1, in, 0, b.h + 1))
       ELSE IF strength # 0 THEN FilterEdge(b.h, b.h - (Len(b.plane) - b.y), b.h, in, 0, b.h + 1, strength)
       ELSE Reverse(SubSeq(e.left, 1, b.h))
PredZ2(b, e) ==
    LET up(angle) == b.edgeFilter /\ GetUpsample(b.w + b.h, angle, b.smooth)
        incX == IF up(PredAngle(b) - 90) THEN 2 ELSE 1
        incY == IF up(180 - PredAngle(b)) THEN 2 ELSE 1
        edge == [corner |-> e.corner, top |-> TopOfTwo(b, e, incX = 2), left |-> Reverse(LeftOfTwo(b, e, incY = 2))]
        dx == DrIntraDerivative[180 - PredAngle(b)] * incX
        dy == DrIntraDerivative[PredAngle(b) - 90] * incY
        fromTop(x, y) == 64 * incX - (y + 1) * dx
        fromLeft(x, y) == 64 * y * incY - (x + 1) * dy
    IN Vector(b.h, LAMBDA y : Vector(b.w, LAMBDA x :
         LET baseX == fromTop(x, y) \div 64 + x * incX
         IN IF baseX >= 0 THEN Interpolated(EdgeAt(edge, baseX), EdgeAt(edge, baseX + 1), fromTop(x, y))
            ELSE LET baseY == fromLeft(x, y) \div 64 + incY
                 IN Interpolated(EdgeAt(edge, -baseY), EdgeAt(edge, -(baseY + 1)), fromLeft(x, y))))

-----------------------------------------------------------------------------
(* prepareIntraPrediction and callPreparedIntraPred.                          *)
PredictFrom(b, kernel, e) ==
    CASE kernel = "FILTER" -> PredFilter(e, b.w, b.h, b.filter)
      [] kernel = "Z1" -> PredZ1(b, e)
      [] kernel = "Z2" -> PredZ2(b, e)
      [] kernel = "Z3" -> PredZ3(b, e)
      [] OTHER -> PredPlain(kernel, e, b.w, b.h)
IntraPrediction(b) == PredictFrom(b, Dispatch(b), PreparedEdges(b, Dispatch(b)))

(* Chroma from luma: twice the sums of four luma samples (four times those of *)
(* two), less their mean, scaled and added to the mean of the edges.          *)
SubsampledLuma(luma, x, y, w, h, ssHor, ssVer) ==
    LET s(px, py) == luma[Lesser(py + 1, Len(luma))][Lesser(px + 1, Len(luma[1]))]
    IN Vector(w * h, LAMBDA i :
         2^(3 - ssHor - ssVer) * SumFunction([o \in (0 .. ssHor) \X (0 .. ssVer) |->
             s(x + 2^ssHor * (i % w) + o[1], y + 2^ssVer * (i \div w) + o[2])]))
BuildCflAc(luma, x, y, w, h, ssHor, ssVer) ==
    LET ac == SubsampledLuma(luma, x, y, w, h, ssHor, ssVer)
        mean == ((w * h) \div 2 + SumOf(ac, w * h)) \div (w * h)
    IN Vector(w * h, LAMBDA i : At(ac, i) - mean)
CflSample(dc, diff) == Pixel(IF diff < 0 THEN dc - ((32 - diff) \div 64) ELSE dc + ((diff + 32) \div 64))
PredictCfl(b, ac, alpha) ==
    LET dc == PredPlain(Dispatch(b), PreparedEdges(b, Dispatch(b)), b.w, b.h)[1][1]
    IN Vector(b.h, LAMBDA y : Vector(b.w, LAMBDA x : CflSample(dc, alpha * At(ac, y * b.w + x))))

-----------------------------------------------------------------------------
(* The encoder's prediction, from a plane of the picture's own size.          *)
EncoderIntraEdges(b) ==
    [corner |-> SampleAt(b, -1, -1),
     top |-> Vector(b.w, LAMBDA i : SampleAt(b, Lesser(i, (Len(b.plane[1]) - b.x) - 1), -1)),
     left |-> Vector(b.h, LAMBDA i : SampleAt(b, -1, Lesser(i, (Len(b.plane) - b.y) - 1)))]
DcPredict(b) ==
    LET top == IF b.y > 0 THEN Vector(b.w, LAMBDA i : SampleAt(b, Lesser(i, (Len(b.plane[1]) - b.x) - 1), -1)) ELSE <<>>
        left == IF b.x > 0 THEN Vector(b.h, LAMBDA i : SampleAt(b, -1, Lesser(i, (Len(b.plane) - b.y) - 1))) ELSE <<>>
        n == Len(top \o left)
    IN IF n = 0 THEN 128 ELSE (SumOf(top \o left, n) + n \div 2) \div n
EncoderIntra(b) ==
    IF b.mode = "DC" THEN Vector(b.h, LAMBDA y : Vector(b.w, LAMBDA x : DcPredict(b)))
    ELSE PredPlain(b.mode, EncoderIntraEdges(b), b.w, b.h)
=============================================================================
