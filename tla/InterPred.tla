----------------------------- MODULE InterPred ------------------------------
(* Inter prediction: the samples of a block, taken from other pictures along  *)
(* a motion vector (internal/tile/decoder.go), the kernels and masks          *)
(* (internal/predict/inter), and the encoder's use of them                    *)
(* (internal/tile/encoder_context.go).  A plane is a sequence of rows.        *)
(* A block b has                                                              *)
(*   x, y, w, h    its place in its own plane, and its size there             *)
(*   ss            <<x, y>>, whether that plane has half the luma's samples   *)
(*   mv            its vector <<x, y>>, in eighths of a luma sample           *)
(*   plane         the plane of the picture referred to                       *)
(*   filters       the filters coded for it, <<vertical, horizontal>>         *)
EXTENDS IntraPred

LOCAL Lesser(a, b) == IF a < b THEN a ELSE b
LOCAL Greater(a, b) == IF a > b THEN a ELSE b
LOCAL Clip(v, lo, hi) == IF v < lo THEN lo ELSE IF v > hi THEN hi ELSE v
LOCAL Distance(a, b) == IF a < b THEN b - a ELSE a - b
LOCAL Grid(w, h, Elem(_, _)) == Vector(h, LAMBDA y : Vector(w, LAMBDA x : Elem(x, y)))

-----------------------------------------------------------------------------
(* Subpel filters: eight taps, of 64 together, for each sixteenth of a sample.*)

McSubpelFilters == [
    REGULAR |-> <<
        <<0, 1, -3, 63, 4, -1, 0, 0>>, <<0, 1, -5, 61, 9, -2, 0, 0>>, <<0, 1, -6, 58, 14, -4, 1, 0>>, <<0, 1, -7, 55, 19, -5, 1, 0>>,
        <<0, 1, -7, 51, 24, -6, 1, 0>>, <<0, 1, -8, 47, 29, -6, 1, 0>>, <<0, 1, -7, 42, 33, -6, 1, 0>>, <<0, 1, -7, 38, 38, -7, 1, 0>>,
        <<0, 1, -6, 33, 42, -7, 1, 0>>, <<0, 1, -6, 29, 47, -8, 1, 0>>, <<0, 1, -6, 24, 51, -7, 1, 0>>, <<0, 1, -5, 19, 55, -7, 1, 0>>,
        <<0, 1, -4, 14, 58, -6, 1, 0>>, <<0, 0, -2, 9, 61, -5, 1, 0>>, <<0, 0, -1, 4, 63, -3, 1, 0>>>>,
    SMOOTH |-> <<
        <<0, 1, 14, 31, 17, 1, 0, 0>>, <<0, 0, 13, 31, 18, 2, 0, 0>>, <<0, 0, 11, 31, 20, 2, 0, 0>>, <<0, 0, 10, 30, 21, 3, 0, 0>>,
        <<0, 0, 9, 29, 22, 4, 0, 0>>, <<0, 0, 8, 28, 23, 5, 0, 0>>, <<0, -1, 8, 27, 24, 6, 0, 0>>, <<0, -1, 7, 26, 26, 7, -1, 0>>,
        <<0, 0, 6, 24, 27, 8, -1, 0>>, <<0, 0, 5, 23, 28, 8, 0, 0>>, <<0, 0, 4, 22, 29, 9, 0, 0>>, <<0, 0, 3, 21, 30, 10, 0, 0>>,
        <<0, 0, 2, 20, 31, 11, 0, 0>>, <<0, 0, 2, 18, 31, 13, 0, 0>>, <<0, 0, 1, 17, 31, 14, 1, 0>>>>,
    SHARP |-> <<
        <<-1, 1, -3, 63, 4, -1, 1, 0>>, <<-1, 3, -6, 62, 8, -3, 2, -1>>, <<-1, 4, -9, 60, 13, -5, 3, -1>>, <<-2, 5, -11, 58, 19, -7, 3, -1>>,
        <<-2, 5, -11, 54, 24, -9, 4, -1>>, <<-2, 5, -12, 50, 30, -10, 4, -1>>, <<-2, 5, -12, 45, 35, -11, 5, -1>>, <<-2, 6, -12, 40, 40, -12, 6, -2>>,
        <<-1, 5, -11, 35, 45, -12, 5, -2>>, <<-1, 4, -10, 30, 50, -12, 5, -2>>, <<-1, 4, -9, 24, 54, -11, 5, -2>>, <<-1, 3, -7, 19, 58, -11, 5, -2>>,
        <<-1, 3, -5, 13, 60, -9, 4, -1>>, <<-1, 2, -3, 8, 62, -6, 3, -1>>, <<0, 1, -1, 4, 63, -3, 1, -1>>>>,
    REGULAR_SMALL |-> <<
        <<0, 0, -2, 63, 4, -1, 0, 0>>, <<0, 0, -4, 61, 9, -2, 0, 0>>, <<0, 0, -5, 58, 14, -3, 0, 0>>, <<0, 0, -6, 55, 19, -4, 0, 0>>,
        <<0, 0, -6, 51, 24, -5, 0, 0>>, <<0, 0, -7, 47, 29, -5, 0, 0>>, <<0, 0, -6, 42, 33, -5, 0, 0>>, <<0, 0, -6, 38, 38, -6, 0, 0>>,
        <<0, 0, -5, 33, 42, -6, 0, 0>>, <<0, 0, -5, 29, 47, -7, 0, 0>>, <<0, 0, -5, 24, 51, -6, 0, 0>>, <<0, 0, -4, 19, 55, -6, 0, 0>>,
        <<0, 0, -3, 14, 58, -5, 0, 0>>, <<0, 0, -2, 9, 61, -4, 0, 0>>, <<0, 0, -1, 4, 63, -2, 0, 0>>>>,
    SMOOTH_SMALL |-> <<
        <<0, 0, 15, 31, 17, 1, 0, 0>>, <<0, 0, 13, 31, 18, 2, 0, 0>>, <<0, 0, 11, 31, 20, 2, 0, 0>>, <<0, 0, 10, 30, 21, 3, 0, 0>>,
        <<0, 0, 9, 29, 22, 4, 0, 0>>, <<0, 0, 8, 28, 23, 5, 0, 0>>, <<0, 0, 7, 27, 24, 6, 0, 0>>, <<0, 0, 6, 26, 26, 6, 0, 0>>,
        <<0, 0, 6, 24, 27, 7, 0, 0>>, <<0, 0, 5, 23, 28, 8, 0, 0>>, <<0, 0, 4, 22, 29, 9, 0, 0>>, <<0, 0, 3, 21, 30, 10, 0, 0>>,
        <<0, 0, 2, 20, 31, 11, 0, 0>>, <<0, 0, 2, 18, 31, 13, 0, 0>>, <<0, 0, 1, 17, 31, 15, 0, 0>>>>]

Bilinear(filters) == filters[1] = "BILINEAR" \/ filters[2] = "BILINEAR"
FilterType(mode, size) ==
    IF size > 4 THEN mode ELSE IF mode = "SMOOTH" THEN "SMOOTH_SMALL" ELSE "REGULAR_SMALL"
TapsOf(mode, size, frac) == IF frac = 0 THEN <<>> ELSE McSubpelFilters[FilterType(mode, size)][frac]

(* The filters run over a window that starts three samples before the block.  *)
TapsAcross(taps, row, x) ==
    taps[1] * row[x + 1] + taps[2] * row[x + 2] + taps[3] * row[x + 3] + taps[4] * row[x + 4]
    + taps[5] * row[x + 5] + taps[6] * row[x + 6] + taps[7] * row[x + 7] + taps[8] * row[x + 8]
TapsDown(taps, rows, x, y) ==
    taps[1] * rows[y + 1][x + 1] + taps[2] * rows[y + 2][x + 1] + taps[3] * rows[y + 3][x + 1] + taps[4] * rows[y + 4][x + 1]
    + taps[5] * rows[y + 5][x + 1] + taps[6] * rows[y + 6][x + 1] + taps[7] * rows[y + 7][x + 1] + taps[8] * rows[y + 8][x + 1]
Mid(win, w, fh) == Grid(w, Len(win), LAMBDA x, y : (TapsAcross(fh, At(win, y), x) + 2) \div 4)

Put8Tap(win, w, h, fh, fv) ==
    CASE fh # <<>> /\ fv # <<>> -> LET mid == Mid(win, w, fh)
                                  IN Grid(w, h, LAMBDA x, y : Pixel((TapsDown(fv, mid, x, y) + 512) \div 1024))
      [] fh # <<>> /\ fv = <<>> -> Grid(w, h, LAMBDA x, y : Pixel((TapsAcross(fh, At(win, y + 3), x) + 34) \div 64))
      [] fh = <<>> /\ fv # <<>> -> Grid(w, h, LAMBDA x, y : Pixel((TapsDown(fv, win, x + 3, y) + 32) \div 64))
      [] OTHER -> Grid(w, h, LAMBDA x, y : At(At(win, y + 3), x + 3))
\* The same with four more bits, for a prediction that is one of two.
Prep8Tap(win, w, h, fh, fv) ==
    CASE fh # <<>> /\ fv # <<>> -> LET mid == Mid(win, w, fh) IN Grid(w, h, LAMBDA x, y : (TapsDown(fv, mid, x, y) + 32) \div 64)
      [] fh # <<>> /\ fv = <<>> -> Grid(w, h, LAMBDA x, y : (TapsAcross(fh, At(win, y + 3), x) + 2) \div 4)
      [] fh = <<>> /\ fv # <<>> -> Grid(w, h, LAMBDA x, y : (TapsDown(fv, win, x + 3, y) + 2) \div 4)
      [] OTHER -> Grid(w, h, LAMBDA x, y : 16 * At(At(win, y + 3), x + 3))

Between2(near, far, frac) == near * (16 - frac) + far * frac
BilinearAcross(win, x, y, mx) == (Between2(win[y + 4][x + 4], win[y + 4][x + 5], mx) + 8) \div 16
BilinearDown(win, x, y, my) == (Between2(win[y + 4][x + 4], win[y + 5][x + 4], my) + 8) \div 16
BilinearBoth(win, x, y, mx, my) ==
    (Between2(16 * BilinearAcross(win, x, y, mx), 16 * BilinearAcross(win, x, y + 1, mx), my) + 128) \div 256
PutBilin(win, w, h, mx, my) ==
    Grid(w, h, LAMBDA x, y :
        IF my = 0 THEN BilinearAcross(win, x, y, mx) ELSE IF mx = 0 THEN BilinearDown(win, x, y, my)
        ELSE BilinearBoth(win, x, y, mx, my))
PrepBilin(win, w, h, mx, my) ==
    Grid(w, h, LAMBDA x, y :
        IF my = 0 THEN 16 * BilinearAcross(win, x, y, mx) ELSE IF mx = 0 THEN 16 * BilinearDown(win, x, y, my)
        ELSE BilinearBoth(win, x, y, mx, my))

PutFiltered(b, win, fx, fy) ==
    IF Bilinear(b.filters) THEN PutBilin(win, b.w, b.h, fx, fy)
    ELSE Put8Tap(win, b.w, b.h, TapsOf(b.filters[2], b.w, fx), TapsOf(b.filters[1], b.h, fy))
PrepFiltered(b, win, fx, fy) ==
    IF Bilinear(b.filters) THEN PrepBilin(win, b.w, b.h, fx, fy)
    ELSE Prep8Tap(win, b.w, b.h, TapsOf(b.filters[2], b.w, fx), TapsOf(b.filters[1], b.h, fy))

-----------------------------------------------------------------------------
(* Where a vector leads: a whole number of samples and sixteenths of one.     *)
(* Far outside the picture the vector is shortened.                           *)

SplitMV(mv, ss) == [pix |-> mv \div 2^(3 + ss), frac |-> (mv % 2^(3 + ss)) * 2^(1 - ss)]
ClampMV(mv, at4, size4, extent4) ==
    LET border == 1024 + 16 * size4 IN Clip(mv, -(32 * at4 + border), (32 * (extent4 - at4) + border) - 1)
Displacement(mv, ss, at, size, extent) ==
    LET planeMV == mv \div 2^ss
        clamped == ClampMV(planeMV, at \div 4, (size + 3) \div 4, (extent + 3) \div 4)
    IN IF clamped = planeMV THEN SplitMV(mv, ss) ELSE SplitMV(clamped, 0)
DisplacementX(b) == Displacement(b.mv[1], b.ss[1], b.x, b.w, Len(b.plane[1]))
DisplacementY(b) == Displacement(b.mv[2], b.ss[2], b.y, b.h, Len(b.plane))

\* n samples of a row from place x on: the first and the last are repeated.
PaddedRow(row, x, n) ==
    LET leftEnd == Clip(-x, 0, n)
        valid == IF leftEnd < n /\ x + leftEnd < Len(row) THEN Lesser(n - leftEnd, Len(row) - (x + leftEnd)) ELSE 0
    IN Vector(leftEnd, LAMBDA i : row[1]) \o SubSeq(row, x + leftEnd + 1, x + leftEnd + valid)
       \o Vector(n - (leftEnd + valid), LAMBDA i : row[Len(row)])
PaddedWindow(plane, x, y, w, h) ==
    Vector(h + 7, LAMBDA i : PaddedRow(At(plane, Clip((y - 3) + i, 0, Len(plane) - 1)), x - 3, w + 7))
DirectWindow(plane, x, y, w, h) == Vector(h + 7, LAMBDA i : SubSeq(At(plane, (y - 3) + i), x - 2, x + w + 4))
InPicture(plane, x, y, w, h) == x >= 3 /\ y >= 3 /\ x + w + 4 <= Len(plane[1]) /\ y + h + 4 <= Len(plane)
ClampedWindow(plane, x, y, w, h) ==
    Grid(w + 7, h + 7, LAMBDA i, j : At(At(plane, Clip((y - 3) + j, 0, Len(plane) - 1)), Clip((x - 3) + i, 0, Len(plane[1]) - 1)))

(* copyInterPredictPlaneSubsampled: what of the block is in the coded plane,  *)
(* of which there are room samples right of and below the block's corner.     *)
CopyInterPredict(b, room) ==
    LET dx == DisplacementX(b)
        dy == DisplacementY(b)
        whole == b.w <= room[1] /\ b.h <= room[2]
        win == IF whole /\ InPicture(b.plane, b.x + dx.pix, b.y + dy.pix, b.w, b.h)
               THEN DirectWindow(b.plane, b.x + dx.pix, b.y + dy.pix, b.w, b.h)
               ELSE PaddedWindow(b.plane, b.x + dx.pix, b.y + dy.pix, b.w, b.h)
        pred == PutFiltered(b, win, dx.frac, dy.frac)
    IN Vector(Lesser(b.h, room[2]), LAMBDA y : SubSeq(At(pred, y), 1, Lesser(b.w, room[1])))
MakeInterPrediction(b) ==
    LET dx == DisplacementX(b)
        dy == DisplacementY(b)
    IN PutFiltered(b, ClampedWindow(b.plane, b.x + dx.pix, b.y + dy.pix, b.w, b.h), dx.frac, dy.frac)

(* A picture of another size: positions in 1024ths of its samples.            *)
Scale(refSize, size) == (refSize * 2^14 + size \div 2) \div size
ScaleStep(scale) == (scale + 8) \div 16
ScalePos(value, scale) ==
    LET v == value * scale + (scale - 2^14) * 8
    IN (IF v < 0 THEN -((128 - v) \div 256) ELSE (v + 128) \div 256) + 32
ScaledSample(plane, x, y) == At(At(plane, Clip(y, 0, Len(plane) - 1)), Clip(x, 0, Len(plane[1]) - 1))
ScaledMid(plane, ix, y, fh) ==
    IF fh = <<>> THEN 16 * ScaledSample(plane, ix, y)
    ELSE (SumFunction([k \in 1 .. 8 |-> fh[k] * ScaledSample(plane, (ix + k) - 4, y)]) + 2) \div 4
ScaledPixel(b, sx, sy) ==
    LET fh == TapsOf(b.filters[2], b.w, (sx % 1024) \div 64)
        fv == TapsOf(b.filters[1], b.h, (sy % 1024) \div 64)
    IN IF fv = <<>> THEN Pixel((ScaledMid(b.plane, sx \div 1024, sy \div 1024, fh) + 8) \div 16)
       ELSE Pixel((SumFunction([k \in 1 .. 8 |-> fv[k] * ScaledMid(b.plane, sx \div 1024, (sy \div 1024 + k) - 4, fh)]) + 512) \div 1024)
ScaledPixelBilinear(b, sx, sy) ==
    LET px == (sx % 1024) \div 64
        py == (sy % 1024) \div 64
        across(y) == (Between2(ScaledSample(b.plane, sx \div 1024, y), ScaledSample(b.plane, sx \div 1024 + 1, y), px) + 8) \div 16
    IN (Between2(across(sy \div 1024), across(sy \div 1024 + 1), py) + 8) \div 16
Put8TapScaled(b, posX, posY, stepX, stepY) ==
    Grid(b.w, b.h, LAMBDA x, y :
        IF Bilinear(b.filters) THEN ScaledPixelBilinear(b, posX + x * stepX, posY + y * stepY)
        ELSE ScaledPixel(b, posX + x * stepX, posY + y * stepY))
\* sizes: <<of the picture referred to, of the picture itself>>, in luma samples.
ScaledPrediction(b, sizes) ==
    LET scaleX == Scale(sizes[1][1], sizes[2][1])
        scaleY == Scale(sizes[1][2], sizes[2][2])
    IN Put8TapScaled(b, ScalePos(16 * b.x + b.mv[1] * 2^(1 - b.ss[1]), scaleX), ScalePos(16 * b.y + b.mv[2] * 2^(1 - b.ss[2]), scaleY),
                     ScaleStep(scaleX), ScaleStep(scaleY))

-----------------------------------------------------------------------------
(* Two predictions.  A mask gives a sample's share of the first, of 64.       *)

Avg(a, b) == Grid(Len(a[1]), Len(a), LAMBDA x, y : Pixel((At(At(a, y), x) + At(At(b, y), x) + 16) \div 32))
WAvg(a, b, weight) ==
    Grid(Len(a[1]), Len(a), LAMBDA x, y : Pixel((At(At(a, y), x) * weight + At(At(b, y), x) * (16 - weight) + 128) \div 256))
BlendCompoundMask(a, b, mask) ==
    Grid(Len(a[1]), Len(a), LAMBDA x, y :
        Pixel(((At(At(a, y), x) - At(At(b, y), x)) * At(At(mask, y), x) + 64 * At(At(b, y), x) + 512) \div 1024))
DiffWtdMask(a, b) ==
    Grid(Len(a[1]), Len(a), LAMBDA x, y : Lesser(38 + (Distance(At(At(a, y), x), At(At(b, y), x)) + 8) \div 256, 64))

\* How far apart two order hints are, in a number of bits.
RelativeOrderHint(a, b, bits) ==
    LET diff == (a - b) % 2^bits IN IF diff >= 2^(bits - 1) THEN diff - 2^bits ELSE diff
QuantDistWeight == <<3, 5, 7>>
QuantDistLookup == <<<<9, 7>>, <<11, 5>>, <<12, 4>>, <<13, 3>>>>
\* The weight of the first picture; hints are those of both and of the current one.
CompoundJointWeight(hints, bits) ==
    LET dist(i) == LET d == RelativeOrderHint(hints[i], hints[3], bits) IN Lesser(IF d < 0 THEN -d ELSE d, 31)
        d1 == dist(1)
        d0 == dist(2)
        breaks(k) == \/ d0 > d1 /\ d0 * 2 < d1 * QuantDistWeight[k]
                     \/ d0 <= d1 /\ d0 * QuantDistWeight[k] > d1 * 2
        k == Min({k \in 1 .. 3 : breaks(k)} \cup {4})
    IN QuantDistLookup[k][IF d0 <= d1 THEN 2 ELSE 1]

(* Wedges: a line through a block in one of six directions, and at one of     *)
(* sixteen places by the block's shape.                                       *)
WedgeBorder(border, centre) ==
    Vector(64, LAMBDA i : IF i < centre - 4 THEN 0 ELSE IF i >= centre + 4 THEN 64 ELSE At(border, i - (centre - 4)))
Vert64 == [y \in 0 .. 63 |-> WedgeBorder(<<0, 2, 7, 21, 43, 57, 62, 64>>, 32)]
Oblique63 ==
    [y \in 0 .. 63 |-> IF y % 2 = 0 THEN WedgeBorder(<<1, 4, 11, 27, 46, 58, 62, 63>>, 48 - y \div 2)
                       ELSE WedgeBorder(<<1, 2, 6, 18, 37, 53, 60, 63>>, 47 - y \div 2)]
\* The value of a wedge of a direction (H, V, 27, 63, 117, 153) in a square of 64.
WedgeMaster(direction, x, y) ==
    CASE direction = "H" -> At(Vert64[x], y)
      [] direction = "V" -> At(Vert64[y], x)
      [] direction = "27" -> At(Oblique63[x], y)
      [] direction = "63" -> At(Oblique63[y], x)
      [] direction = "117" -> At(Oblique63[y], 63 - x)
      [] direction = "153" -> At(Oblique63[63 - x], y)
WedgeHead == <<<<"27", 4, 4>>, <<"63", 4, 4>>, <<"117", 4, 4>>, <<"153", 4, 4>>>>
WedgeTail == <<<<"27", 4, 2>>, <<"27", 4, 6>>, <<"153", 4, 2>>, <<"153", 4, 6>>, <<"63", 2, 4>>, <<"63", 6, 4>>, <<"117", 2, 4>>, <<"117", 6, 4>>>>
WedgeCodebook(w, h) ==
    WedgeHead
    \o (CASE h > w -> <<<<"H", 4, 2>>, <<"H", 4, 4>>, <<"H", 4, 6>>, <<"V", 4, 4>>>>
          [] h < w -> <<<<"V", 2, 4>>, <<"V", 4, 4>>, <<"V", 6, 4>>, <<"H", 4, 4>>>>
          [] OTHER -> <<<<"H", 4, 2>>, <<"H", 4, 6>>, <<"V", 2, 4>>, <<"V", 6, 4>>>>)
    \o WedgeTail
\* wedgeSigns: the places whose line has its heavy side at the top left.
WedgeSigns(w, h) ==
    ({0, 1, 3, 5, 6, 7, 9, 11, 13, 14} \cup (IF w = 4 * h THEN {} ELSE {12}) \cup (IF h = 4 * w THEN {} ELSE {8}))
    \cup (IF w = h THEN {4} ELSE {})
WedgeMask(w, h, index) ==
    LET code == At(WedgeCodebook(w, h), index)
        master(x, y) == WedgeMaster(code[1], 32 - (w * code[2]) \div 8 + x, 32 - (h * code[3]) \div 8 + y)
    IN Grid(w, h, LAMBDA x, y : IF index \in WedgeSigns(w, h) THEN 64 - master(x, y) ELSE master(x, y))

\* SubsampleMaskSigned: with a sign the mask is the other prediction's, and halves round down.
SubsampleMask(mask, ss, sign) ==
    LET count == 2^(ss[1] + ss[2])
        half == IF sign THEN count \div 2 - 1 ELSE count \div 2
    IN Grid(Len(mask[1]) \div 2^ss[1], Len(mask) \div 2^ss[2], LAMBDA x, y :
         (half + SumFunction([o \in (0 .. 2^ss[1] - 1) \X (0 .. 2^ss[2] - 1) |-> At(At(mask, y * 2^ss[2] + o[2]), x * 2^ss[1] + o[1])])) \div count)

(* compoundPredictPlane.  b has in addition the second picture's plane and    *)
(* vector, the type of the compound, its sign and wedge, and a weight.  A     *)
(* mask that is handed in is luma's.                                          *)
PrepPrediction(b) ==
    LET dx == DisplacementX(b)
        dy == DisplacementY(b)
    IN PrepFiltered(b, ClampedWindow(b.plane, b.x + dx.pix, b.y + dy.pix, b.w, b.h), dx.frac, dy.frac)
InSignOrder(b) ==
    LET second == [b EXCEPT !.plane = b.plane2, !.mv = b.mv2]
    IN Vector(2, LAMBDA i : PrepPrediction(IF (i = 0) # b.sign THEN b ELSE second))
CompoundMask(b, preds) == IF b.type = "WEDGE" THEN WedgeMask(b.w, b.h, b.wedge) ELSE DiffWtdMask(preds[1], preds[2])
CompoundFrom(b, preds, mask) ==
    CASE b.type = "AVERAGE" -> Avg(preds[1], preds[2])
      [] b.type = "DISTANCE" -> WAvg(preds[1], preds[2], b.weight)
      [] b.type \in {"WEDGE", "DIFFWTD"} -> BlendCompoundMask(preds[1], preds[2], mask)
CompoundLuma(b) == LET of(preds) == CompoundFrom(b, preds, CompoundMask(b, preds)) IN of(InSignOrder(b))
\* c is the chroma block of the luma block b.
CompoundChroma(b, c) ==
    CompoundFrom(c, InSignOrder(c), SubsampleMask(CompoundMask(b, InSignOrder(b)), c.ss, c.sign))

(* Inter and intra prediction together.                                       *)
InterIntraWeights ==
    <<60, 52, 45, 39, 34, 30, 26, 22, 19, 17, 15, 13, 11, 10, 8, 7, 6, 6, 5, 4, 4, 3, 3, 2, 2, 2, 2, 1, 1, 1, 1, 1>>
InterIntraStep(maxDim) == CASE maxDim = 16 -> 2 [] maxDim <= 4 -> 8 [] maxDim \in 5 .. 8 -> 4 [] OTHER -> 1
InterIntraMask(w, h, mode) ==
    LET step == InterIntraStep(Greater(w, h))
        pos(x, y) == CASE mode = "V" -> y [] mode = "H" -> x [] mode = "SMOOTH" -> Lesser(x, y)
    IN Grid(w, h, LAMBDA x, y : IF mode = "DC" THEN 32 ELSE At(InterIntraWeights, Lesser(pos(x, y), 31 \div step) * step))
BlendMask(dst, intra, mask) ==
    Grid(Len(dst[1]), Len(dst), LAMBDA x, y :
        (At(At(dst, y), x) * (64 - At(At(mask, y), x)) + At(At(intra, y), x) * At(At(mask, y), x) + 32) \div 64)
\* b is the block for intra prediction, in a plane where dst is to be; wedge is negative if there is none.
InterIntraLuma(b, dst, wedge) ==
    BlendMask(dst, IntraPrediction(b), IF wedge >= 0 THEN WedgeMask(b.w, b.h, wedge) ELSE InterIntraMask(b.w, b.h, b.mode))
InterIntraChroma(b, dst, wedge, ss) ==
    BlendMask(dst, IntraPrediction(b),
              IF wedge >= 0 THEN SubsampleMask(WedgeMask(b.w * 2^ss[1], b.h * 2^ss[2], wedge), ss, FALSE)
              ELSE InterIntraMask(b.w, b.h, b.mode))

-----------------------------------------------------------------------------
(* Overlapped blocks: the vectors of the neighbours above and to the left     *)
(* lead to predictions that are blended into the near parts of the block.  A  *)
(* neighbour is what BlockState returns for a cell next to the block: whether *)
(* it predicts from a picture, its size in cells along the edge, and its      *)
(* plane, vector and filters.                                                 *)

ObmcMasks ==
    (2 :> <<19, 0>>) @@ (4 :> <<25, 14, 5, 0>>) @@ (8 :> <<28, 22, 16, 11, 7, 3, 0, 0>>)
    @@ (16 :> <<30, 27, 24, 21, 18, 15, 12, 10, 8, 6, 4, 3, 0, 0, 0, 0>>)
    @@ (32 :> <<31, 29, 28, 26, 24, 23, 21, 20, 19, 17, 16, 14, 13, 12, 11, 9, 8, 7, 6, 5, 4, 4, 3, 2, 0, 0, 0, 0, 0, 0, 0, 0>>)
RECURSIVE Neighbours(_, _, _, _)
\* The neighbours along an edge of size4 cells from cell x4 on, at most left of them.
Neighbours(edge, size4, x4, left) ==
    IF x4 >= size4 \/ left = 0 THEN <<>>
    ELSE LET blk == At(edge, x4 + 1) IN
         IF ~blk.inter THEN Neighbours(edge, size4, x4 + 2, left)
         ELSE LET step4 == Clip(blk.size4, 2, 16)
              IN <<[at |-> x4, size4 |-> Lesser(step4, size4), blk |-> blk]>> \o Neighbours(edge, size4, x4 + step4, left - 1)
Log2In4(size4) == CHOOSE k \in 0 .. 5 : 2^k = size4
NeighboursOf(edge, size4) == Neighbours(edge, size4, 0, Lesser(Log2In4(size4), 4))

Blend(d, p, mask) == (d * (64 - mask) + p * mask + 32) \div 64
BlendOBMCH(dst, pred, x0, fullH) ==
    Grid(Len(dst[1]), Len(dst), LAMBDA x, y :
        IF x \notin x0 .. (x0 + Len(pred[1])) - 1 \/ y >= (fullH * 3) \div 4 THEN At(At(dst, y), x)
        ELSE Blend(At(At(dst, y), x), At(At(pred, y), x - x0), At(ObmcMasks[fullH], y)))
BlendOBMCV(dst, pred, y0, fullW) ==
    Grid(Len(dst[1]), Len(dst), LAMBDA x, y :
        IF y \notin y0 .. (y0 + Len(pred)) - 1 \/ x >= (fullW * 3) \div 4 THEN At(At(dst, y), x)
        ELSE Blend(At(At(dst, y), x), At(At(pred, y - y0), x), At(ObmcMasks[fullW], x)))

\* The block that a neighbour's vector predicts: b's, moved by <<x, y>> luma samples, of luma size w by h.
OfNeighbour(b, n, x, y, w, h) ==
    [b EXCEPT !.plane = n.blk.plane, !.mv = n.blk.mv, !.filters = n.blk.filters,
              !.x = b.x + x \div 2^b.ss[1], !.y = b.y + y \div 2^b.ss[2], !.w = w \div 2^b.ss[1], !.h = h \div 2^b.ss[2]]
\* size4 is the luma block's size in cells.
OverlappedAbove(dst, b, size4, n) ==
    LET oh4 == Lesser(size4[2], 16) \div 2
        predH == ((oh4 * 3 + 3) \div 4) * 4
    IN BlendOBMCH(dst, MakeInterPrediction(OfNeighbour(b, n, 4 * n.at, 0, 4 * n.size4, predH)),
                  (4 * n.at) \div 2^b.ss[1], (4 * oh4) \div 2^b.ss[2])
OverlappedBeside(dst, b, size4, n) ==
    LET ow4 == Lesser(size4[1], 16) \div 2
    IN BlendOBMCV(dst, MakeInterPrediction(OfNeighbour(b, n, 0, 4 * n.at, 4 * ow4, 4 * n.size4)),
                  (4 * n.at) \div 2^b.ss[2], (4 * ow4) \div 2^b.ss[1])
\* applyOBMCLuma and applyOBMCChroma: above and left are empty at a tile's edge.
ApplyOBMC(dst, b, size4, above, left) ==
    LET high == size4[1] * (4 \div 2^b.ss[1]) + size4[2] * (4 \div 2^b.ss[2]) >= 16
        top == IF above # <<>> /\ high THEN NeighboursOf(above, size4[1]) ELSE <<>>
        beside == IF left # <<>> THEN NeighboursOf(left, size4[2]) ELSE <<>>
    IN FoldLeft(LAMBDA d, n : OverlappedBeside(d, b, size4, n),
                FoldLeft(LAMBDA d, n : OverlappedAbove(d, b, size4, n), dst, top), beside)

-----------------------------------------------------------------------------
(* Chroma of 4:2:0 and 4:2:2 blocks too small to have their own: the parts    *)
(* that lie over earlier blocks are predicted as those are.  around gives     *)
(* those blocks by their place, and b is the chroma block.                    *)

Part(b, blk, x, y, w, h) ==
    [b EXCEPT !.plane = blk.plane, !.mv = blk.mv, !.filters = blk.filters, !.x = b.x + x, !.y = b.y + y, !.w = w, !.h = h]
Sub8x8Parts(b, size4, around) ==
    LET narrow == size4[1] = 1
        low == size4[2] = b.ss[2]
        xOff == IF narrow THEN 2 ELSE 0
        yOff == IF low THEN 2 ELSE 0
        current == [plane |-> b.plane, mv |-> b.mv, filters |-> b.filters]
    IN (IF narrow /\ low THEN {Part(b, around.topLeft, 0, 0, 2, 2)} ELSE {})
       \cup (IF narrow THEN {Part(b, around.left, 0, yOff, 2, b.h - yOff)} ELSE {})
       \cup (IF low THEN {Part(b, around.top, xOff, 0, b.w - xOff, 2)} ELSE {})
       \cup {Part(b, current, xOff, yOff, b.w - xOff, b.h - yOff)}
\* applySub8x8ChromaState: unless one of them is not predicted from a picture.
InParts(b, size4, around) ==
    /\ b.ss[1] = 1 /\ (size4[1] = 1 \/ size4[2] = b.ss[2])
    /\ size4[1] = 1 /\ size4[2] = b.ss[2] => around.topLeft.inter
    /\ size4[1] = 1 => around.left.inter
    /\ size4[2] = b.ss[2] => around.top.inter
ChromaPrediction(b, size4, around) ==
    LET parts == IF InParts(b, size4, around) THEN Sub8x8Parts(b, size4, around) ELSE {b}
        pred == [p \in parts |-> CopyInterPredict(p, <<p.w, p.h>>)]
        over(x, y) == CHOOSE p \in parts : x \in p.x .. (p.x + p.w) - 1 /\ y \in p.y .. (p.y + p.h) - 1
    IN Grid(b.w, b.h, LAMBDA x, y : LET p == over(b.x + x, b.y + y) IN At(At(pred[p], b.y + y - p.y), b.x + x - p.x))

(* The encoder's compound prediction rounds both predictions to samples.      *)
EncoderCompoundPrediction(b) ==
    LET first == MakeInterPrediction(b)
        second == MakeInterPrediction([b EXCEPT !.plane = b.plane2, !.mv = b.mv2])
    IN Grid(b.w, b.h, LAMBDA x, y : (At(At(first, y), x) + At(At(second, y), x) + 1) \div 2)
=============================================================================
