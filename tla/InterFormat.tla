---------------------------- MODULE InterFormat -----------------------------
(* Inter prediction as the AV1 format defines it, for the blocks of           *)
(* InterPred: one process for every block, with all taps at every position,   *)
(* positions in 1024ths of a sample and samples clamped to the picture; masks *)
(* by their definition, and the parts of a block one by one.                  *)
EXTENDS InterPred, IntraFormat

LOCAL Lesser(a, b) == IF a < b THEN a ELSE b
LOCAL Greater(a, b) == IF a > b THEN a ELSE b
LOCAL Clip(v, lo, hi) == IF v < lo THEN lo ELSE IF v > hi THEN hi ELSE v
LOCAL Size(v) == IF v < 0 THEN -v ELSE v
LOCAL Places(w, h) == (0 .. w - 1) \X (0 .. h - 1)

(* Filters of 128 together: of one sample at a whole position, of two if      *)
(* bilinear, and past the middle the mirror image of those before it.         *)
FormatSubpel(mode, size, frac) ==
    CASE frac = 0 -> <<0, 0, 0, 128, 0, 0, 0, 0>>
      [] frac # 0 /\ mode = "BILINEAR" -> <<0, 0, 0, 128 - 8 * frac, 8 * frac, 0, 0, 0>>
      [] OTHER -> LET taps == McSubpelFilters[IF size > 4 THEN mode ELSE IF mode = "SMOOTH" THEN "SMOOTH_SMALL" ELSE "REGULAR_SMALL"]
                                             [IF frac > 8 THEN 16 - frac ELSE frac]
                  IN [k \in 1 .. 8 |-> 2 * (IF frac > 8 THEN taps[9 - k] ELSE taps[k])]

FormatStart(at, mv, ss, scale) ==
    FormatRoundSigned((16 * at + (2 * mv) \div 2^ss + 8) * scale - 8 * 2^14, 8) + 32
FormatStep(scale) == FormatRoundSigned(scale, 4)
FormatTapped(taps, sample(_)) == SumFunction([t \in 1 .. 8 |-> IF taps[t] = 0 THEN 0 ELSE taps[t] * sample(t)])
FormatAcrossAt(b, row, p) ==
    FormatRound(FormatTapped(FormatSubpel(b.filters[2], b.w, (p \div 64) % 16), LAMBDA t : row[Clip((p \div 1024 + t) - 4, 0, Len(row) - 1) + 1]), 3)
FormatDownAt(b, rows, c, p, bits) ==
    FormatRound(FormatTapped(FormatSubpel(b.filters[1], b.h, (p \div 64) % 16), LAMBDA t : rows[(p \div 1024 + t) - 4][c]), 11 - bits)
\* The rows that are needed, filtered across, from position start on.
FormatFilteredRows(b, start, step) ==
    [y \in start[2] \div 1024 - 3 .. (start[2] + (b.h - 1) * step[2]) \div 1024 + 4 |->
        [c \in 0 .. b.w - 1 |-> FormatAcrossAt(b, b.plane[Clip(y, 0, Len(b.plane) - 1) + 1], start[1] + c * step[1])]]
FormatDownRows(b, rows, startY, stepY, bits) == [p \in Places(b.w, b.h) |-> FormatDownAt(b, rows, p[1], startY + p[2] * stepY, bits)]
FormatFrom(b, start, step, bits) == FormatDownRows(b, FormatFilteredRows(b, start, step), start[2], step[2], bits)
\* The block, with bits more than samples have.
FormatInterBits(b, scales, bits) ==
    FormatFrom(b, [i \in 1 .. 2 |-> FormatStart(<<b.x, b.y>>[i], b.mv[i], b.ss[i], scales[i])], [i \in 1 .. 2 |-> FormatStep(scales[i])], bits)
Unscaled == <<2^14, 2^14>>
FormatPixels(pred) == [p \in DOMAIN pred |-> Pixel(pred[p])]
FormatInter(b, scales) == FormatPixels(FormatInterBits(b, scales, 0))

-----------------------------------------------------------------------------
(* The nearer picture has the larger weight; the farther the other one is,    *)
(* the larger.                                                                *)
FormatJointWeight(hints, bits) ==
    LET dist(i) == Lesser(31, Min({Size(hints[i] - hints[3] + o) : o \in {-(2^bits), 0, 2^bits}}))
        near == Lesser(dist(1), dist(2))
        far == Greater(dist(1), dist(2))
        larger == CASE 3 * near > 2 * far -> 9
                    [] 3 * near <= 2 * far /\ 5 * near > 2 * far -> 11
                    [] 5 * near <= 2 * far /\ 7 * near > 2 * far -> 12
                    [] OTHER -> 13
    IN IF dist(1) < dist(2) THEN larger ELSE 16 - larger

(* A wedge is cut from the first one, whose line has a slope of two, by       *)
(* turning and mirroring it, so that the first prediction has the side that   *)
(* the place's sign names.                                                    *)
Slope(y, x) ==
    LET shift == 15 - y \div 2
        from == IF y % 2 = 0 THEN <<1, 4, 11, 27, 46, 58, 62, 63>> ELSE <<1, 2, 6, 18, 37, 53, 60, 63>>
        i == x - (28 + (IF y % 2 = 0 THEN shift + 1 ELSE shift))
    IN IF i < 0 THEN 0 ELSE IF i > 7 THEN 64 ELSE from[i + 1]
Upright(x) == IF x < 28 THEN 0 ELSE IF x >= 36 THEN 64 ELSE <<0, 2, 7, 21, 43, 57, 62, 64>>[x - 27]
FormatMaster(direction, y, x) ==
    CASE direction = "63" -> Slope(y, x)
      [] direction = "27" -> Slope(x, y)
      [] direction = "117" -> Slope(y, 63 - x)
      [] direction = "153" -> Slope(63 - x, y)
      [] direction = "V" -> Upright(x)
      [] direction = "H" -> Upright(y)
FormatWedge(w, h, index) ==
    LET code == WedgeCodebook(w, h)[index + 1]
        value(x, y) == FormatMaster(code[1], 32 - (h * code[3]) \div 8 + y, 32 - (w * code[2]) \div 8 + x)
        total == SumFunction([x \in 0 .. w - 1 |-> value(x, 0)]) + SumFunction([y \in 1 .. h - 1 |-> value(0, y)])
        light == (total + (w + h - 1) \div 2) \div (w + h - 1) < 32
    IN [p \in Places(w, h) |-> IF light THEN 64 - value(p[1], p[2]) ELSE value(p[1], p[2])]

FormatDifference(preds) ==
    [p \in DOMAIN preds[1] |-> Clip(38 + FormatRound(Size(preds[1][p] - preds[2][p]), 4) \div 16, 0, 64)]
FormatTwo(b) == [i \in 1 .. 2 |-> FormatInterBits(IF i = 1 THEN b ELSE [b EXCEPT !.plane = b.plane2, !.mv = b.mv2], Unscaled, 4)]
FormatSigned(mask, sign) == [p \in DOMAIN mask |-> IF sign THEN 64 - mask[p] ELSE mask[p]]
FormatLumaMask(b) ==
    FormatSigned(IF b.type = "WEDGE" THEN FormatWedge(b.w, b.h, b.wedge) ELSE FormatDifference(FormatTwo(b)), b.sign)
FormatChromaMask(mask, w, h, ss) ==
    [p \in Places(w, h) |->
        LET sum == MapThenSumSet(LAMBDA o : mask[<<2^ss[1] * p[1] + o[1], 2^ss[2] * p[2] + o[2]>>], (0 .. ss[1]) \X (0 .. ss[2]))
        IN IF ss = <<0, 0>> THEN sum ELSE FormatRound(sum, ss[1] + ss[2])]
\* mask: for the block itself, 64 for the first prediction alone.
FormatTogether(b, mask, first, second) ==
    CASE b.type = "AVERAGE" -> FormatRound(first + second, 5)
      [] b.type = "DISTANCE" -> FormatRound(first * b.weight + second * (16 - b.weight), 8)
      [] OTHER -> FormatRound(mask * first + (64 - mask) * second, 10)
FormatCompound(b, mask) ==
    LET together(preds) == [p \in Places(b.w, b.h) |-> Pixel(FormatTogether(b, mask[p], preds[1][p], preds[2][p]))]
    IN together(FormatTwo(b))

FormatInterIntraMask(w, h, mode) ==
    LET weight(i) == InterIntraWeights[(i * 32) \div Greater(w, h) + 1]
    IN [p \in Places(w, h) |->
          CASE mode = "DC" -> 32 [] mode = "V" -> weight(p[2]) [] mode = "H" -> weight(p[1]) [] mode = "SMOOTH" -> weight(Lesser(p[1], p[2]))]
FormatInterIntra(inter, intra, mask) == [p \in DOMAIN mask |-> FormatRound(mask[p] * intra[p] + (64 - mask[p]) * inter[p], 6)]

-----------------------------------------------------------------------------
(* Overlapped blocks, by the share of 64 a sample keeps.                      *)
FormatObmcMask(n) ==
    CASE n = 2 -> <<45, 64>>
      [] n = 4 -> <<39, 50, 59, 64>>
      [] n = 8 -> <<36, 42, 48, 53, 57, 61, 64, 64>>
      [] n = 16 -> <<34, 37, 40, 43, 46, 49, 52, 54, 56, 58, 60, 61, 64, 64, 64, 64>>
      [] n = 32 -> <<33, 35, 36, 38, 40, 41, 43, 44, 45, 47, 48, 50, 51, 52, 53, 55, 56, 57, 58, 59, 60, 60, 61, 62,
                     64, 64, 64, 64, 64, 64, 64, 64>>
\* The cells along an edge at which a neighbour's prediction begins: of every pair the second cell is looked at.
RECURSIVE FormatCells(_, _, _, _)
FormatCells(edge, size4, x4, count) ==
    IF x4 >= size4 \/ count = (IF size4 >= 16 THEN 4 ELSE Log2In4(size4)) THEN <<>>
    ELSE LET blk == edge[x4 + 2]
             step == Clip(blk.size4, 2, 16)
         IN IF blk.inter THEN <<<<x4, Lesser(step, size4), blk>>>> \o FormatCells(edge, size4, x4 + step, count + 1)
            ELSE FormatCells(edge, size4, x4 + step, count)
FormatOverlap(pred, b, cell, vertical) ==
    LET x == IF vertical THEN 0 ELSE (4 * cell[1]) \div 2^b.ss[1]
        y == IF vertical THEN (4 * cell[1]) \div 2^b.ss[2] ELSE 0
        w == IF vertical THEN Lesser(b.w \div 2, 32 \div 2^b.ss[1]) ELSE (4 * cell[2]) \div 2^b.ss[1]
        h == IF vertical THEN (4 * cell[2]) \div 2^b.ss[2] ELSE Lesser(b.h \div 2, 32 \div 2^b.ss[2])
        over == FormatInter([b EXCEPT !.plane = cell[3].plane, !.mv = cell[3].mv, !.filters = cell[3].filters,
                                      !.x = b.x + x, !.y = b.y + y, !.w = w, !.h = h], Unscaled)
        mask == FormatObmcMask(IF vertical THEN w ELSE h)
        kept(p) == mask[(IF vertical THEN p[1] - x ELSE p[2] - y) + 1]
    IN [p \in DOMAIN pred |->
          IF <<p[1] - x, p[2] - y>> \notin DOMAIN over THEN pred[p]
          ELSE FormatRound(kept(p) * pred[p] + (64 - kept(p)) * over[<<p[1] - x, p[2] - y>>], 6)]
FormatOverlapped(pred, b, size4, above, left) ==
    LET atLeast8x8 == \/ b.w >= 8 /\ b.h >= 8
                      \/ Greater(b.w, b.h) >= 16
        top == IF above # <<>> /\ atLeast8x8 THEN FormatCells(above, size4[1], 0, 0) ELSE <<>>
        beside == IF left # <<>> THEN FormatCells(left, size4[2], 0, 0) ELSE <<>>
    IN FoldLeft(LAMBDA d, cell : FormatOverlap(d, b, cell, TRUE), FoldLeft(LAMBDA d, cell : FormatOverlap(d, b, cell, FALSE), pred, top), beside)

(* Chroma over several luma blocks: in steps of the luma block's size there,  *)
(* each as the block in that place, unless one of them is intra.              *)
FormatChroma(b, size4, around) ==
    LET w == (4 * size4[1]) \div 2^b.ss[1]
        h == (4 * size4[2]) \div 2^b.ss[2]
        here == [inter |-> TRUE, plane |-> b.plane, mv |-> b.mv, filters |-> b.filters]
        columns == b.w \div w
        rows == b.h \div h
        blk(c, r) == IF c = columns - 1 /\ r = rows - 1 THEN here
                     ELSE IF c = columns - 1 THEN around.top ELSE IF r = rows - 1 THEN around.left ELSE around.topLeft
        part(c, r) == [b EXCEPT !.plane = blk(c, r).plane, !.mv = blk(c, r).mv, !.filters = blk(c, r).filters,
                                !.x = b.x + c * w, !.y = b.y + r * h, !.w = w, !.h = h]
        parts == [p \in Places(columns, rows) |-> FormatInter(part(p[1], p[2]), Unscaled)]
    IN IF \E p \in Places(columns, rows) : ~blk(p[1], p[2]).inter THEN FormatInter(b, Unscaled)
       ELSE [p \in Places(b.w, b.h) |-> parts[<<p[1] \div w, p[2] \div h>>][<<p[1] % w, p[2] % h>>]]

SameSamples(rows, defined) ==
    /\ DOMAIN defined = Places(Len(rows[1]), Len(rows))
    /\ \A p \in DOMAIN defined : rows[p[2] + 1][p[1] + 1] = defined[p]
=============================================================================
