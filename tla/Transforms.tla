----------------------------- MODULE Transforms -----------------------------
(* Residual samples and their coefficients: the inverse transforms of the     *)
(* decoder and of the encoder's own reconstruction (internal/transform) for   *)
(* samples of eight bits, the way internal/tile/recon.go cuts them short, and *)
(* the integer forward transforms (internal/encoder/tx/fwdtx.go).  The        *)
(* butterflies are unrolled in the code for each size; here they are written  *)
(* once.  Rotations keep the code's rounding: its products by (c - 4096), by  *)
(* halves with 11 bits and by 181 with 8 give the same integers.  Vectors are *)
(* sequences whose element of index i is At(x, i).                            *)
EXTENDS Integers, Sequences, SequencesExt, FiniteSetsExt

LOCAL Lesser(a, b) == IF a < b THEN a ELSE b
At(x, i) == x[i + 1]
\* The concatenation makes TLC evaluate the elements once.
Vector(n, Elem(_)) == [i \in 1 .. n |-> Elem(i - 1)] \o <<>>

\* cos(k * pi / 128) in 12 bits, k in 0 .. 64.
Cos128 == <<4096, 4095, 4091, 4085, 4076, 4065, 4052, 4036, 4017, 3996, 3973, 3948, 3920, 3889, 3857,
            3822, 3784, 3745, 3703, 3659, 3612, 3564, 3513, 3461, 3406, 3349, 3290, 3229, 3166, 3102,
            3035, 2967, 2896, 2824, 2751, 2675, 2598, 2520, 2440, 2359, 2276, 2191, 2106, 2019, 1931,
            1842, 1751, 1660, 1567, 1474, 1380, 1285, 1189, 1092, 995, 897, 799, 700, 601, 501, 401,
            301, 201, 101, 0>>
C(a) == At(Cos128, a)
S(a) == At(Cos128, 64 - a)
Round12(v) == (v + 2048) \div 4096
Clip16(v) == IF v < -32768 THEN -32768 ELSE IF v > 32767 THEN 32767 ELSE v

\* k < n with the bits of an index below n in the other order, n up to 16.
Reversed(k, n) ==
    At(<<0, 8, 4, 12, 2, 10, 6, 14, 1, 9, 5, 13, 3, 11, 7, 15>>, k) \div (IF n = 0 THEN 16 ELSE 16 \div n)

-----------------------------------------------------------------------------
(* Inverse DCT.  The odd inputs give m values: a first rotation of pairs of   *)
(* inputs, then for blocks of b = 2, 4 .. m / 2 values sums and differences   *)
(* and rotations of what lies between two blocks.                             *)
FirstTurn(x, m, j, r, a) ==
    Round12(IF 2 * j < m THEN S(a) * At(x, 2 * r) - C(a) * At(x, m - 1 - 2 * r)
                         ELSE C(a) * At(x, 2 * r) + S(a) * At(x, m - 1 - 2 * r))
FirstTurns(x, m) ==
    LET r(j) == Reversed(Lesser(j, m - 1 - j), m \div 2)
    IN Vector(m, LAMBDA j : FirstTurn(x, m, j, r(j), (32 * (1 + 4 * r(j))) \div m))

\* Even blocks keep sums in their first half, odd ones in their second.
Crossed(own, mirrored, keepsSum, first) ==
    Clip16(IF keepsSum THEN own + mirrored ELSE mirrored - own)
Sums(t, m, b) ==
    Vector(m, LAMBDA j : Crossed(At(t, j), At(t, (j - (j % b)) + b - 1 - (j % b)),
                                 ((j \div b) % 2 = 0) <=> (2 * (j % b) < b), 2 * (j % b) < b))

\* As a bug would have it: the rotation is the same on both sides of a block.
MutInnerTurn(t, m, b, j, lo, a) ==
    Round12(IF j = lo THEN S(a) * At(t, m - 1 - lo) - C(a) * At(t, lo) ELSE C(a) * At(t, m - 1 - lo) + S(a) * At(t, lo))
InnerTurn(t, m, b, j, lo, a) ==
    LET x == At(t, lo)
        y == At(t, m - 1 - lo)
    IN IF 2 * (lo % b) >= b
       THEN Round12(IF j = lo THEN S(a) * y - C(a) * x ELSE C(a) * y + S(a) * x)
       ELSE Round12(IF j = lo THEN -(C(a) * y + S(a) * x) ELSE S(a) * y - C(a) * x)
InnerTurns(t, m, b) ==
    LET lo(j) == Lesser(j, m - 1 - j)
        g(j) == (lo(j) + b \div 2) \div b
    IN Vector(m, LAMBDA j : IF g(j) % 2 = 0 THEN At(t, j)
                            ELSE InnerTurn(t, m, b, j, lo(j), (64 * b * (1 + 4 * Reversed(g(j) \div 2, m \div (4 * b)))) \div m))
Stage(t, m, b) == IF b < m THEN InnerTurns(Sums(t, m, b), m, b) ELSE t
OddHalf(x, m) == Stage(Stage(Stage(Stage(FirstTurns(x, m), m, 2), m, 4), m, 8), m, 16)

Evens(x, m) == Vector(m, LAMBDA i : At(x, 2 * i))
Odds(x, m) == Vector(m, LAMBDA i : At(x, 2 * i + 1))
\* 2m outputs from m of the even and m of the odd inputs.
Joined(even, odd, m) ==
    Vector(2 * m, LAMBDA i : Clip16(IF i < m THEN At(even, i) + At(odd, m - 1 - i)
                                             ELSE At(even, 2 * m - 1 - i) - At(odd, i - m)))
HalfTurn(x) == <<Round12(2896 * (At(x, 0) + At(x, 1))), Round12(2896 * (At(x, 0) - At(x, 1)))>>
InvDCT4(x) == Joined(HalfTurn(Evens(x, 2)), OddHalf(Odds(x, 2), 2), 2)
InvDCT8(x) == Joined(InvDCT4(Evens(x, 4)), OddHalf(Odds(x, 4), 4), 4)
InvDCT16(x) == Joined(InvDCT8(Evens(x, 8)), OddHalf(Odds(x, 8), 8), 8)
InvDCT32(x) == Joined(InvDCT16(Evens(x, 16)), OddHalf(Odds(x, 16), 16), 16)
\* Inputs from 32 on are not looked at.
FirstHalf(x) == Vector(64, LAMBDA i : IF i < 32 THEN At(x, i) ELSE 0)
InvDCT64(x) == Joined(InvDCT32(Evens(FirstHalf(x), 32)), OddHalf(Odds(FirstHalf(x), 32), 32), 32)

-----------------------------------------------------------------------------
(* Inverse ADST.                                                              *)
InvADST4(x) ==
    LET a == At(x, 0)  b == At(x, 1)  c == At(x, 2)  d == At(x, 3)
    IN <<Round12(1321 * a + 3803 * c + 2482 * d + 3344 * b), Round12(2482 * a - 1321 * c - 3803 * d + 3344 * b),
         Round12(3344 * (a - c + d)), Round12(3803 * a + 2482 * c - 1321 * d - 3344 * b)>>

AdstTurn(x, y, even, a) == Round12(IF even THEN C(a) * x + S(a) * y ELSE S(a) * x - C(a) * y)
AdstFirst(x, n) ==
    Vector(n, LAMBDA i : AdstTurn(At(x, n - 1 - (i - (i % 2))), At(x, i - (i % 2)), i % 2 = 0,
                                  (32 * (2 * (i - (i % 2)) + 1)) \div n))
AdstSums(t, n, h) ==
    Vector(n, LAMBDA i : Clip16(IF i % (2 * h) < h THEN At(t, i) + At(t, i + h) ELSE At(t, i - h) - At(t, i)))
\* The second half of every 2h values is rotated in pairs; the later pairs
\* with their members swapped.
AdstTurns(t, n, h) ==
    Vector(n, LAMBDA i :
        LET p == ((i % (2 * h)) - h) \div 2
            x == At(t, i - (i % 2))
            y == At(t, (i - (i % 2)) + 1)
            quarter == IF h = 2 THEN 1 ELSE h \div 4
        IN IF i % (2 * h) < h THEN At(t, i)
           ELSE IF p < quarter THEN AdstTurn(x, y, i % 2 = 0, (64 * (1 + 4 * p)) \div h)
           ELSE AdstTurn(y, -x, i % 2 = 0, (64 * (1 + 4 * (p - quarter))) \div h))
AdstStage(t, n, h) == AdstTurns(AdstSums(t, n, h), n, h)
AdstOut(t, order) ==
    Vector(Len(order), LAMBDA i : IF i % 2 = 0 THEN At(t, At(order, i)) ELSE -At(t, At(order, i)))
InvADST8(x) ==
    AdstOut(AdstStage(AdstStage(AdstFirst(x, 8), 8, 4), 8, 2), <<0, 4, 6, 2, 3, 7, 5, 1>>)
InvADST16(x) ==
    AdstOut(AdstStage(AdstStage(AdstStage(AdstFirst(x, 16), 16, 8), 16, 4), 16, 2),
            <<0, 8, 12, 4, 6, 14, 10, 2, 3, 11, 15, 7, 5, 13, 9, 1>>)

-----------------------------------------------------------------------------
(* The other kernels and their choice.                                        *)
InvIdentity(x, n) ==
    Vector(n, LAMBDA i : CASE n = 4 -> At(x, i) + Round12(1697 * At(x, i))
                           [] n = 8 -> 2 * At(x, i)
                           [] n = 16 -> 2 * At(x, i) + Round12(3394 * At(x, i))
                           [] n = 32 -> 4 * At(x, i))
InvDCT(x, n) ==
    CASE n = 4 -> InvDCT4(x) [] n = 8 -> InvDCT8(x) [] n = 16 -> InvDCT16(x)
      [] n = 32 -> InvDCT32(x) [] n = 64 -> InvDCT64(x)
InvADST(x, n) == CASE n = 4 -> InvADST4(x) [] n = 8 -> InvADST8(x) [] n = 16 -> InvADST16(x)
Backwards(x) == Vector(Len(x), LAMBDA i : At(x, Len(x) - 1 - i))
\* A kernel the table has not is replaced by the DCT.
Kernel(type, x, n) ==
    CASE type = "IDENTITY" /\ n <= 32 -> InvIdentity(x, n)
      [] type = "ADST" /\ n <= 16 -> InvADST(x, n)
      [] type = "FLIPADST" /\ n <= 16 -> Backwards(InvADST(x, n))
      [] OTHER -> InvDCT(x, n)

-----------------------------------------------------------------------------
(* Two dimensions.  A block b has                                             *)
(*   w, h      its size in samples                                            *)
(*   types     the kernels of its columns and of its rows                     *)
(*   coeff     its dequantized coefficients, those that are not zero, at      *)
(*             x * Lesser(h, 32) + y                                          *)
(*   eob       the place of the last one in the scan                          *)
(*   pred      the predicted samples, row after row                           *)
Rectangular(b) == 2 * b.w = b.h \/ 2 * b.h = b.w
MidShift(b) ==
    CASE b.w * b.h <= 32 -> 0
      [] b.w * b.h <= 128 \/ b.w * b.h \in {512, 2048} -> 1
      [] OTHER -> 2
Coefficient(b, i) == IF i \in DOMAIN b.coeff THEN b.coeff[i] ELSE 0
Rescaled(b, v) == IF Rectangular(b) THEN Round12(2896 * v) ELSE v
Rounded(b, v) == (v + 2^MidShift(b) \div 2) \div 2^MidShift(b)

Pixel(v) == IF v < 0 THEN 0 ELSE IF v > 255 THEN 255 ELSE v

\* Only the first coefficient counts: every sample moves by the same amount.
AddedDC(b) ==
    LET dc == (181 * Rounded(b, Round12(2896 * Rescaled(b, Coefficient(b, 0)))) + 128 + 2048) \div 4096
    IN Vector(b.w * b.h, LAMBDA i : Pixel(At(b.pred, i) + dc))

InputRow(b, y) ==
    Vector(b.w, LAMBDA x : IF x < 32 THEN Rescaled(b, Coefficient(b, y + x * Lesser(b.h, 32))) ELSE 0)
RowPass(b, lastRow) ==
    Vector(b.h, LAMBDA y : IF y <= lastRow THEN Kernel(b.types[2], InputRow(b, y), b.w) ELSE Vector(b.w, LAMBDA x : 0))
ColumnPass(b, rows) ==
    Vector(b.w, LAMBDA x : Kernel(b.types[1], Vector(b.h, LAMBDA y : Clip16(Rounded(b, At(At(rows, y), x)))), b.h))
Added(b, columns) ==
    Vector(b.w * b.h, LAMBDA i : Pixel(At(b.pred, i) + (At(At(columns, i % b.w), i \div b.w) + 8) \div 16))
\* The first lastRow + 1 rows of coefficients are transformed, the rest are
\* taken for zero.
InvTxfmAdd(b, eob, lastRow) ==
    IF eob < 1 /\ b.types = <<"DCT", "DCT">> THEN AddedDC(b)
    ELSE Added(b, ColumnPass(b, RowPass(b, Lesser(lastRow, Lesser(b.h, 32) - 1))))

(* The places of the coefficients in the order they are coded: diagonals,     *)
(* alternately up and down when the block is square; row by row or column by  *)
(* column when one of the kernels is the identity.                            *)
RectDiagonal(w, h, d) ==
    LET first == IF d < h THEN 0 ELSE d - (h - 1)
        last == Lesser(d, w - 1)
        rising == IF w = h THEN d % 2 = 0 ELSE w > h
        x(k) == IF rising THEN first + k ELSE last - k
    IN [k \in 1 .. (last - first) + 1 |-> x(k - 1) * h + (d - x(k - 1))]
ScanSizes == {s \in {4, 8, 16, 32} \X {4, 8, 16, 32} : s[1] <= 4 * s[2] /\ s[2] <= 4 * s[1]}
Scans == [s \in ScanSizes |-> FlattenSeq([d \in 1 .. s[1] + s[2] - 1 |-> RectDiagonal(s[1], s[2], d - 1)])]
ScanOf(b) == Scans[<<Lesser(b.w, 32), Lesser(b.h, 32)>>]

OnlyRows(b) == b.types[1] = "IDENTITY" /\ b.types[2] # "IDENTITY"
OnlyColumns(b) == b.types[2] = "IDENTITY" /\ b.types[1] # "IDENTITY"
CoeffIndex(b, pos) ==
    CASE OnlyRows(b) -> pos
      [] OnlyColumns(b) -> (pos % b.w) * b.h + pos \div b.w
      [] OTHER -> ScanOf(b)[pos + 1]

\* As a bug would have it: the row of the last place, not the furthest one.
MutLastNonzeroColFromEOB(scan, rows, eob) == scan[eob + 1] % rows
(* The last row that has a coefficient, as far as the place of the last       *)
(* coefficient tells: the furthest row the scan has been to by then.          *)
LastNonzeroColFromEOB(scan, rows, eob) == Max({scan[k] % rows : k \in 1 .. eob + 1})
LastNonzeroCol(b) ==
    CASE OnlyRows(b) -> Lesser(b.eob, Lesser(b.h, 32) - 1)
      [] OnlyColumns(b) -> b.eob \div b.w
      [] OTHER -> LastNonzeroColFromEOB(ScanOf(b), Lesser(b.h, 32), b.eob)

\* What the decoder makes of a block, and what the encoder does.
ReconBlock(b) == InvTxfmAdd(b, b.eob, LastNonzeroCol(b))
ReconstructDCTPixels(b) == InvTxfmAdd(b, b.w * b.h - 1, b.h - 1)

-----------------------------------------------------------------------------
(* Forward DCT of 4x4 and 8x8 residuals, the cosines in 13 bits.              *)
HalfBTF(a, x, b, y) == (a * x + b * y + 4096) \div 8192
Cos8 == 8035
Cos16 == 7568
Cos24 == 6811
Cos32 == 5793
Cos40 == 4551
Cos48 == 3135
Cos56 == 1598

\* Sums and differences of a vector's ends.
Folded(x) ==
    LET n == Len(x)
    IN Vector(n, LAMBDA i : IF 2 * i < n THEN At(x, i) + At(x, n - 1 - i) ELSE At(x, n - 1 - i) - At(x, i))
FoldedDCT4(s) ==
    <<HalfBTF(Cos32, At(s, 0), Cos32, At(s, 1)), HalfBTF(Cos48, At(s, 2), Cos16, At(s, 3)),
      HalfBTF(-Cos32, At(s, 1), Cos32, At(s, 0)), HalfBTF(Cos48, At(s, 3), -Cos16, At(s, 2))>>
FDCT4(x) == FoldedDCT4(Folded(x))

TurnedOdd(s) ==
    <<At(s, 4), HalfBTF(-Cos32, At(s, 5), Cos32, At(s, 6)), HalfBTF(Cos32, At(s, 6), Cos32, At(s, 5)), At(s, 7)>>
CrossedOdd(t) == <<At(t, 0) + At(t, 1), At(t, 0) - At(t, 1), At(t, 3) - At(t, 2), At(t, 3) + At(t, 2)>>
MergedDCT8(even, odd) ==
    <<At(even, 0), HalfBTF(Cos56, At(odd, 0), Cos8, At(odd, 3)), At(even, 1), HalfBTF(Cos24, At(odd, 2), -Cos40, At(odd, 1)),
      At(even, 2), HalfBTF(Cos24, At(odd, 1), Cos40, At(odd, 2)), At(even, 3), HalfBTF(Cos56, At(odd, 3), -Cos8, At(odd, 0))>>
FoldedDCT8(s) == MergedDCT8(FDCT4(SubSeq(s, 1, 4)), CrossedOdd(TurnedOdd(s)))
FDCT8(x) == FoldedDCT8(Folded(x))

FDCT(x) == IF Len(x) = 4 THEN FDCT4(x) ELSE FDCT8(x)
(* The coefficient of row v and column u, from the columns' transforms.       *)
ForwardColumns(src, n) ==
    Vector(n, LAMBDA x : FDCT(Vector(n, LAMBDA y : 4 * At(src, y * n + x))))
ForwardRows(columns, n) ==
    Vector(n, LAMBDA v : FDCT(Vector(n, LAMBDA x : IF n = 8 THEN (At(At(columns, x), v) + 1) \div 2 ELSE At(At(columns, x), v))))
FwdDCT(src, n) == ForwardRows(ForwardColumns(src, n), n)
=============================================================================
