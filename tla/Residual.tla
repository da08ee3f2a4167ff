------------------------------ MODULE Residual -------------------------------
(* The coefficients of a square transform block: the symbols the encoder      *)
(* writes for them (internal/encoder/entropy/full.go, dc.go) and what the     *)
(* decoder makes of these symbols (internal/tile/decoder.go).  A symbol is    *)
(* <<cdf, value>>; cdf names the adaptive table used, with its indices.  What *)
(* the range coder does with them is in RangeCoder.  The transform is always  *)
(* DCT_DCT, the only one the encoder computes; the contexts taken from the    *)
(* neighbouring blocks are part of the block b:                               *)
(*   lw            log2 of the width in units of four samples (0 .. 3)        *)
(*   plane, intra, mode, skipCtx, signCtx                                     *)
(*   coeff         the coefficients that are not zero, at x * size + y        *)
(*   dc, ac        the quantizer's steps                                      *)
EXTENDS Integers, Sequences, SequencesExt, FiniteSetsExt, Functions, TLC

LOCAL Lesser(a, b) == IF a < b THEN a ELSE b
LOCAL Greater(a, b) == IF a > b THEN a ELSE b
LOCAL Magnitude(v) == IF v < 0 THEN -v ELSE v
LOCAL Bit(c) == IF c THEN 1 ELSE 0

Size(b) == 4 * 2^b.lw
Chroma(b) == Bit(b.plane > 0)
CoeffAt(b, i) == IF i \in DOMAIN b.coeff THEN b.coeff[i] ELSE 0

\* One diagonal of the scan, even ones to the right and odd ones to the left.
Diagonal(n, d) ==
    LET first == Greater(0, d - (n - 1))
        last == Lesser(d, n - 1)
        x(k) == IF d % 2 = 0 THEN first + (k - 1) ELSE last - (k - 1)
    IN [k \in 1 .. (last - first) + 1 |-> x(k) * n + (d - x(k))]

\* The order of the coefficients, for each log2 of the size.
Scan == [lw \in 0 .. 3 |-> FlattenSeq([k \in 1 .. 8 * 2^lw - 1 |-> Diagonal(4 * 2^lw, k - 1)])]
ScanAt(b, pos) == Scan[b.lw][pos + 1]

LoCtxOffset == << <<0, 1, 6, 6, 21>>, <<1, 6, 6, 21, 21>>, <<6, 6, 21, 21, 21>>,
                  <<6, 21, 21, 21, 21>>, <<21, 21, 21, 21, 21>> >>

\* No level is known yet; two rows of padding.
NoLevels(b) == [i \in 0 .. Size(b) * (Size(b) + 2) - 1 |-> 0]
\* A token as it is kept for the contexts of the ones that follow.
LevelByte(tok) == IF tok >= 3 THEN (Lesser(tok, 15) + 192) % 256 ELSE tok * 65

-----------------------------------------------------------------------------
(* What the encoder writes.                                                   *)

\* High tokens: four symbols at most, each 3 but the last.
HiSymbols(cdf, mag) ==
    [k \in 1 .. Lesser(4, (mag - 3) \div 3 + 1) |-> <<cdf, Lesser(3, mag - 3 * k)>>]

BitLength(v) == IF v = 0 THEN 0 ELSE CHOOSE k \in 1 .. 31 : 2^(k - 1) <= v /\ v \div 2 < 2^(k - 1)
EquiBits(v, n) == [i \in 1 .. n |-> << <<"Equi">>, (v \div 2^(n - i)) % 2>>]

\* The part of a magnitude above fifteen.
GolombSymbols(mag) ==
    IF mag < 15 THEN <<>>
    ELSE LET n == BitLength(mag - 14) IN EquiBits(0, n - 1) \o EquiBits(mag - 14, n)

TypeSymbols(b, signalled) ==
    IF b.plane > 0 \/ ~signalled THEN <<>>
    ELSE IF b.intra THEN << << <<"TxTypeIntra2", b.lw, b.mode>>, 1>> >>
    ELSE << << <<"TxTypeInter3", Lesser(3, b.lw)>>, 1>> >>


EobSymbols(b, eob) ==
    LET bin == BitLength(eob)
        extra == bin - 2
    IN << << <<"EobBin", Lesser(6, 2 * Lesser(3, b.lw)), Chroma(b)>>, bin>> >>
       \o (IF bin <= 1 THEN <<>>
           ELSE << << <<"EobHiBit", b.lw, Chroma(b), extra>>, (eob \div 2^extra) % 2>> >>
                \o EquiBits(eob % 2^extra, extra))

Br(b, ctx) == <<"BrTok", b.lw, Chroma(b), ctx>>
BaseTok(b, ctx) == <<"BaseTok", b.lw, Chroma(b), ctx>>
EobBaseTok(b, ctx) == <<"EobBaseTok", b.lw, Chroma(b), ctx>>
DcSign(b) == <<"DCSign", Chroma(b), b.signCtx>>

\* High token context away from the corner; near it is 7.
Outer(b, i) == IF i \div Size(b) > 1 \/ i % Size(b) > 1 THEN 14 ELSE 7
NearSum(b, levels, i) == levels[i + 1] + levels[i + Size(b)] + levels[i + Size(b) + 1]
WideSum(b, levels, i) == NearSum(b, levels, i) + levels[i + 2] + levels[i + 2 * Size(b)]
HiStep(sum) == IF sum % 64 > 12 THEN 6 ELSE ((sum % 64) + 1) \div 2
CornerOffset(b, i) == LoCtxOffset[Lesser(4, i % Size(b)) + 1][Lesser(4, i \div Size(b)) + 1]

\* As a bug would have it: large sums share no context.
MutEncoderLoCtx(b, levels, i) == CornerOffset(b, i) + (WideSum(b, levels, i) + 64) \div 128
EncoderLoCtx(b, levels, i) ==
    LET sum == WideSum(b, levels, i)
    IN CornerOffset(b, i) + (IF sum <= 512 THEN (sum + 64) \div 128 ELSE 4)

RECURSIVE PutTokens(_, _, _, _)
\* The tokens from scan position pos down to 1: <<symbols, levels>>.
PutTokens(b, pos, levels, out) ==
    IF pos = 0 THEN <<out, levels>>
    ELSE LET i == ScanAt(b, pos)
             mag == Magnitude(CoeffAt(b, i))
             lo == << <<BaseTok(b, EncoderLoCtx(b, levels, i)), Lesser(3, mag)>> >>
             hi == IF mag < 3 THEN <<>>
                   ELSE HiSymbols(Br(b, Outer(b, i) + HiStep(NearSum(b, levels, i))), mag)
             next == [levels EXCEPT ![i] = LevelByte(mag)]
             sum == out \o lo \o hi
         IN IF Len(sum) < 0 \/ next[0] < 0 THEN <<out, levels>> ELSE PutTokens(b, pos - 1, next, sum)

EobTokens(b, eob) ==
    LET i == ScanAt(b, eob)
        mag == Magnitude(CoeffAt(b, i))
        ctx == 1 + Bit(eob > 2 * 4^b.lw) + Bit(eob > 4 * 4^b.lw)
    IN << <<EobBaseTok(b, ctx), Lesser(2, mag - 1)>> >>
       \o (IF mag < 3 THEN <<>> ELSE HiSymbols(Br(b, Outer(b, i)), mag))

DcTokens(b, levels) ==
    LET mag == Magnitude(CoeffAt(b, 0))
    IN << <<BaseTok(b, 0), Lesser(3, mag)>> >>
       \o (IF mag < 3 THEN <<>> ELSE HiSymbols(Br(b, HiStep(NearSum(b, levels, 0))), mag))

\* The sign of a coefficient and, right after it, the rest of its magnitude.
SignSymbols(cdf, v) ==
    IF v = 0 THEN <<>> ELSE << <<cdf, Bit(v < 0)>> >> \o GolombSymbols(Magnitude(v))

CoefContext(cul, dc) == Lesser(63, cul) + (IF dc > 0 THEN 128 ELSE IF dc = 0 THEN 64 ELSE 0)

\* A block that has at most its first coefficient.
EncodeDCOnly(b) ==
    LET level == CoeffAt(b, 0)
        mag == Magnitude(level)
    IN IF level = 0 THEN [out |-> << << <<"CoefSkip", b.lw, b.skipCtx>>, 1>> >>, ctx |-> 64]
       ELSE [out |-> << << <<"CoefSkip", b.lw, b.skipCtx>>, 0>> >>
                     \o TypeSymbols(b, b.lw + Bit(b.intra) < 4)
                     \o EobSymbols(b, 0)
                     \o << <<EobBaseTok(b, 0), Lesser(2, mag - 1)>> >>
                     \o (IF mag < 3 THEN <<>> ELSE HiSymbols(Br(b, 0), mag))
                     \o SignSymbols(DcSign(b), level),
             ctx |-> CoefContext(mag, level)]

\* The first coefficient's token comes last, then signs in scan order.
AfterTokens(b, eob, before, tokens) ==
    [out |-> before \o tokens[1] \o DcTokens(b, tokens[2])
             \o SignSymbols(DcSign(b), CoeffAt(b, 0))
             \o FlattenSeq([pos \in 1 .. eob |-> SignSymbols(<<"Equi">>, CoeffAt(b, ScanAt(b, pos)))]),
     ctx |-> CoefContext(MapThenSumSet(LAMBDA i : Magnitude(b.coeff[i]), DOMAIN b.coeff), CoeffAt(b, 0))]
FirstLevels(b, last, mag) == [NoLevels(b) EXCEPT ![last] = LevelByte(mag)]
EncodeUpTo(b, eob) ==
    AfterTokens(b, eob,
        << << <<"CoefSkip", b.lw, b.skipCtx>>, 0>> >> \o TypeSymbols(b, TRUE) \o EobSymbols(b, eob) \o EobTokens(b, eob),
        PutTokens(b, eob - 1, FirstLevels(b, ScanAt(b, eob), Magnitude(CoeffAt(b, ScanAt(b, eob)))), <<>>))

LastPosition(b) == Max({0} \cup {pos \in 0 .. Size(b)^2 - 1 : CoeffAt(b, ScanAt(b, pos)) # 0})
\* Tokens go from the last coefficient down to the first, signs the other way.
EncodeDCTSquare(b) == IF LastPosition(b) = 0 THEN EncodeDCOnly(b) ELSE EncodeUpTo(b, LastPosition(b))

\* What the encoder takes for the decoded coefficients.
Step(b, i) == IF i = 0 THEN b.dc ELSE b.ac
DequantizeTx(b) ==
    [i \in {j \in DOMAIN b.coeff : b.coeff[j] # 0} |->
        LET v == (Magnitude(b.coeff[i]) * Step(b, i)) \div 2^Greater(0, b.lw - 2)
        IN IF b.coeff[i] < 0 THEN -v ELSE v]

-----------------------------------------------------------------------------
(* What the decoder reads.  d.in are the symbols to come; asking for another  *)
(* table than the one a symbol was written with sets d.bad and reads zeros    *)
(* from then on.                                                              *)

Agrees(d, cdf) == ~d.bad /\ d.in # <<>> /\ d.in[1][1] = cdf
Asked(d, cdf) == IF Agrees(d, cdf) THEN [d EXCEPT !.in = Tail(d.in)] ELSE [d EXCEPT !.bad = TRUE]
Answer(d, cdf) == IF Agrees(d, cdf) THEN d.in[1][2] ELSE 0

RECURSIVE ReadHiTok(_, _, _)
\* <<token, rest>>: at most four symbols.
ReadHiTok(d, cdf, base) ==
    LET v == Answer(d, cdf)
        rest == Asked(d, cdf)
    IN IF v = 3 /\ base < 12 THEN ReadHiTok(rest, cdf, base + 3) ELSE <<base + v, rest>>

RECURSIVE ReadEqui(_, _, _)
ReadEqui(d, n, v) ==
    IF n = 0 THEN <<v, d>> ELSE ReadEqui(Asked(d, <<"Equi">>), n - 1, 2 * v + Answer(d, <<"Equi">>))

Less(r, n) == <<r[1] - n, r[2]>>
RECURSIVE ReadGolomb(_, _)
ReadGolomb(d, length) ==
    IF length = 32 \/ d.bad THEN <<0, [d EXCEPT !.bad = TRUE]>>
    ELSE IF Answer(d, <<"Equi">>) = 0 THEN ReadGolomb(Asked(d, <<"Equi">>), length + 1)
    ELSE Less(ReadEqui(Asked(d, <<"Equi">>), length, 1), 1)
Wrapped(r) == <<(r[1] + 15) % 2^20, r[2]>>
ResidualMag(d, tok) == IF tok < 15 THEN <<tok, d>> ELSE Wrapped(ReadGolomb(d, 0))

ReducedIntraSet == <<"IDTX", "DCT_DCT", "ADST_ADST", "ADST_DCT", "DCT_ADST">>
\* <<type, rest>> for a frame with the reduced set of transform types.
TransformType(d, b) ==
    LET cdf == IF b.intra THEN <<"TxTypeIntra2", Lesser(2, b.lw), b.mode>>
                          ELSE <<"TxTypeInter3", Lesser(3, b.lw)>>
    IN IF b.lw + Bit(b.intra) >= 4 \/ b.plane > 0 THEN <<"DCT_DCT", d>>
       ELSE <<IF b.intra THEN ReducedIntraSet[Answer(d, cdf) + 1]
              ELSE IF Answer(d, cdf) # 0 THEN "DCT_DCT" ELSE "IDTX", Asked(d, cdf)>>

EobFrom(b, hi, extra, low) == <<Lesser((hi + 2) * 2^extra + low[1], Size(b)^2 - 1), low[2]>>
EobOfBin(b, v, extra, rest) ==
    LET hiBit == <<"EobHiBit", b.lw, Chroma(b), extra>>
    IN IF v > 1 THEN EobFrom(b, Answer(rest, hiBit), extra, ReadEqui(Asked(rest, hiBit), extra, 0)) ELSE <<v, rest>>
DecodeEob(d, b) ==
    LET bin == <<"EobBin", 2 * Lesser(3, b.lw), Chroma(b)>>
    IN EobOfBin(b, Answer(d, bin), Lesser(Answer(d, bin) - 2, 8), Asked(d, bin))

DecoderLoCtx(b, levels, i) == CornerOffset(b, i) + Lesser(4, (WideSum(b, levels, i) + 64) \div 128)

\* A base token, and the high token when it is at its limit: <<token, rest>>.
Token(d, lo, limit, hi) ==
    LET v == Answer(d, lo) IN IF v = limit THEN ReadHiTok(Asked(d, lo), hi, 3) ELSE <<v, Asked(d, lo)>>

RECURSIVE DecodeTokens(_, _, _, _, _)
\* A token t read for place i; chain: those that are not zero, with their
\* places, the last one read first.
WithToken(b, pos, levels, chain, i, t) ==
    IF t[2].bad \/ levels[0] < 0 \/ Len(chain) < 0 THEN [d |-> [t[2] EXCEPT !.bad = TRUE], levels |-> levels, chain |-> chain]
    ELSE DecodeTokens(t[2], b, pos - 1, [levels EXCEPT ![i] = LevelByte(t[1])],
                      IF t[1] = 0 THEN chain ELSE << <<i, t[1]>> >> \o chain)
\* The tokens from scan position pos down to 1.
DecodeTokens(d, b, pos, levels, chain) ==
    IF pos = 0 THEN [d |-> d, levels |-> levels, chain |-> chain]
    ELSE LET i == ScanAt(b, pos)
         IN WithToken(b, pos, levels, chain, i,
                      Token(d, BaseTok(b, DecoderLoCtx(b, levels, i)), 3,
                            Br(b, Outer(b, i) + HiStep(NearSum(b, levels, i)))))

Dequantized(b, i, mag, negative) ==
    LET v == ((mag * Step(b, i)) % 2^24) \div 2^Greater(0, b.lw - 2)
        clipped == Lesser(v, 32767 + Bit(negative))
    IN IF negative THEN -clipped ELSE clipped

RECURSIVE DecodeSigns(_, _, _, _, _)
WithSign(b, chain, coeff, ctx, i, negative, mag) ==
    IF mag[2].bad \/ ctx[1] < 0 \/ DOMAIN coeff = {-1} THEN [d |-> [mag[2] EXCEPT !.bad = TRUE], coeff |-> coeff, ctx |-> 0]
    ELSE DecodeSigns(mag[2], b, Tail(chain), coeff @@ (i :> Dequantized(b, i, mag[1], negative)),
                     <<ctx[1] + mag[1], IF i # 0 THEN ctx[2] ELSE IF negative THEN 0 ELSE 128>>)
(* The signs and the rest of the magnitudes, along the chain.  ctx: the sum   *)
(* of the magnitudes and what the first coefficient's sign adds to it.        *)
DecodeSigns(d, b, chain, coeff, ctx) ==
    IF chain = <<>> THEN [d |-> d, coeff |-> coeff, ctx |-> Lesser(63, ctx[1]) + ctx[2]]
    ELSE LET i == chain[1][1]
             cdf == IF i = 0 THEN DcSign(b) ELSE <<"Equi">>
         IN WithSign(b, chain, coeff, ctx, i, Answer(d, cdf) = 1, ResidualMag(Asked(d, cdf), chain[1][2]))

Decoded(type, r) == [d |-> r.d, coeff |-> r.coeff, type |-> type, ctx |-> r.ctx]
WithDc(b, ac, dc) ==
    DecodeSigns(dc[2], b, (IF dc[1] = 0 THEN <<>> ELSE << <<0, dc[1]>> >>) \o ac.chain, <<>>, <<0, 64>>)
WithAc(b, ac) == WithDc(b, ac, Token(ac.d, BaseTok(b, 0), 3, Br(b, HiStep(NearSum(b, ac.levels, 0)))))
WithLast(b, eob, last, tok, d) ==
    IF eob = 0 THEN DecodeSigns(d, b, << <<0, tok>> >>, <<>>, <<0, 64>>)
    ELSE WithAc(b, DecodeTokens(d, b, eob - 1, FirstLevels(b, last, tok), << <<last, tok>> >>))

\* The last token: never zero.
WithEob(b, type, eob, d) ==
    LET last == ScanAt(b, eob)
        bctx == IF eob = 0 THEN 0
                ELSE Lesser(3, 1 + Bit(eob > 2 * 2^(2 * Lesser(3, b.lw))) + Bit(eob > 4 * 2^(2 * Lesser(3, b.lw))))
        at == EobBaseTok(b, bctx)
        t == Token(d, at, 2, Br(b, IF eob = 0 THEN 0 ELSE Outer(b, last)))
    IN Decoded(type, WithLast(b, eob, last, IF Answer(d, at) = 2 THEN t[1] ELSE t[1] + 1, t[2]))
AfterEob(b, type, e) == WithEob(b, type, e[1], e[2])
AfterType(b, t) == AfterEob(b, t[1], DecodeEob(t[2], b))

\* b is read here for what the decoder already knows of the block.
DecodeCoefficients(in, b) ==
    LET skip == <<"CoefSkip", b.lw, b.skipCtx>>
        d == [in |-> in, bad |-> FALSE]
    IN IF Answer(d, skip) = 1
       THEN [d |-> Asked(d, skip), coeff |-> <<>>, type |-> "DCT_DCT", ctx |-> 64]
       ELSE AfterType(b, TransformType(Asked(d, skip), b))
=============================================================================
