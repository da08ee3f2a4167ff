----------------------------- MODULE RangeCoder -----------------------------
(* The multi-symbol arithmetic coder of a tile, both ends of it: the encoder  *)
(* of internal/encoder/bitwriter/msac.go writes a sequence of symbols, Flush  *)
(* gives the tile's bytes, and the decoder of internal/bitstream/msac.go      *)
(* reads them back.  The 16-bit range arithmetic is the code's, bit for bit.  *)
(* Two sizes are constants, because they only say how many bytes a 64-bit     *)
(* word holds: the decoder's window (ecWinSize, 64 in the code) and the       *)
(* number of pending bits at which the encoder writes bytes out (40).  Beyond *)
(* the last byte the decoder takes one window of padding and no more: a       *)
(* window is as wide as what Flush leaves out (13 bits) and a range (16).     *)
EXTENDS Integers, Sequences, FiniteSetsExt

CONSTANTS Window,     \* ecWinSize: width of the decoder's window, in bits
          FlushAt,    \* normalize writes bytes once this many bits are pending
          Contexts,   \* function: context -> initial inverse CDF
          Probs,      \* probabilities given to Bool and BoolEqui
          MaxOps      \* bound: symbols of a tile

ASSUME SizesAssumption == /\ Window \in 29 .. 64
                          /\ FlushAt \in 0 .. 40
                          /\ MaxOps \in Nat

(* A CDF has its probabilities p[1..n], falling, for the values 0..n-1, and   *)
(* the adaptation counter, which sits where the last entry would and is below *)
(* one probability step: it doubles as the zero that ends the search.         *)
Prob == {f \in Nat : f < 32768}
NonIncreasing(p) == \A i, j \in 1 .. Len(p) : i <= j => p[j] <= p[i]
Falling(cdf) ==
    /\ cdf \in [p : Seq(Prob), count : 0 .. 32]
    /\ Len(cdf.p) \in 1 .. 15
    /\ NonIncreasing(cdf.p)

ASSUME ProbabilitiesAssumption ==
    /\ \A ctx \in DOMAIN Contexts : Falling(Contexts[ctx])
    /\ Probs \subseteq Prob

VARIABLES ops,     \* history: what the encoder was asked to write
          enc,     \* the encoder: bytes written, low, rng, cnt
          ecdf,    \* the encoder's CDFs
          data,    \* the tile's bytes, once flushed
          dec,     \* the decoder: position, dif, rng, cnt
          dcdf,    \* the decoder's CDFs
          got      \* the values decoded so far

vars == <<ops, enc, ecdf, data, dec, dcdf, got>>

\* 1 << n.
Two[n \in Nat] == IF n = 0 THEN 1 ELSE 2 * Two[n - 1]

\* Where a value's probability is; the counter's place stands for zero.
Entry(cdf, val) == IF val < Len(cdf.p) THEN cdf.p[val + 1] ELSE cdf.count

MutCut(rng, f, later) == ((rng \div 256) * (f \div 64)) \div 2
\* Where probability f cuts the range: at least 4 for each of the later symbols.
Cut(rng, f, later) == (((rng \div 256) * (f \div 64)) \div 2) + 4 * later
SymbolCut(rng, cdf, val) == Cut(rng, Entry(cdf, val), Len(cdf.p) - val)

\* The shift that brings a range back to 0x8000 .. 0xFFFF.
Shift(rng) == CHOOSE d \in 0 .. 15 : 32768 <= rng * Two[d] /\ rng * Two[d] < 65536

Rate(cdf) == 4 + (cdf.count \div 16) + (IF Len(cdf.p) > 2 THEN 1 ELSE 0)

(* Adaptation after a symbol: the entries before it move up, the others down. *)
Adapted(cdf, val) ==
    LET rate == Rate(cdf)
    IN [p |-> [i \in 1 .. Len(cdf.p) |->
                 IF i <= val THEN cdf.p[i] + ((32768 - cdf.p[i]) \div Two[rate])
                             ELSE cdf.p[i] - (cdf.p[i] \div Two[rate])],
        count |-> IF cdf.count < 32 THEN cdf.count + 1 ELSE cdf.count]

-----------------------------------------------------------------------------
(* The encoder.                                                               *)

NewEncoder == [buf |-> <<>>, low |-> 0, rng |-> 32768, cnt |-> -9]

MutBytes(x, n) == [i \in 1 .. n |-> x \div Two[8 * (n - i)]]
\* The n bytes of a number, high byte first.
Bytes(x, n) == [i \in 1 .. n |-> (x \div Two[8 * (n - i)]) % 256]

\* Add one to the bytes already written: the carry runs back over 0xFF bytes.
MutPropagateCarryBackward(buf) == [buf EXCEPT ![Len(buf)] = (@ + 1) % 256]
PropagateCarryBackward(buf) ==
    LET k == CHOOSE i \in 1 .. Len(buf) :
                /\ buf[i] # 255
                /\ \A j \in (i + 1) .. Len(buf) : buf[j] = 255
    IN [i \in 1 .. Len(buf) |-> IF i < k THEN buf[i]
                                ELSE IF i = k THEN buf[i] + 1 ELSE 0]

EmitBytes(buf, output, n) ==
    (IF output >= Two[8 * n] THEN PropagateCarryBackward(buf) ELSE buf) \o Bytes(output, n)

Normalize(e, low, rng) ==
    LET d == Shift(rng)
        s == e.cnt + d
        n == (s \div 8) + 1
        c == e.cnt + 24 - 8 * n
    IN IF s >= FlushAt
       THEN [buf |-> EmitBytes(e.buf, low \div Two[c], n),
             low |-> (low % Two[c]) * Two[d], rng |-> rng * Two[d], cnt |-> c + d - 24]
       ELSE [buf |-> e.buf, low |-> low * Two[d], rng |-> rng * Two[d], cnt |-> s]

EncodeBool(e, val, f) ==
    LET v == Cut(e.rng, f, 1)
    IN IF val = 1 THEN Normalize(e, e.low + (e.rng - v), v)
                  ELSE Normalize(e, e.low, e.rng - v)

EncodeSymbol(e, val, cdf) ==
    LET u == IF val = 0 THEN e.rng ELSE SymbolCut(e.rng, cdf, val - 1)
        v == SymbolCut(e.rng, cdf, val)
    IN Normalize(e, e.low + (e.rng - u), u - v)

(* Flush: the fewest bytes that fix the interval, whatever is read after them. *)
MutFlush(e) ==
    LET q == e.low \div 16384
        end == 16384 * (IF q % 2 = 1 THEN q ELSE q + 1)
        n == IF e.cnt + 10 <= 0 THEN 0 ELSE (e.cnt + 17) \div 8
    IN IF n = 0 THEN e.buf ELSE EmitBytes(e.buf, end \div Two[e.cnt + 24 - 8 * n], n)
Flush(e) ==
    LET q == (e.low + 16383) \div 16384
        end == 16384 * (IF q % 2 = 1 THEN q ELSE q + 1)
        n == IF e.cnt + 10 <= 0 THEN 0 ELSE (e.cnt + 17) \div 8
    IN IF n = 0 THEN e.buf ELSE EmitBytes(e.buf, end \div Two[e.cnt + 24 - 8 * n], n)

-----------------------------------------------------------------------------
(* The decoder.  dif holds the complement of the code: 0xFF - byte.  Past the *)
(* last byte the rest of the window is filled with ones; once the count is    *)
(* negative it stays so, and a negative count never asks for a refill again.  *)

Refill(d, bytes) ==
    LET c0 == Window - d.cnt - 24
        room == IF c0 < 0 THEN 0 ELSE (c0 \div 8) + 1
        k == Min({room, Len(bytes) - d.pos})
        c == c0 - 8 * k
        load[i \in 0 .. k] ==
            IF i = 0 THEN d.dif ELSE load[i - 1] + (255 - bytes[d.pos + i]) * Two[c0 - 8 * (i - 1)]
        dif == load[k]
    IN [pos |-> d.pos + k,
        dif |-> IF k < room THEN (dif - (dif % Two[c + 8])) + (Two[c + 8] - 1) ELSE dif,
        rng |-> d.rng, cnt |-> Window - c - 24]

NewDecoder(bytes) == Refill([pos |-> 0, dif |-> 0, rng |-> 32768, cnt |-> -15], bytes)

CtxNorm(d, dif, rng) ==
    LET s == Shift(rng)
        next == [pos |-> d.pos, dif |-> dif * Two[s], rng |-> rng * Two[s], cnt |-> d.cnt - s]
    IN IF 0 <= d.cnt /\ d.cnt < s THEN Refill(next, data) ELSE next

Top(d) == d.dif \div Two[Window - 16]

BoolValue(d, f) == IF Top(d) >= Cut(d.rng, f, 1) THEN 0 ELSE 1

MutAfterBool(d, f) ==
    LET v == Cut(d.rng, f, 1)
    IN IF BoolValue(d, f) = 1 THEN CtxNorm(d, d.dif, v)
                              ELSE CtxNorm(d, d.dif, d.rng - v)
AfterBool(d, f) ==
    LET v == Cut(d.rng, f, 1)
    IN IF BoolValue(d, f) = 1 THEN CtxNorm(d, d.dif, v)
                              ELSE CtxNorm(d, d.dif - v * Two[Window - 16], d.rng - v)

SymbolValue(d, cdf) ==
    CHOOSE val \in 0 .. Len(cdf.p) :
        /\ Top(d) >= SymbolCut(d.rng, cdf, val)
        /\ \A w \in 0 .. (val - 1) : Top(d) < SymbolCut(d.rng, cdf, w)

AfterSymbol(d, cdf) ==
    LET val == SymbolValue(d, cdf)
        u == IF val = 0 THEN d.rng ELSE SymbolCut(d.rng, cdf, val - 1)
        v == SymbolCut(d.rng, cdf, val)
    IN CtxNorm(d, d.dif - v * Two[Window - 16], u - v)

-----------------------------------------------------------------------------
\* Flush always writes a byte: the count never falls below -9.
Flushed == data # <<>>

Init ==
    /\ ops = <<>>
    /\ enc = NewEncoder
    /\ ecdf = Contexts
    /\ data = <<>>
    /\ dec = NewDecoder(<<>>)
    /\ dcdf = Contexts
    /\ got = <<>>

\* Bool and BoolEqui (f = 16384).
PutBool(val, f) ==
    /\ ~Flushed /\ Len(ops) < MaxOps
    /\ enc' = EncodeBool(enc, val, f)
    /\ ops' = Append(ops, [kind |-> "bool", with |-> f, val |-> val])
    /\ UNCHANGED <<ecdf, data, dec, dcdf, got>>

\* SymbolAdaptDav1d, and BoolAdapt: the same with a single entry.
PutSymbol(val, ctx) ==
    /\ ~Flushed /\ Len(ops) < MaxOps
    /\ val <= Len(ecdf[ctx].p)
    /\ enc' = EncodeSymbol(enc, val, ecdf[ctx])
    /\ ecdf' = [ecdf EXCEPT ![ctx] = Adapted(ecdf[ctx], val)]
    /\ ops' = Append(ops, [kind |-> "symbol", with |-> ctx, val |-> val])
    /\ UNCHANGED <<data, dec, dcdf, got>>

\* Flush, and the decoder's Init on the bytes.
FinishTile ==
    /\ ~Flushed
    /\ data' = Flush(enc)
    /\ dec' = NewDecoder(data')
    /\ UNCHANGED <<ops, enc, ecdf, dcdf, got>>

Asked == ops[Len(got) + 1]

GetBool ==
    /\ Flushed /\ Len(got) < Len(ops) /\ Asked.kind = "bool"
    /\ got' = Append(got, BoolValue(dec, Asked.with))
    /\ dec' = AfterBool(dec, Asked.with)
    /\ UNCHANGED <<ops, enc, ecdf, data, dcdf>>

GetSymbol ==
    /\ Flushed /\ Len(got) < Len(ops) /\ Asked.kind = "symbol"
    /\ LET cdf == dcdf[Asked.with]
           val == SymbolValue(dec, cdf)
       IN /\ got' = Append(got, val)
          /\ dec' = AfterSymbol(dec, cdf)
          /\ dcdf' = [dcdf EXCEPT ![Asked.with] = Adapted(cdf, val)]
    /\ UNCHANGED <<ops, enc, ecdf, data>>

Next ==
    \/ \E val \in 0 .. 1, f \in Probs : PutBool(val, f)
    \/ \E ctx \in DOMAIN Contexts, val \in 0 .. 15 : PutSymbol(val, ctx)
    \/ FinishTile
    \/ GetBool
    \/ GetSymbol

Spec == Init /\ [][Next]_vars

-----------------------------------------------------------------------------
(* Properties.                                                                *)

Byte == 0 .. 255
NormalRange == {r \in Nat : 32768 <= r /\ r < 65536}
PendingBits == -9 .. 39
ReadValue == 0 .. 16
CodedValue(op) == op.val \in 0 .. 15

TypeOK ==
    /\ Len(ops) <= MaxOps /\ \A i \in DOMAIN ops : CodedValue(ops[i])
    /\ enc.buf \in Seq(Byte) /\ enc.rng \in NormalRange /\ enc.cnt \in PendingBits
    /\ data \in Seq(Byte)
    /\ dec.pos \in 0 .. Len(data) /\ dec.rng \in NormalRange
    /\ got \in Seq(ReadValue) /\ Len(got) <= Len(ops)

(* What the decoder reads is what the encoder was asked to write, symbol for  *)
(* symbol, to the last one, and both ends' CDFs have adapted alike - although *)
(* carries ran back over bytes already written, Flush dropped the low bits of *)
(* the last interval and the decoder pads beyond the last byte.               *)
DecodedAsCoded ==
    /\ \A i \in DOMAIN got : got[i] = ops[i].val
    /\ Flushed /\ Len(got) = Len(ops) => dcdf = ecdf

(* The decoder's window stays inside the interval it is decoding, so that the *)
(* subtraction of a cut never borrows and a symbol is always found.           *)
WindowInside == Flushed => dec.dif < dec.rng * Two[Window - 16]

(* However the CDFs have adapted, every value of every context still owns a   *)
(* part of the range: none has become impossible to code.                     *)
EveryValueCodable ==
    \A ctx \in DOMAIN ecdf : \A val \in 0 .. Len(ecdf[ctx].p) :
        SymbolCut(enc.rng, ecdf[ctx], val)
            < (IF val = 0 THEN enc.rng ELSE SymbolCut(enc.rng, ecdf[ctx], val - 1))
=============================================================================
