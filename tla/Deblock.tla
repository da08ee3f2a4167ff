------------------------------ MODULE Deblock -------------------------------
(* The deblocking filter: which edges of a picture are filtered, how wide     *)
(* (internal/tile/filter_edges.go, encoder_loopfilter.go and                  *)
(* pkg/av1/decoder_impl.go), and what the filter does to the samples across   *)
(* an edge (internal/loopfilter/loopfilter.go).  Sharpness and levels are     *)
(* those of the whole frame: this encoder writes no deltas.                   *)
EXTENDS TileCodec

LOCAL Lesser(a, b) == IF a < b THEN a ELSE b
LOCAL Greater(a, b) == IF a > b THEN a ELSE b
LOCAL Clip(v, lo, hi) == IF v < lo THEN lo ELSE IF v > hi THEN hi ELSE v
LOCAL Distance(a, b) == IF a < b THEN b - a ELSE a - b

-----------------------------------------------------------------------------
(* The edges.  c is a cell of 4x4 samples; a vertical edge is on its left, a  *)
(* horizontal one on its top; 0 stands for no filter.                         *)

Before(c, vertical) == IF vertical THEN <<c[1] - 1, c[2]>> ELSE <<c[1], c[2] - 1>>

LumaFilterEdge(st, c, vertical) ==
    LET here == st.tx[c]
        there == st.tx[Before(c, vertical)]
        a == st.blocks[c]
        b == st.blocks[Before(c, vertical)]
        blockEdge == a.x # b.x \/ a.y # b.y
        txEdge == IF vertical THEN here.left ELSE here.top
    IN IF here = NoTx \/ there = NoTx \/ (~blockEdge /\ (~txEdge \/ (~a.intra /\ a.skip))) THEN 0
       ELSE 4 * Lesser(4, Lesser(here.size, there.size))

\* Where the chroma transform begins that covers a cell of a block.
TxOrigin(blk, c) ==
    LET at(v, from) == from + ((v - from) \div blk.uvtx) * blk.uvtx
    IN <<at(c[1], blk.x \div 2), at(c[2], blk.y \div 2)>>
ChromaFilterEdge(st, c, vertical) ==
    LET a == st.uv[c]
        b == st.uv[Before(c, vertical)]
        blockEdge == a.x # b.x \/ a.y # b.y
        txEdge == TxOrigin(a, c) # TxOrigin(b, Before(c, vertical))
    IN IF ~blockEdge /\ (~txEdge \/ (~a.intra /\ a.skip)) THEN 0
       ELSE IF Lesser(a.uvtx, b.uvtx) > 1 THEN 6 ELSE 4

\* The widest filter, of this width at most, for which there are samples.
Radius(width) == CASE width = 16 -> 7 [] width = 8 -> 4 [] width = 6 -> 3 [] width = 4 -> 2
SafeWidth(width, before, after) ==
    LET fits == {v \in {4, 6, 8, 16} : v <= width /\ before >= Radius(v) /\ after >= Radius(v)}
    IN IF fits = {} THEN 0 ELSE CHOOSE v \in fits : \A u \in fits : u <= v

(* All edges of a plane of w x h samples that are filtered, of which vw x vh  *)
(* are shown.                                                                 *)
PlaneEdges(st, plane, w, h, vw, vh) ==
    LET width(c, v) == IF plane = 0 THEN LumaFilterEdge(st, c, v) ELSE ChromaFilterEdge(st, c, v)
        safe(c, v) == SafeWidth(width(c, v), IF v THEN 4 * c[1] ELSE 4 * c[2], IF v THEN w - 4 * c[1] ELSE h - 4 * c[2])
        inside(c, v) == /\ IF v THEN c[1] > 0 /\ 4 * c[2] + 4 <= h ELSE c[2] > 0 /\ 4 * c[1] + 4 <= w
                        /\ 4 * c[1] < vw /\ 4 * c[2] < vh
    IN {<<plane, c, v, safe(c, v)>> : <<c, v>> \in
           {e \in (IF plane = 0 THEN DOMAIN st.blocks ELSE DOMAIN st.uv) \X BOOLEAN :
               inside(e[1], e[2]) /\ safe(e[1], e[2]) # 0}}

\* ApplyEncoderLoopFilter works on planes of the picture's size.
EncoderEdges(st, w, h) ==
    PlaneEdges(st, 0, w, h, w, h)
      \cup UNION {PlaneEdges(st, p, (w + 1) \div 2, (h + 1) \div 2, 2 * st.w, 2 * st.h) : p \in {1, 2}}
\* applyLoopFilterWithState works on planes of whole 8x8 blocks.
DecoderEdges(st, w, h) ==
    PlaneEdges(st, 0, 4 * st.w, 4 * st.h, w, h)
      \cup UNION {PlaneEdges(st, p, 2 * st.w, 2 * st.h, 2 * st.w, 2 * st.h) : p \in {1, 2}}

(* "the same block-state-driven deblocking pass as the decoder"               *)
(* (encoder_loopfilter.go:8): when a tile is finished, encoder and decoder    *)
(* filter the same edges with the same widths.                                *)
FilteredAlike ==
    job # NoTile /\ turn = "encoder" /\ encTodo = <<>> =>
      EncoderEdges(enc, job.w, job.h) = DecoderEdges(dec, job.w, job.h)

-----------------------------------------------------------------------------
(* The filter.  The samples s across an edge: s[-1], s[-2] .. before it,      *)
(* s[0], s[1] .. after it.  e.width, e.level, e.sharpness as above.           *)

\* NewFilterLUT.
LimitI(e) ==
    LET shifted == IF e.sharpness > 0 THEN Lesser(e.level \div 2^((e.sharpness + 3) \div 4), 9 - e.sharpness)
                   ELSE e.level
    IN Greater(1, shifted)
LimitE(e) == 2 * (e.level + 2) + LimitI(e)

\* The samples that decide lie within the reach of the width.
Smooth(e, s) ==
    LET deep == CASE e.width = 4 -> 2 [] e.width = 6 -> 3 [] OTHER -> 4
    IN /\ \A k \in 1 .. deep - 1 : /\ Distance(s[-k - 1], s[-k]) <= LimitI(e)
                                   /\ Distance(s[k], s[k - 1]) <= LimitI(e)
       /\ 2 * Distance(s[-1], s[0]) + Distance(s[-2], s[1]) \div 2 <= LimitE(e)
Flat(s, from, to) == \A k \in from .. to : Distance(s[-k - 1], s[-1]) <= 1 /\ Distance(s[k], s[0]) <= 1
FlatIn(e, s) == Flat(s, 1, IF e.width >= 8 THEN 3 ELSE 2)

(* The weights of the samples, the outermost before the edge first, for each  *)
(* sample that is replaced: up to the edge, the others mirror them.           *)
Weights6 == << <<3, 2, 2, 1, 0, 0>>, <<1, 2, 2, 2, 1, 0>> >>
MutWeights8 == << <<3, 2, 1, 1, 1, 0, 0, 0>>, <<2, 1, 2, 1, 1, 0, 1, 0>>, <<1, 1, 1, 2, 1, 1, 1, 0>> >>
Weights8 == << <<3, 2, 1, 1, 1, 0, 0, 0>>, <<2, 1, 2, 1, 1, 1, 0, 0>>, <<1, 1, 1, 2, 1, 1, 1, 0>> >>
Weights16 ==
    << <<7, 2, 2, 1, 1, 1, 1, 1, 0, 0, 0, 0, 0, 0>>, <<5, 2, 2, 2, 1, 1, 1, 1, 1, 0, 0, 0, 0, 0>>,
       <<4, 1, 2, 2, 2, 1, 1, 1, 1, 1, 0, 0, 0, 0>>, <<3, 1, 1, 2, 2, 2, 1, 1, 1, 1, 1, 0, 0, 0>>,
       <<2, 1, 1, 1, 2, 2, 2, 1, 1, 1, 1, 1, 0, 0>>, <<1, 1, 1, 1, 1, 2, 2, 2, 1, 1, 1, 1, 1, 0>> >>
Mean(weights, s, mirrored) ==
    LET n == Len(weights)
        at(i) == IF mirrored THEN (n \div 2) - i ELSE i - (n \div 2) - 1
        sum == SumFunction([i \in 1 .. n |-> weights[i] * s[at(i)]])
    IN IF n = 14 THEN (sum + 8) \div 16 ELSE (sum + 4) \div 8
Averaged(table, s) ==
    LET n == Len(table)
    IN [k \in DOMAIN s |-> IF k \in -n .. -1 THEN Mean(table[k + n + 1], s, FALSE)
                           ELSE IF k \in 0 .. n - 1 THEN Mean(table[n - k], s, TRUE) ELSE s[k]]

Signed8(v) == Clip(v, -128, 127)
Narrowed(e, s, hev, f) ==
    LET f1 == Signed8(f + 4) \div 8
        f2 == Signed8(f + 3) \div 8
        f3 == (f1 + 1) \div 2
    IN [s EXCEPT ![-1] = Clip(@ + f2, 0, 255), ![0] = Clip(@ - f1, 0, 255),
                 ![-2] = IF hev THEN @ ELSE Clip(@ + f3, 0, 255), ![1] = IF hev THEN @ ELSE Clip(@ - f3, 0, 255)]
Narrow(e, s) ==
    LET hev == Distance(s[-2], s[-1]) > e.level \div 16 \/ Distance(s[1], s[0]) > e.level \div 16
    IN Narrowed(e, s, hev, Signed8(3 * (s[0] - s[-1]) + (IF hev THEN Signed8(s[-2] - s[1]) ELSE 0)))

LoopFilter(e, s) ==
    IF e.level = 0 \/ ~Smooth(e, s) THEN s
    ELSE IF e.width = 4 \/ ~FlatIn(e, s) THEN Narrow(e, s)
    ELSE IF e.width = 16 /\ Flat(s, 4, 6) THEN Averaged(Weights16, s)
    ELSE IF e.width >= 8 THEN Averaged(Weights8, s)
    ELSE Averaged(Weights6, s)
=============================================================================
