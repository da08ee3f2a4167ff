------------------------------ MODULE Headers -------------------------------
(* The sequence and frame headers: how the encoder puts them into bits        *)
(* (internal/encoder/bitwriter/bitwriter.go, obuwriter/obu.go and inter.go),  *)
(* how units are framed (LEB128 sizes), and how the decoder takes them apart  *)
(* (internal/bitstream/getbits.go, internal/obu/header.go, sequence.go,       *)
(* frame.go, frame_more.go).  A header read is a function from fields to      *)
(* values; a field is <<name, i>>, i counting the ones that come several      *)
(* times.  Left out, because no header the encoder writes turns them on:      *)
(* timing and decoder model, explicit tile sizes, segmentation, global        *)
(* motion, film grain.  A header that turns one on is "unmodelled".           *)
EXTENDS Integers, Sequences, SequencesExt, FiniteSetsExt, Functions

LOCAL Lesser(a, b) == IF a < b THEN a ELSE b
LOCAL Greater(a, b) == IF a > b THEN a ELSE b

\* The least k with size * 2^k >= target.
TileLog2(size, target) ==
    CHOOSE k \in 0 .. 20 : size * 2^k >= target /\ \A j \in 0 .. k - 1 : size * 2^j < target
BitsNeeded(v) == IF v = 0 THEN 1 ELSE CHOOSE k \in 1 .. 31 : 2^(k - 1) <= v /\ v \div 2 < 2^(k - 1)

-----------------------------------------------------------------------------
(* The bit writer: a window of 64 bits, emptied by bytes from 56 on.          *)

BitAt(v, n, i) == (v \div 2^(n - i)) % 2
Code(v, n) == [i \in 1 .. n |-> BitAt(v, n, i)]

NewWriter == [bits |-> <<>>, held |-> 0]

(* The value is shifted left by 64 - held - n.  A negative count is, as an    *)
(* unsigned one, larger than the window: nothing of the value is kept.        *)
PutBits(w, v, n) ==
    LET held == w.held + n
    IN [bits |-> w.bits \o (IF held <= 64 THEN Code(v, n) ELSE Code(0, n)),
        held |-> IF held >= 56 THEN held % 8 ELSE held]

\* A header's syntax as the encoder writes it: values with their widths.
RECURSIVE PutAll(_, _)
PutAll(w, syntax) ==
    IF syntax = <<>> THEN w ELSE PutAll(PutBits(w, Head(syntax)[1], Head(syntax)[2]), Tail(syntax))

ByteAlign(w) == IF w.held % 8 = 0 THEN w ELSE PutBits(w, 0, 8 - (w.held % 8))
TrailingBits(w) == ByteAlign(PutBits(w, 1, 1))

Number(bits) == FoldLeft(LAMBDA v, b : 2 * v + b, 0, bits)
Bytes(w) == LET padded == w.bits \o Code(0, (8 - (Len(w.bits) % 8)) % 8)
            IN [k \in 1 .. Len(padded) \div 8 |-> Number(SubSeq(padded, 8 * k - 7, 8 * k))]

-----------------------------------------------------------------------------
(* What the encoder writes.  p: width, height and whether superblocks are 128 *)
(* wide.                                                                      *)

Zeros(n) == [i \in 1 .. n |-> <<0, 1>>]

ColorConfig == << <<0, 1>>, <<0, 1>>, <<0, 1>>, <<0, 1>>, <<0, 2>>, <<0, 1>> >>

WriteSequenceHeader(p) ==
    LET wBits == BitsNeeded(p.width)
        hBits == BitsNeeded(p.height)
        syntax == << <<0, 3>>, <<0, 1>>, <<0, 1>>,           \* profile, still, reduced
                     <<0, 1>>, <<0, 1>>,                     \* no timing, no display model
                     <<0, 5>>, <<0, 12>>, <<0, 5>>,          \* one operating point
                     <<wBits - 1, 4>>, <<hBits - 1, 4>>, <<p.width - 1, wBits>>, <<p.height - 1, hBits>>,
                     <<0, 1>>, <<IF p.sb128 THEN 1 ELSE 0, 1>> >>
                  \o Zeros(7)                                \* no tools, no order hints
                  \o << <<1, 1>>, <<1, 1>> >>                \* screen content and integer MVs per frame
                  \o Zeros(3) \o ColorConfig \o Zeros(1)     \* no superres, CDEF, restoration, grain
    IN Bytes(TrailingBits(PutAll(NewWriter, syntax)))

SbSize(p) == IF p.sb128 THEN 128 ELSE 64
TileLimits(width, height, sb) ==
    LET sbw == (width + sb - 1) \div sb
        sbh == (height + sb - 1) \div sb
        minCols == TileLog2(4096 \div sb, sbw)
    IN [sbw |-> sbw, sbh |-> sbh, minCols |-> minCols,
        maxCols |-> TileLog2(1, Lesser(sbw, 64)), maxRows |-> TileLog2(1, Lesser(sbh, 64)),
        minTiles |-> Greater(TileLog2((4096 * 2304) \div (sb * sb), sbw * sbh), minCols)]

WriteTileInfo(p) ==
    LET t == TileLimits(p.width, p.height, SbSize(p))
        minRows == Greater(t.minTiles - t.minCols, 0)
    IN << <<1, 1>> >> \o (IF t.minCols < t.maxCols THEN Zeros(1) ELSE <<>>)
                      \o (IF minRows < t.maxRows THEN Zeros(1) ELSE <<>>)

EncoderLoopFilterLevel(qindex) == IF qindex < 8 THEN 0 ELSE Lesser(qindex \div 8, 32)

MutWriteQuantAndFilter(qindex) ==
    LET level == EncoderLoopFilterLevel(qindex)
    IN << <<qindex, 8>> >> \o Zeros(6) \o [i \in 1 .. 4 |-> <<level, 6>>] \o << <<0, 3>>, <<0, 1>> >>
\* Quantizer, no segments, no delta q, loop filter: alike in both headers.
WriteQuantAndFilter(qindex) ==
    LET level == EncoderLoopFilterLevel(qindex)
    IN << <<qindex, 8>> >> \o Zeros(6) \o << <<level, 6>>, <<level, 6>> >>
         \o (IF level # 0 THEN << <<level, 6>>, <<level, 6>> >> ELSE <<>>)
         \o << <<0, 3>>, <<0, 1>> >>

WriteKeyHeader(p, qindex) ==
    << <<0, 1>>, <<0, 2>>, <<1, 1>> >>          \* a key frame, shown
      \o Zeros(5)                               \* CDF updates, no screen content, sequence size
      \o WriteTileInfo(p) \o WriteQuantAndFilter(qindex)
      \o << <<0, 1>>, <<1, 1>> >>               \* largest transforms, reduced set

WriteInterHeader(p, qindex, fp) ==
    << <<0, 1>>, <<1, 2>>, <<1, 1>> >> \o Zeros(4) \o << <<7, 3>>, <<fp.refresh, 8>> >>
      \o [i \in 1 .. 7 |-> <<fp.refIdx[i] % 8, 3>>]
      \o << <<0, 1>>, <<1, 1>>, <<0, 1>>, <<0, 2>>, <<IF fp.obmc THEN 1 ELSE 0, 1>>, <<0, 1>> >>
      \o WriteTileInfo(p) \o WriteQuantAndFilter(qindex)
      \o << <<0, 1>>, <<IF fp.compound THEN 1 ELSE 0, 1>>, <<1, 1>> >> \o Zeros(7)

WriteShowExisting(idx) == Bytes(TrailingBits(PutAll(NewWriter, << <<1, 1>>, <<idx, 3>> >>)))

\* The tile's bytes follow the header from the next byte on.
WriteFrameOBU(syntax, tile) == Bytes(ByteAlign(PutAll(NewWriter, syntax))) \o tile

RECURSIVE Leb128(_)
Leb128(v) == IF v < 128 THEN <<v>> ELSE <<(v % 128) + 128>> \o Leb128(v \div 128)

Obu(type, payload) == <<type * 8 + 2>> \o Leb128(Len(payload)) \o payload

\* kind: a key frame, an inter frame, or the display of a slot.
TemporalUnit(u) ==
    Obu(2, <<>>)
      \o (IF u.kind = "key" THEN Obu(1, WriteSequenceHeader(u.p)) ELSE <<>>)
      \o (CASE u.kind = "key" -> Obu(6, WriteFrameOBU(WriteKeyHeader(u.p, u.qindex), u.tile))
            [] u.kind = "inter" -> Obu(6, WriteFrameOBU(WriteInterHeader(u.p, u.qindex, u.fp), u.tile))
            [] u.kind = "show" -> Obu(3, WriteShowExisting(u.idx)))

-----------------------------------------------------------------------------
(* What the decoder reads.                                                    *)

RECURSIVE ReadLeb128(_, _)
\* <<value, bytes>> of at most 8 bytes, or <<-1, 0>>.
ReadLeb128(buf, i) ==
    IF i > Lesser(Len(buf), 8) THEN <<-1, 0>>
    ELSE IF buf[i] < 128 THEN <<buf[i], 1>>
    ELSE LET rest == ReadLeb128(buf, i + 1)
         IN IF rest[1] < 0 THEN rest ELSE <<(buf[i] % 128) + 128 * rest[1], 1 + rest[2]>>

RECURSIVE SplitOBUs(_)
\* The units of a buffer: types and payloads; <<"error">> ends the list.
SplitOBUs(buf) ==
    IF buf = <<>> THEN <<>>
    ELSE LET hasSize == (buf[1] \div 2) % 2 = 1
             start == IF (buf[1] \div 4) % 2 = 1 THEN 3 ELSE 2
             size == ReadLeb128(SubSeq(buf, start, Len(buf)), 1)
             first == start + size[2]
         IN IF ~hasSize \/ size[1] < 0 \/ size[1] > Len(buf) - first + 1
            THEN << <<"error">> >>
            ELSE << <<(buf[1] \div 8) % 16, SubSeq(buf, first, first + size[1] - 1)>> >>
                 \o SplitOBUs(SubSeq(buf, first + size[1], Len(buf)))

BitsOf(payload) ==
    [i \in 1 .. 8 * Len(payload) |-> BitAt(payload[(i + 7) \div 8], 8, ((i - 1) % 8) + 1)]

Scalars(names) == [i \in 1 .. Len(names) |-> <<names[i], 0>>]
Indexed(name, n) == [i \in 1 .. n |-> <<name, i - 1>>]

\* F(n): n bits as a number; past the end zeros are read and Err() is set.
Got(bits, pos, n) ==
    Number([i \in 1 .. n |-> IF pos + i <= Len(bits) THEN bits[pos + i] ELSE 0])

(* One field: the bits its width names, or the value it has without any.      *)
Field(r, f, n, inferred) ==
    [r EXCEPT !.pos = @ + n,
              !.h = @ @@ (f :> IF n = 0 THEN inferred ELSE Got(r.bits, r.pos, n))]

When(c, n) == IF c THEN n ELSE 0
Flag(c) == IF c THEN 1 ELSE 0

SeqFields ==
    Scalars(<< "profile", "still", "reduced", "timing", "display_model", "op_cnt" >>)
      \o << <<"op_idc", 0>>, <<"level_major", 0>>, <<"level_minor", 0>>, <<"tier", 0>> >>
      \o Scalars(<< "w_bits", "h_bits", "max_w", "max_h", "frame_ids", "delta_id_bits", "id_bits",
                    "sb128", "filter_intra", "intra_edge", "inter_intra", "masked", "warped",
                    "dual_filter", "order_hint", "jnt_comp", "ref_mvs", "sct_choose", "sct",
                    "imv_choose", "imv", "hint_bits", "superres", "cdef", "lr", "hbd", "twelve",
                    "mono", "color_desc", "primaries", "transfer", "matrix", "range", "ss_x", "ss_y",
                    "chroma_pos", "separate_uv", "grain", "trailing" >>)

IsSrgb(h) == h["primaries", 0] = 1 /\ h["transfer", 0] = 13 /\ h["matrix", 0] = 0

SeqBits(h, f) ==
    LET v(name) == h[name, 0]
        full == v("reduced") = 0
        srgb == IsSrgb(h)
        chosen == v("profile") = 2 /\ v("twelve") = 1 /\ v("mono") = 0 /\ ~srgb
    IN CASE f[1] \in {"profile", "level_major"} -> 3
         [] f[1] \in {"timing", "display_model"} -> When(full, 1)
         [] f[1] = "op_cnt" -> When(full, 5)
         [] f[1] = "op_idc" -> When(full, 12)
         [] f[1] = "level_minor" -> 2
         [] f[1] = "tier" -> When(full /\ v("level_major") > 1, 1)
         [] f[1] \in {"w_bits", "h_bits"} -> 4
         [] f[1] = "max_w" -> v("w_bits") + 1
         [] f[1] = "max_h" -> v("h_bits") + 1
         [] f[1] \in {"frame_ids", "inter_intra", "masked", "warped", "dual_filter", "order_hint",
                      "sct_choose"} -> When(full, 1)
         [] f[1] = "delta_id_bits" -> When(v("frame_ids") = 1, 4)
         [] f[1] = "id_bits" -> When(v("frame_ids") = 1, 3)
         [] f[1] \in {"jnt_comp", "ref_mvs"} -> When(v("order_hint") = 1, 1)
         [] f[1] = "sct" -> When(full /\ v("sct_choose") = 0, 1)
         [] f[1] = "imv_choose" -> When(full /\ v("sct") # 0, 1)
         [] f[1] = "imv" -> When(full /\ v("sct") # 0 /\ v("imv_choose") = 0, 1)
         [] f[1] = "hint_bits" -> When(v("order_hint") = 1, 3)
         [] f[1] = "twelve" -> When(v("profile") = 2 /\ v("hbd") = 1, 1)
         [] f[1] = "mono" -> When(v("profile") # 1, 1)
         [] f[1] \in {"primaries", "transfer", "matrix"} -> When(v("color_desc") = 1, 8)
         [] f[1] = "range" -> When(v("mono") = 1 \/ ~srgb, 1)
         [] f[1] = "ss_x" -> When(chosen, 1)
         [] f[1] = "ss_y" -> When(chosen /\ v("ss_x") = 1, 1)
         [] f[1] = "chroma_pos" -> When(v("mono") = 0 /\ v("ss_x") = 1 /\ v("ss_y") = 1, 2)
         [] f[1] = "separate_uv" -> When(v("mono") = 0, 1)
         [] OTHER -> 1

SeqInferred(h, f) ==
    LET v(name) == h[name, 0] IN
    CASE f[1] \in {"sct", "imv"} -> 2                        \* decided by every frame
      [] f[1] \in {"primaries", "transfer", "matrix"} -> 2   \* unspecified
      [] f[1] = "ss_x" -> Flag(v("mono") = 1 \/ (v("profile") # 1 /\ ~IsSrgb(h)))
      [] f[1] = "ss_y" -> Flag(v("mono") = 1 \/ (v("profile") = 0 /\ ~IsSrgb(h)))
      [] OTHER -> 0

(* Fields one after the other, each knowing the ones before it.  Sections 1   *)
(* to 6 are the parts of the frame header, section 0 is the sequence header.  *)
RECURSIVE ReadFields(_, _, _, _)

ShownFields == Scalars(<< "show_existing", "existing_idx", "existing_id" >>)
HeadFields ==
    Scalars(<< "frame_type", "show_frame", "showable",
               "error_res", "disable_cdf", "allow_sct", "imv", "frame_id", "size_override",
               "order_hint", "primary" >>)
RefFields ==
    Scalars(<< "refresh" >>) \o Indexed("ref_order_hint", 8) \o Scalars(<< "short", "last_idx", "gold_idx" >>)
      \o FlattenSeq([i \in 1 .. 7 |-> << <<"refidx", i - 1>>, <<"delta_id", i - 1>> >>])
      \o Scalars(<< "width", "height", "superres", "denom", "render", "render_w", "render_h",
                    "intrabc", "hp", "filter_any", "filter", "motion_mode", "use_ref_mvs" >>)
TileAndQuantFields ==
    Scalars(<< "freeze_cdf", "uniform" >>) \o Indexed("more_cols", 6) \o Indexed("more_rows", 6)
      \o Scalars(<< "update_tile", "tile_bytes", "yac", "ydc_on", "ydc", "diff_uv", "udc_on", "udc",
                    "uac_on", "uac", "vdc_on", "vdc", "vac_on", "vac", "qm", "qm_y", "qm_u", "qm_v",
                    "segments", "dq", "dq_res", "dlf", "dlf_res", "dlf_multi" >>)
FilterFields ==
    Indexed("level_y", 2) \o Scalars(<< "level_u", "level_v", "sharpness", "deltas", "deltas_new" >>)
      \o FlattenSeq([i \in 1 .. 10 |-> << <<"delta_on", i - 1>>, <<"delta", i - 1>> >>])
      \o Scalars(<< "damping", "cdef_bits" >>)
      \o FlattenSeq([i \in 1 .. 8 |-> << <<"cdef_y", i - 1>>, <<"cdef_uv", i - 1>> >>])
      \o Indexed("lr_type", 3) \o Scalars(<< "lr_shift", "lr_more", "lr_uv" >>)
TailFields ==
    Scalars(<< "tx_select", "comp_refs", "skip_mode", "warp", "reduced_tx" >>)
      \o Indexed("gm", 7) \o Scalars(<< "grain" >>)

Intra(h) == h["frame_type", 0] \in {0, 2}
ForceIntegerMV(h) == Intra(h) \/ h["imv", 0] = 1

CodedWidth(h) ==
    LET w == h["width", 0] + 1
        d == 9 + h["denom", 0]
    IN IF h["superres", 0] = 0 THEN w ELSE Greater((8 * w + d \div 2) \div d, Lesser(16, w))

Tiles(q, h) == TileLimits(CodedWidth(h), h["height", 0] + 1, IF q["sb128", 0] = 1 THEN 128 ELSE 64)
\* One bit more for every further doubling of the tiles.
Doublings(h, name) == Cardinality({i \in 0 .. 5 : \A j \in 0 .. i : h[name, j] = 1})
Log2Cols(q, h) == Tiles(q, h).minCols + Doublings(h, "more_cols")
MinLog2Rows(q, h) == Greater(Tiles(q, h).minTiles - Log2Cols(q, h), 0)
Log2Rows(q, h) == MinLog2Rows(q, h) + Doublings(h, "more_rows")

\* Without segments every segment has the quantizer of the frame.
AllLossless(h) == \A f \in {"yac", "ydc", "udc", "uac", "vdc", "vac"} : h[f, 0] = 0
Filtered(h) == ~AllLossless(h) /\ h["intrabc", 0] = 0

\* parseFrameTypeAndRefs and readFrameSize.
RefBits(q, h, f) ==
    LET v(name) == h[name, 0]
        inter == ~Intra(h)
        hints == q["order_hint", 0] = 1
    IN CASE f[1] = "refresh" -> When(~((v("frame_type") = 0 /\ v("show_frame") = 1) \/ v("frame_type") = 3), 8)
         [] f[1] = "ref_order_hint" ->
              When(hints /\ v("error_res") = 1 /\ (inter \/ v("refresh") # 255), q["hint_bits", 0] + 1)
         [] f[1] = "short" -> When(inter /\ hints, 1)
         [] f[1] \in {"last_idx", "gold_idx"} -> When(v("short") = 1, 3)
         [] f[1] = "refidx" -> When(inter /\ v("short") = 0, 3)
         [] f[1] = "delta_id" -> When(inter /\ q["frame_ids", 0] = 1, q["delta_id_bits", 0] + 2)
         [] f[1] = "width" -> When(v("size_override") = 1, q["w_bits", 0] + 1)
         [] f[1] = "height" -> When(v("size_override") = 1, q["h_bits", 0] + 1)
         [] f[1] = "superres" -> When(q["superres", 0] = 1, 1)
         [] f[1] = "denom" -> When(v("superres") = 1, 3)
         [] f[1] = "render" -> 1
         [] f[1] \in {"render_w", "render_h"} -> When(v("render") = 1, 16)
         [] f[1] = "intrabc" -> When(Intra(h) /\ v("allow_sct") = 1 /\ v("superres") = 0, 1)
         [] f[1] = "hp" -> When(inter /\ ~ForceIntegerMV(h), 1)
         [] f[1] \in {"filter_any", "motion_mode"} -> When(inter, 1)
         [] f[1] = "filter" -> When(inter /\ v("filter_any") = 0, 2)
         [] f[1] = "use_ref_mvs" -> When(inter /\ v("error_res") = 0 /\ q["ref_mvs", 0] = 1 /\ hints, 1)

HeadBits(q, h, f) ==
    LET v(name) == h[name, 0]
        full == q["reduced", 0] = 0
        idBits == q["id_bits", 0] + q["delta_id_bits", 0] + 3
    IN CASE f[1] = "show_existing" -> When(full, 1)
         [] f[1] = "existing_idx" -> When(v("show_existing") = 1, 3)
         [] f[1] = "existing_id" -> When(v("show_existing") = 1 /\ q["frame_ids", 0] = 1, idBits)
         [] f[1] = "frame_type" -> When(full, 2)
         [] f[1] = "show_frame" -> When(full, 1)
         [] f[1] = "showable" -> When(v("show_frame") = 0, 1)
         [] f[1] = "error_res" ->
              When(full /\ ~(v("frame_type") = 0 /\ v("show_frame") = 1) /\ v("frame_type") # 3, 1)
         [] f[1] = "disable_cdf" -> 1
         [] f[1] = "allow_sct" -> When(q["sct", 0] = 2, 1)
         [] f[1] = "imv" -> When(v("allow_sct") = 1 /\ q["imv", 0] = 2, 1)
         [] f[1] = "frame_id" -> When(q["frame_ids", 0] = 1, idBits)
         [] f[1] = "size_override" -> When(full /\ v("frame_type") # 3, 1)
         [] f[1] = "order_hint" -> When(q["order_hint", 0] = 1, q["hint_bits", 0] + 1)
         [] f[1] = "primary" -> When(v("error_res") = 0 /\ ~Intra(h), 3)

\* parseTileInfo, parseQuant, parseDeltaQLF.
TileAndQuantBits(q, h, f) ==
    LET v(name) == h[name, 0]
        t == Tiles(q, h)
        logs == Log2Cols(q, h) + Log2Rows(q, h)
        color == q["mono", 0] = 0
    IN CASE f[1] = "freeze_cdf" -> When(q["reduced", 0] = 0 /\ v("disable_cdf") = 0, 1)
         [] f[1] = "uniform" -> 1
         [] f[1] = "more_cols" ->
              When(t.minCols + f[2] < t.maxCols /\ \A j \in 0 .. f[2] - 1 : h["more_cols", j] = 1, 1)
         [] f[1] = "more_rows" ->
              When(MinLog2Rows(q, h) + f[2] < t.maxRows /\ \A j \in 0 .. f[2] - 1 : h["more_rows", j] = 1, 1)
         [] f[1] = "update_tile" -> logs
         [] f[1] = "tile_bytes" -> When(logs > 0, 2)
         [] f[1] = "yac" -> 8
         [] f[1] \in {"ydc_on", "qm", "segments"} -> 1
         [] f[1] = "diff_uv" -> When(color /\ q["separate_uv", 0] = 1, 1)
         [] f[1] \in {"udc_on", "uac_on"} -> When(color, 1)
         [] f[1] \in {"vdc_on", "vac_on"} -> When(v("diff_uv") = 1, 1)
         [] f[1] = "ydc" -> When(v("ydc_on") = 1, 7)
         [] f[1] = "udc" -> When(v("udc_on") = 1, 7)
         [] f[1] = "uac" -> When(v("uac_on") = 1, 7)
         [] f[1] = "vdc" -> When(v("vdc_on") = 1, 7)
         [] f[1] = "vac" -> When(v("vac_on") = 1, 7)
         [] f[1] \in {"qm_y", "qm_u"} -> When(v("qm") = 1, 4)
         [] f[1] = "qm_v" -> When(v("qm") = 1 /\ q["separate_uv", 0] = 1, 4)
         [] f[1] = "dq" -> When(v("yac") # 0, 1)
         [] f[1] = "dq_res" -> When(v("dq") = 1, 2)
         [] f[1] = "dlf" -> When(v("dq") = 1 /\ v("intrabc") = 0, 1)
         [] f[1] = "dlf_res" -> When(v("dlf") = 1, 2)
         [] f[1] = "dlf_multi" -> When(v("dlf") = 1, 1)

\* parseLoopFilter, parseCDEF, parseLR.
FilterBits(q, h, f) ==
    LET v(name) == h[name, 0]
        color == q["mono", 0] = 0
        cdef == Filtered(h) /\ q["cdef", 0] = 1
        restored == (~AllLossless(h) \/ v("superres") = 1) /\ q["lr", 0] = 1 /\ v("intrabc") = 0
        types == {i \in 0 .. 2 : h["lr_type", i] # 0}
    IN CASE f[1] = "level_y" -> When(Filtered(h), 6)
         [] f[1] \in {"level_u", "level_v"} ->
              When(color /\ \E i \in {0, 1} : h["level_y", i] # 0, 6)
         [] f[1] = "sharpness" -> When(Filtered(h), 3)
         [] f[1] = "deltas" -> When(Filtered(h), 1)
         [] f[1] = "deltas_new" -> When(v("deltas") = 1, 1)
         [] f[1] = "delta_on" -> When(v("deltas_new") = 1, 1)
         [] f[1] = "delta" -> When(h["delta_on", f[2]] = 1, 7)
         [] f[1] \in {"damping", "cdef_bits"} -> When(cdef, 2)
         [] f[1] = "cdef_y" -> When(cdef /\ f[2] < 2^v("cdef_bits"), 6)
         [] f[1] = "cdef_uv" -> When(cdef /\ f[2] < 2^v("cdef_bits") /\ color, 6)
         [] f[1] = "lr_type" -> When(restored /\ (f[2] = 0 \/ color), 2)
         [] f[1] = "lr_shift" -> When(types # {}, 1)
         [] f[1] = "lr_more" -> When(v("lr_shift") = 1 /\ q["sb128", 0] = 0, 1)
         [] f[1] = "lr_uv" -> When(types \cap {1, 2} # {} /\ q["ss_x", 0] = 1 /\ q["ss_y", 0] = 1, 1)

\* parseTxfmMode, parseSkipMode, parseWarpMotion, parseGlobalMV, parseFilmGrain.
TailBits(q, h, f) ==
    LET v(name) == h[name, 0]
        inter == ~Intra(h)
    IN CASE f[1] = "tx_select" -> When(~AllLossless(h), 1)
         [] f[1] = "comp_refs" -> When(inter, 1)
         [] f[1] = "skip_mode" -> 0          \* needs order hints
         [] f[1] = "warp" -> When(inter /\ v("error_res") = 0 /\ q["warped", 0] = 1, 1)
         [] f[1] = "reduced_tx" -> 1
         [] f[1] = "gm" -> When(inter, 1)
         [] f[1] = "grain" -> When(q["grain", 0] = 1 /\ (v("show_frame") = 1 \/ v("showable") = 1), 1)

(* What a field is when it has no bits.                                       *)
Inferred(q, h, f) ==
    LET v(name) == h[name, 0]
    IN CASE f[1] \in {"show_frame"} -> 1
         [] f[1] = "showable" -> Flag(v("frame_type") # 0)
         [] f[1] = "error_res" -> 1
         [] f[1] = "allow_sct" -> q["sct", 0]
         [] f[1] = "imv" -> v("allow_sct") * q["imv", 0]
         [] f[1] = "size_override" -> Flag(v("frame_type") = 3)
         [] f[1] = "primary" -> 7
         [] f[1] = "refresh" -> 255
         [] f[1] = "width" -> q["max_w", 0]
         [] f[1] = "height" -> q["max_h", 0]
         [] f[1] = "render_w" -> v("width")
         [] f[1] = "render_h" -> v("height")
         [] f[1] = "vdc" -> When(v("diff_uv") = 0, v("udc"))
         [] f[1] = "vac" -> When(v("diff_uv") = 0, v("uac"))
         [] f[1] = "qm_v" -> v("qm_u")
         [] OTHER -> 0

Bits(section, q, h, f) ==
    CASE section = 0 -> SeqBits(h, f)
      [] section \in {1, 2} -> HeadBits(q, h, f)
      [] section = 3 -> RefBits(q, h, f)
      [] section = 4 -> TileAndQuantBits(q, h, f)
      [] section = 5 -> FilterBits(q, h, f)
      [] section = 6 -> TailBits(q, h, f)

ReadFields(q, r, section, fields) ==
    IF fields = <<>> THEN r
    ELSE LET f == Head(fields)
             absent == IF section = 0 THEN SeqInferred(r.h, f) ELSE Inferred(q, r.h, f)
             next == Field(r, f, Bits(section, q, r.h, f), absent)
         IN IF next.pos < 0 THEN r ELSE ReadFields(q, next, section, Tail(fields))

Reader(payload) == [bits |-> BitsOf(payload), pos |-> 0, h |-> <<>>]

ParseSequenceHeader(payload) == ReadFields(<<>>, Reader(payload), 0, SeqFields)

\* What follows the first fields, unless the header only shows a slot.
RestOfFrameHeader(q, s) ==
    IF s.h["show_existing", 0] = 1 THEN s
    ELSE ReadFields(q, ReadFields(q, ReadFields(q, ReadFields(q, ReadFields(q, s,
            2, HeadFields), 3, RefFields), 4, TileAndQuantFields), 5, FilterFields), 6, TailFields)

ParseFrameHeader(q, payload) ==
    RestOfFrameHeader(q, ReadFields(q, Reader(payload), 1, ShownFields))

\* Where the tile group begins in the payload of an OBU_FRAME.
BytesConsumed(r) == (r.pos + 7) \div 8

\* What the decoder makes of a frame's payload under a sequence.
ReceivedFrame(types, seq, payload, r) ==
    [types |-> types, seq |-> seq, h |-> r.h, short |-> r.pos > Len(r.bits),
     tile |-> SubSeq(payload, BytesConsumed(r) + 1, Len(payload))]
UnderSequence(types, seq, payload) == ReceivedFrame(types, seq, payload, ParseFrameHeader(seq, payload))

(* What the decoder makes of a temporal unit: the sequence in force, the      *)
(* frame header, and the bytes left for the tiles.  q: the sequence before.   *)
Received(units, q) ==
    LET obus == SplitOBUs(units)
        seqs == SelectSeq(obus, LAMBDA o : o[1] = 1)
        frames == SelectSeq(obus, LAMBDA o : o[1] \in {3, 6})
    IN UnderSequence([i \in 1 .. Len(obus) |-> obus[i][1]],
                     IF seqs = <<>> THEN q ELSE ParseSequenceHeader(seqs[1][2]).h, frames[1][2])
=============================================================================
