------------------------------- MODULE Codec --------------------------------
(* The parts of the codec that compute a result from an input and keep no     *)
(* state, each checked on every input of a bounded set.                       *)
EXTENDS Headers, Deblock, Cdef, Restoration, InterFormat

CONSTANTS Sizes,      \* pictures given to the encoder: <<width, height>>
          QIndexes,   \* quantizers the rate control may ask for
          Magnitudes, \* magnitudes of quantized coefficients
          Strengths   \* deblocking strengths: <<level, sharpness>>

LOCAL Lesser(a, b) == IF a < b THEN a ELSE b
LOCAL Clip(v, lo, hi) == IF v < lo THEN lo ELSE IF v > hi THEN hi ELSE v

VARIABLE input        \* the input now looked at: a record with its kind

Picture(size) == [width |-> size[1], height |-> size[2], sb128 |-> TRUE]
TileBytes == {<<1>>, [i \in 1 .. 130 |-> 255]}

Units ==
    {[kind |-> "key", p |-> Picture(s), qindex |-> q, tile |-> t] :
        s \in Sizes, q \in QIndexes, t \in TileBytes}
    \cup {[kind |-> "inter", p |-> Picture(s), qindex |-> q, tile |-> <<128>>,
           fp |-> [refIdx |-> [i \in 1 .. 7 |-> IF i = 2 THEN (slot + 7) % 8 ELSE slot],
                   refresh |-> 2^((slot + 1) % 8), compound |-> c, obmc |-> o]] :
        s \in Sizes, q \in QIndexes, slot \in {0, 3, 7}, c \in BOOLEAN, o \in BOOLEAN}
    \cup {[kind |-> "show", p |-> Picture(s), idx |-> i] : s \in Sizes, i \in 0 .. 7}

(* Square blocks the encoder codes: chroma, luma of intra blocks up to 16     *)
(* samples and of inter blocks up to 32, with their last coefficient at       *)
(* places on both sides of every context's threshold.                         *)
Shapes == {<<0, 1, TRUE>>, <<1, 1, TRUE>>, <<2, 1, FALSE>>, <<1, 0, TRUE>>, <<2, 0, TRUE>>,
           <<1, 0, FALSE>>, <<2, 0, FALSE>>, <<3, 0, FALSE>>}
LastPlaces(lw) == IF lw < 2 THEN {0, 1, 2, 4, 7, 11, 15} ELSE IF lw = 2 THEN {1, 33, 65} ELSE {3, 130}
Places(eob, pattern) ==
    CASE pattern = "last" -> {eob}
      [] pattern = "dense" -> 0 .. eob
      [] pattern = "mixed" -> {0, eob} \cup {p \in 0 .. eob : p % 3 = 1}
Valued(p, pattern, m) ==
    (IF p % 2 = 0 THEN 1 ELSE -1) * (IF pattern = "mixed" THEN 1 + ((p * m) % 19) ELSE m)
Coefficients(lw, eob, pattern, m) ==
    FoldSet(LAMBDA p, c : c @@ (Scan[lw][p + 1] :> Valued(p, pattern, m)), <<>>, Places(eob, pattern))
Blocks == UNION {{[kind |-> "residual", lw |-> s[1], plane |-> s[2], intra |-> s[3], mode |-> 2,
                   skipCtx |-> 3, signCtx |-> 1, dc |-> 4, ac |-> 8,
                   coeff |-> Coefficients(s[1], eob, pattern, m)] :
                      eob \in LastPlaces(s[1]), pattern \in {"last", "dense", "mixed"},
                      m \in Magnitudes} : s \in Shapes}

(* The samples across an edge: two sides of some shape, apart by a step, with *)
(* as many samples before and after the edge as the plane has there.          *)
SideShapes == {<<0, 0, 0, 0, 0, 0, 0>>, <<0, 1, 2, 3, 4, 5, 6>>, <<0, 1, -1, 0, -1, 1, 1>>, <<0, 0, 0, 1, 9, 9, 9>>,
               <<0, 0, 0, 1, 1, -1, 0>>, <<0, 6, 6, 6, 0, 0, 0>>}
Reaches == {<<2, 7>>, <<3, 3>>, <<4, 5>>, <<7, 7>>, <<8, 1>>}
Edges == {[kind |-> "edge", width |-> w, level |-> l[1], sharpness |-> l[2], before |-> r[1], after |-> r[2],
           samples |-> [k \in -r[1] .. r[2] - 1 |->
               Clip(IF k < 0 THEN v[1] + p[Lesser(7, -k)] ELSE v[1] + v[2] + q[Lesser(7, k + 1)], 0, 255)]] :
             w \in {6, 16}, l \in Strengths, r \in Reaches, v \in {<<0, 1>>, <<120, -20>>, <<250, -3>>, <<130, 7>>, <<60, 4>>, <<3, 90>>},
             p \in SideShapes, q \in SideShapes}

(* The inputs of a one-dimensional transform: each of them alone, and all.    *)
Kernels == {<<"DCT", 4>>, <<"DCT", 8>>, <<"DCT", 16>>, <<"DCT", 32>>, <<"DCT", 64>>, <<"ADST", 4>>, <<"ADST", 8>>,
            <<"ADST", 16>>, <<"IDENTITY", 4>>, <<"IDENTITY", 8>>, <<"IDENTITY", 16>>, <<"IDENTITY", 32>>}
KernelInputs == UNION {{[kind |-> "vector", type |-> k[1], n |-> k[2],
                    x |-> [i \in 1 .. k[2] |-> IF i > 32 \/ alone \notin {i, 0} THEN 0 ELSE Valued(i * i, "mixed", m) * (IF alone = 0 THEN 6 ELSE 90)]] :
                      alone \in 0 .. Lesser(32, k[2]), m \in {3, 5}} : k \in Kernels}

(* Coefficients up to some place of the scan, for transforms of all shapes.   *)
Types == {<<"DCT", "DCT">>, <<"FLIPADST", "ADST">>, <<"DCT", "IDENTITY">>, <<"IDENTITY", "ADST">>, <<"IDENTITY", "IDENTITY">>}
Transformed ==
    {[w |-> s, h |-> s, types |-> t, eob |-> e] : s \in {4, 8}, t \in Types, e \in {0, 1, 2, 4, 7, 10, 15}}
    \cup {[w |-> s[1], h |-> s[2], types |-> t, eob |-> e] : s \in {<<4, 16>>, <<16, 8>>, <<16, 16>>}, t \in Types, e \in {0, 3, 12, 40}}
    \cup {[w |-> s[1], h |-> s[2], types |-> <<"DCT", "DCT">>, eob |-> e] :
             s \in {<<32, 8>>, <<16, 32>>, <<32, 64>>, <<64, 64>>}, e \in {0, 9}}
TransformBlock(t, pattern) ==
    [kind |-> "block", w |-> t.w, h |-> t.h, types |-> t.types, eob |-> t.eob,
     pred |-> [i \in 1 .. t.w * t.h |-> (i * 37) % 256],
     coeff |-> FoldSet(LAMBDA p, c : c @@ (CoeffIndex(t, p) :> 40 * Valued(p, "mixed", 7)), <<>>,
                       Places(t.eob, pattern))]
TransformInputs == {TransformBlock(t, pattern) : t \in Transformed, pattern \in {"last", "mixed"}}
SampleInputs == {[kind |-> "samples", n |-> n, pred |-> p,
               samples |-> [i \in 1 .. n * n |-> Clip(p + (((a * (i % n) + c * (i \div n) + d * i * i) % 97) - 48), 0, 255)]] :
                 n \in {4, 8}, p \in {3, 128, 250}, a \in {0, 5, 48}, c \in {0, 7, 31}, d \in {0, 1}}

(* Luma blocks for the direction search, and pictures for the directional     *)
(* filter: of several sizes, with a sharp edge across a texture or single     *)
(* samples off a flat ground, coded in 8x8 blocks of which some are skipped   *)
(* and one is split.                                                          *)
Texture(slope, noise, x, y) ==
    Clip((IF 2 * y + slope * x > 20 + 3 * slope THEN 180 ELSE 60) + (((x * x + 7 * y + x * y) % 31) - 15) * noise
         + (IF (5 * x + 3 * y) % 13 # 0 THEN 0 ELSE IF noise > 1 THEN 40 ELSE IF x % 2 = 0 THEN 3 ELSE -3), 0, 255)
DirectionInputs == {[kind |-> "direction", img |-> [i \in 1 .. 64 |-> Texture(slope, noise, (i - 1) % 8, (i - 1) \div 8) - 128]] :
                      slope \in -5 .. 5, noise \in {0, 1, 6}}
Coding(w, h, skips) ==
    {[x |-> 8 * c[1], y |-> 8 * c[2], w |-> 8, h |-> 8, skip |-> skips /\ (c[1] + 2 * c[2]) % 3 = 1] : c \in (0 .. w \div 8 - 1) \X (0 .. h \div 8 - 1) \ {<<0, 0>>}}
    \cup {[x |-> x, y |-> y, w |-> 4, h |-> 4, skip |-> skips /\ <<x, y>> # <<0, 4>>] : x \in {0, 4}, y \in {0, 4}}
FramePlane(w, h, slope, noise) == [y \in 1 .. h |-> [x \in 1 .. w |-> Texture(slope, noise, x, y)]]
FrameInput(w, h, l, t, i, damaged) ==
    [kind |-> "frame", w |-> w, h |-> h, blocks |-> Coding(w, h, ~damaged), bestEffort |-> damaged, damping |-> IF damaged THEN 6 ELSE 3,
     index |-> (<<0, 0>> :> i) @@ (<<1, 0>> :> 1) @@ (<<0, 1>> :> 0), y |-> <<l[1], 62>>, uv |-> <<l[2], 9>>,
     planes |-> <<FramePlane(w, h, t, 6), FramePlane(w \div 2, h \div 2, t, 3), FramePlane(w \div 2, h \div 2, -t, 0)>>]
FrameInputs ==
    {FrameInput(24, 24, l, -2, 0, TRUE) : l \in {<<63, 0>>, <<2, 40>>, <<37, 63>>}}
    \cup {FrameInput(24, 24, l, 3, -1, FALSE) : l \in {<<2, 3>>, <<0, 28>>, <<61, 25>>}}
    \cup {FrameInput(s[1], s[2], l, 3, 0, b) : s \in {<<8, 16>>, <<72, 8>>, <<8, 72>>}, l \in {<<38, 62>>}, b \in BOOLEAN}

(* Planes for loop restoration, before and after the directional filter: with *)
(* one unit that is cut by one or two stripe boundaries, near its end or not, *)
(* and with units side by side or one above the other.  What the decoder      *)
(* leaves undone, the wide filter alone below a boundary that is close to the *)
(* plane's end, is left out here.                                             *)
Wiener(x, y, w, h, v, t) == [type |-> "WIENER", x |-> x, y |-> y, w |-> w, h |-> h, filterH |-> t, filterV |-> v]
SelfGuided(x, y, w, h, index, weights) ==
    [type |-> "SGRPROJ", x |-> x, y |-> y, w |-> w, h |-> h, index |-> index, weights |-> weights]
FiltersAt(x, y, w, h) ==
    {Wiener(x, y, w, h, <<3, -7, 15>>, <<-5, 8, 46>>), Wiener(x, y, w, h, <<0, -23, -17>>, <<0, 3, 20>>),
     SelfGuided(x, y, w, h, 0, <<-32, 31>>), SelfGuided(x, y, w, h, 5, <<31, 95>>), SelfGuided(x, y, w, h, 10, <<0, -32>>),
     SelfGuided(x, y, w, h, 13, <<0, 90>>)}
    \cup (IF h \in {34, 66} THEN {SelfGuided(x, y, w, h, 14, <<-96, 95>>), SelfGuided(x, y, w, h, 15, <<31, 95>>)} ELSE {})
RestorationInput(w, h, ssV, restored, slope) ==
    [kind |-> "restoration", ssV |-> ssV, units |-> restored, src |-> FramePlane(w, h, slope, 2), boundary |-> FramePlane(w, h, slope - 1, 6)]
RestorationInputs ==
    UNION {{RestorationInput(5, s[1], s[2], <<u>>, 2) : u \in FiltersAt(0, 0, 5, s[1])} : s \in {<<30, 1>>, <<34, 1>>, <<57, 0>>, <<66, 1>>}}
    \cup {RestorationInput(48, 29, 1, <<Wiener(0, 0, 32, 29, <<0, -7, 15>>, <<0, 8, 46>>), SelfGuided(32, 0, 16, 29, 2, <<-10, 60>>)>>, 1),
          RestorationInput(4, 50, 1, <<SelfGuided(0, 0, 4, 28, 10, <<0, 31>>), Wiener(0, 28, 4, 22, <<0, 5, 30>>, <<0, -20, 7>>)>>, -3)}

(* Blocks to predict from a textured plane: of several shapes, in all modes   *)
(* and directions, with neighbours on both sides, on one or on none, and with *)
(* the plane ending inside the block, at its end, or further away.  Without   *)
(* neighbours the one that the decoder hands to another kernel is left out    *)
(* where that kernel rounds otherwise.                                        *)
IntraShapes == {<<4, 4>>, <<4, 8>>, <<8, 8>>, <<4, 16>>, <<16, 8>>, <<16, 16>>, <<32, 8>>}
Setting(top, left, further, filters, smooth, room) ==
    [haveTop |-> top, haveLeft |-> left, further |-> further, edgeFilter |-> filters, smooth |-> smooth, room |-> room]
Surroundings ==
    {Setting(TRUE, TRUE, TRUE, TRUE, FALSE, 8), Setting(TRUE, TRUE, FALSE, TRUE, TRUE, -4), Setting(TRUE, TRUE, TRUE, FALSE, FALSE, 1),
     Setting(TRUE, TRUE, TRUE, TRUE, TRUE, 1), Setting(TRUE, FALSE, TRUE, TRUE, TRUE, 4), Setting(FALSE, TRUE, TRUE, TRUE, FALSE, 4),
     Setting(FALSE, FALSE, FALSE, TRUE, FALSE, 0)}
IntraInput(shape, mode, delta, filter, a) ==
    [kind |-> "intra", w |-> shape[1], h |-> shape[2], mode |-> mode, delta |-> delta, filter |-> filter, a |-> a]
Undirected == {"DC", "PAETH", "SMOOTH", "SMOOTH_V", "SMOOTH_H"}
IntraInputs ==
    {u \in {IntraInput(s, m, d, -1, a) : s \in IntraShapes, m \in Directional, d \in -3 .. 3, a \in Surroundings}
           \cup {IntraInput(s, m, 0, -1, a) : s \in IntraShapes, m \in Undirected, a \in Surroundings}
           \cup {IntraInput(s, "DC", 0, f, a) : s \in {<<4, 8>>, <<16, 8>>}, f \in 0 .. 4, a \in Surroundings} :
        u.mode = "PAETH" /\ ~u.a.haveTop /\ ~u.a.haveLeft => u.w \in {u.h \div 2, u.h, 2 * u.h}}
CflInputs ==
    {[kind |-> "cfl", b |-> IntraInput(s, "DC", 0, -1, a), alpha |-> alpha, ss |-> ss] :
        s \in {<<4, 4>>, <<8, 4>>, <<8, 16>>}, a \in {a \in Surroundings : ~a.smooth}, alpha \in {-16, -3, 1, 16}, ss \in {<<1, 1>>, <<1, 0>>, <<0, 0>>}}

(* Blocks to predict from other pictures: of the sizes that choose other      *)
(* filters, with vectors to whole samples, between samples one way or both,   *)
(* over the picture's edges and far outside, in planes with and without half  *)
(* the samples, and where the picture ends inside the block.  Bilinear blocks *)
(* are between samples one way only.                                          *)
Earlier == FramePlane(28, 20, 2, 6)
Later == FramePlane(28, 20, -3, 6)
InterBlock(place, shape, ss, mv, filters) ==
    [x |-> place[1], y |-> place[2], w |-> shape[1], h |-> shape[2], ss |-> ss, mv |-> mv, plane |-> Earlier, filters |-> filters]
Full == <<0, 0>>
Halved == {<<1, 1>>, <<1, 0>>}
Moves == {<<0, 0>>, <<3, -5>>, <<-13, 16>>, <<24, 9>>, <<-43, -30>>, <<-190, 140>>, <<2100, -7>>, <<-1307, 1301>>, <<6, -1411>>, <<1177, 4>>}
FilterPairs == {<<"REGULAR", "REGULAR">>, <<"SMOOTH", "SHARP">>, <<"SHARP", "REGULAR">>, <<"REGULAR", "SMOOTH">>}
Straight(b) == b.filters # <<"BILINEAR", "BILINEAR">> \/ \E i \in 1 .. 2 : b.mv[i] % 2^(3 + b.ss[i]) = 0
InterBlocks ==
    {b \in {InterBlock(p, s, Full, mv, f) : p \in {<<8, 8>>, <<20, 12>>}, s \in {<<8, 4>>, <<4, 8>>}, mv \in Moves, f \in FilterPairs \cup {<<"BILINEAR", "BILINEAR">>}}
            \cup {InterBlock(p, s, ss, mv, f) : p \in {<<0, 0>>, <<12, 8>>}, s \in {<<4, 4>>, <<2, 8>>}, ss \in Halved, mv \in Moves,
                                               f \in {<<"SHARP", "SMOOTH">>, <<"BILINEAR", "BILINEAR">>}} : Straight(b)}
InterInputs == {[kind |-> "moved", b |-> b, room |-> r] : b \in InterBlocks, r \in {<<16, 16>>, <<4, 2>>}}
ScaledInputs ==
    {[kind |-> "scaled", b |-> InterBlock(<<8, 8>>, s, ss, mv, f), sizes |-> z] :
        s \in {<<8, 4>>, <<4, 4>>}, ss \in {Full, <<1, 1>>}, mv \in {<<0, 0>>, <<3, -5>>, <<-77, 30>>, <<93, -190>>}, f \in FilterPairs,
        z \in {<<<<28, 20>>, <<20, 28>>>>, <<<<28, 20>>, <<56, 13>>>>, <<<<28, 20>>, <<14, 320>>>>}}

(* Blocks from two pictures, in luma and in a chroma plane; weights for every *)
(* distance in two widths of order hint; all wedges; and blocks of an intra   *)
(* prediction and one from a picture.                                         *)
TwoPictures(mv, mv2, filters, type, sign, wedge, weight) ==
    InterBlock(<<8, 8>>, <<8, 8>>, Full, mv, filters)
    @@ [plane2 |-> Later, mv2 |-> mv2, type |-> type, sign |-> sign, wedge |-> wedge, weight |-> weight]
CompoundTypes ==
    {<<"AVERAGE", FALSE, 0, 8>>} \cup {<<"DISTANCE", FALSE, 0, w>> : w \in {3, 5, 11}}
    \cup {<<"WEDGE", s, i, 8>> : s \in BOOLEAN, i \in {1, 6, 8, 15}} \cup {<<"DIFFWTD", s, 0, 8>> : s \in BOOLEAN}
CompoundInputs ==
    {[kind |-> "compound", b |-> TwoPictures(m[1], m[2], f, t[1], t[2], t[3], t[4]), ss |-> ss] :
        m \in {<<<<0, 0>>, <<16, -24>>>>, <<<<3, -5>>, <<-40, 13>>>>, <<<<64, 2>>, <<-6, 9>>>>}, f \in {<<"REGULAR", "REGULAR">>, <<"SMOOTH", "SHARP">>},
        t \in CompoundTypes, ss \in Halved}
HintInputs == {[kind |-> "hints", bits |-> h[1], now |-> h[2]] : h \in {<<3, 0>>, <<3, 5>>, <<7, 0>>, <<7, 50>>}}
WedgeInputs == {[kind |-> "wedge", w |-> w, h |-> h, index |-> i] : w \in {8, 16, 32}, h \in {8, 16, 32}, i \in 0 .. 15}
InterIntraInputs ==
    {[kind |-> "interintra", b |-> IntraInput(s, m, 0, -1, a), wedge |-> w, ss |-> ss] :
        s \in {<<8, 8>>, <<16, 8>>, <<8, 16>>, <<32, 32>>}, m \in {"DC", "V", "H", "SMOOTH"}, w \in {-1, 9}, ss \in Halved,
        a \in {a \in Surroundings : ~a.smooth /\ a.edgeFilter /\ a.room >= 0}}

(* Overlapped blocks with several neighbours, some of them intra or longer    *)
(* than the block; and blocks that share their chroma with earlier ones.      *)
NearBlock(size4, inter, mv, filters) ==
    [inter |-> inter, size4 |-> size4, plane |-> IF mv[1] < 0 THEN Later ELSE Earlier, mv |-> mv, filters |-> filters]
EdgeOf(n, blocks) == SubSeq(FoldLeft(LAMBDA cells, blk : cells \o [i \in 1 .. blk.size4 |-> blk], <<>>, blocks), 1, n)
OneNear(size4) == NearBlock(size4, TRUE, <<-19, 5>>, <<"REGULAR", "REGULAR">>)
OtherNear(size4) == NearBlock(size4, TRUE, <<44, -64>>, <<"SHARP", "SMOOTH">>)
IntraNear(size4) == NearBlock(size4, FALSE, <<0, 0>>, <<"REGULAR", "REGULAR">>)
EdgesOf(n) ==
    {<<>>} \cup {EdgeOf(n, e) : e \in
        CASE n = 2 -> {<<OneNear(1), OtherNear(1)>>, <<OtherNear(4)>>, <<IntraNear(1), OneNear(1)>>}
          [] n = 4 -> {<<OneNear(1), IntraNear(1), OtherNear(2)>>, <<IntraNear(2), OneNear(2)>>, <<OtherNear(8)>>}
          [] n = 8 -> {<<OneNear(1), IntraNear(1), IntraNear(2), OtherNear(2), OneNear(2)>>, <<IntraNear(4), OtherNear(2), OneNear(1), OneNear(1)>>, <<OneNear(2), OtherNear(2), OneNear(2), OtherNear(2)>>}}
OverlapInput(place, size4, above, left, ss) ==
    [kind |-> "overlap", size4 |-> size4, above |-> above, left |-> left,
     b |-> InterBlock(place, <<(4 * size4[1]) \div 2^ss[1], (4 * size4[2]) \div 2^ss[2]>>, ss, <<5, 8>>, <<"REGULAR", "REGULAR">>)]
OverlapInputs ==
    {OverlapInput(<<8, 4>>, <<2, 2>>, a, l, ss) : a \in EdgesOf(2), l \in EdgesOf(2), ss \in {Full, <<1, 1>>, <<1, 0>>}}
    \cup UNION {{OverlapInput(<<0, 4>>, <<Len(e), 2>>, e, <<>>, ss), OverlapInput(<<4, 0>>, <<2, Len(e)>>, <<>>, e, ss)} :
                  e \in (EdgesOf(4) \cup EdgesOf(8)) \ {<<>>}, ss \in {Full, <<1, 1>>}}
    \cup {OverlapInput(<<4, 0>>, <<4, 16>>, EdgeOf(4, <<OtherNear(8)>>), <<>>, Full)}
SharedInputs ==
    {[kind |-> "shared", size4 |-> s[1], b |-> InterBlock(<<8, 4>>, s[2], ss, <<-21, 6>>, <<"SMOOTH", "REGULAR">>),
      around |-> [topLeft |-> NearBlock(1, i[1], <<11, 30>>, <<"SHARP", "SHARP">>), left |-> NearBlock(1, i[2], <<-50, 1>>, <<"REGULAR", "SMOOTH">>),
                  top |-> NearBlock(1, i[3], <<16, -33>>, <<"SMOOTH", "SHARP">>)]] :
        s \in {<<<<1, 1>>, <<4, 4>>>>, <<<<1, 2>>, <<4, 4>>>>, <<<<2, 1>>, <<4, 4>>>>, <<<<1, 4>>, <<4, 8>>>>, <<<<4, 1>>, <<8, 4>>>>, <<<<2, 2>>, <<4, 4>>>>},
        ss \in {<<1, 1>>}, i \in [1 .. 3 -> BOOLEAN]}
    \cup {[kind |-> "shared", size4 |-> <<1, h4>>, b |-> InterBlock(<<8, 4>>, <<4, 4 * h4>>, <<1, 0>>, <<-21, 6>>, <<"SMOOTH", "REGULAR">>),
      around |-> [topLeft |-> IntraNear(1), left |-> left, top |-> IntraNear(1)]] : h4 \in {1, 2, 4}, left \in {OneNear(1), IntraNear(1)}}

Init == input = [kind |-> "none"] /\ TileInit
NextInput == /\ job = NoTile /\ input.kind = "none"
             /\ \E u \in Units \cup Blocks \cup Edges \cup KernelInputs \cup TransformInputs \cup SampleInputs \cup DirectionInputs \cup FrameInputs
                         \cup RestorationInputs \cup IntraInputs \cup CflInputs \cup InterInputs \cup ScaledInputs \cup CompoundInputs \cup HintInputs \cup WedgeInputs \cup InterIntraInputs \cup OverlapInputs \cup SharedInputs : input' = u
             /\ UNCHANGED tileVars
NextInTile == TileNext /\ UNCHANGED input
Next == NextInput \/ NextInTile
vars == <<input, tileVars>>
Spec == Init /\ [][Next]_vars

-----------------------------------------------------------------------------
SequenceOf(p) == ParseSequenceHeader(WriteSequenceHeader(p)).h

AsMeant(u, r) ==
    LET v(name) == r.h[name, 0]
        level == EncoderLoopFilterLevel(u.qindex)
    IN /\ ~r.short
       /\ r.seq["max_w", 0] + 1 = u.p.width /\ r.seq["max_h", 0] + 1 = u.p.height
       /\ r.seq["sb128", 0] = 1 /\ r.seq["trailing", 0] = 1
       /\ CASE u.kind = "show" -> /\ r.types = <<2, 3>>
                                  /\ v("show_existing") = 1 /\ v("existing_idx") = u.idx
            [] OTHER ->
                 /\ r.types = IF u.kind = "key" THEN <<2, 1, 6>> ELSE <<2, 6>>
                 /\ r.tile = u.tile
                 /\ v("show_existing") = 0 /\ v("show_frame") = 1
                 /\ v("frame_type") = IF u.kind = "key" THEN 0 ELSE 1
                 /\ v("primary") = 7 /\ v("freeze_cdf") = 0
                 /\ v("refresh") = IF u.kind = "key" THEN 255 ELSE u.fp.refresh
                 /\ u.kind = "inter" =>
                      /\ \A i \in 1 .. 7 : r.h["refidx", i - 1] = u.fp.refIdx[i]
                      /\ v("comp_refs") = Flag(u.fp.compound) /\ v("motion_mode") = Flag(u.fp.obmc)
                      /\ v("hp") = 1
                 /\ v("uniform") = 1 /\ Log2Cols(r.seq, r.h) + Log2Rows(r.seq, r.h) = 0
                 /\ v("yac") = u.qindex /\ ~AllLossless(r.h)
                 /\ \A f \in {"ydc", "udc", "uac", "vdc", "vac", "qm", "segments", "dq", "sharpness",
                              "deltas", "tx_select"} : v(f) = 0
                 /\ \A i \in {0, 1} : r.h["level_y", i] = level
                 /\ v("level_u") = level /\ v("level_v") = level
                 /\ v("reduced_tx") = 1 /\ \A i \in 0 .. 6 : r.h["gm", i] = 0

(* Whatever the encoder writes, the decoder's parser reads back as it was     *)
(* meant: the units with their types and sizes, the picture's size, the       *)
(* frame's type, references, tools, quantizer and filter levels, and the      *)
(* tile's bytes starting where the header ends.                               *)
HeadersReadBack ==
    input.kind \in {"key", "inter", "show"} =>
      AsMeant(input, Received(TemporalUnit(input), IF input.kind = "key" THEN <<>> ELSE SequenceOf(input.p)))

AsCoded(b, w, r) ==
    /\ ~r.d.bad /\ r.d.in = <<>> /\ r.type = "DCT_DCT"
    /\ r.coeff = DequantizeTx(b) /\ r.ctx = w.ctx
Agreed(b, w) == AsCoded(b, w, DecodeCoefficients(w.out, b))

(* The decoder reads every symbol of a block with the table the encoder used, *)
(* stops where the encoder stopped, and gets the transform type, the          *)
(* coefficients and the neighbour context the encoder goes on with.           *)
ResidualReadBack == input.kind = "residual" => Agreed(input, EncodeDCTSquare(input))

\* The format's filters: n samples on each side are replaced by one mean of
\* the 2n + 1 around them, the n2 nearest on each side weighing twice.
FormatMean(width, s, i) ==
    LET n == CASE width = 16 -> 6 [] width = 8 -> 3 [] width = 6 -> 2
        n2 == IF width = 8 THEN 0 ELSE 1
        size == IF width = 16 THEN 16 ELSE 8
        tap(j) == IF j \in -n2 .. n2 THEN 2 ELSE 1
    IN IF i \notin -n .. n - 1 THEN s[i]
       ELSE (SumFunction([j \in -n .. n |-> tap(j) * s[Clip(i + j, -n - 1, n)]]) + size \div 2) \div size
\* Its narrow filter works on samples as signed bytes.
FormatNarrow(s, hev, i) ==
    LET v(k) == s[k] - 128
        f == Signed8((IF hev THEN Signed8(v(-2) - v(1)) ELSE 0) + 3 * (v(0) - v(-1)))
        f1 == Signed8(f + 4) \div 8
        f3 == (f1 + 1) \div 2
    IN CASE i = -1 -> Signed8(v(-1) + (Signed8(f + 3) \div 8)) + 128
         [] i = 0 -> Signed8(v(0) - f1) + 128
         [] i = -2 /\ ~hev -> Signed8(v(-2) + f3) + 128
         [] i = 1 /\ ~hev -> Signed8(v(1) - f3) + 128
         [] OTHER -> s[i]
FormatFilter(e, s, i) ==
    LET hev == \E k \in {-2, 1} : s[k] - s[IF k < 0 THEN -1 ELSE 0] \notin -(e.level \div 16) .. e.level \div 16
        flat == [k \in 1 .. Lesser(e.before, e.after) - 1 |-> s[-k - 1] - s[-1] \in -1 .. 1 /\ s[k] - s[0] \in -1 .. 1]
        near == IF e.width >= 8 THEN 3 ELSE 2
    IN IF ~Smooth(e, s) THEN s[i]
       ELSE IF e.width = 4 \/ ~(\A k \in 1 .. near : flat[k]) THEN FormatNarrow(s, hev, i)
       ELSE IF e.width = 16 /\ ~(\A k \in 4 .. 6 : flat[k]) THEN FormatMean(8, s, i)
       ELSE FormatMean(e.width, s, i)
AtEdge(e, s) ==
    e.width # 0 => LET filtered == LoopFilter(e, s) IN \A i \in DOMAIN s : filtered[i] = FormatFilter(e, s, i)

(* With the width chosen for the samples there are, the deblocking filter     *)
(* reads no sample beyond them, and what its unrolled sums make of each       *)
(* sample is what the format's one formula says.                              *)
DeblockAsDefined ==
    input.kind = "edge" =>
      AtEdge([input EXCEPT !.width = SafeWidth(@, input.before, input.after)], input.samples)

\* Any angle, in units of pi / 128.
Cosine(k) == LET a == k % 256 IN IF a <= 64 THEN C(a) ELSE IF a <= 128 THEN -C(128 - a) ELSE IF a <= 192 THEN -C(a - 128) ELSE C(256 - a)
\* sin(k * pi / 9) times two thirds of the root of two.
Ninth == <<0, 1321, 2482, 3344, 3803, 3803, 3344, 2482, 1321>>
Basis(type, n, i, k) ==
    CASE type = "DCT" -> IF k = 0 THEN 2896 ELSE Cosine((64 \div n) * (2 * i + 1) * k)
      [] type = "ADST" /\ n = 4 -> LET a == ((i + 1) * (2 * k + 1)) % 18 IN IF a < 9 THEN At(Ninth, a) ELSE -At(Ninth, a - 9)
      [] type = "ADST" -> Cosine(64 - (32 \div n) * (2 * i + 1) * (2 * k + 1))
      [] type = "IDENTITY" -> IF i # k THEN 0 ELSE CASE n = 4 -> 5793 [] n = 8 -> 8192 [] n = 16 -> 11585 [] n = 32 -> 16384
\* Half a unit is lost at each rotation on the way of each input.
Slack(n) == CASE n <= 8 -> 2 [] n = 16 -> 4 [] n = 32 -> 5 [] n = 64 -> 7
NearBasis(u, y) ==
    \A i \in 0 .. u.n - 1 :
      At(y, i) - Round12(SumFunction([k \in 0 .. u.n - 1 |-> At(u.x, k) * Basis(u.type, u.n, i, k)])) \in -Slack(u.n) .. Slack(u.n)

(* Each unrolled inverse transform is the sum of cosines (sines) it stands    *)
(* for, but for the roundings on the way: no rotation has a wrong angle, no   *)
(* sum a wrong sign, and no output is in another's place.                     *)
KernelsAsDefined == input.kind = "vector" => NearBasis(input, Kernel(input.type, input.x, input.n))

Coded(u, rows) ==
    [w |-> u.n, h |-> u.n, types |-> <<"DCT", "DCT">>, pred |-> [i \in 1 .. u.n * u.n |-> u.pred],
     coeff |-> [i \in 0 .. u.n * u.n - 1 |-> At(At(rows, i % u.n), i \div u.n)]]
ItsEob(b) == b @@ [eob |-> Max({0} \cup {p \in 0 .. b.w * b.h - 1 : b.coeff[CoeffIndex(b, p)] # 0})]
SameAs(u, coder, decoder) ==
    /\ coder = decoder
    /\ \A i \in DOMAIN u.samples : coder[i] - u.samples[i] \in -1 .. 1
RestoredFrom(u, b) == SameAs(u, ReconstructDCTPixels(b), ReconBlock(b))

(* The decoder, which transforms the rows up to the last one that can have a  *)
(* coefficient, and adds one value everywhere when there is only the first,   *)
(* makes the same samples as a transform of all rows, which is what the       *)
(* encoder takes for its reference; and a residual that is transformed and    *)
(* not quantized comes back but for one.                                      *)
RestoredAlike ==
    /\ input.kind = "block" => ReconBlock(input) = ReconstructDCTPixels(input)
    /\ input.kind = "samples" =>
         RestoredFrom(input, ItsEob(Coded(input, FwdDCT([i \in DOMAIN input.samples |-> input.samples[i] - input.pred], input.n))))

\* The line in a direction, of those that make up a block, that a sample is on:
\* two steps of the filter's taps further is the same line.
LineThrough(step, x, y) ==
    (y - (IF step[2] % 2 # 0 THEN y % 2 ELSE 0)) * step[2] - (x - (IF step[1] % 2 # 0 THEN x % 2 ELSE 0)) * step[1]
LinesOf(step) ==
    {{i \in 0 .. 63 : LineThrough(step, i % 8, i \div 8) = LineThrough(step, j % 8, j \div 8)} : j \in 0 .. 63}
DirectionLines == [d \in 0 .. 7 |-> LinesOf(At(Directions, d + 2)[2])]
FormatDirection(img) ==
    FirstBest(Vector(8, LAMBDA d : FoldSet(LAMBDA line, cost : cost + Weighted(SumAt(img, line), 840 \div Cardinality(line)), 0, DirectionLines[d])))

FormatConstrain(diff, strength, damping) ==
    LET size == Max({diff, -diff})
    IN IF strength = 0 THEN 0
       ELSE (IF diff < 0 THEN -1 ELSE 1) * Clip(strength - (size \div 2^Max({0, damping - FloorLog2(strength)})), 0, size)
FormatTaps(pri, sec, dir) ==
    {[step |-> At(Directions, 2 + ((dir + t) % 8))[k], side |-> side, strength |-> IF t = 0 THEN pri ELSE sec,
      weight |-> IF t # 0 THEN 3 - k ELSE IF pri % 2 = 1 THEN 3 ELSE 6 - 2 * k] : t \in {0, 2, 6}, k \in {1, 2}, side \in {-1, 1}}
TapAt(plane, tap, x, y) == plane[y + tap.side * tap.step[1]][x + tap.side * tap.step[2]]
FormatFiltered(plane, px, x, y, damping, taps) ==
    Clip(Moved(px, MapThenSumSet(LAMBDA t : t.weight * FormatConstrain(TapAt(plane, t, x, y) - px, t.strength, damping), taps)),
         Min({px} \cup {TapAt(plane, t, x, y) : t \in taps}), Max({px} \cup {TapAt(plane, t, x, y) : t \in taps}))
\* Only those taps count that have a strength and are inside the picture.
Effective(p, taps, x, y) ==
    {t \in taps : t.strength # 0 /\ x + t.side * t.step[2] \in 1 .. p.w /\ y + t.side * t.step[1] \in 1 .. p.h}
FormatInBlock(f, p, plane, pri, sec, found, x, y) ==
    FormatFiltered(plane, plane[y][x], x, y, f.damping - (IF p.luma THEN 0 ELSE 1),
        Effective(p, FormatTaps(IF p.luma THEN AdjustCDEFStrength(pri, found.variance) ELSE pri, sec, IF pri = 0 THEN 0 ELSE found.dir), x, y))
FormatSample(f, p, plane, found, strength, x, y) ==
    IF \A b \in {b \in f.blocks : b.x \div 8 = (x - 1) \div p.n /\ b.y \div 8 = (y - 1) \div p.n} : b.skip THEN plane[y][x]
    ELSE FormatInBlock(f, p, plane, strength \div 4, SecStrength(strength), found[<<(x - 1) \div p.n, (y - 1) \div p.n>>], x, y)
FormatPlane(f, p, plane, found) ==
    [y \in 1 .. p.h |-> [x \in 1 .. p.w |-> FormatSample(f, p, plane, found, Strength(f, p, Preset(f, p, x - 1, y - 1)), x, y)]]
FormatCDEF(f, found) ==
    <<FormatPlane(f, LumaPass(f), f.planes[1], found)>>
    \o [k \in 1 .. 2 |-> FormatPlane(f, ChromaPass(f), f.planes[k + 1], found)]
FrameDirections(f) ==
    [c \in (0 .. f.w \div 8 - 1) \X (0 .. f.h \div 8 - 1) |->
        FormatDirection(Vector(64, LAMBDA i : f.planes[1][8 * c[2] + i \div 8 + 1][8 * c[1] + (i % 8) + 1] - 128))]

(* The direction of a block is that of the lines of samples with the highest  *)
(* energy, the lines being those the filter's taps follow; and a picture      *)
(* filtered block by block in place, from stripes that keep two unfiltered    *)
(* rows, with clipping left out for one strength alone, is what the format    *)
(* makes of the whole picture before any filtering.                           *)
CdefAsDefined ==
    /\ input.kind = "direction" => FindDir(input.img) = FormatDirection(input.img)
    /\ input.kind = "frame" => ApplyCDEF(input, input.planes) = FormatCDEF(input, FrameDirections(input))

(* The format's view of a plane from one of its rows: the rows of the same    *)
(* stripe, and on each side two rows as they were before the directional      *)
(* filter, which stand for all rows further away.                             *)
StripeRow(r, top, bottom, y) ==
    CASE y < top -> r.boundary[Max({top - 2, y}) + 1]
      [] y > bottom -> r.boundary[Lesser(bottom + 2, y) + 1]
      [] OTHER -> r.src[y + 1]
StripeTop(r, y) == (64 * ((2^r.ssV * y + 8) \div 64) - 8) \div 2^r.ssV
FormatRow(r, y, at) ==
    StripeRow(r, StripeTop(r, y), StripeTop(r, y) + 64 \div 2^r.ssV - 1, Clip(at, 0, Len(r.src) - 1))

\* How much noise the wide and the narrow box of each set allow; zero is none.
FormatSets ==
    <<<<12, 4>>, <<15, 6>>, <<18, 8>>, <<21, 9>>, <<24, 10>>, <<29, 11>>, <<36, 12>>, <<45, 13>>, <<56, 14>>, <<68, 15>>,
      <<0, 5>>, <<0, 8>>, <<0, 11>>, <<0, 14>>, <<30, 0>>, <<75, 0>>>>
FormatShare(z) == IF z = 255 THEN 256 ELSE IF z = 0 THEN 1 ELSE (256 * z + z \div 2) \div (z + 1)
\* A sample's own share and that of the mean of n samples around it.
FormatMixed(share, n, sum, s) == share * s + ((256 - share) * sum * ((2^12 + n \div 2) \div n) + 2^11) \div 2^12
FormatStrength(n, eps) == (2^20 + (n * n * eps) \div 2) \div (n * n * eps)
FormatBox(rows, x, reach, n, eps, s) ==
    LET sum == OfBox(rows, x, reach, LAMBDA v : v)
    IN FormatMixed(FormatShare(Noise(n * OfBox(rows, x, reach, LAMBDA v : v * v) - sum * sum, FormatStrength(n, eps))), n, sum, s)
FormatWeight(reach, y, o) ==
    CASE reach = 1 -> IF 0 \in {o[1], o[2]} THEN 4 ELSE 3
      [] (y + o[2]) % 2 = 0 -> 0
      [] OTHER -> IF o[1] = 0 THEN 6 ELSE 5
FormatProjection(r, x, y, reach, eps, s) ==
    LET bits == IF reach = 2 /\ y % 2 = 1 THEN 8 ELSE 9
        boxes == {o \in (-1 .. 1) \X (-1 .. 1) : FormatWeight(reach, y, o) # 0}
        rows(at) == Vector(2 * reach + 1, LAMBDA i : FormatRow(r, y, (at - reach) + i))
    IN (MapThenSumSet(LAMBDA o : FormatWeight(reach, y, o)
            * FormatBox(rows(y + o[2]), x + o[1], reach, (2 * reach + 1) * (2 * reach + 1), eps, s), boxes) + 2^(bits - 1)) \div 2^bits
FormatGuided(r, u, x, y, s) ==
    LET sets == At(FormatSets, u.index)
        part(i) == IF sets[i] = 0 THEN 16 * s ELSE FormatProjection(r, x, y, 3 - i, sets[i], s)
    IN (16 * s * u.weights[2] + u.weights[1] * part(1) + (128 - u.weights[1] - u.weights[2]) * part(2) + 2^10) \div 2^11
FormatTap(filter, t) ==
    IF t = 0 THEN 128 - 2 * (filter[1] + filter[2] + filter[3]) ELSE filter[4 - Max({t, -t})]
FormatAcross(row, x, filter) ==
    Clip((MapThenSumSet(LAMBDA t : FormatTap(filter, t) * InRow(row, x + t), -3 .. 3) + 4) \div 8, -2048, 6143)
FormatWiener(r, u, x, y) ==
    (MapThenSumSet(LAMBDA t : FormatTap(u.filterV, t) * FormatAcross(FormatRow(r, y, y + t), x, u.filterH), -3 .. 3) + 2^10) \div 2^11
FormatIn(r, u, x, y) ==
    Clip(IF u.type = "WIENER" THEN FormatWiener(r, u, x, y) ELSE FormatGuided(r, u, x, y, r.src[y + 1][x + 1]), 0, 255)
FormatRestored(r) ==
    [y \in DOMAIN r.src |-> [x \in DOMAIN r.src[y] |->
        FormatIn(r, CHOOSE u \in Range(r.units) : x - 1 \in u.x .. u.x + u.w - 1 /\ y - 1 \in u.y .. u.y + u.h - 1, x - 1, y - 1)]]

(* Restoring each unit from a copy of the plane, and then once more the rows  *)
(* at the stripe boundaries from a copy with the rows across replaced, is     *)
(* what the format makes of each stripe by itself, where no row of another    *)
(* stripe is seen as the directional filter left it; and the tables are those *)
(* the format's formulas give.                                                *)
RestorationAsDefined ==
    input.kind = "restoration" =>
      ApplyRestoration(input.src, input.boundary, input.ssV, input.units) = FormatRestored(input)

\* The block of an input: it starts at a side it has no neighbour on.
RoomFor(size, room) == IF room < 0 THEN -4 * (size \div 8) ELSE 4 * room
PlacedBlock(u) ==
    LET x == IF u.a.haveLeft THEN 8 ELSE 0
        y == IF u.a.haveTop THEN 4 ELSE 0
    IN [w |-> u.w, h |-> u.h, mode |-> u.mode, delta |-> u.delta, filter |-> u.filter, x |-> x, y |-> y,
        haveTop |-> u.a.haveTop, haveLeft |-> u.a.haveLeft, edgeFilter |-> u.a.edgeFilter, smooth |-> u.a.smooth,
        topRight |-> u.a.further, bottomLeft |-> u.a.further,
        plane |-> FramePlane(x + u.w + RoomFor(u.w, u.a.room), y + u.h + RoomFor(u.h, u.a.room), 1 + u.delta, 6)]
EncoderPredicts(b) == b.filter < 0 /\ (b.mode = "DC" \/ (b.haveTop /\ b.haveLeft /\ b.mode \in Undirected \cup {"V", "H"} /\ b.delta = 0))
WhollyIn(b) == b.x + b.w <= Len(b.plane[1]) /\ b.y + b.h <= Len(b.plane)
AsPredicted(b, pred) ==
    /\ AsDefined(b, pred, FormatIntra(b))
    /\ EncoderPredicts(b) /\ WhollyIn(b) => EncoderIntra(b) = pred
CflAsDefined(u, b, luma) ==
    AsDefined(b, PredictCfl(b, BuildCflAc(luma, 8, 4, b.w, b.h, u.ss[1], u.ss[2]), u.alpha),
              FormatCfl(b, luma, 8, 4, u.ss[1], u.ss[2], u.alpha))

MovedAsDefined(u) ==
    LET pred == FormatInter(u.b, Unscaled)
        coded == [p \in {p \in DOMAIN pred : p[1] < u.room[1] /\ p[2] < u.room[2]} |-> pred[p]]
    IN /\ SameSamples(CopyInterPredict(u.b, u.room), coded)
       /\ SameSamples(MakeInterPrediction(u.b), pred)
ScaledAsDefined(u) ==
    SameSamples(ScaledPrediction(u.b, u.sizes), FormatInter(u.b, <<Scale(u.sizes[1][1], u.sizes[2][1]), Scale(u.sizes[1][2], u.sizes[2][2])>>))
ChromaOf(b, ss) ==
    [b EXCEPT !.x = @ \div 2^ss[1], !.y = @ \div 2^ss[2], !.w = @ \div 2^ss[1], !.h = @ \div 2^ss[2], !.ss = ss]
HalfOf(u, ss) == [u EXCEPT !.w = @ \div 2^ss[1], !.h = @ \div 2^ss[2]]
WholeSamples(b) == \A mv \in {b.mv, b.mv2} : \A i \in 1 .. 2 : mv[i] % 2^(3 + b.ss[i]) = 0
FromTwo(b, pred, mask) ==
    /\ SameSamples(pred, FormatCompound(b, mask))
    /\ b.type = "AVERAGE" /\ b.filters = <<"REGULAR", "REGULAR">> /\ WholeSamples(b) => EncoderCompoundPrediction(b) = pred
FromTwoPictures(b, c, mask) ==
    \A k \in 1 .. 2 : FromTwo(<<b, c>>[k], IF k = 1 THEN CompoundLuma(b) ELSE CompoundChroma(b, c),
                              IF k = 1 THEN mask ELSE FormatChromaMask(mask, c.w, c.h, c.ss))
CompoundAsDefined(b, c) == FromTwoPictures(b, c, FormatLumaMask(b))
WeightsAsDefined(now, bits) ==
    \A first \in 0 .. 2^bits - 1, second \in 0 .. 2^bits - 1 :
      CompoundJointWeight(<<first, second, now>>, bits) = FormatJointWeight(<<first, second, now>>, bits)
WedgeAsDefined(u) == SameSamples(WedgeMask(u.w, u.h, u.index), FormatWedge(u.w, u.h, u.index))
InterIntraAsDefined(u, b, c) ==
    LET dst == FramePlane(b.w, b.h, -1, 6)
        before == [p \in (0 .. b.w - 1) \X (0 .. b.h - 1) |-> dst[p[2] + 1][p[1] + 1]]
        small == Vector(c.h, LAMBDA y : SubSeq(At(dst, y), 1, c.w))
        mask == IF u.wedge < 0 THEN FormatInterIntraMask(b.w, b.h, b.mode) ELSE FormatWedge(b.w, b.h, u.wedge)
        chromaMask == IF u.wedge < 0 THEN FormatInterIntraMask(c.w, c.h, c.mode) ELSE FormatChromaMask(mask, c.w, c.h, u.ss)
    IN /\ SameSamples(InterIntraLuma(b, dst, u.wedge), FormatInterIntra(before, FormatIntra(b), mask))
       /\ SameSamples(InterIntraChroma(c, small, u.wedge, u.ss), FormatInterIntra(before, FormatIntra(c), chromaMask))

OverlapAsDefined(u) ==
    SameSamples(ApplyOBMC(MakeInterPrediction(u.b), u.b, u.size4, u.above, u.left),
                FormatOverlapped(FormatInter(u.b, Unscaled), u.b, u.size4, u.above, u.left))

(* What the decoder predicts with edges gathered once, padded and clamped,    *)
(* and one kernel for each case, a mean by multiplication and a left edge     *)
(* worked on backwards, is what the format's processes give at every sample,  *)
(* whatever is there around the block; and where the encoder uses a mode in   *)
(* a block inside the picture, it predicts the same.  From other pictures,    *)
(* what it makes of a vector, of windows read straight or padded, of scaled   *)
(* positions, weights, masks and the vectors of neighbours, is what one       *)
(* process of the format gives for each sample.                               *)
PredictionAsDefined ==
    /\ input.kind = "intra" => LET b == PlacedBlock(input) IN AsPredicted(b, IntraPrediction(b))
    /\ input.kind = "cfl" => CflAsDefined(input, PlacedBlock(input.b), FramePlane(8 + 2 * input.b.w, 4 + input.b.h, 2, 6))
    /\ input.kind = "moved" => MovedAsDefined(input)
    /\ input.kind = "scaled" => ScaledAsDefined(input)
    /\ input.kind = "compound" => CompoundAsDefined(input.b, ChromaOf(input.b, input.ss))
    /\ input.kind = "hints" => WeightsAsDefined(input.now, input.bits)
    /\ input.kind = "wedge" => WedgeAsDefined(input)
    /\ input.kind = "interintra" => InterIntraAsDefined(input, PlacedBlock(input.b), PlacedBlock(HalfOf(input.b, input.ss)))
    /\ input.kind = "overlap" => OverlapAsDefined(input)
    /\ input.kind = "shared" => SameSamples(ChromaPrediction(input.b, input.size4, input.around), FormatChroma(input.b, input.size4, input.around))
=============================================================================
