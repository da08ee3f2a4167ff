----------------------------- MODULE BlockWalk ------------------------------
(* How a tile is walked: superblocks in raster order, the partition tree of   *)
(* each, its blocks and their transform blocks (internal/tile/decoder.go),    *)
(* and the arrays of internal/tile/framestate.go in which a block leaves what *)
(* its right and lower neighbours read.  Nothing here decodes a sample: what  *)
(* is modelled is where every block and transform lies, in which order they   *)
(* come, and which neighbours each of them is told it has.                    *)
(* Lengths are in units of 4 samples, of luma or of chroma.                   *)
EXTENDS Integers, Sequences, FiniteSets, SequencesExt

CONSTANTS Frames   \* the frames a run decodes: records of the fields below

Ceil(a, b) == (a + b - 1) \div b

(* width, height: luma samples; sb: superblock size in units (16 or 32);      *)
(* ssH, ssV: chroma subsampling; cols, rows: where tile columns and rows      *)
(* start, in superblocks, with the end as the last entry; lr: the restoration *)
(* unit of luma and of chroma, in samples of the plane, as parseLR reads it:  *)
(* a superblock or more, and in 4:2:0 chroma may have half of it.             *)
TileStarts(bounds, total) ==
    /\ bounds \in Seq(Nat) /\ Len(bounds) > 1
    /\ bounds[1] = 0 /\ bounds[Len(bounds)] = total
    /\ \A i, j \in 1 .. Len(bounds) : i < j => bounds[i] < bounds[j]

ASSUME FramesAssumption ==
    \A f \in Frames : /\ f.width \in Nat \ {0} /\ f.height \in Nat \ {0}
                      /\ f.sb \in {16, 32}
                      /\ <<f.ssH, f.ssV>> \in {<<0, 0>>, <<1, 0>>, <<1, 1>>}
                      /\ TileStarts(f.cols, Ceil(f.width, 4 * f.sb))
                      /\ TileStarts(f.rows, Ceil(f.height, 4 * f.sb))
                      /\ f.lr[1] \in {64, 128, 256} /\ f.lr[1] >= 4 * f.sb
                      /\ f.lr[2] = f.lr[1] \/ (f.ssV = 1 /\ f.lr[2] = f.lr[1] \div 2)

VARIABLES frame,    \* the frame being decoded
          at,       \* the superblock being decoded: its tile (row, col) and its place
          todo,     \* nodes and blocks still to decode in this superblock, in order
          done,     \* plane (0 luma, 1 chroma) -> the cells reconstructed
          above,    \* plane -> column -> lower edge of the block that wrote its entry
          left,     \* plane -> row -> right edge of the block that wrote its entry
          cdef,     \* 64x64 regions whose CDEF index was read
          coded,    \* history: 64x64 regions that hold a block with coefficients
          units     \* the restoration units, in the order they were read

vars == <<frame, at, todo, done, above, left, cdef, coded, units>>

Planes == {0, 1}
Lower(a, b) == IF a < b THEN a ELSE b

SsH(p) == IF p = 0 THEN 0 ELSE frame.ssH
SsV(p) == IF p = 0 THEN 0 ELSE frame.ssV
\* 1 << ss, for a shift of 0 or 1: luma units to a unit of the plane.
StepH(p) == 1 + SsH(p)
StepV(p) == 1 + SsV(p)

(* The coded grid of a plane covers whole 8x8 luma blocks (syntaxPlaneSize).  *)
GridW(p) == (2 * ((frame.width + 7) \div 8)) \div StepH(p)
GridH(p) == (2 * ((frame.height + 7) \div 8)) \div StepV(p)

(* How much of the context arrays is used: for luma the coded grid, for       *)
(* chroma the visible plane (SetSubsampling sets CW4 and CH4 from it).        *)
EdgeW(p) == IF p = 0 THEN GridW(0) ELSE Ceil(Ceil(frame.width, StepH(1)), 4)
EdgeH(p) == IF p = 0 THEN GridH(0) ELSE Ceil(Ceil(frame.height, StepV(1)), 4)

Cells(r) == {<<x, y>> : x \in r.x .. r.x + r.w - 1, y \in r.y .. r.y + r.h - 1}
Grid(p) == [x |-> 0, y |-> 0, w |-> GridW(p), h |-> GridH(p)]
Clipped(p, r) == Cells(r) \cap Cells(Grid(p))

-----------------------------------------------------------------------------
(* The neighbours above-right and below-left that a block is told are there.  *)

Layouts == {444, 422, 420}
TopRight == {<<"right", l>> : l \in Layouts}
BottomLeft == {<<"bottom", l>> : l \in Layouts}
AllEdges == TopRight \cup BottomLeft

\* What a partition node knows: has it an above-right, a below-left neighbour?
Flags(n) == (IF n.right THEN TopRight ELSE {}) \cup (IF n.bottom THEN BottomLeft ELSE {})

Size(bl) == <<32, 16, 8, 4, 2>>[bl + 1]     \* 128 .. 8 samples
Half(n) == Size(n.bl) \div 2

MutSplitChild(n, i) ==
    [x |-> n.x + Half(n) * (i % 2), y |-> n.y + Half(n) * (i \div 2), bl |-> n.bl + 1,
     right |-> i # 3, bottom |-> i = 0 \/ (i = 2 /\ n.bottom)]
SplitChild(n, i) ==
    [x |-> n.x + Half(n) * (i % 2), y |-> n.y + Half(n) * (i \div 2), bl |-> n.bl + 1,
     right |-> ~(i = 3 \/ (i = 1 /\ ~n.right)),
     bottom |-> i = 0 \/ (i = 2 /\ n.bottom)]

HFlags(n, i) == IF i = 0 THEN Flags(n) \cup BottomLeft
                ELSE Flags(n) \cap (BottomLeft \cup (IF n.bl = 4 THEN {<<"right", 420>>} ELSE {}))
VFlags(n, i) == IF i = 0 THEN Flags(n) \cup TopRight
                ELSE Flags(n) \cap (TopRight \cup (IF n.bl = 4 THEN {<<"bottom", 420>>, <<"bottom", 422>>}
                                                               ELSE {}))

Block(n, x, y, w, h, flags) ==
    [x |-> n.x + x, y |-> n.y + y, w |-> w, h |-> h, flags |-> flags]

\* Three blocks: one half of the node whole, the other cut in two.
TBlocks(n, part) ==
    LET s == Size(n.bl)
        k == Half(n)
    IN CASE part = "TTop" -> << Block(n, 0, 0, k, k, AllEdges), Block(n, k, 0, k, k, VFlags(n, 1)),
                                Block(n, 0, k, s, k, HFlags(n, 1)) >>
         [] part = "TBottom" -> << Block(n, 0, 0, s, k, HFlags(n, 0)), Block(n, 0, k, k, k, VFlags(n, 0)),
                                   Block(n, k, k, k, k, {}) >>
         [] part = "TLeft" -> << Block(n, 0, 0, k, k, AllEdges), Block(n, 0, k, k, k, HFlags(n, 1)),
                                 Block(n, k, 0, k, s, VFlags(n, 1)) >>
         [] part = "TRight" -> << Block(n, 0, 0, k, s, VFlags(n, 0)), Block(n, k, 0, k, k, HFlags(n, 0)),
                                  Block(n, k, k, k, k, {}) >>

(* The blocks of a node whose partition leaves no smaller nodes.              *)
Blocks(n, part) ==
    LET s == Size(n.bl)
        k == Half(n)
        q == s \div 4
        mid4 == IF n.bl = 3 THEN Flags(n) ELSE {}
    IN CASE part = "None" -> << Block(n, 0, 0, s, s, Flags(n)) >>
         [] part = "H" -> << Block(n, 0, 0, s, k, HFlags(n, 0)), Block(n, 0, k, s, k, HFlags(n, 1)) >>
         [] part = "V" -> << Block(n, 0, 0, k, s, VFlags(n, 0)), Block(n, k, 0, k, s, VFlags(n, 1)) >>
         [] part = "Split" ->      \* of an 8x8 node, into 4x4 blocks
              << Block(n, 0, 0, 1, 1, AllEdges),
                 Block(n, 1, 0, 1, 1, (Flags(n) \cap TopRight) \cup {<<"bottom", 422>>}),
                 Block(n, 0, 1, 1, 1, Flags(n) \cup {<<"right", 444>>}),
                 Block(n, 1, 1, 1, 1, Flags(n) \cap {<<"right", 420>>, <<"bottom", 420>>, <<"bottom", 422>>}) >>
         [] part \in {"TTop", "TBottom", "TLeft", "TRight"} -> TBlocks(n, part)
         [] part = "H4" -> << Block(n, 0, 0, s, q, HFlags(n, 0)),
                              Block(n, 0, q, s, q, BottomLeft \cup (mid4 \cap {<<"right", 420>>})),
                              Block(n, 0, 2 * q, s, q, BottomLeft),
                              Block(n, 0, 3 * q, s, q, HFlags(n, 1)) >>
         [] part = "V4" -> << Block(n, 0, 0, q, s, VFlags(n, 0)),
                              Block(n, q, 0, q, s, TopRight \cup (mid4 \cap {<<"bottom", 420>>, <<"bottom", 422>>})),
                              Block(n, 2 * q, 0, q, s, TopRight),
                              Block(n, 3 * q, 0, q, s, VFlags(n, 1)) >>

(* The partitions a node can have.  Past the right or the lower edge of the   *)
(* grid one bit chooses between the cut and a split, or nothing is read.      *)
Partitions(n) ==
    LET hasRight == n.x + Half(n) < GridW(0)
        hasBottom == n.y + Half(n) < GridH(0)
    IN IF hasRight /\ hasBottom
       THEN {"None", "H", "V", "Split"}
              \cup (IF n.bl = 4 THEN {} ELSE {"TTop", "TBottom", "TLeft", "TRight"})
              \cup (IF n.bl \in {0, 4} THEN {} ELSE {"H4", "V4"})
       ELSE IF hasRight THEN {"H", "Split"}
       ELSE IF hasBottom THEN {"V", "Split"}
       ELSE {"Split"}

\* What starts outside the grid is not decoded.
Starts(b) == b.x < GridW(0) /\ b.y < GridH(0)

(* alPartCtx: what a partition leaves for the nodes below and to the right.   *)
(* Entry 4 - bl, read as a bit, says: narrower (lower) than a node of bl.     *)
MutPartitionEntry(bl, part, side) ==
    LET whole == {"None"} \cup (IF side = "above" THEN {"H", "H4"} ELSE {"V", "V4"})
        quarter == IF side = "above" THEN {"V4"} ELSE {"H4"}
        ones == bl + (IF part \in whole THEN 0 ELSE IF part \in quarter THEN 2 ELSE 1)
    IN [b \in 0 .. 4 |-> b >= 5 - ones]
PartitionEntry(bl, part, side) ==
    LET whole == {"None"} \cup (IF side = "above" THEN {"H", "H4", "TTop"} ELSE {"V", "V4", "TLeft"})
        quarter == IF side = "above" THEN {"V4"} ELSE {"H4"}
        ones == bl + (IF part \in whole THEN 0 ELSE IF part \in quarter THEN 2 ELSE 1)
    IN [b \in 0 .. 4 |-> b >= 5 - ones]

-----------------------------------------------------------------------------
(* A block in the planes, and its transform blocks.                           *)

MutHasChroma(b) == b.w > frame.ssH \/ b.x % 2 = 1
\* Of luma blocks that share a 4x4 chroma block, the last one has it.
HasChroma(b) == /\ b.w > frame.ssH \/ b.x % 2 = 1
                /\ b.h > frame.ssV \/ b.y % 2 = 1

(* The samples of a plane that belong to a luma rectangle (chromaRect): a 4x4 *)
(* chroma block covers up to four luma blocks and comes with the last.        *)
Rect(p, r) == [x |-> r.x \div StepH(p), y |-> r.y \div StepV(p),
               w |-> (r.w + SsH(p)) \div StepH(p), h |-> (r.h + SsV(p)) \div StepV(p)]

InPlane(p, b) == p = 0 \/ HasChroma(b)

(* Blocks wider or higher than 64 samples are reconstructed region by region. *)
Regions(b) ==
    LET across == Ceil(b.w, 16)
    IN [i \in 1 .. across * Ceil(b.h, 16) |->
          LET x == 16 * ((i - 1) % across)
              y == 16 * ((i - 1) \div across)
          IN [x |-> b.x + x, y |-> b.y + y, w |-> Lower(16, b.w - x), h |-> Lower(16, b.h - y)]]

Halved(t) == IF t.w > t.h THEN [t EXCEPT !.w = @ \div 2]
             ELSE IF t.h > t.w THEN [t EXCEPT !.h = @ \div 2]
             ELSE IF t.w = 1 THEN t ELSE [w |-> t.w \div 2, h |-> t.h \div 2]

(* Luma transforms are the largest that fits, or halved once or twice; chroma *)
(* has the largest up to 32x32; a lossless block has 4x4 everywhere.          *)
TxSizes(p, b) ==
    LET r == Rect(p, b)
        limit == IF p = 0 THEN 16 ELSE 8
        largest == [w |-> Lower(r.w, limit), h |-> Lower(r.h, limit)]
    IN {largest, [w |-> 1, h |-> 1]}
         \cup (IF p = 0 THEN {Halved(largest), Halved(Halved(largest))} ELSE {})

(* transformIntraEdgeFlags: which neighbours a transform at (x, y) of a       *)
(* bw x bh area has, given what the area has.                                 *)
TransformEdge(bw, bh, x, y, t, side, has) ==
    LET initX == x - (x % 16)
        initY == y - (y % 16)
        subTopRight == initX + 16 < bw \/ (initY = 0 /\ has)
        subBottomLeft == initX = 0 /\ (initY + 16 < bh \/ has)
    IN IF side = "right"
       THEN ~((y > initY \/ ~subTopRight) /\ x + t.w >= Lower(bw, initX + 16))
       ELSE ~(x > initX \/ (~subBottomLeft /\ y + t.h >= Lower(bh, initY + 16)))

\* planeIntraEdgeFlags: the layout whose flag counts in a plane.
Layout(p) == IF p = 0 \/ frame.ssH = 0 THEN 444 ELSE IF frame.ssV = 0 THEN 422 ELSE 420

(* The cells of plane p that are there when region k of block b comes to its  *)
(* transform at (x, y): earlier blocks, earlier regions, and in this region   *)
(* the transforms above and to the left.                                      *)
ThereBefore(p, b, k, x, y, t) ==
    LET r == Rect(p, Regions(b)[k])
    IN done[p] \cup (UNION {Clipped(p, Rect(p, Regions(b)[j])) : j \in 1 .. k - 1})
         \cup Clipped(p, [x |-> r.x, y |-> r.y, w |-> r.w, h |-> y])
         \cup Clipped(p, [x |-> r.x, y |-> r.y + y, w |-> x, h |-> t.h])

-----------------------------------------------------------------------------
(* Superblocks, tile by tile, and in a tile row by row.                       *)

\* A superblock, of a tile; and the first of a tile.
Place(row, col, x, y) == [row |-> row, col |-> col, x |-> x, y |-> y]
TileStart(row, col) == Place(row, col, frame.cols[col], frame.rows[row])

MoreColumns(s) == s.x + 1 < frame.cols[s.col + 1]
MoreRows(s) == s.y + 1 < frame.rows[s.row + 1]
Following(s) ==
    IF MoreColumns(s) THEN Place(s.row, s.col, s.x + 1, s.y)
    ELSE IF MoreRows(s) THEN Place(s.row, s.col, frame.cols[s.col], s.y + 1)
    ELSE IF s.col + 1 < Len(frame.cols) THEN TileStart(s.row, s.col + 1)
    ELSE TileStart(s.row + 1, 1)

LastSuperblock(s) ==
    /\ ~MoreColumns(s) /\ ~MoreRows(s)
    /\ s.col + 1 = Len(frame.cols) /\ s.row + 1 = Len(frame.rows)

Tile == [x0 |-> frame.sb * frame.cols[at.col], x1 |-> frame.sb * frame.cols[at.col + 1],
         y0 |-> frame.sb * frame.rows[at.row], y1 |-> frame.sb * frame.rows[at.row + 1]]

\* The node a superblock's partition tree starts from.
Root(s) == [x |-> frame.sb * s.x, y |-> frame.sb * s.y, bl |-> IF frame.sb = 32 THEN 0 ELSE 1,
            right |-> TRUE, bottom |-> FALSE]

-----------------------------------------------------------------------------
(* Loop restoration: a unit's parameters come with the superblock that holds  *)
(* its upper left corner.  Lengths are in samples of the plane here.          *)

PlaneW(p) == Ceil(frame.width, StepH(p))
PlaneH(p) == Ceil(frame.height, StepV(p))
UnitSize(p) == frame.lr[p + 1]
UnitCount(total, size) == IF total + size \div 2 < size THEN 1 ELSE (total + size \div 2) \div size

MutUnitStartsAt(pos, total, size) == pos < total /\ pos % size = 0
\* A last unit of less than half the size is part of the one before it.
UnitStartsAt(pos, total, size) ==
    pos < total /\ pos % size = 0 /\ (pos = 0 \/ pos + size \div 2 <= total)

UnitExtent(pos, total, size) ==
    IF pos \div size = UnitCount(total, size) - 1 THEN total - pos ELSE Lower(size, total - pos)

\* Rows of units start 8 luma rows early, and end so too but for the last.
UnitRows(pos, total, size, ssV) ==
    LET offset == 8 \div (1 + ssV)
        start == IF pos > 0 THEN pos - offset ELSE 0
        end == IF pos \div size < UnitCount(total, size) - 1 THEN pos + size - offset ELSE total
    IN [start |-> start, extent |-> end - start]

(* The unit of plane p, if there is one, that starts with the superblock in   *)
(* column x and row y.                                                        *)
UnitX(p, x) == (4 * frame.sb * x) \div StepH(p)
UnitY(p, y) == (4 * frame.sb * y) \div StepV(p)
HasUnit(p, x, y) == /\ UnitStartsAt(UnitX(p, x), PlaneW(p), UnitSize(p))
                    /\ UnitStartsAt(UnitY(p, y), PlaneH(p), UnitSize(p))
UnitAt(p, x, y) ==
    LET rows == UnitRows(UnitY(p, y), PlaneH(p), UnitSize(p), SsV(p))
    IN [plane |-> p, x |-> UnitX(p, x), w |-> UnitExtent(UnitX(p, x), PlaneW(p), UnitSize(p)),
        y |-> rows.start, h |-> rows.extent]

RestorationUnits(s) ==
    LET unit(p) == IF HasUnit(p, s.x, s.y) THEN << UnitAt(p, s.x, s.y) >> ELSE <<>>
    IN unit(0) \o unit(1)

-----------------------------------------------------------------------------
(* The context arrays.  An entry that was reset says what the edge of the     *)
(* tile says: no neighbour.                                                   *)

ResetTileContexts(x, y) ==
    [above |-> [p \in Planes |-> [c \in 0 .. GridW(p) - 1 |-> y \div StepV(p)]],
     left |-> [p \in Planes |-> [r \in 0 .. GridH(p) - 1 |-> x \div StepH(p)]]]
NewFrameState == ResetTileContexts(0, 0)

\* A new frame state, and its first superblock.
Init ==
    /\ frame \in Frames
    /\ at = TileStart(1, 1)
    /\ todo = << Root(at) >> /\ units = RestorationUnits(at)
    /\ done = [p \in Planes |-> {}]
    /\ above = NewFrameState.above
    /\ left = NewFrameState.left
    /\ cdef = {} /\ coded = {}

(* The next superblock; the first of a tile resets the context arrays.  What  *)
(* is kept of the CDEF indices is those of the superblock being decoded.      *)
StartSuperblock ==
    /\ todo = <<>> /\ ~LastSuperblock(at)
    /\ at' = Following(at)
    /\ todo' = << Root(at') >>
    /\ units' = units \o RestorationUnits(at')
    /\ LET first == at' = TileStart(at'.row, at'.col)
           reset == ResetTileContexts(Root(at').x, Root(at').y)
       IN /\ above' = IF first THEN reset.above ELSE above
          /\ left' = IF first THEN reset.left ELSE left
    /\ cdef' = {} /\ coded' = {}
    /\ UNCHANGED <<frame, done>>

IsNode(item) == "bl" \in DOMAIN item

(* decodePartition and decodeBlock return at once outside the grid.           *)
PassOver ==
    /\ todo # <<>> /\ ~Starts(Head(todo))
    /\ todo' = Tail(todo)
    /\ UNCHANGED <<frame, at, done, above, left, cdef, coded, units>>

\* What the node at the head gives way to: its four parts, or its blocks.
Parts(n, part) ==
    IF part = "Split" /\ n.bl < 4 THEN [i \in 1 .. 4 |-> SplitChild(n, i - 1)] ELSE Blocks(n, part)

Partition(part) ==
    /\ todo # <<>> /\ IsNode(Head(todo)) /\ Starts(Head(todo))
    /\ LET n == Head(todo)
       IN /\ part \in Partitions(n)
          /\ todo' = Parts(n, part) \o Tail(todo)
    /\ UNCHANGED <<frame, at, done, above, left, cdef, coded, units>>

\* The 64x64 regions a block touches.
Regions64(b) == {<<x, y>> : x \in b.x \div 16 .. (b.x + b.w - 1) \div 16,
                            y \in b.y \div 16 .. (b.y + b.h - 1) \div 16}

MutReadCDEFIndex(b) == cdef \cup {<<b.x \div 16, b.y \div 16>>}
\* The index is read with the first block of a region that has coefficients.
ReadCDEFIndex(b) ==
    IF <<b.x \div 16, b.y \div 16>> \in cdef THEN cdef ELSE cdef \cup Regions64(b)

MutWritten(p, b, limit, lo, n) == {i \in lo .. lo + n - 1 : i < limit}
\* The entries of an array a block writes: its own, as far as the array is used.
Written(p, b, limit, lo, n) ==
    IF InPlane(p, b) THEN {i \in lo .. lo + n - 1 : i < limit} ELSE {}

AboveAfter(b) ==
    [p \in Planes |-> LET r == Rect(p, b)
                      IN [c \in DOMAIN above[p] |->
                            IF c \in Written(p, b, EdgeW(p), r.x, r.w) THEN r.y + r.h ELSE above[p][c]]]
LeftAfter(b) ==
    [p \in Planes |-> LET r == Rect(p, b)
                      IN [c \in DOMAIN left[p] |->
                            IF c \in Written(p, b, EdgeH(p), r.y, r.h) THEN r.x + r.w ELSE left[p][c]]]

\* What the context of a cell of a block is made of.
ReadEntries(p, cell) == <<above[p][cell[1]], left[p][cell[2]]>>

(* decodeBlock: the block at the head, in every plane it has samples in.      *)
DecodeBlock(skip) ==
    /\ todo # <<>> /\ ~IsNode(Head(todo)) /\ Starts(Head(todo))
    /\ LET b == Head(todo)
       IN /\ done' = [p \in Planes |-> IF InPlane(p, b) THEN done[p] \cup Clipped(p, Rect(p, b))
                                                       ELSE done[p]]
          /\ above' = AboveAfter(b)
          /\ left' = LeftAfter(b)
          /\ cdef' = IF skip THEN cdef ELSE ReadCDEFIndex(b)
          /\ coded' = IF skip THEN coded ELSE coded \cup Regions64(b)
    /\ todo' = Tail(todo)
    /\ UNCHANGED <<frame, at, units>>

Finished == todo = <<>> /\ LastSuperblock(at)

Done == Finished /\ UNCHANGED vars

PartitionKinds == {"None", "H", "V", "Split", "TTop", "TBottom", "TLeft", "TRight", "H4", "V4"}

(* 4:2:2 has no chroma size for the halves of a vertical cut: a stream must   *)
(* not use one.                                                               *)
Valid(part) == ~(frame.ssH = 1 /\ frame.ssV = 0 /\ part \in {"V", "TLeft", "TRight", "V4"})

Next == \/ StartSuperblock
        \/ PassOver
        \/ \E part \in PartitionKinds : Valid(part) /\ Partition(part)
        \/ \E skip \in BOOLEAN : DecodeBlock(skip)
        \/ Done

Spec == Init /\ [][Next]_vars

-----------------------------------------------------------------------------
\* Properties.

PlanesOf(b) == {p \in Planes : InPlane(p, b)}
\* The block to be decoded next, if it is a block's turn.
HeadBlock ==
    IF todo = <<>> THEN {}
    ELSE IF IsNode(Head(todo)) \/ ~Starts(Head(todo)) THEN {} ELSE {Head(todo)}

Sides == {1, 2, 4, 8, 16, 32}
Node == [x : Nat, y : Nat, bl : 0 .. 4, right : BOOLEAN, bottom : BOOLEAN]
CodedBlock == [x : Nat, y : Nat, w : Sides, h : Sides, flags : SUBSET AllEdges]

(* Types: the walk is at a superblock of one of the tiles, what is decoded    *)
(* lies inside the coded grid, and every entry of the context arrays has a    *)
(* place in its plane.                                                        *)
TypeOK ==
    /\ frame \in Frames
    /\ at.row \in 1 .. Len(frame.rows) - 1 /\ at.col \in 1 .. Len(frame.cols) - 1
    /\ at.x \in Nat /\ frame.cols[at.col] <= at.x /\ at.x < frame.cols[at.col + 1]
    /\ at.y \in Nat /\ frame.rows[at.row] <= at.y /\ at.y < frame.rows[at.row + 1]
    /\ todo \in Seq(Node \cup CodedBlock)
    /\ DOMAIN done = Planes /\ \A p \in Planes : done[p] \subseteq Cells(Grid(p))
    /\ DOMAIN above = Planes /\ \A p \in Planes : above[p] \in [0 .. GridW(p) - 1 -> Nat]
    /\ DOMAIN left = Planes /\ \A p \in Planes : left[p] \in [0 .. GridH(p) - 1 -> Nat]
    /\ cdef \subseteq Nat \X Nat /\ coded \subseteq Nat \X Nat

(* The partition tree (decodePartition, tPartitionBlocks, chromaRect,         *)
(* blockHasChroma) decodes every sample of the coded grid, of luma and of     *)
(* chroma, and none twice.                                                    *)
DecodedOnce ==
    /\ \A b \in HeadBlock : \A p \in PlanesOf(b) :
          Clipped(p, Rect(p, b)) \cap done[p] = {}
    /\ Finished => \A p \in Planes : done[p] = Cells(Grid(p))

(* The part of plane p a tile covers, or the tile and what is right of it.    *)
Area(p, tile) ==
    [x0 |-> tile.x0 \div StepH(p), y0 |-> tile.y0 \div StepV(p),
     x1 |-> Lower(GridW(p), tile.x1 \div StepH(p)), y1 |-> Lower(GridH(p), tile.y1 \div StepV(p))]
WiderArea(p, tile) == [Area(p, tile) EXCEPT !.x1 = GridW(p)]

(* What a transform t at (x, y) of region k says of the neighbour beyond its  *)
(* top right or bottom left corner (side) is true, if that neighbour lies in  *)
(* the area: it has been decoded, or it has not.                              *)
EdgeRight(p, b, k, x, y, t, side, area) ==
    LET r == Rect(p, Regions(b)[k])
        cell == IF side = "right" THEN <<r.x + x + t.w, r.y + y - 1>>
                                  ELSE <<r.x + x - 1, r.y + y + t.h>>
    IN (cell[1] \in area.x0 .. area.x1 - 1 /\ cell[2] \in area.y0 .. area.y1 - 1)
         => (TransformEdge(r.w, r.h, x, y, t, side, <<side, Layout(p)>> \in b.flags)
               <=> cell \in ThereBefore(p, b, k, x, y, t))

EdgesRight(p, b, area) ==
    \A t \in TxSizes(p, b) : \A k \in 1 .. Len(Regions(b)) :
       LET r == Rect(p, Regions(b)[k])
       IN \A x \in {i \in 0 .. r.w - 1 : i % t.w = 0 /\ r.x + i < GridW(p)} :
          \A y \in {i \in 0 .. r.h - 1 : i % t.h = 0 /\ r.y + i < GridH(p)} :
          \A side \in {"right", "bottom"} : EdgeRight(p, b, k, x, y, t, side, area)

Large(b) == b.w > 16 \/ b.h > 16

(* Every transform of a block of up to 64x64 is told that it has an           *)
(* above-right (below-left) neighbour in the tile exactly when that neighbour *)
(* is already decoded: the flags that splitChild, hFlags, vFlags,             *)
(* tPartitionEdgeFlags, planeIntraEdgeFlags and transformIntraEdgeFlags hand  *)
(* down say the same as the order in which the tree is walked.                *)
EdgesAsDecoded ==
    \A b \in HeadBlock : ~Large(b) => \A p \in PlanesOf(b) : EdgesRight(p, b, Area(p, Tile))

(* The same of neighbours in the tile to the right: the samples read there    *)
(* (fillPreparedTopRightEdge stops at the edge of the plane, not of the tile) *)
(* are decoded ones.                                                          *)
EdgesAcrossTiles ==
    \A b \in HeadBlock : ~Large(b) => \A p \in PlanesOf(b) : EdgesRight(p, b, WiderArea(p, Tile))

(* The context entries a block reads, along its upper and its left edge as    *)
(* far as the arrays are used, were written by the blocks that touch that     *)
(* edge, or say that the tile ends there: none is left over from a block      *)
(* further away or from another tile.                                         *)
ContextsAdjacent ==
    \A b \in HeadBlock : \A p \in PlanesOf(b) :
       LET r == Rect(p, b)
       IN \A cell \in Clipped(p, r) :
             /\ cell[1] < EdgeW(p) => ReadEntries(p, cell)[1] = r.y
             /\ cell[2] < EdgeH(p) => ReadEntries(p, cell)[2] = r.x

(* alPartCtx: the entry a partition leaves says, for each node size, whether  *)
(* the blocks along the node's lower (right) edge are narrower (lower) than   *)
(* that size: it is what the partition context of the next nodes is made of.  *)
PartitionContextExact ==
    (todo # <<>> /\ IsNode(Head(todo)) /\ Starts(Head(todo))) =>
       LET n == Head(todo)
       IN \A part \in Partitions(n) \ (IF n.bl < 4 THEN {"Split"} ELSE {}) :
          \A b \in {c \in ToSet(Blocks(n, part)) : Starts(c)} : \A bl \in 0 .. 4 :
             /\ b.y + b.h = n.y + Size(n.bl) =>
                   (PartitionEntry(n.bl, part, "above")[4 - bl] <=> b.w < Size(bl))
             /\ b.x + b.w = n.x + Size(n.bl) =>
                   (PartitionEntry(n.bl, part, "left")[4 - bl] <=> b.h < Size(bl))

(* A 64x64 region has its CDEF index read exactly when some block in it has   *)
(* coefficients, in a 128x128 superblock too, where one block may span two or *)
(* four regions.                                                              *)
CdefIndexRead == cdef = coded

(* The restoration units read along the walk (restorationUnitStartsAt,        *)
(* restorationUnitExtent, restorationUnitYExtent) tile each plane: every      *)
(* sample has exactly one unit's parameters.                                  *)
RestorationTiles ==
    Finished => \A p \in Planes :
       LET us == {i \in 1 .. Len(units) : units[i].plane = p}
           holds(i, x, y) == /\ units[i].x <= x /\ x < units[i].x + units[i].w
                             /\ units[i].y <= y /\ y < units[i].y + units[i].h
       IN \A x \in 0 .. PlaneW(p) - 1, y \in 0 .. PlaneH(p) - 1 :
             Cardinality({i \in us : holds(i, x, y)}) = 1
=============================================================================
