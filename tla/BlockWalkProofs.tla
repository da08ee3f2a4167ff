-------------------------- MODULE BlockWalkProofs --------------------------
(***************************************************************************)
(* Theorems about BlockWalk, for frames of any size, in any of the chroma  *)
(* layouts, cut into tiles in any way: that every sample is decoded once,  *)
(* that what a block reads of its neighbours is theirs, and that the loop  *)
(* restoration units read with the superblocks tile each plane.            *)
(***************************************************************************)
EXTENDS BlockWalk, FiniteSetTheorems, SequenceTheorems, TLAPS

-----------------------------------------------------------------------------
(* The inductive invariant. *)

\* The luma rectangle of a node or a block.
Wide(it) == IF IsNode(it) THEN Size(it.bl) ELSE it.w
High(it) == IF IsNode(it) THEN Size(it.bl) ELSE it.h
In(it, c) == /\ it.x <= c[1] /\ c[1] < it.x + Wide(it)
             /\ it.y <= c[2] /\ c[2] < it.y + High(it)
Inside(a, b) == /\ b.x <= a.x /\ a.x + Wide(a) <= b.x + Wide(b)
                /\ b.y <= a.y /\ a.y + High(a) <= b.y + High(b)

\* Rectangles that share a column come from top to bottom, rectangles that
\* share a row from left to right.
Precedes(a, b) ==
    /\ (a.x < b.x + Wide(b) /\ b.x < a.x + Wide(a)) => a.y + High(a) <= b.y
    /\ (a.y < b.y + High(b) /\ b.y < a.y + High(a)) => a.x + Wide(a) <= b.x

Ordered(s) == \A i, j \in 1 .. Len(s) : i < j => Precedes(s[i], s[j])
Covered(s, c) == \E i \in 1 .. Len(s) : In(s[i], c)

\* A rectangle lies at a multiple of its size; above 64 samples it is made of
\* whole 64x64 regions.
Spans(it) == Wide(it) = 32 \/ High(it) = 32
Aligned(it) ==
    /\ it.x % Wide(it) = 0 /\ it.y % High(it) = 0
    /\ Spans(it) => (Wide(it) >= 16 /\ High(it) >= 16)

\* What is to be done lies in the superblock, in order.
WalkInv ==
    /\ \A i \in 1 .. Len(todo) : Inside(todo[i], Root(at)) /\ Aligned(todo[i])
    /\ Ordered(todo)

\* The superblock of a cell, and whether one comes before the place s: in an
\* earlier row of tiles, an earlier tile of the row, or earlier in the tile.
SbOf(c) == <<c[1] \div frame.sb, c[2] \div frame.sb>>
Here(s) == <<s.x, s.y>>
Earlier(u, s) ==
    \/ u[2] < frame.rows[s.row]
    \/ /\ u[2] < frame.rows[s.row + 1]
       /\ \/ u[1] < frame.cols[s.col]
          \/ /\ u[1] < frame.cols[s.col + 1]
             /\ u[2] < s.y \/ (u[2] = s.y /\ u[1] < s.x)

\* A cell of luma is decoded if its superblock was begun and nothing that is
\* still to be done holds it; a cell of chroma, with the last luma cell of it.
Decoded(c, t, s) == ~Covered(t, c) /\ (Earlier(SbOf(c), s) \/ SbOf(c) = Here(s))
LastCell(p, c) == <<StepH(p) * c[1] + SsH(p), StepV(p) * c[2] + SsV(p)>>
DoneInv == \A p \in Planes : \A c \in Cells(Grid(p)) : c \in done[p] <=> Decoded(LastCell(p, c), todo, at)

\* In the tile, what is decoded of a column ends where its context entry says,
\* and so with the rows.
InTile(u, s) == /\ frame.cols[s.col] <= u[1] /\ u[1] < frame.cols[s.col + 1]
                /\ frame.rows[s.row] <= u[2] /\ u[2] < frame.rows[s.row + 1]
TileTop(p, s) == (frame.sb * frame.rows[s.row]) \div StepV(p)
TileLeft(p, s) == (frame.sb * frame.cols[s.col]) \div StepH(p)
ContextOK(p, cells, up, side, s) ==
    \A c \in Cells(Grid(p)) : InTile(SbOf(LastCell(p, c)), s) =>
       /\ c[1] < EdgeW(p) => up[c[1]] >= TileTop(p, s) /\ (c \in cells <=> c[2] < up[c[1]])
       /\ c[2] < EdgeH(p) => side[c[2]] >= TileLeft(p, s) /\ (c \in cells <=> c[1] < side[c[2]])
ContextInv == \A p \in Planes : ContextOK(p, done[p], above[p], left[p], at)

\* No region whose index was read belongs to something larger that is to come.
Touches(it, g) ==
    /\ it.x \div 16 <= g[1] /\ g[1] <= (it.x + Wide(it) - 1) \div 16
    /\ it.y \div 16 <= g[2] /\ g[2] <= (it.y + High(it) - 1) \div 16
CdefInv ==
    /\ cdef = coded
    /\ \A i \in 1 .. Len(todo) : \A g \in cdef : Spans(todo[i]) => ~Touches(todo[i], g)

Inv == TypeOK /\ WalkInv /\ DoneInv /\ ContextInv /\ CdefInv

-----------------------------------------------------------------------------
(* Sizes. *)

\* What a frame's fields are.
LEMMA FrameFields ==
  ASSUME frame \in Frames
  PROVE  /\ frame.width \in Nat \ {0} /\ frame.height \in Nat \ {0}
         /\ frame.sb \in {16, 32}
         /\ frame.ssH \in {0, 1} /\ frame.ssV \in {0, 1}
         /\ TileStarts(frame.cols, Ceil(frame.width, 4 * frame.sb))
         /\ TileStarts(frame.rows, Ceil(frame.height, 4 * frame.sb))
  BY FramesAssumption

\* A quotient rounded up, by the divisors that occur.
LEMMA CeilIs ==
  ASSUME NEW a \in Nat, NEW b \in {1, 2, 4, 64, 128}
  PROVE  Ceil(a, b) \in Nat /\ b * Ceil(a, b) >= a /\ b * Ceil(a, b) < a + b
  BY DEF Ceil

\* A unit of a plane is one or two units of luma.
LEMMA Steps ==
  ASSUME frame \in Frames
  PROVE  /\ SsH(0) = 0 /\ SsV(0) = 0 /\ StepH(0) = 1 /\ StepV(0) = 1
         /\ \/ SsH(1) = 0 /\ StepH(1) = 1
            \/ SsH(1) = 1 /\ StepH(1) = 2
         /\ \/ SsV(1) = 0 /\ StepV(1) = 1
            \/ SsV(1) = 1 /\ StepV(1) = 2
         /\ SsH(1) = frame.ssH /\ SsV(1) = frame.ssV
  <1>1. frame.ssH \in {0, 1} /\ frame.ssV \in {0, 1}
    BY FrameFields
  <1>. QED
    BY <1>1 DEF SsH, SsV, StepH, StepV

\* The grid of chroma is that of luma, subsampled without a rest.
LEMMA Grids ==
  ASSUME frame \in Frames
  PROVE  /\ \A p \in Planes : GridW(p) \in Nat /\ GridH(p) \in Nat
         /\ GridW(0) = StepH(1) * GridW(1) /\ GridH(0) = StepV(1) * GridH(1)
         /\ 4 * GridW(0) >= frame.width /\ 4 * GridH(0) >= frame.height
         /\ 4 * GridW(0) < frame.width + 8 /\ 4 * GridH(0) < frame.height + 8
         /\ \A p \in Planes : EdgeW(p) \in Nat /\ EdgeH(p) \in Nat
  <1>1. frame.width \in Nat /\ frame.height \in Nat
    BY FrameFields
  <1>2. (frame.width + 7) \div 8 \in Nat /\ (frame.height + 7) \div 8 \in Nat
    BY <1>1
  <1>3. \A p \in Planes : GridW(p) \in Nat /\ GridH(p) \in Nat
    BY <1>2, Steps DEF Planes, GridW, GridH
  <1>4. GridW(0) = StepH(1) * GridW(1) /\ GridH(0) = StepV(1) * GridH(1)
    BY <1>2, Steps DEF GridW, GridH
  <1>5. /\ 4 * GridW(0) >= frame.width /\ 4 * GridH(0) >= frame.height
        /\ 4 * GridW(0) < frame.width + 8 /\ 4 * GridH(0) < frame.height + 8
    BY <1>1, Steps DEF GridW, GridH
  <1>6. EdgeW(1) \in Nat /\ EdgeH(1) \in Nat
    BY <1>1, Steps DEF EdgeW, EdgeH, Ceil
  <1>7. EdgeW(0) \in Nat /\ EdgeH(0) \in Nat
    BY <1>3 DEF EdgeW, EdgeH, Planes
  <1>. QED
    BY <1>3, <1>4, <1>5, <1>6, <1>7 DEF Planes

\* The sizes of the five levels: each half of the one before.
LEMMA SizeOf ==
  ASSUME NEW bl \in 0 .. 4
  PROVE  /\ Size(bl) \in {2, 4, 8, 16, 32}
         /\ Size(0) = 32 /\ Size(1) = 16 /\ Size(2) = 8 /\ Size(3) = 4 /\ Size(4) = 2
         /\ bl < 4 => Size(bl + 1) = Size(bl) \div 2
  BY DEF Size

\* A node, and a block, as rectangles.
LEMMA NodeIs ==
  ASSUME NEW n \in Node
  PROVE  /\ IsNode(n) /\ n.x \in Nat /\ n.y \in Nat /\ n.bl \in 0 .. 4
         /\ Wide(n) = Size(n.bl) /\ High(n) = Size(n.bl)
  BY DEF Node, IsNode, Wide, High

\* What a block's fields are.
LEMMA BlockIs ==
  ASSUME NEW b \in CodedBlock
  PROVE  /\ ~IsNode(b) /\ b.x \in Nat /\ b.y \in Nat
         /\ Wide(b) = b.w /\ High(b) = b.h /\ b.w \in Sides /\ b.h \in Sides
  BY DEF CodedBlock, IsNode, Wide, High

\* What nodes and blocks have in common: a place and two sides.
LEMMA ItemIs ==
  ASSUME NEW it \in Node \cup CodedBlock
  PROVE  it.x \in Nat /\ it.y \in Nat /\ Wide(it) \in Sides /\ High(it) \in Sides
  <1>1. CASE it \in Node
    BY <1>1, NodeIs, SizeOf DEF Sides
  <1>2. CASE it \in CodedBlock
    BY <1>2, BlockIs
  <1>. QED
    BY <1>1, <1>2

\* Nodes and blocks tell themselves apart.
LEMMA ItemKind ==
  ASSUME NEW it \in Node \cup CodedBlock
  PROVE  (IsNode(it) => it \in Node) /\ (~IsNode(it) => it \in CodedBlock)
  BY NodeIs, BlockIs

-----------------------------------------------------------------------------
(* Rectangles in order. *)

Items == Node \cup CodedBlock

\* Rectangles in order have no cell in common.
LEMMA PrecedesDisjoint ==
  ASSUME NEW a \in Items, NEW b \in Items, Precedes(a, b), NEW c \in Nat \X Nat
  PROVE  ~(In(a, c) /\ In(b, c))
  <1>1. /\ a.x \in Nat /\ a.y \in Nat /\ Wide(a) \in Nat /\ High(a) \in Nat
        /\ b.x \in Nat /\ b.y \in Nat /\ Wide(b) \in Nat /\ High(b) \in Nat
    BY ItemIs DEF Items, Sides
  <1>2. c[1] \in Nat /\ c[2] \in Nat
    OBVIOUS
  <1>. QED
    BY <1>1, <1>2 DEF Precedes, In

\* What comes before or after a rectangle does so for the rectangles inside it.
LEMMA PrecedesInside ==
  ASSUME NEW a \in Items, NEW b \in Items, NEW n \in Items, Inside(a, n)
  PROVE  /\ Precedes(n, b) => Precedes(a, b)
         /\ Precedes(b, n) => Precedes(b, a)
  <1>1. /\ a.x \in Nat /\ a.y \in Nat /\ Wide(a) \in Nat /\ High(a) \in Nat
        /\ b.x \in Nat /\ b.y \in Nat /\ Wide(b) \in Nat /\ High(b) \in Nat
        /\ n.x \in Nat /\ n.y \in Nat /\ Wide(n) \in Nat /\ High(n) \in Nat
    BY ItemIs DEF Items, Sides
  <1>. QED
    BY <1>1 DEF Precedes, Inside

\* Inside what is inside.
LEMMA InsideTransitive ==
  ASSUME NEW a \in Items, NEW b \in Items, NEW n \in Items, Inside(a, n), Inside(n, b)
  PROVE  Inside(a, b)
  <1>1. /\ a.x \in Nat /\ a.y \in Nat /\ Wide(a) \in Nat /\ High(a) \in Nat
        /\ b.x \in Nat /\ b.y \in Nat /\ Wide(b) \in Nat /\ High(b) \in Nat
        /\ n.x \in Nat /\ n.y \in Nat /\ Wide(n) \in Nat /\ High(n) \in Nat
    BY ItemIs DEF Items, Sides
  <1>. QED
    BY <1>1 DEF Inside

\* A cell of what is inside.
LEMMA InInside ==
  ASSUME NEW a \in Items, NEW n \in Items, Inside(a, n), NEW c \in Nat \X Nat, In(a, c)
  PROVE  In(n, c)
  <1>1. /\ a.x \in Nat /\ a.y \in Nat /\ Wide(a) \in Nat /\ High(a) \in Nat
        /\ n.x \in Nat /\ n.y \in Nat /\ Wide(n) \in Nat /\ High(n) \in Nat
    BY ItemIs DEF Items, Sides
  <1>2. c[1] \in Nat /\ c[2] \in Nat
    OBVIOUS
  <1>. QED
    BY <1>1, <1>2 DEF In, Inside

\* Replacing the head of a sequence by rectangles that tile it.
Tiling(s, n) ==
    /\ s \in Seq(Items)
    /\ \A i \in 1 .. Len(s) : Inside(s[i], n) /\ Aligned(s[i])
    /\ Ordered(s)
    /\ \A c \in Nat \X Nat : In(n, c) => Covered(s, c)

\* If parts that tile the head take its place, the order stays, and the cells
\* that are covered.
LEMMA ReplacedOrdered ==
  ASSUME NEW t \in Seq(Items), t # <<>>, Ordered(t), NEW s, Tiling(s, Head(t))
  PROVE  /\ s \o Tail(t) \in Seq(Items)
         /\ Ordered(s \o Tail(t))
         /\ \A c \in Nat \X Nat : Covered(s \o Tail(t), c) <=> Covered(t, c)
         /\ \A i \in 1 .. Len(s \o Tail(t)) :
              \/ \E j \in 1 .. Len(s) : (s \o Tail(t))[i] = s[j]
              \/ \E j \in 2 .. Len(t) : (s \o Tail(t))[i] = t[j]
  <1>. DEFINE u == s \o Tail(t)
              n == Head(t)
  <1>1. s \in Seq(Items) /\ Len(s) \in Nat /\ Len(t) \in Nat /\ Len(t) > 0 /\ n = t[1]
    BY DEF Tiling
  <1>2. u \in Seq(Items) /\ Len(u) = Len(s) + Len(t) - 1
    BY <1>1
  <1>0. Len(s) \in Nat /\ Len(t) \in Nat /\ Len(t) > 0 /\ Len(u) = Len(s) + Len(t) - 1 /\ n = t[1]
    BY <1>1, <1>2
  <1>3. \A i \in 1 .. Len(s) : u[i] = s[i]
    BY <1>1
  <1>4. \A i \in 1 .. Len(t) - 1 : u[Len(s) + i] = t[i + 1]
    BY <1>1
  <1>5. \A i \in 1 .. Len(u) : i \in 1 .. Len(s) \/ (i - Len(s) \in 1 .. Len(t) - 1 /\ u[i] = t[i - Len(s) + 1])
    <2>. SUFFICES ASSUME NEW i \in 1 .. Len(u), i \notin 1 .. Len(s)
                  PROVE  i - Len(s) \in 1 .. Len(t) - 1 /\ u[i] = t[i - Len(s) + 1]
      OBVIOUS
    <2>1. i - Len(s) \in 1 .. Len(t) - 1 /\ Len(s) + (i - Len(s)) = i
      BY <1>1, <1>2
    <2>. QED
      BY <2>1, <1>4
  <1>6. \A i \in 1 .. Len(s) : s[i] \in Items
    BY <1>1
  <1>7. \A i \in 1 .. Len(t) : t[i] \in Items
    OBVIOUS
  <1>. HIDE DEF u, n
  <1>8. Ordered(u)
    <2>. SUFFICES ASSUME NEW i \in 1 .. Len(u), NEW j \in 1 .. Len(u), i < j
                  PROVE  Precedes(u[i], u[j])
      BY DEF Ordered
    <2>1. CASE j \in 1 .. Len(s)
      <3>1. i \in 1 .. Len(s)
        BY <2>1, <1>1, <1>2
      <3>. QED
        BY <2>1, <3>1, <1>3 DEF Tiling, Ordered
    <2>2. CASE j \notin 1 .. Len(s)
      <3>1. j - Len(s) \in 1 .. Len(t) - 1 /\ u[j] = t[j - Len(s) + 1]
        BY <2>2, <1>5
      <3>2. j - Len(s) + 1 \in 1 .. Len(t) /\ 1 < j - Len(s) + 1
        <4>1. j - Len(s) \in 1 .. Len(t) - 1 /\ j \in Int
          BY <3>1, <1>0
        <4>. QED
          BY ONLY <4>1, <1>0
      <3>3. CASE i \in 1 .. Len(s)
        <4>1. Precedes(n, t[j - Len(s) + 1])
          <5>1. 1 \in 1 .. Len(t)
            BY <1>0
          <5>. QED
            BY ONLY <3>2, <1>0, <5>1, Ordered(t) DEF Ordered
        <4>2. Inside(s[i], n)
          BY <3>3 DEF Tiling, n
        <4>. QED
          BY <4>1, <4>2, <3>1, <3>2, <3>3, <1>1, <1>3, <1>6, <1>7, PrecedesInside
      <3>4. CASE i \notin 1 .. Len(s)
        <4>1. i - Len(s) \in 1 .. Len(t) - 1 /\ u[i] = t[i - Len(s) + 1]
          BY <3>4, <1>5
        <4>2. i - Len(s) + 1 \in 1 .. Len(t) /\ i - Len(s) + 1 < j - Len(s) + 1
          <5>1. i - Len(s) \in 1 .. Len(t) - 1 /\ i \in Int /\ j \in Int
            BY <4>1, <1>0
          <5>. QED
            BY ONLY <5>1, <1>0, i < j
        <4>. QED
          BY <4>1, <4>2, <3>1, <3>2 DEF Ordered
      <3>. QED
        BY <3>3, <3>4
    <2>. QED
      BY <2>1, <2>2
  <1>9. ASSUME NEW c \in Nat \X Nat
        PROVE  Covered(u, c) <=> Covered(t, c)
    <2>1. ASSUME NEW i \in 1 .. Len(u), In(u[i], c)
          PROVE  Covered(t, c)
      <3>1. CASE i \in 1 .. Len(s)
        <4>1. Inside(s[i], n) /\ In(s[i], c)
          BY <2>1, <3>1, <1>3 DEF Tiling, n
        <4>2. In(t[1], c) /\ 1 \in 1 .. Len(t)
          BY <4>1, <3>1, <1>1, <1>6, <1>7, InInside
        <4>. QED
          BY <4>2 DEF Covered
      <3>2. CASE i \notin 1 .. Len(s)
        <4>1. i - Len(s) \in 1 .. Len(t) - 1 /\ u[i] = t[i - Len(s) + 1]
          BY <3>2, <1>5
        <4>2. i - Len(s) + 1 \in 1 .. Len(t)
          BY <4>1, <1>1, <1>2
        <4>. QED
          BY <4>1, <4>2, <2>1 DEF Covered
      <3>. QED
        BY <3>1, <3>2
    <2>2. ASSUME NEW i \in 1 .. Len(t), In(t[i], c)
          PROVE  Covered(u, c)
      <3>1. CASE i = 1
        <4>1. Covered(s, c)
          BY <2>2, <3>1, <1>1 DEF Tiling, n
        <4>2. PICK j \in 1 .. Len(s) : In(s[j], c)
          BY <4>1 DEF Covered
        <4>3. j \in 1 .. Len(u) /\ In(u[j], c)
          BY <4>2, <1>1, <1>2, <1>3
        <4>. QED
          BY <4>3 DEF Covered
      <3>2. CASE i # 1
        <4>1. i - 1 \in 1 .. Len(t) - 1 /\ i - 1 + 1 = i /\ Len(s) + (i - 1) \in 1 .. Len(u)
          BY <3>2, <1>1, <1>2
        <4>2. u[Len(s) + (i - 1)] = t[i]
          BY <4>1, <1>4
        <4>. QED
          BY <4>1, <4>2, <2>2 DEF Covered
      <3>. QED
        BY <3>1, <3>2
    <2>. QED
      BY <2>1, <2>2 DEF Covered
  <1>10. ASSUME NEW i \in 1 .. Len(u)
         PROVE  \/ \E j \in 1 .. Len(s) : u[i] = s[j]
                \/ \E j \in 2 .. Len(t) : u[i] = t[j]
    <2>1. CASE i \in 1 .. Len(s)
      BY <2>1, <1>3
    <2>2. CASE i \notin 1 .. Len(s)
      <3>1. i - Len(s) \in 1 .. Len(t) - 1 /\ u[i] = t[i - Len(s) + 1]
        BY <2>2, <1>5
      <3>2. i - Len(s) + 1 \in 2 .. Len(t)
        BY <3>1, <1>1, <1>2
      <3>. QED
        BY <3>1, <3>2
    <2>. QED
      BY <2>1, <2>2
  <1>. QED
    BY <1>2, <1>8, <1>9, <1>10 DEF u

\* Taking the head away.
LEMMA TailOrdered ==
  ASSUME NEW t \in Seq(Items), t # <<>>, Ordered(t)
  PROVE  /\ Tail(t) \in Seq(Items) /\ Head(t) \in Items
         /\ Ordered(Tail(t))
         /\ \A c \in Nat \X Nat : Covered(Tail(t), c) <=> (Covered(t, c) /\ ~In(Head(t), c))
         /\ Len(Tail(t)) = Len(t) - 1
         /\ \A i \in 1 .. Len(Tail(t)) : /\ i + 1 \in 2 .. Len(t) /\ Tail(t)[i] = t[i + 1]
                                         /\ Precedes(Head(t), Tail(t)[i])
  <1>. DEFINE u == Tail(t)
  <1>1. /\ u \in Seq(Items) /\ Len(t) \in Nat /\ Len(t) > 0 /\ Len(u) = Len(t) - 1
        /\ Head(t) = t[1] /\ t[1] \in Items
    OBVIOUS
  <1>2. \A i \in 1 .. Len(u) : u[i] = t[i + 1] /\ i + 1 \in 2 .. Len(t) /\ t[i + 1] \in Items
    BY <1>1
  <1>. HIDE DEF u
  <1>3. Ordered(u)
    <2>. SUFFICES ASSUME NEW i \in 1 .. Len(u), NEW j \in 1 .. Len(u), i < j
                  PROVE  Precedes(u[i], u[j])
      BY DEF Ordered
    <2>1. i + 1 \in 1 .. Len(t) /\ j + 1 \in 1 .. Len(t) /\ i + 1 < j + 1
      BY <1>2
    <2>2. Precedes(t[i + 1], t[j + 1])
      BY <2>1 DEF Ordered
    <2>3. u[i] = t[i + 1] /\ u[j] = t[j + 1]
      BY <1>2
    <2>. QED
      BY <2>2, <2>3, Zenon
  <1>4. ASSUME NEW i \in 1 .. Len(u)
        PROVE  Precedes(t[1], u[i])
    <2>1. 1 \in 1 .. Len(t) /\ i + 1 \in 1 .. Len(t) /\ 1 < i + 1
      BY <1>1
    <2>2. Precedes(t[1], t[i + 1])
      BY <2>1 DEF Ordered
    <2>3. u[i] = t[i + 1]
      BY <1>2
    <2>. QED
      BY <2>2, <2>3, Zenon
  <1>5. ASSUME NEW c \in Nat \X Nat
        PROVE  Covered(u, c) <=> (Covered(t, c) /\ ~In(t[1], c))
    <2>1. ASSUME NEW i \in 1 .. Len(u), In(u[i], c)
          PROVE  Covered(t, c) /\ ~In(t[1], c)
      <3>1. ~In(t[1], c)
        BY <2>1, <1>1, <1>2, <1>4, PrecedesDisjoint
      <3>2. i + 1 \in 1 .. Len(t) /\ In(t[i + 1], c)
        BY <2>1, <1>2
      <3>. QED
        BY <3>1, <3>2 DEF Covered
    <2>2. ASSUME NEW i \in 1 .. Len(t), In(t[i], c), ~In(t[1], c)
          PROVE  Covered(u, c)
      <3>1. i # 1 /\ i - 1 \in 1 .. Len(u) /\ i - 1 + 1 = i
        BY <2>2, <1>1
      <3>2. In(u[i - 1], c)
        BY <3>1, <2>2, <1>2
      <3>. QED
        BY <3>1, <3>2 DEF Covered
    <2>. QED
      BY <2>1, <2>2 DEF Covered
  <1>. QED
    BY <1>1, <1>2, <1>3, <1>4, <1>5 DEF u

-----------------------------------------------------------------------------
(* The parts of a node tile it. *)

\* Halves and quarters of a size divide what the size divides.
LEMMA Multiples ==
  ASSUME NEW x \in Nat, NEW s \in {2, 4, 8, 16, 32}, x % s = 0
  PROVE  /\ s = 2 * (s \div 2) /\ s \div 2 \in Sides
         /\ x % (s \div 2) = 0 /\ (x + s \div 2) % (s \div 2) = 0
         /\ s \in {4, 8, 16} =>
              /\ s = 4 * (s \div 4) /\ s \div 4 \in Sides
              /\ x % (s \div 4) = 0 /\ (x + s \div 4) % (s \div 4) = 0
              /\ (x + 2 * (s \div 4)) % (s \div 4) = 0 /\ (x + 3 * (s \div 4)) % (s \div 4) = 0
  <1>1. CASE s = 2
    BY <1>1 DEF Sides
  <1>2. CASE s = 4
    BY <1>2 DEF Sides
  <1>3. CASE s = 8
    BY <1>3 DEF Sides
  <1>4. CASE s = 16
    BY <1>4 DEF Sides
  <1>5. CASE s = 32
    BY <1>5 DEF Sides
  <1>. QED
    BY <1>1, <1>2, <1>3, <1>4, <1>5

\* The flags handed down are flags.
LEMMA FlagsAre ==
  ASSUME NEW n
  PROVE  /\ Flags(n) \in SUBSET AllEdges
         /\ \A i : HFlags(n, i) \in SUBSET AllEdges /\ VFlags(n, i) \in SUBSET AllEdges
         /\ TopRight \in SUBSET AllEdges /\ BottomLeft \in SUBSET AllEdges
  BY DEF Flags, HFlags, VFlags, AllEdges

\* So are the single ones that partitions add.
LEMMA EdgesAre ==
  \A l \in {420, 422, 444} : <<"right", l>> \in AllEdges /\ <<"bottom", l>> \in AllEdges
  BY DEF AllEdges, TopRight, BottomLeft, Layouts

\* A block of a node has the place and the sides it is given.
LEMMA BlockFields ==
  ASSUME NEW n \in Node, NEW x \in Nat, NEW y \in Nat, NEW w \in Sides, NEW h \in Sides,
         NEW flags \in SUBSET AllEdges
  PROVE  /\ Block(n, x, y, w, h, flags) \in CodedBlock
         /\ Block(n, x, y, w, h, flags).x = n.x + x /\ Block(n, x, y, w, h, flags).y = n.y + y
         /\ Wide(Block(n, x, y, w, h, flags)) = w /\ High(Block(n, x, y, w, h, flags)) = h
  <1>1. n.x + x \in Nat /\ n.y + y \in Nat
    BY NodeIs
  <1>2. Block(n, x, y, w, h, flags) \in CodedBlock
    BY <1>1 DEF Block, CodedBlock
  <1>3. /\ Block(n, x, y, w, h, flags).x = n.x + x /\ Block(n, x, y, w, h, flags).y = n.y + y
        /\ Block(n, x, y, w, h, flags).w = w /\ Block(n, x, y, w, h, flags).h = h
    BY DEF Block
  <1>. QED
    BY <1>2, <1>3, BlockIs

\* Blocks are items, and nothing added is nothing.
LEMMA BlocksAreItems == \A b \in CodedBlock : b \in Items
  BY DEF Items
\* The same number.
LEMMA PlusZero == \A v \in Nat : v + 0 = v
  OBVIOUS

\* A child of a split node is a quarter of it.
LEMMA ChildFields ==
  ASSUME NEW n \in Node, n.bl < 4, NEW i \in 0 .. 3
  PROVE  /\ SplitChild(n, i) \in Node
         /\ SplitChild(n, i).x = n.x + Half(n) * (i % 2)
         /\ SplitChild(n, i).y = n.y + Half(n) * (i \div 2)
         /\ Wide(SplitChild(n, i)) = Half(n) /\ High(SplitChild(n, i)) = Half(n)
  <1>1. n.bl \in 0 .. 4 /\ n.bl + 1 \in 0 .. 4 /\ n.x \in Nat /\ n.y \in Nat
    BY NodeIs
  <1>2. Half(n) \in Nat /\ Half(n) = Size(n.bl + 1)
    BY <1>1, SizeOf DEF Half
  <1>3. /\ SplitChild(n, i).x = n.x + Half(n) * (i % 2)
        /\ SplitChild(n, i).y = n.y + Half(n) * (i \div 2)
        /\ SplitChild(n, i).bl = n.bl + 1
    BY DEF SplitChild
  <1>4. Half(n) * (i % 2) \in Nat /\ Half(n) * (i \div 2) \in Nat
    <2>1. i % 2 \in {0, 1} /\ i \div 2 \in {0, 1}
      OBVIOUS
    <2>. QED
      BY <2>1, <1>2
  <1>5. SplitChild(n, i) \in Node
    <2>1. /\ n.x + Half(n) * (i % 2) \in Nat /\ n.y + Half(n) * (i \div 2) \in Nat
      BY <1>1, <1>4
    <2>2. (i = 0 \/ (i = 2 /\ n.bottom)) \in BOOLEAN /\ (~(i = 3 \/ (i = 1 /\ ~n.right))) \in BOOLEAN
      OBVIOUS
    <2>. QED
      BY <2>1, <2>2, <1>1 DEF SplitChild, Node
  <1>. QED
    BY <1>2, <1>3, <1>5, NodeIs


\* One part that covers a node tiles it.
LEMMA TileOne ==
  ASSUME NEW n,
         NEW a \in Items, Inside(a, n), Aligned(a),
         \A u \in Nat \X Nat : In(n, u) => In(a, u)
  PROVE  Tiling(<<a>>, n)
  <1>. DEFINE s == <<a>>
  <1>1. s \in Seq(Items) /\ Len(s) = 1 /\ s[1] = a
    OBVIOUS
  <1>2. 1 .. Len(s) = {1}
    BY <1>1
  <1>. HIDE DEF s
  <1>3. Ordered(s)
    <2>. SUFFICES ASSUME NEW i \in 1 .. Len(s), NEW j \in 1 .. Len(s), i < j
                  PROVE  Precedes(s[i], s[j])
      BY DEF Ordered
    <2>. QED
      BY <1>1, <1>2
  <1>4. \A u \in Nat \X Nat : In(n, u) => Covered(s, u)
    BY <1>1, <1>2 DEF Covered
  <1>5. \A i \in 1 .. Len(s) : Inside(s[i], n) /\ Aligned(s[i])
    BY <1>1, <1>2
  <1>. QED
    BY <1>1, <1>3, <1>4, <1>5 DEF Tiling, s

\* So do two that come in order and cover it,
LEMMA TileTwo ==
  ASSUME NEW n,
         NEW a \in Items, Inside(a, n), Aligned(a),
         NEW b \in Items, Inside(b, n), Aligned(b),
         Precedes(a, b),
         \A u \in Nat \X Nat : In(n, u) => In(a, u) \/ In(b, u)
  PROVE  Tiling(<<a, b>>, n)
  <1>. DEFINE s == <<a, b>>
  <1>1. s \in Seq(Items) /\ Len(s) = 2 /\ s[1] = a /\ s[2] = b
    OBVIOUS
  <1>2. 1 .. Len(s) = {1, 2}
    BY <1>1
  <1>. HIDE DEF s
  <1>3. Ordered(s)
    <2>. SUFFICES ASSUME NEW i \in 1 .. Len(s), NEW j \in 1 .. Len(s), i < j
                  PROVE  Precedes(s[i], s[j])
      BY DEF Ordered
    <2>. QED
      BY <1>1, <1>2
  <1>4. \A u \in Nat \X Nat : In(n, u) => Covered(s, u)
    BY <1>1, <1>2 DEF Covered
  <1>5. \A i \in 1 .. Len(s) : Inside(s[i], n) /\ Aligned(s[i])
    BY <1>1, <1>2
  <1>. QED
    BY <1>1, <1>3, <1>4, <1>5 DEF Tiling, s

\* three,
LEMMA TileThree ==
  ASSUME NEW n,
         NEW a \in Items, Inside(a, n), Aligned(a),
         NEW b \in Items, Inside(b, n), Aligned(b),
         NEW c \in Items, Inside(c, n), Aligned(c),
         Precedes(a, b), Precedes(a, c), Precedes(b, c),
         \A u \in Nat \X Nat : In(n, u) => In(a, u) \/ In(b, u) \/ In(c, u)
  PROVE  Tiling(<<a, b, c>>, n)
  <1>. DEFINE s == <<a, b, c>>
  <1>1. s \in Seq(Items) /\ Len(s) = 3 /\ s[1] = a /\ s[2] = b /\ s[3] = c
    OBVIOUS
  <1>2. 1 .. Len(s) = {1, 2, 3}
    BY <1>1
  <1>. HIDE DEF s
  <1>3. Ordered(s)
    <2>. SUFFICES ASSUME NEW i \in 1 .. Len(s), NEW j \in 1 .. Len(s), i < j
                  PROVE  Precedes(s[i], s[j])
      BY DEF Ordered
    <2>. QED
      BY <1>1, <1>2
  <1>4. \A u \in Nat \X Nat : In(n, u) => Covered(s, u)
    BY <1>1, <1>2 DEF Covered
  <1>5. \A i \in 1 .. Len(s) : Inside(s[i], n) /\ Aligned(s[i])
    BY <1>1, <1>2
  <1>. QED
    BY <1>1, <1>3, <1>4, <1>5 DEF Tiling, s

\* and four.
LEMMA TileFour ==
  ASSUME NEW n,
         NEW a \in Items, Inside(a, n), Aligned(a),
         NEW b \in Items, Inside(b, n), Aligned(b),
         NEW c \in Items, Inside(c, n), Aligned(c),
         NEW d \in Items, Inside(d, n), Aligned(d),
         Precedes(a, b), Precedes(a, c), Precedes(a, d), Precedes(b, c), Precedes(b, d), Precedes(c, d),
         \A u \in Nat \X Nat : In(n, u) => In(a, u) \/ In(b, u) \/ In(c, u) \/ In(d, u)
  PROVE  Tiling(<<a, b, c, d>>, n)
  <1>. DEFINE s == <<a, b, c, d>>
  <1>1. s \in Seq(Items) /\ Len(s) = 4 /\ s[1] = a /\ s[2] = b /\ s[3] = c /\ s[4] = d
    OBVIOUS
  <1>2. 1 .. Len(s) = {1, 2, 3, 4}
    BY <1>1
  <1>. HIDE DEF s
  <1>3. Ordered(s)
    <2>. SUFFICES ASSUME NEW i \in 1 .. Len(s), NEW j \in 1 .. Len(s), i < j
                  PROVE  Precedes(s[i], s[j])
      BY DEF Ordered
    <2>. QED
      BY <1>1, <1>2
  <1>4. \A u \in Nat \X Nat : In(n, u) => Covered(s, u)
    BY <1>1, <1>2 DEF Covered
  <1>5. \A i \in 1 .. Len(s) : Inside(s[i], n) /\ Aligned(s[i])
    BY <1>1, <1>2
  <1>. QED
    BY <1>1, <1>3, <1>4, <1>5 DEF Tiling, s

\* What is used of a node: where it is, its size, and what divides it.
LEMMA NodeShape ==
  ASSUME NEW n \in Node, Aligned(n)
  PROVE  /\ n \in Items /\ n.x \in Nat /\ n.y \in Nat
         /\ Wide(n) = Size(n.bl) /\ High(n) = Size(n.bl)
         /\ Size(n.bl) \in {2, 4, 8, 16, 32} /\ Size(n.bl) = 2 * Half(n) /\ Half(n) \in Sides
         /\ \A x \in {n.x, n.y} : /\ x % Size(n.bl) = 0 /\ x % Half(n) = 0
                                  /\ (x + Half(n)) % Half(n) = 0
  <1>1. /\ n.x \in Nat /\ n.y \in Nat /\ n.bl \in 0 .. 4
        /\ Wide(n) = Size(n.bl) /\ High(n) = Size(n.bl)
    BY NodeIs
  <1>2. Size(n.bl) \in {2, 4, 8, 16, 32}
    BY <1>1, SizeOf
  <1>3. n.x % Size(n.bl) = 0 /\ n.y % Size(n.bl) = 0
    BY <1>1 DEF Aligned
  <1>4. ASSUME NEW x \in {n.x, n.y}
        PROVE  /\ x % Size(n.bl) = 0 /\ x % Half(n) = 0 /\ (x + Half(n)) % Half(n) = 0
               /\ Size(n.bl) = 2 * Half(n) /\ Half(n) \in Sides
    <2>1. x \in Nat /\ x % Size(n.bl) = 0
      BY <1>1, <1>3
    <2>. QED
      BY <2>1, <1>2, Multiples DEF Half
  <1>5. n \in Items
    BY DEF Items
  <1>. QED
    BY <1>1, <1>2, <1>4, <1>5

\* A node that is not cut is one block.
LEMMA NoneTile ==
  ASSUME NEW n \in Node, Aligned(n)
  PROVE  Tiling(Parts(n, "None"), n)
  <1>. DEFINE s == Size(n.bl)
              k == Half(n)
              a == Block(n, 0, 0, s, s, Flags(n))
  <1>1. /\ n \in Items /\ n.x \in Nat /\ n.y \in Nat /\ Wide(n) = s /\ High(n) = s
        /\ s \in {2, 4, 8, 16, 32} /\ s = 2 * k /\ k \in Sides
    BY NodeShape
  <1>0. /\ n.x % s = 0 /\ n.x % k = 0 /\ (n.x + k) % k = 0
        /\ n.y % s = 0 /\ n.y % k = 0 /\ (n.y + k) % k = 0
    BY NodeShape
  <1>2. s \in Sides
    BY <1>1 DEF Sides
  <1>3. Parts(n, "None") = <<a>>
    BY DEF Parts, Blocks
  <1>4. /\ a \in Items /\ a.x = n.x /\ a.y = n.y
        /\ Wide(a) = s /\ High(a) = s
    <2>1. Flags(n) \in SUBSET AllEdges
      BY FlagsAre, Zenon
    <2>2. 0 \in Nat /\ 0 \in Nat /\ s \in Sides /\ s \in Sides
      BY <1>1, <1>2 DEF Sides
    <2>3. /\ a \in CodedBlock /\ a.x = n.x + 0 /\ a.y = n.y + 0
          /\ Wide(a) = s /\ High(a) = s
      <3>. HIDE DEF s, k
      <3>. QED
        BY <2>1, <2>2, BlockFields
    <2>. HIDE DEF s, k, a
    <2>. QED
      BY <2>3, <1>1, BlocksAreItems, PlusZero
  <1>. HIDE DEF s, k, a
  <1>5. s \in Nat /\ k \in Nat
    BY <1>1, <1>2 DEF Sides
  <1>6. s = 2 * k /\ Wide(n) = s /\ High(n) = s /\ n.x \in Nat /\ n.y \in Nat
    BY <1>1, <1>2
  <1>7. k > 0
    BY <1>1, <1>2 DEF Sides
  <1>8. Inside(a, n)
    BY <1>6, <1>7, <1>5, <1>4 DEF Inside
  <1>9. Aligned(a)
    BY <1>0, <1>1, <1>2, <1>6, <1>7, <1>5, <1>4 DEF Aligned, Spans
  <1>10. ASSUME NEW u \in Nat \X Nat, In(n, u)
        PROVE  In(a, u)
    <2>1. u[1] \in Nat /\ u[2] \in Nat
      OBVIOUS
    <2>. QED
      BY <2>1, <1>10, <1>6, <1>7, <1>5, <1>4 DEF In
  <1>. QED
    BY <1>3, <1>4, <1>8, <1>9, <1>10, TileOne

\* Cut once across, two blocks, the upper one first.
LEMMA HTile ==
  ASSUME NEW n \in Node, Aligned(n)
  PROVE  Tiling(Parts(n, "H"), n)
  <1>. DEFINE s == Size(n.bl)
              k == Half(n)
              a == Block(n, 0, 0, s, k, HFlags(n, 0))
              b == Block(n, 0, k, s, k, HFlags(n, 1))
  <1>1. /\ n \in Items /\ n.x \in Nat /\ n.y \in Nat /\ Wide(n) = s /\ High(n) = s
        /\ s \in {2, 4, 8, 16, 32} /\ s = 2 * k /\ k \in Sides
    BY NodeShape
  <1>0. /\ n.x % s = 0 /\ n.x % k = 0 /\ (n.x + k) % k = 0
        /\ n.y % s = 0 /\ n.y % k = 0 /\ (n.y + k) % k = 0
    BY NodeShape
  <1>2. s \in Sides
    BY <1>1 DEF Sides
  <1>3. Parts(n, "H") = <<a, b>>
    BY DEF Parts, Blocks
  <1>4. /\ a \in Items /\ a.x = n.x /\ a.y = n.y
        /\ Wide(a) = s /\ High(a) = k
    <2>1. HFlags(n, 0) \in SUBSET AllEdges
      BY FlagsAre, Zenon
    <2>2. 0 \in Nat /\ 0 \in Nat /\ s \in Sides /\ k \in Sides
      BY <1>1, <1>2 DEF Sides
    <2>3. /\ a \in CodedBlock /\ a.x = n.x + 0 /\ a.y = n.y + 0
          /\ Wide(a) = s /\ High(a) = k
      <3>. HIDE DEF s, k
      <3>. QED
        BY <2>1, <2>2, BlockFields
    <2>. HIDE DEF s, k, a
    <2>. QED
      BY <2>3, <1>1, BlocksAreItems, PlusZero
  <1>5. /\ b \in Items /\ b.x = n.x /\ b.y = n.y + k
        /\ Wide(b) = s /\ High(b) = k
    <2>1. HFlags(n, 1) \in SUBSET AllEdges
      BY FlagsAre, Zenon
    <2>2. 0 \in Nat /\ k \in Nat /\ s \in Sides /\ k \in Sides
      BY <1>1, <1>2 DEF Sides
    <2>3. /\ b \in CodedBlock /\ b.x = n.x + 0 /\ b.y = n.y + k
          /\ Wide(b) = s /\ High(b) = k
      <3>. HIDE DEF s, k
      <3>. QED
        BY <2>1, <2>2, BlockFields
    <2>. HIDE DEF s, k, b
    <2>. QED
      BY <2>3, <1>1, BlocksAreItems, PlusZero
  <1>. HIDE DEF s, k, a, b
  <1>6. s \in Nat /\ k \in Nat
    BY <1>1, <1>2 DEF Sides
  <1>7. s = 2 * k /\ Wide(n) = s /\ High(n) = s /\ n.x \in Nat /\ n.y \in Nat
    BY <1>1, <1>2
  <1>8. k > 0
    BY <1>1, <1>2 DEF Sides
  <1>9. Inside(a, n) /\ Inside(b, n)
    BY <1>7, <1>8, <1>6, <1>4, <1>5 DEF Inside
  <1>10. Aligned(a) /\ Aligned(b)
    BY <1>0, <1>1, <1>2, <1>7, <1>8, <1>6, <1>4, <1>5 DEF Aligned, Spans
  <1>11. Precedes(a, b)
    BY <1>7, <1>8, <1>6, <1>4, <1>5 DEF Precedes
  <1>12. ASSUME NEW u \in Nat \X Nat, In(n, u)
        PROVE  In(a, u) \/ In(b, u)
    <2>1. u[1] \in Nat /\ u[2] \in Nat
      OBVIOUS
    <2>. QED
      BY <2>1, <1>12, <1>7, <1>8, <1>6, <1>4, <1>5 DEF In
  <1>. QED
    BY <1>3, <1>4, <1>5, <1>9, <1>10, <1>11, <1>12, TileTwo

\* Cut once down, two blocks, the left one first.
LEMMA VTile ==
  ASSUME NEW n \in Node, Aligned(n)
  PROVE  Tiling(Parts(n, "V"), n)
  <1>. DEFINE s == Size(n.bl)
              k == Half(n)
              a == Block(n, 0, 0, k, s, VFlags(n, 0))
              b == Block(n, k, 0, k, s, VFlags(n, 1))
  <1>1. /\ n \in Items /\ n.x \in Nat /\ n.y \in Nat /\ Wide(n) = s /\ High(n) = s
        /\ s \in {2, 4, 8, 16, 32} /\ s = 2 * k /\ k \in Sides
    BY NodeShape
  <1>0. /\ n.x % s = 0 /\ n.x % k = 0 /\ (n.x + k) % k = 0
        /\ n.y % s = 0 /\ n.y % k = 0 /\ (n.y + k) % k = 0
    BY NodeShape
  <1>2. s \in Sides
    BY <1>1 DEF Sides
  <1>3. Parts(n, "V") = <<a, b>>
    BY DEF Parts, Blocks
  <1>4. /\ a \in Items /\ a.x = n.x /\ a.y = n.y
        /\ Wide(a) = k /\ High(a) = s
    <2>1. VFlags(n, 0) \in SUBSET AllEdges
      BY FlagsAre, Zenon
    <2>2. 0 \in Nat /\ 0 \in Nat /\ k \in Sides /\ s \in Sides
      BY <1>1, <1>2 DEF Sides
    <2>3. /\ a \in CodedBlock /\ a.x = n.x + 0 /\ a.y = n.y + 0
          /\ Wide(a) = k /\ High(a) = s
      <3>. HIDE DEF s, k
      <3>. QED
        BY <2>1, <2>2, BlockFields
    <2>. HIDE DEF s, k, a
    <2>. QED
      BY <2>3, <1>1, BlocksAreItems, PlusZero
  <1>5. /\ b \in Items /\ b.x = n.x + k /\ b.y = n.y
        /\ Wide(b) = k /\ High(b) = s
    <2>1. VFlags(n, 1) \in SUBSET AllEdges
      BY FlagsAre, Zenon
    <2>2. k \in Nat /\ 0 \in Nat /\ k \in Sides /\ s \in Sides
      BY <1>1, <1>2 DEF Sides
    <2>3. /\ b \in CodedBlock /\ b.x = n.x + k /\ b.y = n.y + 0
          /\ Wide(b) = k /\ High(b) = s
      <3>. HIDE DEF s, k
      <3>. QED
        BY <2>1, <2>2, BlockFields
    <2>. HIDE DEF s, k, b
    <2>. QED
      BY <2>3, <1>1, BlocksAreItems, PlusZero
  <1>. HIDE DEF s, k, a, b
  <1>6. s \in Nat /\ k \in Nat
    BY <1>1, <1>2 DEF Sides
  <1>7. s = 2 * k /\ Wide(n) = s /\ High(n) = s /\ n.x \in Nat /\ n.y \in Nat
    BY <1>1, <1>2
  <1>8. k > 0
    BY <1>1, <1>2 DEF Sides
  <1>9. Inside(a, n) /\ Inside(b, n)
    BY <1>7, <1>8, <1>6, <1>4, <1>5 DEF Inside
  <1>10. Aligned(a) /\ Aligned(b)
    BY <1>0, <1>1, <1>2, <1>7, <1>8, <1>6, <1>4, <1>5 DEF Aligned, Spans
  <1>11. Precedes(a, b)
    BY <1>7, <1>8, <1>6, <1>4, <1>5 DEF Precedes
  <1>12. ASSUME NEW u \in Nat \X Nat, In(n, u)
        PROVE  In(a, u) \/ In(b, u)
    <2>1. u[1] \in Nat /\ u[2] \in Nat
      OBVIOUS
    <2>. QED
      BY <2>1, <1>12, <1>7, <1>8, <1>6, <1>4, <1>5 DEF In
  <1>. QED
    BY <1>3, <1>4, <1>5, <1>9, <1>10, <1>11, <1>12, TileTwo

\* Two blocks above one.
LEMMA TTopTile ==
  ASSUME NEW n \in Node, Aligned(n)
  PROVE  Tiling(Parts(n, "TTop"), n)
  <1>. DEFINE s == Size(n.bl)
              k == Half(n)
              a == Block(n, 0, 0, k, k, AllEdges)
              b == Block(n, k, 0, k, k, VFlags(n, 1))
              c == Block(n, 0, k, s, k, HFlags(n, 1))
  <1>1. /\ n \in Items /\ n.x \in Nat /\ n.y \in Nat /\ Wide(n) = s /\ High(n) = s
        /\ s \in {2, 4, 8, 16, 32} /\ s = 2 * k /\ k \in Sides
    BY NodeShape
  <1>0. /\ n.x % s = 0 /\ n.x % k = 0 /\ (n.x + k) % k = 0
        /\ n.y % s = 0 /\ n.y % k = 0 /\ (n.y + k) % k = 0
    BY NodeShape
  <1>2. s \in Sides
    BY <1>1 DEF Sides
  <1>3. Parts(n, "TTop") = <<a, b, c>>
    BY DEF Parts, Blocks, TBlocks
  <1>4. /\ a \in Items /\ a.x = n.x /\ a.y = n.y
        /\ Wide(a) = k /\ High(a) = k
    <2>1. AllEdges \in SUBSET AllEdges
      BY FlagsAre, EdgesAre
    <2>2. 0 \in Nat /\ 0 \in Nat /\ k \in Sides /\ k \in Sides
      BY <1>1, <1>2 DEF Sides
    <2>3. /\ a \in CodedBlock /\ a.x = n.x + 0 /\ a.y = n.y + 0
          /\ Wide(a) = k /\ High(a) = k
      <3>. HIDE DEF s, k
      <3>. QED
        BY <2>1, <2>2, BlockFields
    <2>. HIDE DEF s, k, a
    <2>. QED
      BY <2>3, <1>1, BlocksAreItems, PlusZero
  <1>5. /\ b \in Items /\ b.x = n.x + k /\ b.y = n.y
        /\ Wide(b) = k /\ High(b) = k
    <2>1. VFlags(n, 1) \in SUBSET AllEdges
      BY FlagsAre, Zenon
    <2>2. k \in Nat /\ 0 \in Nat /\ k \in Sides /\ k \in Sides
      BY <1>1, <1>2 DEF Sides
    <2>3. /\ b \in CodedBlock /\ b.x = n.x + k /\ b.y = n.y + 0
          /\ Wide(b) = k /\ High(b) = k
      <3>. HIDE DEF s, k
      <3>. QED
        BY <2>1, <2>2, BlockFields
    <2>. HIDE DEF s, k, b
    <2>. QED
      BY <2>3, <1>1, BlocksAreItems, PlusZero
  <1>6. /\ c \in Items /\ c.x = n.x /\ c.y = n.y + k
        /\ Wide(c) = s /\ High(c) = k
    <2>1. HFlags(n, 1) \in SUBSET AllEdges
      BY FlagsAre, Zenon
    <2>2. 0 \in Nat /\ k \in Nat /\ s \in Sides /\ k \in Sides
      BY <1>1, <1>2 DEF Sides
    <2>3. /\ c \in CodedBlock /\ c.x = n.x + 0 /\ c.y = n.y + k
          /\ Wide(c) = s /\ High(c) = k
      <3>. HIDE DEF s, k
      <3>. QED
        BY <2>1, <2>2, BlockFields
    <2>. HIDE DEF s, k, c
    <2>. QED
      BY <2>3, <1>1, BlocksAreItems, PlusZero
  <1>. HIDE DEF s, k, a, b, c
  <1>7. s \in Nat /\ k \in Nat
    BY <1>1, <1>2 DEF Sides
  <1>8. s = 2 * k /\ Wide(n) = s /\ High(n) = s /\ n.x \in Nat /\ n.y \in Nat
    BY <1>1, <1>2
  <1>9. k > 0
    BY <1>1, <1>2 DEF Sides
  <1>10. Inside(a, n) /\ Inside(b, n) /\ Inside(c, n)
    BY <1>8, <1>9, <1>7, <1>4, <1>5, <1>6 DEF Inside
  <1>11. Aligned(a) /\ Aligned(b) /\ Aligned(c)
    BY <1>0, <1>1, <1>2, <1>8, <1>9, <1>7, <1>4, <1>5, <1>6 DEF Aligned, Spans
  <1>12. Precedes(a, b) /\ Precedes(a, c) /\ Precedes(b, c)
    BY <1>8, <1>9, <1>7, <1>4, <1>5, <1>6 DEF Precedes
  <1>13. ASSUME NEW u \in Nat \X Nat, In(n, u)
        PROVE  In(a, u) \/ In(b, u) \/ In(c, u)
    <2>1. u[1] \in Nat /\ u[2] \in Nat
      OBVIOUS
    <2>. QED
      BY <2>1, <1>13, <1>8, <1>9, <1>7, <1>4, <1>5, <1>6 DEF In
  <1>. QED
    BY <1>3, <1>4, <1>5, <1>6, <1>10, <1>11, <1>12, <1>13, TileThree

\* One block above two.
LEMMA TBottomTile ==
  ASSUME NEW n \in Node, Aligned(n)
  PROVE  Tiling(Parts(n, "TBottom"), n)
  <1>. DEFINE s == Size(n.bl)
              k == Half(n)
              a == Block(n, 0, 0, s, k, HFlags(n, 0))
              b == Block(n, 0, k, k, k, VFlags(n, 0))
              c == Block(n, k, k, k, k, {})
  <1>1. /\ n \in Items /\ n.x \in Nat /\ n.y \in Nat /\ Wide(n) = s /\ High(n) = s
        /\ s \in {2, 4, 8, 16, 32} /\ s = 2 * k /\ k \in Sides
    BY NodeShape
  <1>0. /\ n.x % s = 0 /\ n.x % k = 0 /\ (n.x + k) % k = 0
        /\ n.y % s = 0 /\ n.y % k = 0 /\ (n.y + k) % k = 0
    BY NodeShape
  <1>2. s \in Sides
    BY <1>1 DEF Sides
  <1>3. Parts(n, "TBottom") = <<a, b, c>>
    BY DEF Parts, Blocks, TBlocks
  <1>4. /\ a \in Items /\ a.x = n.x /\ a.y = n.y
        /\ Wide(a) = s /\ High(a) = k
    <2>1. HFlags(n, 0) \in SUBSET AllEdges
      BY FlagsAre, Zenon
    <2>2. 0 \in Nat /\ 0 \in Nat /\ s \in Sides /\ k \in Sides
      BY <1>1, <1>2 DEF Sides
    <2>3. /\ a \in CodedBlock /\ a.x = n.x + 0 /\ a.y = n.y + 0
          /\ Wide(a) = s /\ High(a) = k
      <3>. HIDE DEF s, k
      <3>. QED
        BY <2>1, <2>2, BlockFields
    <2>. HIDE DEF s, k, a
    <2>. QED
      BY <2>3, <1>1, BlocksAreItems, PlusZero
  <1>5. /\ b \in Items /\ b.x = n.x /\ b.y = n.y + k
        /\ Wide(b) = k /\ High(b) = k
    <2>1. VFlags(n, 0) \in SUBSET AllEdges
      BY FlagsAre, Zenon
    <2>2. 0 \in Nat /\ k \in Nat /\ k \in Sides /\ k \in Sides
      BY <1>1, <1>2 DEF Sides
    <2>3. /\ b \in CodedBlock /\ b.x = n.x + 0 /\ b.y = n.y + k
          /\ Wide(b) = k /\ High(b) = k
      <3>. HIDE DEF s, k
      <3>. QED
        BY <2>1, <2>2, BlockFields
    <2>. HIDE DEF s, k, b
    <2>. QED
      BY <2>3, <1>1, BlocksAreItems, PlusZero
  <1>6. /\ c \in Items /\ c.x = n.x + k /\ c.y = n.y + k
        /\ Wide(c) = k /\ High(c) = k
    <2>1. {} \in SUBSET AllEdges
      BY FlagsAre, EdgesAre
    <2>2. k \in Nat /\ k \in Nat /\ k \in Sides /\ k \in Sides
      BY <1>1, <1>2 DEF Sides
    <2>3. /\ c \in CodedBlock /\ c.x = n.x + k /\ c.y = n.y + k
          /\ Wide(c) = k /\ High(c) = k
      <3>. HIDE DEF s, k
      <3>. QED
        BY <2>1, <2>2, BlockFields
    <2>. HIDE DEF s, k, c
    <2>. QED
      BY <2>3, <1>1, BlocksAreItems, PlusZero
  <1>. HIDE DEF s, k, a, b, c
  <1>7. s \in Nat /\ k \in Nat
    BY <1>1, <1>2 DEF Sides
  <1>8. s = 2 * k /\ Wide(n) = s /\ High(n) = s /\ n.x \in Nat /\ n.y \in Nat
    BY <1>1, <1>2
  <1>9. k > 0
    BY <1>1, <1>2 DEF Sides
  <1>10. Inside(a, n) /\ Inside(b, n) /\ Inside(c, n)
    BY <1>8, <1>9, <1>7, <1>4, <1>5, <1>6 DEF Inside
  <1>11. Aligned(a) /\ Aligned(b) /\ Aligned(c)
    BY <1>0, <1>1, <1>2, <1>8, <1>9, <1>7, <1>4, <1>5, <1>6 DEF Aligned, Spans
  <1>12. Precedes(a, b) /\ Precedes(a, c) /\ Precedes(b, c)
    BY <1>8, <1>9, <1>7, <1>4, <1>5, <1>6 DEF Precedes
  <1>13. ASSUME NEW u \in Nat \X Nat, In(n, u)
        PROVE  In(a, u) \/ In(b, u) \/ In(c, u)
    <2>1. u[1] \in Nat /\ u[2] \in Nat
      OBVIOUS
    <2>. QED
      BY <2>1, <1>13, <1>8, <1>9, <1>7, <1>4, <1>5, <1>6 DEF In
  <1>. QED
    BY <1>3, <1>4, <1>5, <1>6, <1>10, <1>11, <1>12, <1>13, TileThree

\* Two blocks to the left of one.
LEMMA TLeftTile ==
  ASSUME NEW n \in Node, Aligned(n)
  PROVE  Tiling(Parts(n, "TLeft"), n)
  <1>. DEFINE s == Size(n.bl)
              k == Half(n)
              a == Block(n, 0, 0, k, k, AllEdges)
              b == Block(n, 0, k, k, k, HFlags(n, 1))
              c == Block(n, k, 0, k, s, VFlags(n, 1))
  <1>1. /\ n \in Items /\ n.x \in Nat /\ n.y \in Nat /\ Wide(n) = s /\ High(n) = s
        /\ s \in {2, 4, 8, 16, 32} /\ s = 2 * k /\ k \in Sides
    BY NodeShape
  <1>0. /\ n.x % s = 0 /\ n.x % k = 0 /\ (n.x + k) % k = 0
        /\ n.y % s = 0 /\ n.y % k = 0 /\ (n.y + k) % k = 0
    BY NodeShape
  <1>2. s \in Sides
    BY <1>1 DEF Sides
  <1>3. Parts(n, "TLeft") = <<a, b, c>>
    BY DEF Parts, Blocks, TBlocks
  <1>4. /\ a \in Items /\ a.x = n.x /\ a.y = n.y
        /\ Wide(a) = k /\ High(a) = k
    <2>1. AllEdges \in SUBSET AllEdges
      BY FlagsAre, EdgesAre
    <2>2. 0 \in Nat /\ 0 \in Nat /\ k \in Sides /\ k \in Sides
      BY <1>1, <1>2 DEF Sides
    <2>3. /\ a \in CodedBlock /\ a.x = n.x + 0 /\ a.y = n.y + 0
          /\ Wide(a) = k /\ High(a) = k
      <3>. HIDE DEF s, k
      <3>. QED
        BY <2>1, <2>2, BlockFields
    <2>. HIDE DEF s, k, a
    <2>. QED
      BY <2>3, <1>1, BlocksAreItems, PlusZero
  <1>5. /\ b \in Items /\ b.x = n.x /\ b.y = n.y + k
        /\ Wide(b) = k /\ High(b) = k
    <2>1. HFlags(n, 1) \in SUBSET AllEdges
      BY FlagsAre, Zenon
    <2>2. 0 \in Nat /\ k \in Nat /\ k \in Sides /\ k \in Sides
      BY <1>1, <1>2 DEF Sides
    <2>3. /\ b \in CodedBlock /\ b.x = n.x + 0 /\ b.y = n.y + k
          /\ Wide(b) = k /\ High(b) = k
      <3>. HIDE DEF s, k
      <3>. QED
        BY <2>1, <2>2, BlockFields
    <2>. HIDE DEF s, k, b
    <2>. QED
      BY <2>3, <1>1, BlocksAreItems, PlusZero
  <1>6. /\ c \in Items /\ c.x = n.x + k /\ c.y = n.y
        /\ Wide(c) = k /\ High(c) = s
    <2>1. VFlags(n, 1) \in SUBSET AllEdges
      BY FlagsAre, Zenon
    <2>2. k \in Nat /\ 0 \in Nat /\ k \in Sides /\ s \in Sides
      BY <1>1, <1>2 DEF Sides
    <2>3. /\ c \in CodedBlock /\ c.x = n.x + k /\ c.y = n.y + 0
          /\ Wide(c) = k /\ High(c) = s
      <3>. HIDE DEF s, k
      <3>. QED
        BY <2>1, <2>2, BlockFields
    <2>. HIDE DEF s, k, c
    <2>. QED
      BY <2>3, <1>1, BlocksAreItems, PlusZero
  <1>. HIDE DEF s, k, a, b, c
  <1>7. s \in Nat /\ k \in Nat
    BY <1>1, <1>2 DEF Sides
  <1>8. s = 2 * k /\ Wide(n) = s /\ High(n) = s /\ n.x \in Nat /\ n.y \in Nat
    BY <1>1, <1>2
  <1>9. k > 0
    BY <1>1, <1>2 DEF Sides
  <1>10. Inside(a, n) /\ Inside(b, n) /\ Inside(c, n)
    BY <1>8, <1>9, <1>7, <1>4, <1>5, <1>6 DEF Inside
  <1>11. Aligned(a) /\ Aligned(b) /\ Aligned(c)
    BY <1>0, <1>1, <1>2, <1>8, <1>9, <1>7, <1>4, <1>5, <1>6 DEF Aligned, Spans
  <1>12. Precedes(a, b) /\ Precedes(a, c) /\ Precedes(b, c)
    BY <1>8, <1>9, <1>7, <1>4, <1>5, <1>6 DEF Precedes
  <1>13. ASSUME NEW u \in Nat \X Nat, In(n, u)
        PROVE  In(a, u) \/ In(b, u) \/ In(c, u)
    <2>1. u[1] \in Nat /\ u[2] \in Nat
      OBVIOUS
    <2>. QED
      BY <2>1, <1>13, <1>8, <1>9, <1>7, <1>4, <1>5, <1>6 DEF In
  <1>. QED
    BY <1>3, <1>4, <1>5, <1>6, <1>10, <1>11, <1>12, <1>13, TileThree

\* One block to the left of two.
LEMMA TRightTile ==
  ASSUME NEW n \in Node, Aligned(n)
  PROVE  Tiling(Parts(n, "TRight"), n)
  <1>. DEFINE s == Size(n.bl)
              k == Half(n)
              a == Block(n, 0, 0, k, s, VFlags(n, 0))
              b == Block(n, k, 0, k, k, HFlags(n, 0))
              c == Block(n, k, k, k, k, {})
  <1>1. /\ n \in Items /\ n.x \in Nat /\ n.y \in Nat /\ Wide(n) = s /\ High(n) = s
        /\ s \in {2, 4, 8, 16, 32} /\ s = 2 * k /\ k \in Sides
    BY NodeShape
  <1>0. /\ n.x % s = 0 /\ n.x % k = 0 /\ (n.x + k) % k = 0
        /\ n.y % s = 0 /\ n.y % k = 0 /\ (n.y + k) % k = 0
    BY NodeShape
  <1>2. s \in Sides
    BY <1>1 DEF Sides
  <1>3. Parts(n, "TRight") = <<a, b, c>>
    BY DEF Parts, Blocks, TBlocks
  <1>4. /\ a \in Items /\ a.x = n.x /\ a.y = n.y
        /\ Wide(a) = k /\ High(a) = s
    <2>1. VFlags(n, 0) \in SUBSET AllEdges
      BY FlagsAre, Zenon
    <2>2. 0 \in Nat /\ 0 \in Nat /\ k \in Sides /\ s \in Sides
      BY <1>1, <1>2 DEF Sides
    <2>3. /\ a \in CodedBlock /\ a.x = n.x + 0 /\ a.y = n.y + 0
          /\ Wide(a) = k /\ High(a) = s
      <3>. HIDE DEF s, k
      <3>. QED
        BY <2>1, <2>2, BlockFields
    <2>. HIDE DEF s, k, a
    <2>. QED
      BY <2>3, <1>1, BlocksAreItems, PlusZero
  <1>5. /\ b \in Items /\ b.x = n.x + k /\ b.y = n.y
        /\ Wide(b) = k /\ High(b) = k
    <2>1. HFlags(n, 0) \in SUBSET AllEdges
      BY FlagsAre, Zenon
    <2>2. k \in Nat /\ 0 \in Nat /\ k \in Sides /\ k \in Sides
      BY <1>1, <1>2 DEF Sides
    <2>3. /\ b \in CodedBlock /\ b.x = n.x + k /\ b.y = n.y + 0
          /\ Wide(b) = k /\ High(b) = k
      <3>. HIDE DEF s, k
      <3>. QED
        BY <2>1, <2>2, BlockFields
    <2>. HIDE DEF s, k, b
    <2>. QED
      BY <2>3, <1>1, BlocksAreItems, PlusZero
  <1>6. /\ c \in Items /\ c.x = n.x + k /\ c.y = n.y + k
        /\ Wide(c) = k /\ High(c) = k
    <2>1. {} \in SUBSET AllEdges
      BY FlagsAre, EdgesAre
    <2>2. k \in Nat /\ k \in Nat /\ k \in Sides /\ k \in Sides
      BY <1>1, <1>2 DEF Sides
    <2>3. /\ c \in CodedBlock /\ c.x = n.x + k /\ c.y = n.y + k
          /\ Wide(c) = k /\ High(c) = k
      <3>. HIDE DEF s, k
      <3>. QED
        BY <2>1, <2>2, BlockFields
    <2>. HIDE DEF s, k, c
    <2>. QED
      BY <2>3, <1>1, BlocksAreItems, PlusZero
  <1>. HIDE DEF s, k, a, b, c
  <1>7. s \in Nat /\ k \in Nat
    BY <1>1, <1>2 DEF Sides
  <1>8. s = 2 * k /\ Wide(n) = s /\ High(n) = s /\ n.x \in Nat /\ n.y \in Nat
    BY <1>1, <1>2
  <1>9. k > 0
    BY <1>1, <1>2 DEF Sides
  <1>10. Inside(a, n) /\ Inside(b, n) /\ Inside(c, n)
    BY <1>8, <1>9, <1>7, <1>4, <1>5, <1>6 DEF Inside
  <1>11. Aligned(a) /\ Aligned(b) /\ Aligned(c)
    BY <1>0, <1>1, <1>2, <1>8, <1>9, <1>7, <1>4, <1>5, <1>6 DEF Aligned, Spans
  <1>12. Precedes(a, b) /\ Precedes(a, c) /\ Precedes(b, c)
    BY <1>8, <1>9, <1>7, <1>4, <1>5, <1>6 DEF Precedes
  <1>13. ASSUME NEW u \in Nat \X Nat, In(n, u)
        PROVE  In(a, u) \/ In(b, u) \/ In(c, u)
    <2>1. u[1] \in Nat /\ u[2] \in Nat
      OBVIOUS
    <2>. QED
      BY <2>1, <1>13, <1>8, <1>9, <1>7, <1>4, <1>5, <1>6 DEF In
  <1>. QED
    BY <1>3, <1>4, <1>5, <1>6, <1>10, <1>11, <1>12, <1>13, TileThree

\* Four blocks across, from top to bottom.
LEMMA H4Tile ==
  ASSUME NEW n \in Node, Aligned(n), n.bl \in {1, 2, 3}
  PROVE  Tiling(Parts(n, "H4"), n)
  <1>. DEFINE s == Size(n.bl)
              k == Half(n)
              q == s \div 4
              mid4 == IF n.bl = 3 THEN Flags(n) ELSE {}
              a == Block(n, 0, 0, s, q, HFlags(n, 0))
              b == Block(n, 0, q, s, q, BottomLeft \cup (mid4 \cap {<<"right", 420>>}))
              c == Block(n, 0, 2 * q, s, q, BottomLeft)
              d == Block(n, 0, 3 * q, s, q, HFlags(n, 1))
  <1>1. /\ n \in Items /\ n.x \in Nat /\ n.y \in Nat /\ Wide(n) = s /\ High(n) = s
        /\ s \in {2, 4, 8, 16, 32} /\ s = 2 * k /\ k \in Sides
    BY NodeShape
  <1>0. /\ n.x % s = 0 /\ n.x % k = 0 /\ (n.x + k) % k = 0
        /\ n.y % s = 0 /\ n.y % k = 0 /\ (n.y + k) % k = 0
    BY NodeShape
  <1>2. /\ s \in {4, 8, 16} /\ s = 4 * q /\ q \in Sides
        /\ n.x % q = 0 /\ (n.x + q) % q = 0 /\ (n.x + 2 * q) % q = 0 /\ (n.x + 3 * q) % q = 0
        /\ n.y % q = 0 /\ (n.y + q) % q = 0 /\ (n.y + 2 * q) % q = 0 /\ (n.y + 3 * q) % q = 0
    <2>1. s \in {4, 8, 16}
      BY SizeOf
    <2>2. /\ s = 4 * (s \div 4) /\ s \div 4 \in Sides
          /\ \A x \in Nat : x % s = 0 =>
                /\ x % (s \div 4) = 0 /\ (x + s \div 4) % (s \div 4) = 0
                /\ (x + 2 * (s \div 4)) % (s \div 4) = 0 /\ (x + 3 * (s \div 4)) % (s \div 4) = 0
      <3>. HIDE DEF s
      <3>1. s \in {2, 4, 8, 16, 32} /\ 0 \in Nat /\ 0 % s = 0
        BY <2>1
      <3>. QED
        BY ONLY <3>1, <2>1, Multiples
    <2>. HIDE DEF s
    <2>. QED
      BY ONLY <1>1, <1>0, <2>1, <2>2 DEF q
  <1>3. Parts(n, "H4") = <<a, b, c, d>>
    BY DEF Parts, Blocks
  <1>4. /\ a \in Items /\ a.x = n.x /\ a.y = n.y
        /\ Wide(a) = s /\ High(a) = q
    <2>1. HFlags(n, 0) \in SUBSET AllEdges
      BY FlagsAre, Zenon
    <2>2. 0 \in Nat /\ 0 \in Nat /\ s \in Sides /\ q \in Sides
      BY <1>1, <1>2 DEF Sides
    <2>3. /\ a \in CodedBlock /\ a.x = n.x + 0 /\ a.y = n.y + 0
          /\ Wide(a) = s /\ High(a) = q
      <3>. HIDE DEF s, k, q, mid4
      <3>. QED
        BY <2>1, <2>2, BlockFields
    <2>. HIDE DEF s, k, a, q, mid4
    <2>. QED
      BY <2>3, <1>1, BlocksAreItems, PlusZero
  <1>5. /\ b \in Items /\ b.x = n.x /\ b.y = n.y + q
        /\ Wide(b) = s /\ High(b) = q
    <2>1. BottomLeft \cup (mid4 \cap {<<"right", 420>>}) \in SUBSET AllEdges
      BY FlagsAre, EdgesAre
    <2>2. 0 \in Nat /\ q \in Nat /\ s \in Sides /\ q \in Sides
      BY <1>1, <1>2 DEF Sides
    <2>3. /\ b \in CodedBlock /\ b.x = n.x + 0 /\ b.y = n.y + q
          /\ Wide(b) = s /\ High(b) = q
      <3>. HIDE DEF s, k, q, mid4
      <3>. QED
        BY <2>1, <2>2, BlockFields
    <2>. HIDE DEF s, k, b, q, mid4
    <2>. QED
      BY <2>3, <1>1, BlocksAreItems, PlusZero
  <1>6. /\ c \in Items /\ c.x = n.x /\ c.y = n.y + 2 * q
        /\ Wide(c) = s /\ High(c) = q
    <2>1. BottomLeft \in SUBSET AllEdges
      BY FlagsAre, EdgesAre
    <2>2. 0 \in Nat /\ 2 * q \in Nat /\ s \in Sides /\ q \in Sides
      BY <1>1, <1>2 DEF Sides
    <2>3. /\ c \in CodedBlock /\ c.x = n.x + 0 /\ c.y = n.y + 2 * q
          /\ Wide(c) = s /\ High(c) = q
      <3>. HIDE DEF s, k, q, mid4
      <3>. QED
        BY <2>1, <2>2, BlockFields
    <2>. HIDE DEF s, k, c, q, mid4
    <2>. QED
      BY <2>3, <1>1, BlocksAreItems, PlusZero
  <1>7. /\ d \in Items /\ d.x = n.x /\ d.y = n.y + 3 * q
        /\ Wide(d) = s /\ High(d) = q
    <2>1. HFlags(n, 1) \in SUBSET AllEdges
      BY FlagsAre, Zenon
    <2>2. 0 \in Nat /\ 3 * q \in Nat /\ s \in Sides /\ q \in Sides
      BY <1>1, <1>2 DEF Sides
    <2>3. /\ d \in CodedBlock /\ d.x = n.x + 0 /\ d.y = n.y + 3 * q
          /\ Wide(d) = s /\ High(d) = q
      <3>. HIDE DEF s, k, q, mid4
      <3>. QED
        BY <2>1, <2>2, BlockFields
    <2>. HIDE DEF s, k, d, q, mid4
    <2>. QED
      BY <2>3, <1>1, BlocksAreItems, PlusZero
  <1>. HIDE DEF s, k, q, mid4, a, b, c, d
  <1>8. s \in Nat /\ k \in Nat /\ q \in Nat
    BY <1>1, <1>2 DEF Sides
  <1>9. s = 2 * k /\ Wide(n) = s /\ High(n) = s /\ n.x \in Nat /\ n.y \in Nat /\ s = 4 * q
    BY <1>1, <1>2
  <1>10. k > 0 /\ q > 0
    BY <1>1, <1>2 DEF Sides
  <1>11. Inside(a, n) /\ Inside(b, n) /\ Inside(c, n) /\ Inside(d, n)
    BY <1>9, <1>10, <1>8, <1>4, <1>5, <1>6, <1>7 DEF Inside
  <1>12. Aligned(a) /\ Aligned(b) /\ Aligned(c) /\ Aligned(d)
    BY <1>0, <1>1, <1>2, <1>9, <1>10, <1>8, <1>4, <1>5, <1>6, <1>7 DEF Aligned, Spans
  <1>13. Precedes(a, b) /\ Precedes(a, c) /\ Precedes(a, d) /\ Precedes(b, c) /\ Precedes(b, d) /\ Precedes(c, d)
    BY <1>9, <1>10, <1>8, <1>4, <1>5, <1>6, <1>7 DEF Precedes
  <1>14. ASSUME NEW u \in Nat \X Nat, In(n, u)
        PROVE  In(a, u) \/ In(b, u) \/ In(c, u) \/ In(d, u)
    <2>1. u[1] \in Nat /\ u[2] \in Nat
      OBVIOUS
    <2>. QED
      BY <2>1, <1>14, <1>9, <1>10, <1>8, <1>4, <1>5, <1>6, <1>7 DEF In
  <1>. QED
    BY <1>3, <1>4, <1>5, <1>6, <1>7, <1>11, <1>12, <1>13, <1>14, TileFour

\* Four blocks down, from left to right.
LEMMA V4Tile ==
  ASSUME NEW n \in Node, Aligned(n), n.bl \in {1, 2, 3}
  PROVE  Tiling(Parts(n, "V4"), n)
  <1>. DEFINE s == Size(n.bl)
              k == Half(n)
              q == s \div 4
              mid4 == IF n.bl = 3 THEN Flags(n) ELSE {}
              a == Block(n, 0, 0, q, s, VFlags(n, 0))
              b == Block(n, q, 0, q, s, TopRight \cup (mid4 \cap {<<"bottom", 420>>, <<"bottom", 422>>}))
              c == Block(n, 2 * q, 0, q, s, TopRight)
              d == Block(n, 3 * q, 0, q, s, VFlags(n, 1))
  <1>1. /\ n \in Items /\ n.x \in Nat /\ n.y \in Nat /\ Wide(n) = s /\ High(n) = s
        /\ s \in {2, 4, 8, 16, 32} /\ s = 2 * k /\ k \in Sides
    BY NodeShape
  <1>0. /\ n.x % s = 0 /\ n.x % k = 0 /\ (n.x + k) % k = 0
        /\ n.y % s = 0 /\ n.y % k = 0 /\ (n.y + k) % k = 0
    BY NodeShape
  <1>2. /\ s \in {4, 8, 16} /\ s = 4 * q /\ q \in Sides
        /\ n.x % q = 0 /\ (n.x + q) % q = 0 /\ (n.x + 2 * q) % q = 0 /\ (n.x + 3 * q) % q = 0
        /\ n.y % q = 0 /\ (n.y + q) % q = 0 /\ (n.y + 2 * q) % q = 0 /\ (n.y + 3 * q) % q = 0
    <2>1. s \in {4, 8, 16}
      BY SizeOf
    <2>2. /\ s = 4 * (s \div 4) /\ s \div 4 \in Sides
          /\ \A x \in Nat : x % s = 0 =>
                /\ x % (s \div 4) = 0 /\ (x + s \div 4) % (s \div 4) = 0
                /\ (x + 2 * (s \div 4)) % (s \div 4) = 0 /\ (x + 3 * (s \div 4)) % (s \div 4) = 0
      <3>. HIDE DEF s
      <3>1. s \in {2, 4, 8, 16, 32} /\ 0 \in Nat /\ 0 % s = 0
        BY <2>1
      <3>. QED
        BY ONLY <3>1, <2>1, Multiples
    <2>. HIDE DEF s
    <2>. QED
      BY ONLY <1>1, <1>0, <2>1, <2>2 DEF q
  <1>3. Parts(n, "V4") = <<a, b, c, d>>
    BY DEF Parts, Blocks
  <1>4. /\ a \in Items /\ a.x = n.x /\ a.y = n.y
        /\ Wide(a) = q /\ High(a) = s
    <2>1. VFlags(n, 0) \in SUBSET AllEdges
      BY FlagsAre, Zenon
    <2>2. 0 \in Nat /\ 0 \in Nat /\ q \in Sides /\ s \in Sides
      BY <1>1, <1>2 DEF Sides
    <2>3. /\ a \in CodedBlock /\ a.x = n.x + 0 /\ a.y = n.y + 0
          /\ Wide(a) = q /\ High(a) = s
      <3>. HIDE DEF s, k, q, mid4
      <3>. QED
        BY <2>1, <2>2, BlockFields
    <2>. HIDE DEF s, k, a, q, mid4
    <2>. QED
      BY <2>3, <1>1, BlocksAreItems, PlusZero
  <1>5. /\ b \in Items /\ b.x = n.x + q /\ b.y = n.y
        /\ Wide(b) = q /\ High(b) = s
    <2>1. TopRight \cup (mid4 \cap {<<"bottom", 420>>, <<"bottom", 422>>}) \in SUBSET AllEdges
      BY FlagsAre, EdgesAre
    <2>2. q \in Nat /\ 0 \in Nat /\ q \in Sides /\ s \in Sides
      BY <1>1, <1>2 DEF Sides
    <2>3. /\ b \in CodedBlock /\ b.x = n.x + q /\ b.y = n.y + 0
          /\ Wide(b) = q /\ High(b) = s
      <3>. HIDE DEF s, k, q, mid4
      <3>. QED
        BY <2>1, <2>2, BlockFields
    <2>. HIDE DEF s, k, b, q, mid4
    <2>. QED
      BY <2>3, <1>1, BlocksAreItems, PlusZero
  <1>6. /\ c \in Items /\ c.x = n.x + 2 * q /\ c.y = n.y
        /\ Wide(c) = q /\ High(c) = s
    <2>1. TopRight \in SUBSET AllEdges
      BY FlagsAre, EdgesAre
    <2>2. 2 * q \in Nat /\ 0 \in Nat /\ q \in Sides /\ s \in Sides
      BY <1>1, <1>2 DEF Sides
    <2>3. /\ c \in CodedBlock /\ c.x = n.x + 2 * q /\ c.y = n.y + 0
          /\ Wide(c) = q /\ High(c) = s
      <3>. HIDE DEF s, k, q, mid4
      <3>. QED
        BY <2>1, <2>2, BlockFields
    <2>. HIDE DEF s, k, c, q, mid4
    <2>. QED
      BY <2>3, <1>1, BlocksAreItems, PlusZero
  <1>7. /\ d \in Items /\ d.x = n.x + 3 * q /\ d.y = n.y
        /\ Wide(d) = q /\ High(d) = s
    <2>1. VFlags(n, 1) \in SUBSET AllEdges
      BY FlagsAre, Zenon
    <2>2. 3 * q \in Nat /\ 0 \in Nat /\ q \in Sides /\ s \in Sides
      BY <1>1, <1>2 DEF Sides
    <2>3. /\ d \in CodedBlock /\ d.x = n.x + 3 * q /\ d.y = n.y + 0
          /\ Wide(d) = q /\ High(d) = s
      <3>. HIDE DEF s, k, q, mid4
      <3>. QED
        BY <2>1, <2>2, BlockFields
    <2>. HIDE DEF s, k, d, q, mid4
    <2>. QED
      BY <2>3, <1>1, BlocksAreItems, PlusZero
  <1>. HIDE DEF s, k, q, mid4, a, b, c, d
  <1>8. s \in Nat /\ k \in Nat /\ q \in Nat
    BY <1>1, <1>2 DEF Sides
  <1>9. s = 2 * k /\ Wide(n) = s /\ High(n) = s /\ n.x \in Nat /\ n.y \in Nat /\ s = 4 * q
    BY <1>1, <1>2
  <1>10. k > 0 /\ q > 0
    BY <1>1, <1>2 DEF Sides
  <1>11. Inside(a, n) /\ Inside(b, n) /\ Inside(c, n) /\ Inside(d, n)
    BY <1>9, <1>10, <1>8, <1>4, <1>5, <1>6, <1>7 DEF Inside
  <1>12. Aligned(a) /\ Aligned(b) /\ Aligned(c) /\ Aligned(d)
    BY <1>0, <1>1, <1>2, <1>9, <1>10, <1>8, <1>4, <1>5, <1>6, <1>7 DEF Aligned, Spans
  <1>13. Precedes(a, b) /\ Precedes(a, c) /\ Precedes(a, d) /\ Precedes(b, c) /\ Precedes(b, d) /\ Precedes(c, d)
    BY <1>9, <1>10, <1>8, <1>4, <1>5, <1>6, <1>7 DEF Precedes
  <1>14. ASSUME NEW u \in Nat \X Nat, In(n, u)
        PROVE  In(a, u) \/ In(b, u) \/ In(c, u) \/ In(d, u)
    <2>1. u[1] \in Nat /\ u[2] \in Nat
      OBVIOUS
    <2>. QED
      BY <2>1, <1>14, <1>9, <1>10, <1>8, <1>4, <1>5, <1>6, <1>7 DEF In
  <1>. QED
    BY <1>3, <1>4, <1>5, <1>6, <1>7, <1>11, <1>12, <1>13, <1>14, TileFour

\* A split 8x8 node is four 4x4 blocks.
LEMMA SplitTile ==
  ASSUME NEW n \in Node, Aligned(n), n.bl = 4
  PROVE  Tiling(Parts(n, "Split"), n)
  <1>. DEFINE s == Size(n.bl)
              k == Half(n)
              a == Block(n, 0, 0, 1, 1, AllEdges)
              b == Block(n, 1, 0, 1, 1, (Flags(n) \cap TopRight) \cup {<<"bottom", 422>>})
              c == Block(n, 0, 1, 1, 1, Flags(n) \cup {<<"right", 444>>})
              d == Block(n, 1, 1, 1, 1, Flags(n) \cap {<<"right", 420>>, <<"bottom", 420>>, <<"bottom", 422>>})
  <1>1. /\ n \in Items /\ n.x \in Nat /\ n.y \in Nat /\ Wide(n) = s /\ High(n) = s
        /\ s \in {2, 4, 8, 16, 32} /\ s = 2 * k /\ k \in Sides
    BY NodeShape
  <1>0. /\ n.x % s = 0 /\ n.x % k = 0 /\ (n.x + k) % k = 0
        /\ n.y % s = 0 /\ n.y % k = 0 /\ (n.y + k) % k = 0
    BY NodeShape
  <1>2. s = 2 /\ k = 1
    <2>1. s = 2
      BY DEF Size
    <2>. QED
      BY <2>1, <1>1 DEF Sides
  <1>3. Parts(n, "Split") = <<a, b, c, d>>
    BY DEF Parts, Blocks
  <1>4. /\ a \in Items /\ a.x = n.x /\ a.y = n.y
        /\ Wide(a) = 1 /\ High(a) = 1
    <2>1. AllEdges \in SUBSET AllEdges
      BY FlagsAre, EdgesAre
    <2>2. 0 \in Nat /\ 0 \in Nat /\ 1 \in Sides /\ 1 \in Sides
      BY <1>1, <1>2 DEF Sides
    <2>3. /\ a \in CodedBlock /\ a.x = n.x + 0 /\ a.y = n.y + 0
          /\ Wide(a) = 1 /\ High(a) = 1
      <3>. HIDE DEF s, k
      <3>. QED
        BY <2>1, <2>2, BlockFields
    <2>. HIDE DEF s, k, a
    <2>. QED
      BY <2>3, <1>1, BlocksAreItems, PlusZero
  <1>5. /\ b \in Items /\ b.x = n.x + 1 /\ b.y = n.y
        /\ Wide(b) = 1 /\ High(b) = 1
    <2>1. (Flags(n) \cap TopRight) \cup {<<"bottom", 422>>} \in SUBSET AllEdges
      BY FlagsAre, EdgesAre
    <2>2. 1 \in Nat /\ 0 \in Nat /\ 1 \in Sides /\ 1 \in Sides
      BY <1>1, <1>2 DEF Sides
    <2>3. /\ b \in CodedBlock /\ b.x = n.x + 1 /\ b.y = n.y + 0
          /\ Wide(b) = 1 /\ High(b) = 1
      <3>. HIDE DEF s, k
      <3>. QED
        BY <2>1, <2>2, BlockFields
    <2>. HIDE DEF s, k, b
    <2>. QED
      BY <2>3, <1>1, BlocksAreItems, PlusZero
  <1>6. /\ c \in Items /\ c.x = n.x /\ c.y = n.y + 1
        /\ Wide(c) = 1 /\ High(c) = 1
    <2>1. Flags(n) \cup {<<"right", 444>>} \in SUBSET AllEdges
      BY FlagsAre, EdgesAre
    <2>2. 0 \in Nat /\ 1 \in Nat /\ 1 \in Sides /\ 1 \in Sides
      BY <1>1, <1>2 DEF Sides
    <2>3. /\ c \in CodedBlock /\ c.x = n.x + 0 /\ c.y = n.y + 1
          /\ Wide(c) = 1 /\ High(c) = 1
      <3>. HIDE DEF s, k
      <3>. QED
        BY <2>1, <2>2, BlockFields
    <2>. HIDE DEF s, k, c
    <2>. QED
      BY <2>3, <1>1, BlocksAreItems, PlusZero
  <1>7. /\ d \in Items /\ d.x = n.x + 1 /\ d.y = n.y + 1
        /\ Wide(d) = 1 /\ High(d) = 1
    <2>1. Flags(n) \cap {<<"right", 420>>, <<"bottom", 420>>, <<"bottom", 422>>} \in SUBSET AllEdges
      BY FlagsAre, EdgesAre
    <2>2. 1 \in Nat /\ 1 \in Nat /\ 1 \in Sides /\ 1 \in Sides
      BY <1>1, <1>2 DEF Sides
    <2>3. /\ d \in CodedBlock /\ d.x = n.x + 1 /\ d.y = n.y + 1
          /\ Wide(d) = 1 /\ High(d) = 1
      <3>. HIDE DEF s, k
      <3>. QED
        BY <2>1, <2>2, BlockFields
    <2>. HIDE DEF s, k, d
    <2>. QED
      BY <2>3, <1>1, BlocksAreItems, PlusZero
  <1>. HIDE DEF s, k, a, b, c, d
  <1>8. s \in Nat /\ k \in Nat
    BY <1>1, <1>2 DEF Sides
  <1>9. s = 2 * k /\ Wide(n) = s /\ High(n) = s /\ n.x \in Nat /\ n.y \in Nat /\ k = 1
    BY <1>1, <1>2
  <1>10. k > 0
    BY <1>1, <1>2 DEF Sides
  <1>11. Inside(a, n) /\ Inside(b, n) /\ Inside(c, n) /\ Inside(d, n)
    BY <1>9, <1>10, <1>8, <1>4, <1>5, <1>6, <1>7 DEF Inside
  <1>12. Aligned(a) /\ Aligned(b) /\ Aligned(c) /\ Aligned(d)
    BY <1>0, <1>1, <1>2, <1>9, <1>10, <1>8, <1>4, <1>5, <1>6, <1>7 DEF Aligned, Spans
  <1>13. Precedes(a, b) /\ Precedes(a, c) /\ Precedes(a, d) /\ Precedes(b, c) /\ Precedes(b, d) /\ Precedes(c, d)
    BY <1>9, <1>10, <1>8, <1>4, <1>5, <1>6, <1>7 DEF Precedes
  <1>14. ASSUME NEW u \in Nat \X Nat, In(n, u)
        PROVE  In(a, u) \/ In(b, u) \/ In(c, u) \/ In(d, u)
    <2>1. u[1] \in Nat /\ u[2] \in Nat
      OBVIOUS
    <2>. QED
      BY <2>1, <1>14, <1>9, <1>10, <1>8, <1>4, <1>5, <1>6, <1>7 DEF In
  <1>. QED
    BY <1>3, <1>4, <1>5, <1>6, <1>7, <1>11, <1>12, <1>13, <1>14, TileFour

\* A larger one is four nodes.
LEMMA NodesTile ==
  ASSUME NEW n \in Node, Aligned(n), n.bl < 4
  PROVE  Tiling(Parts(n, "Split"), n)
  <1>. DEFINE s == Size(n.bl)
              k == Half(n)
              a == SplitChild(n, 0)
              b == SplitChild(n, 1)
              c == SplitChild(n, 2)
              d == SplitChild(n, 3)
  <1>1. /\ n \in Items /\ n.x \in Nat /\ n.y \in Nat /\ Wide(n) = s /\ High(n) = s
        /\ s \in {2, 4, 8, 16, 32} /\ s = 2 * k /\ k \in Sides
    BY NodeShape
  <1>0. /\ n.x % s = 0 /\ n.x % k = 0 /\ (n.x + k) % k = 0
        /\ n.y % s = 0 /\ n.y % k = 0 /\ (n.y + k) % k = 0
    BY NodeShape
  <1>2. s \in Sides
    BY <1>1 DEF Sides
  <1>3. Parts(n, "Split") = <<a, b, c, d>>
    <2>1. [i \in 1 .. 4 |-> SplitChild(n, i - 1)] = <<SplitChild(n, 0), SplitChild(n, 1), SplitChild(n, 2), SplitChild(n, 3)>>
      OBVIOUS
    <2>. QED
      BY <2>1 DEF Parts
  <1>4. /\ a \in Items /\ a.x = n.x /\ a.y = n.y
        /\ Wide(a) = k /\ High(a) = k
    <2>1. 0 \in 0 .. 3 /\ 0 % 2 = 0 /\ 0 \div 2 = 0
      OBVIOUS
    <2>2. /\ a \in Node /\ a.x = n.x + k * 0 /\ a.y = n.y + k * 0
          /\ Wide(a) = k /\ High(a) = k
      BY <2>1, ChildFields
    <2>3. k \in Nat
      BY <1>1 DEF Sides
    <2>. HIDE DEF s, k, a
    <2>. QED
      BY <2>2, <2>3, <1>1 DEF Items
  <1>5. /\ b \in Items /\ b.x = n.x + k /\ b.y = n.y
        /\ Wide(b) = k /\ High(b) = k
    <2>1. 1 \in 0 .. 3 /\ 1 % 2 = 1 /\ 1 \div 2 = 0
      OBVIOUS
    <2>2. /\ b \in Node /\ b.x = n.x + k * 1 /\ b.y = n.y + k * 0
          /\ Wide(b) = k /\ High(b) = k
      BY <2>1, ChildFields
    <2>3. k \in Nat
      BY <1>1 DEF Sides
    <2>. HIDE DEF s, k, b
    <2>. QED
      BY <2>2, <2>3, <1>1 DEF Items
  <1>6. /\ c \in Items /\ c.x = n.x /\ c.y = n.y + k
        /\ Wide(c) = k /\ High(c) = k
    <2>1. 2 \in 0 .. 3 /\ 2 % 2 = 0 /\ 2 \div 2 = 1
      OBVIOUS
    <2>2. /\ c \in Node /\ c.x = n.x + k * 0 /\ c.y = n.y + k * 1
          /\ Wide(c) = k /\ High(c) = k
      BY <2>1, ChildFields
    <2>3. k \in Nat
      BY <1>1 DEF Sides
    <2>. HIDE DEF s, k, c
    <2>. QED
      BY <2>2, <2>3, <1>1 DEF Items
  <1>7. /\ d \in Items /\ d.x = n.x + k /\ d.y = n.y + k
        /\ Wide(d) = k /\ High(d) = k
    <2>1. 3 \in 0 .. 3 /\ 3 % 2 = 1 /\ 3 \div 2 = 1
      OBVIOUS
    <2>2. /\ d \in Node /\ d.x = n.x + k * 1 /\ d.y = n.y + k * 1
          /\ Wide(d) = k /\ High(d) = k
      BY <2>1, ChildFields
    <2>3. k \in Nat
      BY <1>1 DEF Sides
    <2>. HIDE DEF s, k, d
    <2>. QED
      BY <2>2, <2>3, <1>1 DEF Items
  <1>. HIDE DEF s, k, a, b, c, d
  <1>8. s \in Nat /\ k \in Nat
    BY <1>1, <1>2 DEF Sides
  <1>9. s = 2 * k /\ Wide(n) = s /\ High(n) = s /\ n.x \in Nat /\ n.y \in Nat
    BY <1>1, <1>2
  <1>10. k > 0
    BY <1>1, <1>2 DEF Sides
  <1>11. Inside(a, n) /\ Inside(b, n) /\ Inside(c, n) /\ Inside(d, n)
    BY <1>9, <1>10, <1>8, <1>4, <1>5, <1>6, <1>7 DEF Inside
  <1>12. Aligned(a) /\ Aligned(b) /\ Aligned(c) /\ Aligned(d)
    BY <1>0, <1>1, <1>2, <1>9, <1>10, <1>8, <1>4, <1>5, <1>6, <1>7 DEF Aligned, Spans
  <1>13. Precedes(a, b) /\ Precedes(a, c) /\ Precedes(a, d) /\ Precedes(b, c) /\ Precedes(b, d) /\ Precedes(c, d)
    BY <1>9, <1>10, <1>8, <1>4, <1>5, <1>6, <1>7 DEF Precedes
  <1>14. ASSUME NEW u \in Nat \X Nat, In(n, u)
        PROVE  In(a, u) \/ In(b, u) \/ In(c, u) \/ In(d, u)
    <2>1. u[1] \in Nat /\ u[2] \in Nat
      OBVIOUS
    <2>. QED
      BY <2>1, <1>14, <1>9, <1>10, <1>8, <1>4, <1>5, <1>6, <1>7 DEF In
  <1>. QED
    BY <1>3, <1>4, <1>5, <1>6, <1>7, <1>11, <1>12, <1>13, <1>14, TileFour

\* However a node is cut, its parts tile it: each of them lies in it, they come
\* in order, and no cell of it is left out.
LEMMA PartsTile ==
  ASSUME NEW n \in Node, Aligned(n), NEW part \in Partitions(n)
  PROVE  Tiling(Parts(n, part), n)
  <1>1. n.bl \in 0 .. 4
    BY NodeIs
  <1>2. CASE part = "Split" /\ n.bl < 4
    BY <1>2, NodesTile
  <1>3. CASE part = "Split" /\ ~(n.bl < 4)
    BY <1>1, <1>3, SplitTile
  <1>4. CASE part \in {"H4", "V4"}
    <2>1. n.bl \in {1, 2, 3}
      BY <1>1, <1>4 DEF Partitions
    <2>. QED
      BY <1>4, <2>1, H4Tile, V4Tile
  <1>5. CASE part \in {"None", "H", "V", "TTop", "TBottom", "TLeft", "TRight"}
    BY <1>5, NoneTile, HTile, VTile, TTopTile, TBottomTile, TLeftTile, TRightTile
  <1>6. part \in {"None", "H", "V", "Split", "TTop", "TBottom", "TLeft", "TRight", "H4", "V4"}
    BY DEF Partitions
  <1>. QED
    BY <1>2, <1>3, <1>4, <1>5, <1>6

-----------------------------------------------------------------------------
(* Superblocks, tile by tile. *)

\* A superblock of one of the tiles.
PlaceOK(s) ==
    /\ s.row \in 1 .. Len(frame.rows) - 1 /\ s.col \in 1 .. Len(frame.cols) - 1
    /\ s.x \in Nat /\ frame.cols[s.col] <= s.x /\ s.x < frame.cols[s.col + 1]
    /\ s.y \in Nat /\ frame.rows[s.row] <= s.y /\ s.y < frame.rows[s.row + 1]

InPicture(u) == /\ u \in Nat \X Nat
                /\ u[1] < Ceil(frame.width, 4 * frame.sb) /\ u[2] < Ceil(frame.height, 4 * frame.sb)

\* Where tiles start: at 0, and each further on than the one before.
LEMMA StartsIncrease ==
  ASSUME NEW bounds, NEW total, TileStarts(bounds, total)
  PROVE  /\ Len(bounds) \in Nat /\ Len(bounds) > 1
         /\ \A i \in 1 .. Len(bounds) : bounds[i] \in Nat
         /\ \A i \in 1 .. Len(bounds) - 1 : bounds[i] < bounds[i + 1]
         /\ bounds[1] = 0 /\ bounds[Len(bounds)] = total /\ total \in Nat
         /\ \A i \in 1 .. Len(bounds) : bounds[i] <= total
  <1>1. /\ Len(bounds) \in Nat /\ Len(bounds) > 1 /\ bounds[1] = 0 /\ bounds[Len(bounds)] = total
        /\ \A i \in 1 .. Len(bounds) : bounds[i] \in Nat
    BY DEF TileStarts
  <1>2. \A i, j \in 1 .. Len(bounds) : i < j => bounds[i] < bounds[j]
    BY DEF TileStarts
  <1>3. \A i \in 1 .. Len(bounds) - 1 : i \in 1 .. Len(bounds) /\ i + 1 \in 1 .. Len(bounds) /\ i < i + 1
    BY <1>1
  <1>4. Len(bounds) \in 1 .. Len(bounds)
    BY <1>1
  <1>5. ASSUME NEW i \in 1 .. Len(bounds)
        PROVE  bounds[i] <= total
    <2>1. CASE i = Len(bounds)
      BY <2>1, <1>1
    <2>2. CASE i # Len(bounds)
      <3>1. i < Len(bounds)
        BY <2>2, <1>1
      <3>. QED
        BY <3>1, <1>1, <1>2, <1>4
    <2>. QED
      BY <2>1, <2>2
  <1>. QED
    BY <1>1, <1>2, <1>3, <1>4, <1>5

\* The index before the last has one after it.
LEMMA Neighbours ==
  \A n \in Nat : \A i \in 1 .. n - 1 : i \in Nat /\ i \in 1 .. n /\ i + 1 \in 1 .. n
  OBVIOUS

\* A number is at most itself.
LEMMA Reflexive == \A n \in Nat : n <= n
  OBVIOUS

\* The bounds of the tile of a superblock, as numbers.
LEMMA PlaceIs ==
  ASSUME frame \in Frames, NEW s, PlaceOK(s)
  PROVE  /\ s.x \in Nat /\ s.y \in Nat
         /\ frame.cols[s.col] \in Nat /\ frame.cols[s.col + 1] \in Nat
         /\ frame.rows[s.row] \in Nat /\ frame.rows[s.row + 1] \in Nat
         /\ frame.cols[s.col] <= s.x /\ s.x < frame.cols[s.col + 1]
         /\ frame.rows[s.row] <= s.y /\ s.y < frame.rows[s.row + 1]
         /\ frame.cols[s.col + 1] <= Ceil(frame.width, 4 * frame.sb)
         /\ frame.rows[s.row + 1] <= Ceil(frame.height, 4 * frame.sb)
  <1>1. TileStarts(frame.cols, Ceil(frame.width, 4 * frame.sb)) /\ TileStarts(frame.rows, Ceil(frame.height, 4 * frame.sb))
    BY FrameFields
  <1>2. s.row \in 1 .. Len(frame.rows) - 1 /\ s.col \in 1 .. Len(frame.cols) - 1 /\ s.x \in Nat /\ s.y \in Nat
    BY DEF PlaceOK
  <1>3. Len(frame.rows) \in Nat /\ Len(frame.cols) \in Nat
    BY <1>1, StartsIncrease
  <1>4. /\ s.row \in 1 .. Len(frame.rows) /\ s.row + 1 \in 1 .. Len(frame.rows)
        /\ s.col \in 1 .. Len(frame.cols) /\ s.col + 1 \in 1 .. Len(frame.cols)
    BY <1>2, <1>3, Neighbours
  <1>5. /\ frame.cols[s.col] \in Nat /\ frame.cols[s.col + 1] \in Nat
        /\ frame.rows[s.row] \in Nat /\ frame.rows[s.row + 1] \in Nat
        /\ frame.cols[s.col + 1] <= Ceil(frame.width, 4 * frame.sb)
        /\ frame.rows[s.row + 1] <= Ceil(frame.height, 4 * frame.sb)
    <2>1. \A i \in 1 .. Len(frame.cols) : frame.cols[i] \in Nat /\ frame.cols[i] <= Ceil(frame.width, 4 * frame.sb)
      BY <1>1, StartsIncrease
    <2>2. \A i \in 1 .. Len(frame.rows) : frame.rows[i] \in Nat /\ frame.rows[i] <= Ceil(frame.height, 4 * frame.sb)
      BY <1>1, StartsIncrease
    <2>. QED
      BY ONLY <2>1, <2>2, <1>4
  <1>. QED
    BY <1>2, <1>5 DEF PlaceOK

\* A tile starts at a place of the walk.
LEMMA TileStartOK ==
  ASSUME frame \in Frames,
         NEW row \in 1 .. Len(frame.rows) - 1, NEW col \in 1 .. Len(frame.cols) - 1
  PROVE  /\ PlaceOK(TileStart(row, col))
         /\ TileStart(row, col).row = row /\ TileStart(row, col).col = col
         /\ TileStart(row, col).x = frame.cols[col] /\ TileStart(row, col).y = frame.rows[row]
  <1>1. TileStarts(frame.cols, Ceil(frame.width, 4 * frame.sb)) /\ TileStarts(frame.rows, Ceil(frame.height, 4 * frame.sb))
    BY FrameFields
  <1>2. Len(frame.rows) \in Nat /\ Len(frame.cols) \in Nat
    BY <1>1, StartsIncrease
  <1>3. /\ row \in 1 .. Len(frame.rows) /\ row + 1 \in 1 .. Len(frame.rows)
        /\ col \in 1 .. Len(frame.cols) /\ col + 1 \in 1 .. Len(frame.cols)
    BY <1>2
  <1>4. /\ frame.cols[col] \in Nat /\ frame.cols[col + 1] \in Nat
        /\ frame.rows[row] \in Nat /\ frame.rows[row + 1] \in Nat
        /\ frame.cols[col] < frame.cols[col + 1] /\ frame.rows[row] < frame.rows[row + 1]
    <2>1. /\ \A i \in 1 .. Len(frame.cols) : frame.cols[i] \in Nat
          /\ \A i \in 1 .. Len(frame.cols) - 1 : frame.cols[i] < frame.cols[i + 1]
      <3>1. TileStarts(frame.cols, Ceil(frame.width, 4 * frame.sb))
        BY <1>1
      <3>. QED
        BY ONLY <3>1, StartsIncrease
    <2>2. /\ \A i \in 1 .. Len(frame.rows) : frame.rows[i] \in Nat
          /\ \A i \in 1 .. Len(frame.rows) - 1 : frame.rows[i] < frame.rows[i + 1]
      <3>1. TileStarts(frame.rows, Ceil(frame.height, 4 * frame.sb))
        BY <1>1
      <3>. QED
        BY ONLY <3>1, StartsIncrease
    <2>. QED
      BY <1>3, <2>1, <2>2, Zenon
  <1>5. /\ TileStart(row, col).row = row /\ TileStart(row, col).col = col
        /\ TileStart(row, col).x = frame.cols[col] /\ TileStart(row, col).y = frame.rows[row]
    BY DEF TileStart, Place
  <1>. HIDE DEF TileStart
  <1>6. frame.cols[col] <= frame.cols[col] /\ frame.rows[row] <= frame.rows[row]
    BY <1>4, Reflexive, Zenon
  <1>. QED
    BY <1>4, <1>5, <1>6, Zenon DEF PlaceOK

\* The superblock after one: all that came before, and that one, come before it.
LEMMA FollowingIs ==
  ASSUME frame \in Frames, NEW s, PlaceOK(s), ~LastSuperblock(s)
  PROVE  /\ PlaceOK(Following(s))
         /\ \A u : InPicture(u) => (Earlier(u, Following(s)) <=> (Earlier(u, s) \/ u = Here(s)))
         /\ \/ /\ Following(s).row = s.row /\ Following(s).col = s.col
               /\ Following(s) # TileStart(s.row, s.col)
            \/ /\ Following(s) = TileStart(Following(s).row, Following(s).col)
               /\ \A u : InPicture(u) /\ InTile(u, Following(s)) => ~(Earlier(u, s) \/ u = Here(s))
  <1>. DEFINE C == Ceil(frame.width, 4 * frame.sb)
              R == Ceil(frame.height, 4 * frame.sb)
              f == Following(s)
              c0 == frame.cols[s.col]
              c1 == frame.cols[s.col + 1]
              r0 == frame.rows[s.row]
              r1 == frame.rows[s.row + 1]
  <1>1. TileStarts(frame.cols, C) /\ TileStarts(frame.rows, R)
    BY FrameFields
  <1>2. /\ s.x \in Nat /\ s.y \in Nat /\ c0 \in Nat /\ c1 \in Nat /\ r0 \in Nat /\ r1 \in Nat
        /\ c0 <= s.x /\ s.x < c1 /\ r0 <= s.y /\ s.y < r1 /\ c1 <= C /\ r1 <= R
    BY PlaceIs
  <1>3. /\ s.row \in 1 .. Len(frame.rows) - 1 /\ s.col \in 1 .. Len(frame.cols) - 1
        /\ Len(frame.rows) \in Nat /\ Len(frame.cols) \in Nat
    BY <1>1, StartsIncrease DEF PlaceOK
  <1>4. \A u : InPicture(u) => /\ u[1] \in Nat /\ u[2] \in Nat /\ u[1] < C /\ u[2] < R
                               /\ (u = Here(s) <=> u[1] = s.x /\ u[2] = s.y)
    BY DEF InPicture, Here
  <1>5. CASE MoreColumns(s)
    <2>2. f.row = s.row /\ f.col = s.col /\ f.x = s.x + 1 /\ f.y = s.y
      BY <1>5 DEF Following, Place
    <2>3. PlaceOK(f)
      <3>1. s.x + 1 \in Nat /\ c0 <= s.x + 1 /\ s.x + 1 < c1
        BY <1>2, <1>5 DEF MoreColumns
      <3>. QED
        BY <3>1, <2>2, <1>2, <1>3 DEF PlaceOK
    <2>4. ASSUME NEW u, InPicture(u)
          PROVE  Earlier(u, f) <=> (Earlier(u, s) \/ u = Here(s))
      <3>1. u[1] \in Nat /\ u[2] \in Nat /\ (u = Here(s) <=> u[1] = s.x /\ u[2] = s.y)
        BY <2>4, <1>4
      <3>3. Earlier(u, f) <=> u[2] < r0 \/ (u[2] < r1 /\ (u[1] < c0 \/ (u[1] < c1 /\ (u[2] < s.y \/ (u[2] = s.y /\ u[1] < s.x + 1)))))
        BY <2>2 DEF Earlier
      <3>4. Earlier(u, s) <=> u[2] < r0 \/ (u[2] < r1 /\ (u[1] < c0 \/ (u[1] < c1 /\ (u[2] < s.y \/ (u[2] = s.y /\ u[1] < s.x)))))
        BY DEF Earlier
      <3>. HIDE DEF c0, c1, r0, r1, f
      <3>. QED
        BY <3>1, <3>3, <3>4, <1>2
    <2>5. f # TileStart(s.row, s.col)
      <3>1. TileStart(s.row, s.col).x = c0 /\ s.x + 1 # c0
        BY <1>2 DEF TileStart, Place
      <3>. QED
        BY <3>1, <2>2
    <2>. QED
      BY <2>2, <2>3, <2>4, <2>5
  <1>6. CASE ~MoreColumns(s) /\ MoreRows(s)
    <2>2. f.row = s.row /\ f.col = s.col /\ f.x = c0 /\ f.y = s.y + 1
      BY <1>6 DEF Following, Place
    <2>3. PlaceOK(f)
      <3>1. s.y + 1 \in Nat /\ r0 <= s.y + 1 /\ s.y + 1 < r1 /\ c0 <= c0 /\ c0 < c1
        BY <1>2, <1>6 DEF MoreRows
      <3>. QED
        BY <3>1, <2>2, <1>2, <1>3 DEF PlaceOK
    <2>5. s.x + 1 = c1
      BY <1>2, <1>6 DEF MoreColumns
    <2>4. ASSUME NEW u, InPicture(u)
          PROVE  Earlier(u, f) <=> (Earlier(u, s) \/ u = Here(s))
      <3>1. u[1] \in Nat /\ u[2] \in Nat /\ (u = Here(s) <=> u[1] = s.x /\ u[2] = s.y)
        BY <2>4, <1>4
      <3>2. u[1] < c1 => u[1] <= s.x
        BY <3>1, <2>5, <1>2
      <3>3. Earlier(u, f) <=> u[2] < r0 \/ (u[2] < r1 /\ (u[1] < c0 \/ (u[1] < c1 /\ (u[2] < s.y + 1 \/ (u[2] = s.y + 1 /\ u[1] < c0)))))
        BY <2>2 DEF Earlier
      <3>4. Earlier(u, s) <=> u[2] < r0 \/ (u[2] < r1 /\ (u[1] < c0 \/ (u[1] < c1 /\ (u[2] < s.y \/ (u[2] = s.y /\ u[1] < s.x)))))
        BY DEF Earlier
      <3>. HIDE DEF c0, c1, r0, r1, f
      <3>. QED
        BY <3>1, <3>2, <3>3, <3>4, <1>2, <2>5
    <2>6. f # TileStart(s.row, s.col)
      <3>1. TileStart(s.row, s.col).y = r0 /\ s.y + 1 # r0
        BY <1>2 DEF TileStart, Place
      <3>. QED
        BY <3>1, <2>2
    <2>. QED
      BY <2>2, <2>3, <2>4, <2>6
  <1>7. CASE ~MoreColumns(s) /\ ~MoreRows(s)
    <2>1. s.x + 1 = c1 /\ s.y + 1 = r1
      BY <1>2, <1>7 DEF MoreColumns, MoreRows
    <2>2. CASE s.col + 1 < Len(frame.cols)
      <3>1. f = TileStart(s.row, s.col + 1)
        BY <1>7, <2>2 DEF Following
      <3>2. s.col + 1 \in 1 .. Len(frame.cols) - 1
        BY <1>3, <2>2
      <3>3. PlaceOK(f) /\ f.row = s.row /\ f.col = s.col + 1 /\ f.x = c1 /\ f.y = r0
        <4>. DEFINE k == s.col + 1
                    t == TileStart(s.row, k)
        <4>0. k \in 1 .. Len(frame.cols) - 1 /\ s.row \in 1 .. Len(frame.rows) - 1
          BY <3>2, <1>3
        <4>. HIDE DEF k
        <4>1. PlaceOK(t) /\ t.row = s.row /\ t.col = k /\ t.x = frame.cols[k] /\ t.y = r0
          <5>1. \A i \in 1 .. Len(frame.rows) - 1 : \A j \in 1 .. Len(frame.cols) - 1 :
                   /\ PlaceOK(TileStart(i, j)) /\ TileStart(i, j).row = i /\ TileStart(i, j).col = j
                   /\ TileStart(i, j).x = frame.cols[j] /\ TileStart(i, j).y = frame.rows[i]
            BY ONLY frame \in Frames, TileStartOK
          <5>. QED
            BY ONLY <5>1, <4>0
        <4>. USE DEF k
        <4>. QED
          BY <3>1, <4>1, Zenon
      <3>. DEFINE c2 == frame.cols[f.col + 1]
      <3>4. c2 \in Nat /\ c1 < c2 /\ frame.cols[f.col] = c1 /\ frame.rows[f.row] = r0 /\ frame.rows[f.row + 1] = r1
        BY <3>3, PlaceIs
      <3>5. ASSUME NEW u, InPicture(u)
            PROVE  /\ Earlier(u, f) <=> (Earlier(u, s) \/ u = Here(s))
                   /\ InTile(u, f) => ~(Earlier(u, s) \/ u = Here(s))
        <4>1. u[1] \in Nat /\ u[2] \in Nat /\ (u = Here(s) <=> u[1] = s.x /\ u[2] = s.y)
          BY <3>5, <1>4
        <4>2. Earlier(u, f) <=> u[2] < r0 \/ (u[2] < r1 /\ (u[1] < c1 \/ (u[1] < c2 /\ (u[2] < r0 \/ (u[2] = r0 /\ u[1] < c1)))))
          BY <3>3, <3>4 DEF Earlier
        <4>3. Earlier(u, s) <=> u[2] < r0 \/ (u[2] < r1 /\ (u[1] < c0 \/ (u[1] < c1 /\ (u[2] < s.y \/ (u[2] = s.y /\ u[1] < s.x)))))
          BY DEF Earlier
        <4>4. InTile(u, f) <=> c1 <= u[1] /\ u[1] < c2 /\ r0 <= u[2] /\ u[2] < r1
          BY <3>4 DEF InTile
        <4>. HIDE DEF c0, c1, c2, r0, r1, f
        <4>. QED
          BY <4>1, <4>2, <4>3, <4>4, <1>2, <2>1, <3>4
      <3>. QED
        BY <3>1, <3>3, <3>5
    <2>3. CASE ~(s.col + 1 < Len(frame.cols))
      <3>1. f = TileStart(s.row + 1, 1)
        BY <1>7, <2>3 DEF Following
      <3>2. s.col + 1 = Len(frame.cols) /\ s.row + 1 # Len(frame.rows)
        <4>1. ~(s.col + 1 = Len(frame.cols) /\ s.row + 1 = Len(frame.rows))
          BY <1>7 DEF LastSuperblock
        <4>2. /\ s.col \in Int /\ s.row \in Int /\ s.col <= Len(frame.cols) - 1
              /\ Len(frame.rows) \in Nat /\ Len(frame.cols) \in Nat
          BY <1>3
        <4>3. s.col + 1 = Len(frame.cols)
          BY ONLY <2>3, <4>2
        <4>. QED
          BY <4>1, <4>3, Zenon
      <3>3. s.row + 1 \in 1 .. Len(frame.rows) - 1 /\ 1 \in 1 .. Len(frame.cols) - 1
        <4>. DEFINE m == Len(frame.rows)
                    n == Len(frame.cols)
        <4>1. m \in Nat /\ n \in Nat /\ s.row \in Nat /\ s.row \in 1 .. m - 1 /\ s.row + 1 # m
              /\ s.col \in Nat /\ s.col \in 1 .. n - 1
          BY <3>2, <1>3, Neighbours
        <4>. HIDE DEF m, n
        <4>2. s.row + 1 \in 1 .. m - 1 /\ 1 \in 1 .. n - 1
          BY ONLY <4>1
        <4>. QED
          BY <4>2 DEF m, n
      <3>0. frame.cols[1] = 0 /\ c1 = C
        BY <3>2, <1>1 DEF TileStarts
      <3>4. PlaceOK(f) /\ f.row = s.row + 1 /\ f.col = 1 /\ f.x = 0 /\ f.y = r1 /\ c1 = C
        <4>. DEFINE k == s.row + 1
                    t == TileStart(k, 1)
        <4>0. k \in 1 .. Len(frame.rows) - 1 /\ 1 \in 1 .. Len(frame.cols) - 1
          BY <3>3
        <4>. HIDE DEF k
        <4>1. PlaceOK(t) /\ t.row = k /\ t.col = 1 /\ t.x = frame.cols[1] /\ t.y = frame.rows[k]
          <5>1. \A i \in 1 .. Len(frame.rows) - 1 : \A j \in 1 .. Len(frame.cols) - 1 :
                   /\ PlaceOK(TileStart(i, j)) /\ TileStart(i, j).row = i /\ TileStart(i, j).col = j
                   /\ TileStart(i, j).x = frame.cols[j] /\ TileStart(i, j).y = frame.rows[i]
            BY ONLY frame \in Frames, TileStartOK
          <5>. QED
            BY ONLY <5>1, <4>0
        <4>. USE DEF k
        <4>. QED
          BY <3>0, <3>1, <4>1, Zenon
      <3>. DEFINE d1 == frame.cols[f.col + 1]
                  r2 == frame.rows[f.row + 1]
      <3>5. /\ d1 \in Nat /\ r2 \in Nat /\ r1 < r2 /\ 0 < d1 /\ frame.cols[f.col] = 0 /\ frame.rows[f.row] = r1
        BY <3>4, PlaceIs
      <3>6. ASSUME NEW u, InPicture(u)
            PROVE  /\ Earlier(u, f) <=> (Earlier(u, s) \/ u = Here(s))
                   /\ InTile(u, f) => ~(Earlier(u, s) \/ u = Here(s))
        <4>1. u[1] \in Nat /\ u[2] \in Nat /\ u[1] < c1 /\ (u = Here(s) <=> u[1] = s.x /\ u[2] = s.y)
          BY <3>6, <3>4, <1>4
        <4>2. Earlier(u, f) <=> u[2] < r1 \/ (u[2] < r2 /\ (u[1] < 0 \/ (u[1] < d1 /\ (u[2] < r1 \/ (u[2] = r1 /\ u[1] < 0)))))
          BY <3>4, <3>5 DEF Earlier
        <4>3. Earlier(u, s) <=> u[2] < r0 \/ (u[2] < r1 /\ (u[1] < c0 \/ (u[1] < c1 /\ (u[2] < s.y \/ (u[2] = s.y /\ u[1] < s.x)))))
          BY DEF Earlier
        <4>4. InTile(u, f) <=> 0 <= u[1] /\ u[1] < d1 /\ r1 <= u[2] /\ u[2] < r2
          BY <3>5 DEF InTile
        <4>. HIDE DEF c0, c1, d1, r0, r1, r2, f
        <4>. QED
          BY <4>1, <4>2, <4>3, <4>4, <1>2, <2>1, <3>5
      <3>. QED
        BY <3>1, <3>4, <3>6
    <2>. QED
      BY <2>2, <2>3
  <1>. QED
    BY <1>5, <1>6, <1>7

\* Every superblock comes before the last one, or is it.
LEMMA LastIs ==
  ASSUME frame \in Frames, NEW s, PlaceOK(s), LastSuperblock(s), NEW u, InPicture(u)
  PROVE  Earlier(u, s) \/ u = Here(s)
  <1>. DEFINE C == Ceil(frame.width, 4 * frame.sb)
              R == Ceil(frame.height, 4 * frame.sb)
  <1>1. TileStarts(frame.cols, C) /\ TileStarts(frame.rows, R)
    BY FrameFields
  <1>2. frame.cols[s.col + 1] = C /\ frame.rows[s.row + 1] = R
    BY <1>1 DEF LastSuperblock, TileStarts
  <1>3. /\ s.x \in Nat /\ s.y \in Nat /\ s.x + 1 = C /\ s.y + 1 = R
    <2>1. /\ ~(s.x + 1 < frame.cols[s.col + 1]) /\ ~(s.y + 1 < frame.rows[s.row + 1])
      BY DEF LastSuperblock, MoreColumns, MoreRows
    <2>2. /\ s.x \in Nat /\ s.y \in Nat /\ s.x < frame.cols[s.col + 1] /\ s.y < frame.rows[s.row + 1]
          /\ frame.cols[s.col + 1] \in Nat /\ frame.rows[s.row + 1] \in Nat
      BY PlaceIs
    <2>. HIDE DEF C, R
    <2>. QED
      BY ONLY <1>2, <2>1, <2>2
  <1>4. u[1] \in Nat /\ u[2] \in Nat /\ u[1] < C /\ u[2] < R /\ u = <<u[1], u[2]>>
    BY DEF InPicture
  <1>. HIDE DEF C, R
  <1>. QED
    BY <1>2, <1>3, <1>4 DEF Earlier, Here

\* A superblock does not come before itself.
LEMMA NotEarlier ==
  ASSUME frame \in Frames, NEW s, PlaceOK(s)
  PROVE  ~Earlier(Here(s), s)
  BY PlaceIs DEF Earlier, Here

\* None comes before the first.
LEMMA FirstIs ==
  ASSUME frame \in Frames, NEW u, InPicture(u)
  PROVE  PlaceOK(TileStart(1, 1)) /\ ~Earlier(u, TileStart(1, 1))
  <1>1. TileStarts(frame.cols, Ceil(frame.width, 4 * frame.sb)) /\ TileStarts(frame.rows, Ceil(frame.height, 4 * frame.sb))
    BY FrameFields
  <1>2. 1 \in 1 .. Len(frame.rows) - 1 /\ 1 \in 1 .. Len(frame.cols) - 1
    BY <1>1, StartsIncrease
  <1>3. /\ PlaceOK(TileStart(1, 1)) /\ TileStart(1, 1).row = 1 /\ TileStart(1, 1).col = 1
        /\ TileStart(1, 1).x = 0 /\ TileStart(1, 1).y = 0 /\ frame.cols[1] = 0 /\ frame.rows[1] = 0
    <2>1. frame.cols[1] = 0 /\ frame.rows[1] = 0
      BY <1>1 DEF TileStarts
    <2>. QED
      BY <1>2, <2>1, TileStartOK
  <1>4. u[1] \in Nat /\ u[2] \in Nat
    BY DEF InPicture
  <1>. QED
    BY <1>3, <1>4 DEF Earlier

\* In a tile, what lies above a superblock or to the left of it came before.
LEMMA AboveAndLeft ==
  ASSUME frame \in Frames, NEW s, PlaceOK(s), NEW u \in Nat \X Nat, InTile(u, s),
         (u[1] = s.x /\ u[2] <= s.y) \/ (u[2] = s.y /\ u[1] <= s.x)
  PROVE  Earlier(u, s) \/ u = Here(s)
  <1>1. u[1] \in Nat /\ u[2] \in Nat /\ u = <<u[1], u[2]>>
    OBVIOUS
  <1>. QED
    BY <1>1, PlaceIs DEF Earlier, Here, InTile

\* Division by the size of a superblock.
LEMMA Quotient ==
  ASSUME NEW a \in Nat, NEW b \in Nat, NEW size \in {16, 32}
  PROVE  /\ a \div size = b <=> size * b <= a /\ a < size * b + size
         /\ a \div size \in Nat
         /\ size * (a \div size) <= a /\ a < size * (a \div size) + size
  <1>1. CASE size = 16
    BY <1>1
  <1>2. CASE size = 32
    BY <1>2
  <1>. QED
    BY <1>1, <1>2

\* The superblock of a cell, and the cells of a superblock.
LEMMA SuperblockOf ==
  ASSUME frame \in Frames, NEW c \in Nat \X Nat
  PROVE  /\ SbOf(c) \in Nat \X Nat
         /\ frame.sb * SbOf(c)[1] <= c[1] /\ c[1] < frame.sb * SbOf(c)[1] + frame.sb
         /\ frame.sb * SbOf(c)[2] <= c[2] /\ c[2] < frame.sb * SbOf(c)[2] + frame.sb
  <1>1. c[1] \in Nat /\ c[2] \in Nat /\ frame.sb \in {16, 32}
    BY FrameFields
  <1>2. SbOf(c)[1] = c[1] \div frame.sb /\ SbOf(c)[2] = c[2] \div frame.sb
        /\ SbOf(c) = <<c[1] \div frame.sb, c[2] \div frame.sb>>
    BY DEF SbOf
  <1>3. /\ c[1] \div frame.sb \in Nat
        /\ frame.sb * (c[1] \div frame.sb) <= c[1] /\ c[1] < frame.sb * (c[1] \div frame.sb) + frame.sb
    BY <1>1, Quotient
  <1>4. /\ c[2] \div frame.sb \in Nat
        /\ frame.sb * (c[2] \div frame.sb) <= c[2] /\ c[2] < frame.sb * (c[2] \div frame.sb) + frame.sb
    BY <1>1, Quotient
  <1>5. SbOf(c) \in Nat \X Nat
    BY <1>2, <1>3, <1>4
  <1>. QED
    BY <1>2, <1>3, <1>4, <1>5

\* A place that starts inside the coded grid starts inside the picture's
\* superblocks.
LEMMA QuotientInside ==
  ASSUME NEW size \in Nat, NEW a \in Nat, NEW b \in Nat, NEW n \in Nat, NEW sb \in {16, 32},
         a < 2 * ((size + 7) \div 8), n = Ceil(size, 4 * sb), sb * b <= a
  PROVE  b < n
  <1>1. CASE sb = 16
    <2>1. 64 * n >= size
      BY <1>1, CeilIs
    <2>. QED
      BY <1>1, <2>1
  <1>2. CASE sb = 32
    <2>1. 128 * n >= size
      BY <1>2 DEF Ceil
    <2>. QED
      BY <1>2, <2>1
  <1>. QED
    BY <1>1, <1>2

\* So a cell of the grid lies in a superblock of the picture.
LEMMA CellInPicture ==
  ASSUME frame \in Frames, NEW c \in Cells(Grid(0))
  PROVE  /\ c \in Nat \X Nat /\ c[1] < GridW(0) /\ c[2] < GridH(0)
         /\ InPicture(SbOf(c))
  <1>1. /\ GridW(0) \in Nat /\ GridH(0) \in Nat /\ frame.width \in Nat /\ frame.height \in Nat
        /\ GridW(0) = 2 * ((frame.width + 7) \div 8) /\ GridH(0) = 2 * ((frame.height + 7) \div 8)
    BY Grids, Steps, FrameFields DEF Planes, GridW, GridH
  <1>2. c \in Nat \X Nat /\ c[1] < GridW(0) /\ c[2] < GridH(0)
    BY <1>1 DEF Cells, Grid
  <1>3. c[1] \in Nat /\ c[2] \in Nat
    BY <1>2
  <1>4. /\ SbOf(c) \in Nat \X Nat
        /\ frame.sb * SbOf(c)[1] <= c[1] /\ frame.sb * SbOf(c)[2] <= c[2]
        /\ SbOf(c)[1] \in Nat /\ SbOf(c)[2] \in Nat
    BY <1>2, SuperblockOf
  <1>5. frame.sb \in {16, 32}
    BY FrameFields
  <1>6. Ceil(frame.width, 4 * frame.sb) \in Nat /\ Ceil(frame.height, 4 * frame.sb) \in Nat
    <2>1. TileStarts(frame.cols, Ceil(frame.width, 4 * frame.sb)) /\ TileStarts(frame.rows, Ceil(frame.height, 4 * frame.sb))
      BY FrameFields
    <2>. QED
      BY <2>1, StartsIncrease
  <1>9. c[1] < 2 * ((frame.width + 7) \div 8) /\ c[2] < 2 * ((frame.height + 7) \div 8)
    BY <1>1, <1>2
  <1>7. SbOf(c)[1] < Ceil(frame.width, 4 * frame.sb)
    BY <1>1, <1>9, <1>3, <1>4, <1>5, <1>6, QuotientInside, Zenon
  <1>8. SbOf(c)[2] < Ceil(frame.height, 4 * frame.sb)
    BY <1>1, <1>9, <1>3, <1>4, <1>5, <1>6, QuotientInside, Zenon
  <1>. QED
    BY <1>2, <1>4, <1>7, <1>8 DEF InPicture

\* The root of a superblock holds its cells.
LEMMA RootIs ==
  ASSUME frame \in Frames, NEW s, s.x \in Nat, s.y \in Nat
  PROVE  /\ Root(s) \in Node /\ Aligned(Root(s))
         /\ Root(s).x = frame.sb * s.x /\ Root(s).y = frame.sb * s.y
         /\ Wide(Root(s)) = frame.sb /\ High(Root(s)) = frame.sb
         /\ \A c \in Nat \X Nat : In(Root(s), c) <=> SbOf(c) = Here(s)
  <1>1. frame.sb \in {16, 32}
    BY FrameFields
  <1>2. frame.sb * s.x \in Nat /\ frame.sb * s.y \in Nat
    BY <1>1
  <1>3. Root(s) \in Node /\ Root(s).x = frame.sb * s.x /\ Root(s).y = frame.sb * s.y
        /\ Root(s).bl = IF frame.sb = 32 THEN 0 ELSE 1
    BY <1>2 DEF Root, Node
  <1>4. Wide(Root(s)) = frame.sb /\ High(Root(s)) = frame.sb
    <2>1. Wide(Root(s)) = Size(Root(s).bl) /\ High(Root(s)) = Size(Root(s).bl)
      BY <1>3, NodeIs
    <2>. QED
      BY <2>1, <1>1, <1>3 DEF Size
  <1>5. Aligned(Root(s))
    <2>1. CASE frame.sb = 16
      BY <2>1, <1>3, <1>4 DEF Aligned
    <2>2. CASE frame.sb = 32
      BY <2>2, <1>3, <1>4 DEF Aligned
    <2>. QED
      BY <1>1, <2>1, <2>2
  <1>6. ASSUME NEW c \in Nat \X Nat
        PROVE  In(Root(s), c) <=> SbOf(c) = Here(s)
    <2>1. c[1] \in Nat /\ c[2] \in Nat
      OBVIOUS
    <2>2. SbOf(c) = Here(s) <=> c[1] \div frame.sb = s.x /\ c[2] \div frame.sb = s.y
      BY DEF SbOf, Here
    <2>3. In(Root(s), c) <=> /\ frame.sb * s.x <= c[1] /\ c[1] < frame.sb * s.x + frame.sb
                             /\ frame.sb * s.y <= c[2] /\ c[2] < frame.sb * s.y + frame.sb
      BY <1>3, <1>4 DEF In
    <2>4. c[1] \div frame.sb = s.x <=> frame.sb * s.x <= c[1] /\ c[1] < frame.sb * s.x + frame.sb
      <3>. DEFINE a == c[1]
                  b == s.x
                  z == frame.sb
      <3>1. a \in Nat /\ b \in Nat /\ z \in {16, 32}
        BY <2>1, <1>1
      <3>. HIDE DEF a, b, z
      <3>2. a \div z = b <=> z * b <= a /\ a < z * b + z
        BY ONLY <3>1, Quotient
      <3>. QED
        BY <3>2 DEF a, b, z
    <2>5. c[2] \div frame.sb = s.y <=> frame.sb * s.y <= c[2] /\ c[2] < frame.sb * s.y + frame.sb
      <3>. DEFINE a == c[2]
                  b == s.y
                  z == frame.sb
      <3>1. a \in Nat /\ b \in Nat /\ z \in {16, 32}
        BY <2>1, <1>1
      <3>. HIDE DEF a, b, z
      <3>2. a \div z = b <=> z * b <= a /\ a < z * b + z
        BY ONLY <3>1, Quotient
      <3>. QED
        BY <3>2 DEF a, b, z
    <2>. QED
      BY <2>2, <2>3, <2>4, <2>5, Zenon
  <1>. QED
    BY <1>3, <1>4, <1>5, <1>6

-----------------------------------------------------------------------------
(* A block's rectangle in a plane, and the luma cells that stand for it.     *)

\* Along one axis: a rectangle of a plane holds the cells whose last luma cell
\* lies in the block, if the plane has samples of the block at all.
LEMMA Axis ==
  ASSUME NEW x \in Nat, NEW w \in Sides, x % w = 0, NEW c \in Nat,
         NEW ss, NEW step, (ss = 0 /\ step = 1) \/ (ss = 1 /\ step = 2)
  PROVE  /\ ((w > ss \/ x % 2 = 1) /\ x \div step <= c /\ c < x \div step + (w + ss) \div step)
              <=> (x <= step * c + ss /\ step * c + ss < x + w)
         /\ (w > ss \/ x % 2 = 1) => /\ c < x \div step => step * c + ss < x
                                     /\ c >= x \div step + (w + ss) \div step => step * c + ss >= x + w
         /\ x \div step \in Nat /\ (w + ss) \div step \in Nat
         /\ step * (x \div step) <= x
  <1>1. CASE ss = 0 /\ step = 1
    BY <1>1 DEF Sides
  <1>2. CASE ss = 1 /\ step = 2 /\ w = 1
    BY <1>2
  <1>3. CASE ss = 1 /\ step = 2 /\ w # 1
    <2>1. PICK v \in Nat : w = 2 * v /\ v > 0
      <3>1. w = 2 * (w \div 2) /\ w \div 2 \in Nat /\ w \div 2 > 0
        BY <1>3 DEF Sides
      <3>. QED
        BY <3>1
    <2>2. x % 2 = 0
      BY <1>3 DEF Sides
    <2>3. PICK y \in Nat : x = 2 * y
      BY <2>2
    <2>4. x \div step = y /\ (w + ss) \div step = v
      BY <1>3, <2>1, <2>3
    <2>. QED
      BY <1>3, <2>1, <2>3, <2>4
  <1>. QED
    BY <1>1, <1>2, <1>3

\* What subsampling is, in each plane, and what the grids are to each other.
LEMMA SsOf ==
  ASSUME frame \in Frames, NEW p \in Planes
  PROVE  /\ (SsH(p) = 0 /\ StepH(p) = 1) \/ (SsH(p) = 1 /\ StepH(p) = 2)
         /\ (SsV(p) = 0 /\ StepV(p) = 1) \/ (SsV(p) = 1 /\ StepV(p) = 2)
         /\ GridW(p) \in Nat /\ GridH(p) \in Nat /\ EdgeW(p) \in Nat /\ EdgeH(p) \in Nat
         /\ GridW(0) = StepH(p) * GridW(p) /\ GridH(0) = StepV(p) * GridH(p)
  <1>1. p = 0 \/ p = 1
    BY DEF Planes
  <1>2. GridW(0) \in Nat /\ GridH(0) \in Nat
    BY Grids DEF Planes
  <1>. QED
    BY <1>1, <1>2, Steps, Grids

\* Having samples in a plane, in one form for luma and chroma.
LEMMA InPlaneIs ==
  ASSUME frame \in Frames, NEW p \in Planes, NEW b \in CodedBlock
  PROVE  InPlane(p, b) <=> /\ b.w > SsH(p) \/ b.x % 2 = 1
                           /\ b.h > SsV(p) \/ b.y % 2 = 1
  <1>1. b.w > 0 /\ b.h > 0
    BY BlockIs DEF Sides
  <1>2. CASE p = 0
    BY <1>1, <1>2, Steps DEF InPlane
  <1>3. CASE p = 1
    BY <1>3, Steps DEF InPlane, HasChroma
  <1>. QED
    BY <1>2, <1>3 DEF Planes

\* A rectangle in a plane.
LEMMA RectIs ==
  ASSUME frame \in Frames, NEW p \in Planes, NEW b \in CodedBlock, Aligned(b)
  PROVE  /\ Rect(p, b).x \in Nat /\ Rect(p, b).y \in Nat
         /\ Rect(p, b).w \in Nat /\ Rect(p, b).h \in Nat
         /\ StepH(p) * Rect(p, b).x <= b.x /\ StepV(p) * Rect(p, b).y <= b.y
         /\ \A c \in Nat \X Nat : c \in Cells(Rect(p, b)) <=>
              /\ Rect(p, b).x <= c[1] /\ c[1] < Rect(p, b).x + Rect(p, b).w
              /\ Rect(p, b).y <= c[2] /\ c[2] < Rect(p, b).y + Rect(p, b).h
         /\ Cells(Rect(p, b)) \subseteq Nat \X Nat
         /\ Rect(p, b).x = b.x \div StepH(p) /\ Rect(p, b).w = (b.w + SsH(p)) \div StepH(p)
         /\ Rect(p, b).y = b.y \div StepV(p) /\ Rect(p, b).h = (b.h + SsV(p)) \div StepV(p)
  <1>. DEFINE r == Rect(p, b)
  <1>1. /\ b.x \in Nat /\ b.y \in Nat /\ b.w \in Sides /\ b.h \in Sides
        /\ b.x % b.w = 0 /\ b.y % b.h = 0
    BY BlockIs DEF Aligned
  <1>2. r = [x |-> b.x \div StepH(p), y |-> b.y \div StepV(p),
             w |-> (b.w + SsH(p)) \div StepH(p), h |-> (b.h + SsV(p)) \div StepV(p)]
    BY DEF Rect
  <1>3. r.x = b.x \div StepH(p) /\ r.w = (b.w + SsH(p)) \div StepH(p)
        /\ r.y = b.y \div StepV(p) /\ r.h = (b.h + SsV(p)) \div StepV(p)
    BY <1>2
  <1>4. r.x \in Nat /\ r.w \in Nat /\ StepH(p) * r.x <= b.x
    BY <1>1, <1>3, SsOf, Axis, 0 \in Nat
  <1>5. r.y \in Nat /\ r.h \in Nat /\ StepV(p) * r.y <= b.y
    BY <1>1, <1>3, SsOf, Axis, 0 \in Nat
  <1>. HIDE DEF r
  <1>6. Cells(r) \subseteq Nat \X Nat
    BY <1>4, <1>5 DEF Cells
  <1>7. ASSUME NEW c \in Nat \X Nat
        PROVE  c \in Cells(r) <=> /\ r.x <= c[1] /\ c[1] < r.x + r.w
                                  /\ r.y <= c[2] /\ c[2] < r.y + r.h
    <2>1. c = <<c[1], c[2]>> /\ c[1] \in Nat /\ c[2] \in Nat
      OBVIOUS
    <2>2. c[1] \in r.x .. r.x + r.w - 1 <=> r.x <= c[1] /\ c[1] < r.x + r.w
      BY <2>1, <1>4
    <2>3. c[2] \in r.y .. r.y + r.h - 1 <=> r.y <= c[2] /\ c[2] < r.y + r.h
      BY <2>1, <1>5
    <2>4. c \in Cells(r) <=> c[1] \in r.x .. r.x + r.w - 1 /\ c[2] \in r.y .. r.y + r.h - 1
      <3>1. ASSUME NEW x \in r.x .. r.x + r.w - 1, NEW y \in r.y .. r.y + r.h - 1, c = <<x, y>>
            PROVE  c[1] = x /\ c[2] = y
        BY <3>1
      <3>. QED
        BY <2>1, <3>1 DEF Cells
    <2>. QED
      BY <2>2, <2>3, <2>4
  <1>. QED
    BY <1>3, <1>4, <1>5, <1>6, <1>7 DEF r

\* The samples a block has in a plane are those whose last luma cell it holds:
\* of the blocks that share one, only the last has it.
LEMMA RectLuma ==
  ASSUME frame \in Frames, NEW p \in Planes, NEW b \in CodedBlock, Aligned(b), NEW c \in Nat \X Nat
  PROVE  /\ (InPlane(p, b) /\ c \in Cells(Rect(p, b))) <=> In(b, LastCell(p, c))
         /\ LastCell(p, c) \in Nat \X Nat
         /\ InPlane(p, b) =>
              /\ c[1] < Rect(p, b).x => LastCell(p, c)[1] < b.x
              /\ c[2] < Rect(p, b).y => LastCell(p, c)[2] < b.y
         /\ LastCell(p, c)[1] = StepH(p) * c[1] + SsH(p) /\ LastCell(p, c)[2] = StepV(p) * c[2] + SsV(p)
  <1>. DEFINE l == LastCell(p, c)
              r == Rect(p, b)
              hasX == b.w > SsH(p) \/ b.x % 2 = 1
              hasY == b.h > SsV(p) \/ b.y % 2 = 1
  <1>1. /\ b.x \in Nat /\ b.y \in Nat /\ b.w \in Sides /\ b.h \in Sides
        /\ Wide(b) = b.w /\ High(b) = b.h /\ b.x % b.w = 0 /\ b.y % b.h = 0
    BY BlockIs DEF Aligned
  <1>2. c[1] \in Nat /\ c[2] \in Nat
    OBVIOUS
  <1>3. l = <<StepH(p) * c[1] + SsH(p), StepV(p) * c[2] + SsV(p)>>
    BY DEF LastCell
  <1>4. l[1] = StepH(p) * c[1] + SsH(p) /\ l[2] = StepV(p) * c[2] + SsV(p)
    BY <1>3
  <1>5. l \in Nat \X Nat
    BY <1>2, <1>3, SsOf
  <1>6. InPlane(p, b) <=> hasX /\ hasY
    BY InPlaneIs
  <1>7. /\ r.x = b.x \div StepH(p) /\ r.w = (b.w + SsH(p)) \div StepH(p)
        /\ r.y = b.y \div StepV(p) /\ r.h = (b.h + SsV(p)) \div StepV(p)
        /\ c \in Cells(r) <=> /\ r.x <= c[1] /\ c[1] < r.x + r.w
                              /\ r.y <= c[2] /\ c[2] < r.y + r.h
    BY RectIs
  <1>8. /\ (hasX /\ r.x <= c[1] /\ c[1] < r.x + r.w) <=> (b.x <= l[1] /\ l[1] < b.x + b.w)
        /\ hasX => (c[1] < r.x => l[1] < b.x)
    BY <1>1, <1>2, <1>4, <1>7, SsOf, Axis
  <1>9. /\ (hasY /\ r.y <= c[2] /\ c[2] < r.y + r.h) <=> (b.y <= l[2] /\ l[2] < b.y + b.h)
        /\ hasY => (c[2] < r.y => l[2] < b.y)
    BY <1>1, <1>2, <1>4, <1>7, SsOf, Axis
  <1>10. In(b, l) <=> b.x <= l[1] /\ l[1] < b.x + b.w /\ b.y <= l[2] /\ l[2] < b.y + b.h
    BY <1>1 DEF In
  <1>. HIDE DEF l, r, hasX, hasY
  <1>. QED
    BY <1>4, <1>5, <1>6, <1>7, <1>8, <1>9, <1>10 DEF l, r

\* The cells of a plane's grid, and of a rectangle as far as it lies in it.
LEMMA GridCells ==
  ASSUME frame \in Frames, NEW p \in Planes
  PROVE  /\ Cells(Grid(p)) \subseteq Nat \X Nat
         /\ \A c \in Nat \X Nat : c \in Cells(Grid(p)) <=> c[1] < GridW(p) /\ c[2] < GridH(p)
         /\ \A c \in Cells(Grid(p)) : LastCell(p, c) \in Cells(Grid(0))
  <1>. DEFINE g == Grid(p)
  <1>1. g.x = 0 /\ g.y = 0 /\ g.w = GridW(p) /\ g.h = GridH(p)
    BY DEF Grid
  <1>2. GridW(p) \in Nat /\ GridH(p) \in Nat /\ GridW(0) \in Nat /\ GridH(0) \in Nat
    BY SsOf, Grids DEF Planes
  <1>3. Cells(g) = {<<x, y>> : x \in 0 .. GridW(p) - 1, y \in 0 .. GridH(p) - 1}
    BY <1>1, <1>2 DEF Cells
  <1>4. Cells(g) \subseteq Nat \X Nat
    BY <1>2, <1>3
  <1>5. ASSUME NEW c \in Nat \X Nat
        PROVE  c \in Cells(g) <=> c[1] < GridW(p) /\ c[2] < GridH(p)
    <2>1. c = <<c[1], c[2]>> /\ c[1] \in Nat /\ c[2] \in Nat
      OBVIOUS
    <2>2. /\ c[1] \in 0 .. GridW(p) - 1 <=> c[1] < GridW(p)
          /\ c[2] \in 0 .. GridH(p) - 1 <=> c[2] < GridH(p)
      BY <2>1, <1>2
    <2>3. ASSUME NEW x \in 0 .. GridW(p) - 1, NEW y \in 0 .. GridH(p) - 1, c = <<x, y>>
          PROVE  c[1] = x /\ c[2] = y
      BY <2>3
    <2>. QED
      BY <1>3, <2>1, <2>2, <2>3
  <1>6. ASSUME NEW c \in Cells(g)
        PROVE  LastCell(p, c) \in Cells(Grid(0))
    <2>1. c \in Nat \X Nat /\ c[1] \in Nat /\ c[2] \in Nat /\ c[1] < GridW(p) /\ c[2] < GridH(p)
      BY <1>4, <1>5
    <2>2. StepH(p) * c[1] + SsH(p) \in 0 .. GridW(0) - 1
      BY <2>1, <1>2, SsOf
    <2>3. StepV(p) * c[2] + SsV(p) \in 0 .. GridH(0) - 1
      BY <2>1, <1>2, SsOf
    <2>4. Cells(Grid(0)) = {<<x, y>> : x \in 0 .. GridW(0) - 1, y \in 0 .. GridH(0) - 1}
      BY <1>2 DEF Cells, Grid
    <2>. QED
      BY <2>2, <2>3, <2>4 DEF LastCell
  <1>. QED
    BY <1>4, <1>5, <1>6

-----------------------------------------------------------------------------
(* The frame does not change: what depends on it keeps its meaning.           *)

\* The types after a step that keeps the frame.
LEMMA TypeNext ==
  ASSUME frame' = frame, frame \in Frames, PlaceOK(at'),
         todo' \in Seq(Node \cup CodedBlock),
         DOMAIN done' = Planes, \A p \in Planes : done'[p] \subseteq Cells(Grid(p)),
         DOMAIN above' = Planes, \A p \in Planes : above'[p] \in [0 .. GridW(p) - 1 -> Nat],
         DOMAIN left' = Planes, \A p \in Planes : left'[p] \in [0 .. GridH(p) - 1 -> Nat],
         cdef' \subseteq Nat \X Nat, coded' \subseteq Nat \X Nat
  PROVE  TypeOK'
  <1>1. /\ frame' \in Frames
        /\ at'.row \in 1 .. Len(frame'.rows) - 1 /\ at'.col \in 1 .. Len(frame'.cols) - 1
        /\ at'.x \in Nat /\ frame'.cols[at'.col] <= at'.x /\ at'.x < frame'.cols[at'.col + 1]
        /\ at'.y \in Nat /\ frame'.rows[at'.row] <= at'.y /\ at'.y < frame'.rows[at'.row + 1]
    <2>. SUFFICES /\ frame \in Frames
                  /\ at'.row \in 1 .. Len(frame.rows) - 1 /\ at'.col \in 1 .. Len(frame.cols) - 1
                  /\ at'.x \in Nat /\ frame.cols[at'.col] <= at'.x /\ at'.x < frame.cols[at'.col + 1]
                  /\ at'.y \in Nat /\ frame.rows[at'.row] <= at'.y /\ at'.y < frame.rows[at'.row + 1]
      BY Zenon
    <2>. QED
      BY Zenon DEF PlaceOK
  <1>2. ASSUME NEW p \in Planes
        PROVE  /\ done'[p] \subseteq Cells(Grid(p))'
               /\ above'[p] \in [(0 .. GridW(p) - 1)' -> Nat]
               /\ left'[p] \in [(0 .. GridH(p) - 1)' -> Nat]
    <2>1. GridW(p)' = GridW(p) /\ GridH(p)' = GridH(p)
      BY DEF GridW, GridH, StepH, StepV, SsH, SsV
    <2>. QED
      BY <2>1 DEF Cells, Grid
  <1>. QED
    BY <1>1, <1>2, Zenon DEF TypeOK

\* The order after such a step.
LEMMA WalkNext ==
  ASSUME frame' = frame, \A i \in 1 .. Len(todo') : Inside(todo'[i], Root(at')) /\ Aligned(todo'[i]),
         Ordered(todo')
  PROVE  WalkInv'
  BY DEF WalkInv, Inside, Aligned, Root, Ordered, Precedes, Wide, High, IsNode, Size, Spans

\* What is decoded after such a step.
LEMMA DoneNext ==
  ASSUME frame' = frame,
         \A p \in Planes : \A c \in Cells(Grid(p)) :
            c \in done'[p] <=> Decoded(LastCell(p, c), todo', at')
  PROVE  DoneInv'
  <1>. SUFFICES ASSUME NEW p \in Planes, NEW c \in Cells(Grid(p))'
                PROVE  c \in done'[p] <=> Decoded(LastCell(p, c), todo, at)'
    BY DEF DoneInv
  <1>1. c \in Cells(Grid(p))
    BY DEF Cells, Grid, GridW, GridH, StepH, StepV, SsH, SsV
  <1>2. Decoded(LastCell(p, c), todo, at)' <=> Decoded(LastCell(p, c), todo', at')
    BY DEF Decoded, LastCell, StepH, StepV, SsH, SsV, SbOf, Here, Earlier, Covered, In, Wide, High, IsNode, Size
  <1>. QED
    BY <1>1, <1>2

\* The context entries after such a step.
LEMMA ContextNext ==
  ASSUME frame' = frame,
         \A p \in Planes : ContextOK(p, done'[p], above'[p], left'[p], at')
  PROVE  ContextInv'
  <1>. SUFFICES ASSUME NEW p \in Planes
                PROVE  ContextOK(p, done[p], above[p], left[p], at)'
    BY DEF ContextInv
  <1>1. ContextOK(p, done'[p], above'[p], left'[p], at')
    OBVIOUS
  <1>2. Cells(Grid(p))' = Cells(Grid(p))
    BY DEF Cells, Grid, GridW, GridH, StepH, StepV, SsH, SsV
  <1>3. ASSUME NEW c
        PROVE  InTile(SbOf(LastCell(p, c)), at)' <=> InTile(SbOf(LastCell(p, c)), at')
    BY DEF InTile, SbOf, LastCell, StepH, StepV, SsH, SsV
  <1>4. EdgeW(p)' = EdgeW(p) /\ EdgeH(p)' = EdgeH(p)
    BY DEF EdgeW, EdgeH, GridW, GridH, StepH, StepV, SsH, SsV, Ceil
  <1>5. TileTop(p, at)' = TileTop(p, at') /\ TileLeft(p, at)' = TileLeft(p, at')
    BY DEF TileTop, TileLeft, StepH, StepV, SsH, SsV
  <1>. QED
    BY <1>1, <1>2, <1>3, <1>4, <1>5 DEF ContextOK

\* The CDEF regions after a step.
LEMMA CdefNext ==
  ASSUME cdef' = coded',
         \A i \in 1 .. Len(todo') : \A g \in cdef' : Spans(todo'[i]) => ~Touches(todo'[i], g)
  PROVE  CdefInv'
  BY DEF CdefInv, Spans, Touches, Wide, High, IsNode, Size

-----------------------------------------------------------------------------
(* What is to be done, in a state of the invariant.                           *)

\* The types, as the proofs below use them.
LEMMA TypeGives ==
  ASSUME TypeOK
  PROVE  /\ frame \in Frames /\ PlaceOK(at) /\ todo \in Seq(Items)
         /\ \A p \in Planes : /\ done[p] \subseteq Cells(Grid(p))
                              /\ above[p] \in [0 .. GridW(p) - 1 -> Nat]
                              /\ left[p] \in [0 .. GridH(p) - 1 -> Nat]
         /\ cdef \subseteq Nat \X Nat /\ coded \subseteq Nat \X Nat
         /\ DOMAIN done = Planes /\ DOMAIN above = Planes /\ DOMAIN left = Planes
  BY DEF TypeOK, PlaceOK, Items

\* The head of what is to be done.
LEMMA HeadIs ==
  ASSUME TypeOK, WalkInv, todo # <<>>
  PROVE  /\ Head(todo) \in Items /\ Head(todo) = todo[1] /\ 1 \in 1 .. Len(todo)
         /\ Inside(Head(todo), Root(at)) /\ Aligned(Head(todo))
         /\ \A c : In(Head(todo), c) => Covered(todo, c)
  <1>1. todo \in Seq(Items)
    BY TypeGives
  <1>2. Head(todo) = todo[1] /\ 1 \in 1 .. Len(todo) /\ todo[1] \in Items
    BY <1>1
  <1>3. Inside(todo[1], Root(at)) /\ Aligned(todo[1])
    BY <1>2 DEF WalkInv
  <1>. QED
    BY <1>2, <1>3 DEF Covered

\* A cell of it lies in the superblock that was begun, and in its tile.
LEMMA CellHere ==
  ASSUME TypeOK, NEW it \in Items, Inside(it, Root(at)), NEW c \in Nat \X Nat, In(it, c)
  PROVE  SbOf(c) = Here(at) /\ InTile(SbOf(c), at)
  <1>1. frame \in Frames /\ PlaceOK(at)
    BY TypeGives
  <1>2. at.x \in Nat /\ at.y \in Nat
    BY <1>1, PlaceIs
  <1>3. Root(at) \in Items
    BY <1>1, <1>2, RootIs DEF Items
  <1>4. In(Root(at), c)
    BY <1>3, InInside
  <1>5. SbOf(c) = Here(at)
    BY <1>1, <1>2, <1>4, RootIs
  <1>6. InTile(Here(at), at)
    BY <1>1, PlaceIs DEF InTile, Here
  <1>. QED
    BY <1>5, <1>6

\* The cells of a block that is to be decoded are not decoded yet.
LEMMA HeadFresh ==
  ASSUME TypeOK, WalkInv, DoneInv, todo # <<>>, Head(todo) \in CodedBlock,
         NEW p \in Planes, InPlane(p, Head(todo)),
         NEW c \in Cells(Grid(p)), c \in Cells(Rect(p, Head(todo)))
  PROVE  c \notin done[p] /\ In(Head(todo), LastCell(p, c)) /\ LastCell(p, c) \in Nat \X Nat
  <1>1. frame \in Frames /\ Aligned(Head(todo))
    BY TypeGives, HeadIs
  <1>2. c \in Nat \X Nat
    BY <1>1, GridCells
  <1>3. In(Head(todo), LastCell(p, c)) /\ LastCell(p, c) \in Nat \X Nat
    BY <1>1, <1>2, RectLuma
  <1>4. Covered(todo, LastCell(p, c))
    BY <1>3, HeadIs
  <1>. QED
    BY <1>3, <1>4 DEF DoneInv, Decoded


\* No side becomes empty in chroma.
LEMMA HalfUp ==
  ASSUME NEW h \in Sides, NEW ss, NEW step, (ss = 0 /\ step = 1) \/ (ss = 1 /\ step = 2)
  PROVE  (h + ss) \div step > 0
  BY DEF Sides

\* A superblock starts at a unit of each plane.
LEMMA HalfOf ==
  ASSUME NEW v \in Nat, NEW z \in {16, 32}, NEW step \in {1, 2}
  PROVE  (z * v) \div step \in Nat /\ step * ((z * v) \div step) = z * v
  OBVIOUS

\* The unit before one that is not the tile's first is in the tile.
LEMMA OneBefore ==
  ASSUME NEW y \in Nat, NEW t \in Nat, y - 1 \in Nat, t <= y - 1,
         NEW ss, NEW step, (ss = 0 /\ step = 1) \/ (ss = 1 /\ step = 2)
  PROVE  step * (y - 1) + ss <= step * y + ss /\ step * (y - 1) + ss >= step * t
  OBVIOUS

\* A later unit is in the same superblock or in a later one.
LEMMA QuotientMonotone ==
  ASSUME NEW a \in Nat, NEW b \in Nat, NEW v \in Nat, NEW z \in {16, 32}, a <= b, a >= z * v
  PROVE  a \div z <= b \div z /\ v <= a \div z
  OBVIOUS

\* A cell of a later rectangle is neither above nor to the left of a cell of
\* an earlier one.
LEMMA OrderedCells ==
  ASSUME NEW a \in Items, NEW b \in Items, Precedes(a, b),
         NEW l \in Nat \X Nat, In(a, l), NEW m \in Nat \X Nat, In(b, m)
  PROVE  ~(m[1] = l[1] /\ m[2] <= l[2]) /\ ~(m[2] = l[2] /\ m[1] <= l[1])
  <1>1. /\ a.x \in Nat /\ a.y \in Nat /\ Wide(a) \in Nat /\ High(a) \in Nat
        /\ b.x \in Nat /\ b.y \in Nat /\ Wide(b) \in Nat /\ High(b) \in Nat
    BY ItemIs DEF Items, Sides
  <1>2. l[1] \in Nat /\ l[2] \in Nat /\ m[1] \in Nat /\ m[2] \in Nat
    OBVIOUS
  <1>. QED
    BY <1>1, <1>2 DEF Precedes, In

\* What starts no later ends no later.
LEMMA Scaled ==
  ASSUME NEW a \in Nat, NEW b \in Nat, NEW z \in {16, 32}, a <= b, NEW n \in Nat, z * b <= n
  PROVE  z * a <= n
  OBVIOUS

\* Units in the order of their luma cells.
LEMMA Unscaled ==
  ASSUME NEW a \in Nat, NEW b \in Nat, NEW ss, NEW step, (ss = 0 /\ step = 1) \/ (ss = 1 /\ step = 2),
         step * a <= step * b + ss
  PROVE  a <= b
  OBVIOUS

\* The entry above a column of the block that comes next is the upper edge of
\* the block: what lies above it in the tile is decoded, and it is not.
LEMMA AdjacentAbove ==
  ASSUME TypeOK, WalkInv, DoneInv, ContextInv,
         todo # <<>>, NEW b \in CodedBlock, b = Head(todo), Starts(b),
         NEW p \in Planes, InPlane(p, b), NEW r, r = Rect(p, b), NEW u \in Nat,
         r.x <= u, u < r.x + r.w, u < GridW(p), u < EdgeW(p)
  PROVE  above[p][u] = r.y /\ r.y >= TileTop(p, at)
  <1>. DEFINE c == <<u, r.y>>
              l == LastCell(p, c)
              t == TileTop(p, at)
              a == above[p][u]
  <1>1. frame \in Frames /\ PlaceOK(at) /\ todo \in Seq(Items) /\ above[p] \in [0 .. GridW(p) - 1 -> Nat]
    BY TypeGives
  <1>2. b \in Items /\ Inside(b, Root(at)) /\ Aligned(b) /\ b = todo[1] /\ 1 \in 1 .. Len(todo)
    BY HeadIs
  <1>3. /\ b.x \in Nat /\ b.y \in Nat /\ Wide(b) = b.w /\ High(b) = b.h /\ b.w \in Sides /\ b.h \in Sides
    BY BlockIs
  <1>5. /\ (SsV(p) = 0 /\ StepV(p) = 1) \/ (SsV(p) = 1 /\ StepV(p) = 2)
        /\ GridW(p) \in Nat /\ GridH(p) \in Nat /\ GridH(0) = StepV(p) * GridH(p)
    BY <1>1, SsOf
  <1>4. /\ r.x \in Nat /\ r.y \in Nat /\ r.w \in Nat /\ r.h \in Nat
        /\ StepV(p) * r.y <= b.y /\ r.h > 0
    <2>1. /\ r.x \in Nat /\ r.y \in Nat /\ r.w \in Nat /\ r.h \in Nat
          /\ StepV(p) * r.y <= b.y /\ r.h = (b.h + SsV(p)) \div StepV(p)
      BY <1>1, <1>2, RectIs
    <2>2. (b.h + SsV(p)) \div StepV(p) > 0
      BY ONLY <1>3, <1>5, HalfUp
    <2>. QED
      BY <2>1, <2>2
  <1>6. r.y < GridH(p)
    <2>1. b.y < GridH(0)
      BY DEF Starts
    <2>. QED
      BY ONLY <2>1, <1>3, <1>4, <1>5
  <1>7. c \in Nat \X Nat /\ c[1] = u /\ c[2] = r.y
    BY <1>4
  <1>. HIDE DEF c
  <1>8. c \in Cells(Grid(p)) /\ c \in Cells(r)
    <2>1. c[1] < GridW(p) /\ c[2] < GridH(p)
      BY <1>6, <1>7
    <2>2. /\ r.x <= c[1] /\ c[1] < r.x + r.w
          /\ r.y <= c[2] /\ c[2] < r.y + r.h
      <3>1. r.y <= r.y /\ r.y < r.y + r.h
        BY <1>4
      <3>. QED
        BY <3>1, <1>7
    <2>3. c \in Cells(Grid(p))
      BY <2>1, <1>1, <1>7, GridCells
    <2>4. c \in Cells(r)
      BY <2>2, <1>1, <1>2, <1>7, RectIs
    <2>. QED
      BY <2>3, <2>4
  <1>9. c \notin done[p] /\ In(b, l) /\ l \in Nat \X Nat
    BY <1>8, HeadFresh
  <1>10. SbOf(l) = Here(at) /\ InTile(SbOf(l), at)
    BY <1>2, <1>9, CellHere
  <1>11. a >= t /\ ~(r.y < a)
    BY <1>7, <1>8, <1>9, <1>10 DEF ContextInv, ContextOK
  <1>12. a \in Nat
    <2>1. u \in 0 .. GridW(p) - 1
      BY <1>5
    <2>. QED
      BY <2>1, <1>1
  <1>13. t \in Nat /\ StepV(p) * t = frame.sb * frame.rows[at.row]
    <2>1. frame.rows[at.row] \in Nat /\ frame.sb \in {16, 32}
      BY <1>1, PlaceIs, FrameFields
    <2>2. t = (frame.sb * frame.rows[at.row]) \div StepV(p)
      BY DEF TileTop
    <2>. QED
      BY ONLY <2>1, <2>2, <1>5, HalfOf
  <1>. HIDE DEF l, t, a
  <1>14. l[2] = StepV(p) * r.y + SsV(p) /\ l[1] = StepH(p) * u + SsH(p)
    BY <1>7 DEF LastCell, l
  <1>15. ASSUME a < r.y
         PROVE  FALSE
    <2>. DEFINE d == <<u, r.y - 1>>
                m == LastCell(p, d)
    <2>1. r.y - 1 \in Nat /\ r.y - 1 >= a /\ t <= r.y - 1 /\ r.y - 1 < r.y
      BY ONLY <1>4, <1>11, <1>12, <1>13, <1>15
    <2>2. d \in Nat \X Nat /\ d[1] = u /\ d[2] = r.y - 1
      BY <2>1
    <2>. HIDE DEF d
    <2>3. d \in Cells(Grid(p))
      <3>1. r.y - 1 < GridH(p)
        BY ONLY <1>4, <1>5, <1>6
      <3>2. d[1] < GridW(p) /\ d[2] < GridH(p)
        BY <3>1, <2>2
      <3>. QED
        BY <3>2, <1>1, <2>2, GridCells
    <2>4. /\ m \in Nat \X Nat /\ m[1] = StepH(p) * u + SsH(p) /\ m[2] = StepV(p) * (r.y - 1) + SsV(p)
          /\ m[2] < b.y
      <3>1. d[2] < r.y
        BY <2>1, <2>2
      <3>2. /\ m \in Nat \X Nat /\ m[1] = StepH(p) * d[1] + SsH(p) /\ m[2] = StepV(p) * d[2] + SsV(p)
            /\ d[2] < r.y => m[2] < b.y
        BY <1>1, <1>2, <2>2, RectLuma
      <3>. QED
        BY <3>1, <3>2, <2>2
    <2>. HIDE DEF m
    <2>5. m[1] = l[1] /\ m[2] <= l[2] /\ m[2] >= frame.sb * frame.rows[at.row]
          /\ m[1] \in Nat /\ m[2] \in Nat /\ l[1] \in Nat /\ l[2] \in Nat
      <3>1. /\ m[1] \in Nat /\ m[2] \in Nat /\ l[1] \in Nat /\ l[2] \in Nat
        BY <2>4, <1>9
      <3>2. /\ StepV(p) * (r.y - 1) + SsV(p) <= StepV(p) * r.y + SsV(p)
            /\ StepV(p) * (r.y - 1) + SsV(p) >= StepV(p) * t
        BY ONLY <1>4, <1>5, <1>13, <2>1, OneBefore
      <3>. QED
        BY <1>13, <1>14, <2>4, <3>1, <3>2
    <2>6. SbOf(m) \in Nat \X Nat /\ SbOf(m)[1] = at.x /\ SbOf(m)[2] <= at.y /\ InTile(SbOf(m), at)
      <3>1. SbOf(m)[1] = m[1] \div frame.sb /\ SbOf(m)[2] = m[2] \div frame.sb
            /\ SbOf(l)[1] = l[1] \div frame.sb /\ SbOf(l)[2] = l[2] \div frame.sb
        BY DEF SbOf
      <3>2. SbOf(l)[1] = at.x /\ SbOf(l)[2] = at.y
        BY <1>10 DEF Here
      <3>3. frame.sb \in {16, 32} /\ frame.rows[at.row] \in Nat
        BY <1>1, FrameFields, PlaceIs
      <3>4. m[2] \div frame.sb <= l[2] \div frame.sb /\ frame.rows[at.row] <= m[2] \div frame.sb
        BY ONLY <3>3, <2>5, QuotientMonotone
      <3>5. SbOf(m)[1] = at.x /\ SbOf(m)[2] <= at.y /\ frame.rows[at.row] <= SbOf(m)[2]
        BY <3>1, <3>2, <3>4, <2>5
      <3>6. SbOf(m) \in Nat \X Nat
        BY <1>1, <2>4, SuperblockOf
      <3>7. SbOf(m)[1] \in Nat /\ SbOf(m)[2] \in Nat
        BY <3>6
      <3>8. InTile(SbOf(m), at)
        <4>1. /\ at.x \in Nat /\ at.y \in Nat
              /\ frame.cols[at.col] \in Nat /\ frame.cols[at.col + 1] \in Nat
              /\ frame.rows[at.row] \in Nat /\ frame.rows[at.row + 1] \in Nat
              /\ frame.cols[at.col] <= at.x /\ at.x < frame.cols[at.col + 1]
              /\ frame.rows[at.row] <= at.y /\ at.y < frame.rows[at.row + 1]
          BY <1>1, PlaceIs
        <4>2. SbOf(m)[2] < frame.rows[at.row + 1]
          BY ONLY <4>1, <3>5, <3>7
        <4>. QED
          BY <3>5, <4>1, <4>2, Zenon DEF InTile
      <3>. QED
        BY <3>5, <3>6, <3>8
    <2>7. Earlier(SbOf(m), at) \/ SbOf(m) = Here(at)
      <3>1. SbOf(m) \in Nat \X Nat /\ InTile(SbOf(m), at)
            /\ ((SbOf(m)[1] = at.x /\ SbOf(m)[2] <= at.y) \/ (SbOf(m)[2] = at.y /\ SbOf(m)[1] <= at.x))
        BY <2>6
      <3>. QED
        BY <1>1, <3>1, AboveAndLeft
    <2>8. d \notin done[p]
      <3>1. u < EdgeW(p) => (d \in done[p] <=> r.y - 1 < a)
        BY <2>2, <2>3, <2>6 DEF ContextInv, ContextOK, m, a
      <3>. QED
        BY <3>1, <2>1, <1>12
    <2>9. Covered(todo, m)
      BY <2>3, <2>7, <2>8 DEF DoneInv, Decoded, m
    <2>10. PICK k \in 1 .. Len(todo) : In(todo[k], m)
      BY <2>9 DEF Covered
    <2>11. k # 1
      <3>1. ~In(b, m)
        <4>1. ~(b.y <= m[2])
          <5>1. m[2] < b.y /\ m[2] \in Nat /\ b.y \in Nat
            BY <2>4, <2>5, <1>3, Zenon
          <5>. QED
            BY ONLY <5>1
        <4>. QED
          BY <4>1, Zenon DEF In
      <3>. QED
        BY <3>1, <2>10, <1>2
    <2>12. Precedes(b, todo[k]) /\ todo[k] \in Items
      <3>1. Len(todo) \in Nat /\ 1 < k
        BY <1>1, <2>10, <2>11
      <3>. QED
        BY <3>1, <1>1, <1>2, <2>10 DEF WalkInv, Ordered
    <2>13. In(todo[k], m)
      BY <2>10
    <2>14. m[1] = l[1] /\ m[2] <= l[2] /\ m \in Nat \X Nat /\ l \in Nat \X Nat
      BY <1>9, <2>4, <2>5
    <2>. QED
      BY ONLY <1>2, <1>9, <2>12, <2>13, <2>14, OrderedCells
  <1>16. a = r.y
    BY ONLY <1>4, <1>11, <1>12, <1>15
  <1>. QED
    BY <1>16, <1>11 DEF a, t

\* The same of the entry left of a row of it.
LEMMA AdjacentLeft ==
  ASSUME TypeOK, WalkInv, DoneInv, ContextInv,
         todo # <<>>, NEW b \in CodedBlock, b = Head(todo), Starts(b),
         NEW p \in Planes, InPlane(p, b), NEW r, r = Rect(p, b), NEW u \in Nat,
         r.y <= u, u < r.y + r.h, u < GridH(p), u < EdgeH(p)
  PROVE  left[p][u] = r.x /\ r.x >= TileLeft(p, at)
  <1>. DEFINE c == <<r.x, u>>
              l == LastCell(p, c)
              t == TileLeft(p, at)
              a == left[p][u]
  <1>1. frame \in Frames /\ PlaceOK(at) /\ todo \in Seq(Items) /\ left[p] \in [0 .. GridH(p) - 1 -> Nat]
    BY TypeGives
  <1>2. b \in Items /\ Inside(b, Root(at)) /\ Aligned(b) /\ b = todo[1] /\ 1 \in 1 .. Len(todo)
    BY HeadIs
  <1>3. /\ b.x \in Nat /\ b.y \in Nat /\ Wide(b) = b.w /\ High(b) = b.h /\ b.w \in Sides /\ b.h \in Sides
    BY BlockIs
  <1>5. /\ (SsH(p) = 0 /\ StepH(p) = 1) \/ (SsH(p) = 1 /\ StepH(p) = 2)
        /\ GridH(p) \in Nat /\ GridW(p) \in Nat /\ GridW(0) = StepH(p) * GridW(p)
    BY <1>1, SsOf
  <1>4. /\ r.y \in Nat /\ r.x \in Nat /\ r.h \in Nat /\ r.w \in Nat
        /\ StepH(p) * r.x <= b.x /\ r.w > 0
    <2>1. /\ r.y \in Nat /\ r.x \in Nat /\ r.h \in Nat /\ r.w \in Nat
          /\ StepH(p) * r.x <= b.x /\ r.w = (b.w + SsH(p)) \div StepH(p)
      BY <1>1, <1>2, RectIs
    <2>2. (b.w + SsH(p)) \div StepH(p) > 0
      BY ONLY <1>3, <1>5, HalfUp
    <2>. QED
      BY <2>1, <2>2
  <1>6. r.x < GridW(p)
    <2>1. b.x < GridW(0)
      BY DEF Starts
    <2>. QED
      BY ONLY <2>1, <1>3, <1>4, <1>5
  <1>7. c \in Nat \X Nat /\ c[2] = u /\ c[1] = r.x
    BY <1>4
  <1>. HIDE DEF c
  <1>8. c \in Cells(Grid(p)) /\ c \in Cells(r)
    <2>1. c[1] < GridW(p) /\ c[2] < GridH(p)
      BY <1>6, <1>7
    <2>2. /\ r.x <= c[1] /\ c[1] < r.x + r.w
          /\ r.y <= c[2] /\ c[2] < r.y + r.h
      <3>1. r.x <= r.x /\ r.x < r.x + r.w
        BY <1>4
      <3>. QED
        BY <3>1, <1>7
    <2>3. c \in Cells(Grid(p))
      BY <2>1, <1>1, <1>7, GridCells
    <2>4. c \in Cells(r)
      BY <2>2, <1>1, <1>2, <1>7, RectIs
    <2>. QED
      BY <2>3, <2>4
  <1>9. c \notin done[p] /\ In(b, l) /\ l \in Nat \X Nat
    BY <1>8, HeadFresh
  <1>10. SbOf(l) = Here(at) /\ InTile(SbOf(l), at)
    BY <1>2, <1>9, CellHere
  <1>11. a >= t /\ ~(r.x < a)
    BY <1>7, <1>8, <1>9, <1>10 DEF ContextInv, ContextOK
  <1>12. a \in Nat
    <2>1. u \in 0 .. GridH(p) - 1
      BY <1>5
    <2>. QED
      BY <2>1, <1>1
  <1>13. t \in Nat /\ StepH(p) * t = frame.sb * frame.cols[at.col]
    <2>1. frame.cols[at.col] \in Nat /\ frame.sb \in {16, 32}
      BY <1>1, PlaceIs, FrameFields
    <2>2. t = (frame.sb * frame.cols[at.col]) \div StepH(p)
      BY DEF TileLeft
    <2>. QED
      BY ONLY <2>1, <2>2, <1>5, HalfOf
  <1>. HIDE DEF l, t, a
  <1>14. l[1] = StepH(p) * r.x + SsH(p) /\ l[2] = StepV(p) * u + SsV(p)
    BY <1>7 DEF LastCell, l
  <1>15. ASSUME a < r.x
         PROVE  FALSE
    <2>. DEFINE d == <<r.x - 1, u>>
                m == LastCell(p, d)
    <2>1. r.x - 1 \in Nat /\ r.x - 1 >= a /\ t <= r.x - 1 /\ r.x - 1 < r.x
      BY ONLY <1>4, <1>11, <1>12, <1>13, <1>15
    <2>2. d \in Nat \X Nat /\ d[2] = u /\ d[1] = r.x - 1
      BY <2>1
    <2>. HIDE DEF d
    <2>3. d \in Cells(Grid(p))
      <3>1. r.x - 1 < GridW(p)
        BY ONLY <1>4, <1>5, <1>6
      <3>2. d[1] < GridW(p) /\ d[2] < GridH(p)
        BY <3>1, <2>2
      <3>. QED
        BY <3>2, <1>1, <2>2, GridCells
    <2>4. /\ m \in Nat \X Nat /\ m[2] = StepV(p) * u + SsV(p) /\ m[1] = StepH(p) * (r.x - 1) + SsH(p)
          /\ m[1] < b.x
      <3>1. d[1] < r.x
        BY <2>1, <2>2
      <3>2. /\ m \in Nat \X Nat /\ m[2] = StepV(p) * d[2] + SsV(p) /\ m[1] = StepH(p) * d[1] + SsH(p)
            /\ d[1] < r.x => m[1] < b.x
        BY <1>1, <1>2, <2>2, RectLuma
      <3>. QED
        BY <3>1, <3>2, <2>2
    <2>. HIDE DEF m
    <2>5. m[2] = l[2] /\ m[1] <= l[1] /\ m[1] >= frame.sb * frame.cols[at.col]
          /\ m[2] \in Nat /\ m[1] \in Nat /\ l[2] \in Nat /\ l[1] \in Nat
      <3>1. /\ m[2] \in Nat /\ m[1] \in Nat /\ l[2] \in Nat /\ l[1] \in Nat
        BY <2>4, <1>9
      <3>2. /\ StepH(p) * (r.x - 1) + SsH(p) <= StepH(p) * r.x + SsH(p)
            /\ StepH(p) * (r.x - 1) + SsH(p) >= StepH(p) * t
        BY ONLY <1>4, <1>5, <1>13, <2>1, OneBefore
      <3>. QED
        BY <1>13, <1>14, <2>4, <3>1, <3>2
    <2>6. SbOf(m) \in Nat \X Nat /\ SbOf(m)[2] = at.y /\ SbOf(m)[1] <= at.x /\ InTile(SbOf(m), at)
      <3>1. SbOf(m)[2] = m[2] \div frame.sb /\ SbOf(m)[1] = m[1] \div frame.sb
            /\ SbOf(l)[2] = l[2] \div frame.sb /\ SbOf(l)[1] = l[1] \div frame.sb
        BY DEF SbOf
      <3>2. SbOf(l)[2] = at.y /\ SbOf(l)[1] = at.x
        BY <1>10 DEF Here
      <3>3. frame.sb \in {16, 32} /\ frame.cols[at.col] \in Nat
        BY <1>1, FrameFields, PlaceIs
      <3>4. m[1] \div frame.sb <= l[1] \div frame.sb /\ frame.cols[at.col] <= m[1] \div frame.sb
        BY ONLY <3>3, <2>5, QuotientMonotone
      <3>5. SbOf(m)[2] = at.y /\ SbOf(m)[1] <= at.x /\ frame.cols[at.col] <= SbOf(m)[1]
        BY <3>1, <3>2, <3>4, <2>5
      <3>6. SbOf(m) \in Nat \X Nat
        BY <1>1, <2>4, SuperblockOf
      <3>7. SbOf(m)[2] \in Nat /\ SbOf(m)[1] \in Nat
        BY <3>6
      <3>8. InTile(SbOf(m), at)
        <4>1. /\ at.x \in Nat /\ at.y \in Nat
              /\ frame.cols[at.col] \in Nat /\ frame.cols[at.col + 1] \in Nat
              /\ frame.rows[at.row] \in Nat /\ frame.rows[at.row + 1] \in Nat
              /\ frame.cols[at.col] <= at.x /\ at.x < frame.cols[at.col + 1]
              /\ frame.rows[at.row] <= at.y /\ at.y < frame.rows[at.row + 1]
          BY <1>1, PlaceIs
        <4>2. SbOf(m)[1] < frame.cols[at.col + 1]
          BY ONLY <4>1, <3>5, <3>7
        <4>. QED
          BY <3>5, <4>1, <4>2, Zenon DEF InTile
      <3>. QED
        BY <3>5, <3>6, <3>8
    <2>7. Earlier(SbOf(m), at) \/ SbOf(m) = Here(at)
      <3>1. SbOf(m) \in Nat \X Nat /\ InTile(SbOf(m), at)
            /\ ((SbOf(m)[1] = at.x /\ SbOf(m)[2] <= at.y) \/ (SbOf(m)[2] = at.y /\ SbOf(m)[1] <= at.x))
        BY <2>6
      <3>. QED
        BY <1>1, <3>1, AboveAndLeft
    <2>8. d \notin done[p]
      <3>1. u < EdgeH(p) => (d \in done[p] <=> r.x - 1 < a)
        BY <2>2, <2>3, <2>6 DEF ContextInv, ContextOK, m, a
      <3>. QED
        BY <3>1, <2>1, <1>12
    <2>9. Covered(todo, m)
      BY <2>3, <2>7, <2>8 DEF DoneInv, Decoded, m
    <2>10. PICK k \in 1 .. Len(todo) : In(todo[k], m)
      BY <2>9 DEF Covered
    <2>11. k # 1
      <3>1. ~In(b, m)
        <4>1. ~(b.x <= m[1])
          <5>1. m[1] < b.x /\ m[1] \in Nat /\ b.x \in Nat
            BY <2>4, <2>5, <1>3, Zenon
          <5>. QED
            BY ONLY <5>1
        <4>. QED
          BY <4>1, Zenon DEF In
      <3>. QED
        BY <3>1, <2>10, <1>2
    <2>12. Precedes(b, todo[k]) /\ todo[k] \in Items
      <3>1. Len(todo) \in Nat /\ 1 < k
        BY <1>1, <2>10, <2>11
      <3>. QED
        BY <3>1, <1>1, <1>2, <2>10 DEF WalkInv, Ordered
    <2>13. In(todo[k], m)
      BY <2>10
    <2>14. m[2] = l[2] /\ m[1] <= l[1] /\ m \in Nat \X Nat /\ l \in Nat \X Nat
      BY <1>9, <2>4, <2>5
    <2>. QED
      BY ONLY <1>2, <1>9, <2>12, <2>13, <2>14, OrderedCells
  <1>16. a = r.x
    BY ONLY <1>4, <1>11, <1>12, <1>15
  <1>. QED
    BY <1>16, <1>11 DEF a, t

-----------------------------------------------------------------------------
(* A node or a block outside the grid is passed over. *)

\* What holds a cell of the grid starts inside it.
LEMMA InStarts ==
  ASSUME frame \in Frames, NEW it \in Items, NEW c \in Nat \X Nat, c[1] < GridW(0), c[2] < GridH(0), In(it, c)
  PROVE  Starts(it)
  <1>1. it.x \in Nat /\ it.y \in Nat
    BY ItemIs DEF Items
  <1>2. c[1] \in Nat /\ c[2] \in Nat
    OBVIOUS
  <1>3. GridW(0) \in Nat /\ GridH(0) \in Nat
    BY Grids DEF Planes
  <1>. QED
    BY <1>1, <1>2, <1>3 DEF In, Starts

\* Passing over what starts outside the grid decodes nothing, and leaves
\* nothing out.
LEMMA PassOverKeeps ==
  ASSUME Inv, PassOver
  PROVE  Inv'
  <1>. DEFINE h == Head(todo)
  <1>1. TypeOK /\ WalkInv /\ DoneInv /\ ContextInv /\ CdefInv
    BY DEF Inv
  <1>2. /\ todo # <<>> /\ ~Starts(h) /\ todo' = Tail(todo)
        /\ frame' = frame /\ at' = at /\ done' = done /\ above' = above /\ left' = left
        /\ cdef' = cdef /\ coded' = coded
    BY DEF PassOver
  <1>3. frame \in Frames /\ PlaceOK(at) /\ todo \in Seq(Items)
    BY <1>1, TypeGives
  <1>4. /\ todo' \in Seq(Items) /\ h \in Items /\ Ordered(todo')
        /\ \A c \in Nat \X Nat : Covered(todo', c) <=> (Covered(todo, c) /\ ~In(h, c))
        /\ \A i \in 1 .. Len(todo') : i + 1 \in 2 .. Len(todo) /\ todo'[i] = todo[i + 1]
    BY <1>1, <1>2, <1>3, TailOrdered DEF WalkInv
  <1>5. \A i \in 1 .. Len(todo') : \E j \in 1 .. Len(todo) : todo'[i] = todo[j]
    <2>1. \A j \in 2 .. Len(todo) : j \in 1 .. Len(todo)
      BY <1>3
    <2>. QED
      BY <1>4, <2>1
  <1>. HIDE DEF h
  <1>6. TypeOK'
    BY <1>1, <1>2, <1>3, <1>4, TypeNext, TypeGives DEF Items
  <1>7. WalkInv'
    <2>1. \A i \in 1 .. Len(todo') : Inside(todo'[i], Root(at')) /\ Aligned(todo'[i])
      BY <1>1, <1>2, <1>5 DEF WalkInv
    <2>. QED
      BY <2>1, <1>2, <1>4, WalkNext
  <1>8. DoneInv'
    <2>. SUFFICES ASSUME NEW p \in Planes, NEW c \in Cells(Grid(p))
                  PROVE  c \in done'[p] <=> Decoded(LastCell(p, c), todo', at')
      BY <1>2, DoneNext
    <2>. DEFINE l == LastCell(p, c)
    <2>1. l \in Cells(Grid(0))
      BY <1>3, GridCells
    <2>. HIDE DEF l
    <2>2. l \in Nat \X Nat /\ l[1] < GridW(0) /\ l[2] < GridH(0)
      BY <2>1, <1>3, CellInPicture
    <2>3. ~In(h, l)
      BY <1>2, <1>3, <1>4, <2>2, InStarts
    <2>4. Covered(todo', l) <=> Covered(todo, l)
      BY <2>2, <2>3, <1>4
    <2>. QED
      BY <2>4, <1>1, <1>2 DEF DoneInv, Decoded, l
  <1>9. ContextInv'
    BY <1>1, <1>2, ContextNext DEF ContextInv
  <1>10. CdefInv'
    BY <1>1, <1>2, <1>5, CdefNext DEF CdefInv
  <1>. QED
    BY <1>6, <1>7, <1>8, <1>9, <1>10 DEF Inv

-----------------------------------------------------------------------------
(* A node gives way to its parts. *)

\* Of something inside, what it touches is touched; and if it is larger than a
\* region, so is what it lies in.
LEMMA SpansInside ==
  ASSUME NEW a \in Items, NEW n \in Items, Inside(a, n), Spans(a)
  PROVE  Spans(n) /\ \A g \in Nat \X Nat : Touches(a, g) => Touches(n, g)
  <1>1. /\ a.x \in Nat /\ a.y \in Nat /\ Wide(a) \in Sides /\ High(a) \in Sides
        /\ n.x \in Nat /\ n.y \in Nat /\ Wide(n) \in Sides /\ High(n) \in Sides
    BY ItemIs DEF Items
  <1>2. /\ n.x <= a.x /\ a.x + Wide(a) <= n.x + Wide(n)
        /\ n.y <= a.y /\ a.y + High(a) <= n.y + High(n)
    BY DEF Inside
  <1>3. Spans(n)
    BY <1>1, <1>2 DEF Spans, Sides
  <1>4. n.x \div 16 <= a.x \div 16 /\ (a.x + Wide(a) - 1) \div 16 <= (n.x + Wide(n) - 1) \div 16
    <2>. DEFINE x == a.x + Wide(a) - 1
                y == n.x + Wide(n) - 1
    <2>1. x \in Nat /\ y \in Nat /\ x <= y
      BY <1>1, <1>2 DEF Sides
    <2>. HIDE DEF x, y
    <2>2. x \div 16 <= y \div 16
      BY <2>1
    <2>. QED
      BY <2>2, <1>1, <1>2 DEF x, y
  <1>5. n.y \div 16 <= a.y \div 16 /\ (a.y + High(a) - 1) \div 16 <= (n.y + High(n) - 1) \div 16
    <2>. DEFINE x == a.y + High(a) - 1
                y == n.y + High(n) - 1
    <2>1. x \in Nat /\ y \in Nat /\ x <= y
      BY <1>1, <1>2 DEF Sides
    <2>. HIDE DEF x, y
    <2>2. x \div 16 <= y \div 16
      BY <2>1
    <2>. QED
      BY <2>2, <1>1, <1>2 DEF x, y
  <1>6. ASSUME NEW g \in Nat \X Nat, Touches(a, g)
        PROVE  Touches(n, g)
    <2>. DEFINE a1 == a.x \div 16
                a2 == (a.x + Wide(a) - 1) \div 16
                b1 == a.y \div 16
                b2 == (a.y + High(a) - 1) \div 16
                m1 == n.x \div 16
                m2 == (n.x + Wide(n) - 1) \div 16
                k1 == n.y \div 16
                k2 == (n.y + High(n) - 1) \div 16
    <2>1. /\ a1 \in Int /\ a2 \in Int /\ b1 \in Int /\ b2 \in Int
          /\ m1 \in Int /\ m2 \in Int /\ k1 \in Int /\ k2 \in Int
      BY <1>1 DEF Sides
    <2>2. g[1] \in Nat /\ g[2] \in Nat /\ a1 <= g[1] /\ g[1] <= a2 /\ b1 <= g[2] /\ g[2] <= b2
      BY <1>6 DEF Touches
    <2>3. m1 <= a1 /\ a2 <= m2 /\ k1 <= b1 /\ b2 <= k2
      BY <1>4, <1>5
    <2>4. Touches(n, g) <=> m1 <= g[1] /\ g[1] <= m2 /\ k1 <= g[2] /\ g[2] <= k2
      BY DEF Touches
    <2>. HIDE DEF a1, a2, b1, b2, m1, m2, k1, k2
    <2>. QED
      BY <2>1, <2>2, <2>3, <2>4
  <1>. QED
    BY <1>3, <1>6

\* A node gives way to parts that tile it.
LEMMA PartitionKeeps ==
  ASSUME Inv, NEW part, Partition(part)
  PROVE  Inv'
  <1>. DEFINE n == Head(todo)
              s == Parts(n, part)
  <1>1. TypeOK /\ WalkInv /\ DoneInv /\ ContextInv /\ CdefInv
    BY DEF Inv
  <1>2. /\ todo # <<>> /\ IsNode(n) /\ part \in Partitions(n) /\ todo' = s \o Tail(todo)
        /\ frame' = frame /\ at' = at /\ done' = done /\ above' = above /\ left' = left
        /\ cdef' = cdef /\ coded' = coded
    BY DEF Partition
  <1>3. frame \in Frames /\ PlaceOK(at) /\ todo \in Seq(Items)
    BY <1>1, TypeGives
  <1>4. /\ n \in Items /\ n = todo[1] /\ 1 \in 1 .. Len(todo)
        /\ Inside(n, Root(at)) /\ Aligned(n)
    BY <1>1, <1>2, HeadIs
  <1>5. n \in Node
    BY <1>2, <1>4, ItemKind DEF Items
  <1>6. Tiling(s, n)
    BY <1>2, <1>4, <1>5, PartsTile
  <1>7. /\ todo' \in Seq(Items) /\ Ordered(todo')
        /\ \A c \in Nat \X Nat : Covered(todo', c) <=> Covered(todo, c)
        /\ \A i \in 1 .. Len(todo') :
             \/ \E j \in 1 .. Len(s) : todo'[i] = s[j]
             \/ \E j \in 2 .. Len(todo) : todo'[i] = todo[j]
    <2>. HIDE DEF s
    <2>1. Ordered(todo) /\ n = Head(todo)
      BY <1>1 DEF WalkInv
    <2>. HIDE DEF n
    <2>. QED
      <3>1. todo \in Seq(Items) /\ todo # <<>> /\ Tiling(s, Head(todo))
        BY <1>2, <1>3, <1>6, <2>1
      <3>2. /\ s \o Tail(todo) \in Seq(Items) /\ Ordered(s \o Tail(todo))
            /\ \A c \in Nat \X Nat : Covered(s \o Tail(todo), c) <=> Covered(todo, c)
            /\ \A i \in 1 .. Len(s \o Tail(todo)) :
                 \/ \E j \in 1 .. Len(s) : (s \o Tail(todo))[i] = s[j]
                 \/ \E j \in 2 .. Len(todo) : (s \o Tail(todo))[i] = todo[j]
        BY ONLY <3>1, <2>1, ReplacedOrdered
      <3>. QED
        BY <3>2, <1>2, Zenon
  <1>. HIDE DEF s
  <1>8. \A i \in 1 .. Len(todo') :
           \/ todo'[i] \in Items /\ Inside(todo'[i], n) /\ Aligned(todo'[i])
           \/ \E j \in 1 .. Len(todo) : todo'[i] = todo[j]
    <2>1. \A j \in 2 .. Len(todo) : j \in 1 .. Len(todo)
      BY <1>3
    <2>2. \A j \in 1 .. Len(s) : s[j] \in Items /\ Inside(s[j], n) /\ Aligned(s[j])
      BY <1>6 DEF Tiling
    <2>. QED
      BY <1>7, <2>1, <2>2, Zenon
  <1>. HIDE DEF n
  <1>9. TypeOK'
    BY <1>1, <1>2, <1>3, <1>7, TypeNext, TypeGives DEF Items
  <1>10. WalkInv'
    <2>1. ASSUME NEW i \in 1 .. Len(todo')
          PROVE  Inside(todo'[i], Root(at')) /\ Aligned(todo'[i])
      <3>1. CASE todo'[i] \in Items /\ Inside(todo'[i], n) /\ Aligned(todo'[i])
        <4>1. at.x \in Nat /\ at.y \in Nat
          BY <1>3, PlaceIs
        <4>2. Root(at) \in Items
          BY <1>3, <4>1, RootIs DEF Items
        <4>. QED
          BY <3>1, <4>2, <1>2, <1>4, InsideTransitive
      <3>2. CASE \E j \in 1 .. Len(todo) : todo'[i] = todo[j]
        BY <3>2, <1>1, <1>2 DEF WalkInv
      <3>. QED
        BY <3>1, <3>2, <1>8
    <2>. QED
      BY <2>1, <1>2, <1>7, WalkNext
  <1>11. DoneInv'
    <2>. SUFFICES ASSUME NEW p \in Planes, NEW c \in Cells(Grid(p))
                  PROVE  c \in done'[p] <=> Decoded(LastCell(p, c), todo', at')
      BY <1>2, DoneNext
    <2>. DEFINE l == LastCell(p, c)
    <2>1. l \in Cells(Grid(0))
      BY <1>3, GridCells
    <2>. HIDE DEF l
    <2>2. l \in Nat \X Nat
      BY <2>1, <1>3, CellInPicture
    <2>3. Covered(todo', l) <=> Covered(todo, l)
      BY <2>2, <1>7
    <2>. QED
      BY <2>3, <1>1, <1>2 DEF DoneInv, Decoded, l
  <1>12. ContextInv'
    BY <1>1, <1>2, ContextNext DEF ContextInv
  <1>13. CdefInv'
    <2>1. \A i \in 1 .. Len(todo) : \A g \in cdef : Spans(todo[i]) => ~Touches(todo[i], g)
      BY <1>1 DEF CdefInv
    <2>2. ASSUME NEW i \in 1 .. Len(todo'), NEW g \in cdef, Spans(todo'[i])
          PROVE  ~Touches(todo'[i], g)
      <3>1. CASE todo'[i] \in Items /\ Inside(todo'[i], n) /\ Aligned(todo'[i])
        <4>1. g \in Nat \X Nat
          BY <1>1, TypeGives
        <4>. QED
          BY <3>1, <4>1, <2>1, <2>2, <1>4, SpansInside
      <3>2. CASE \E j \in 1 .. Len(todo) : todo'[i] = todo[j]
        BY <3>2, <2>1, <2>2
      <3>. QED
        BY <3>1, <3>2, <1>8
    <2>. QED
      BY <2>2, <1>1, <1>2, CdefNext DEF CdefInv
  <1>. QED
    BY <1>9, <1>10, <1>11, <1>12, <1>13 DEF Inv

-----------------------------------------------------------------------------
(* A block is decoded. *)

\* Along one axis: what a block of up to 64 samples touches of the 64x64 grid;
\* and that the place where two rectangles touch the same 64 samples belongs
\* to one if it is made of whole such places.
LEMMA AxisRegions ==
  ASSUME NEW x \in Nat, NEW w \in Sides, x % w = 0
  PROVE  /\ x \div 16 \in Nat /\ (x + w - 1) \div 16 \in Nat /\ x \div 16 <= (x + w - 1) \div 16
         /\ w # 32 => (x + w - 1) \div 16 = x \div 16
         /\ \A g \in Nat : (x \div 16 <= g /\ g <= (x + w - 1) \div 16) =>
              /\ x < 16 * g + 16 /\ 16 * g < x + w
              /\ w >= 16 => x <= 16 * g /\ 16 * g + 16 <= x + w
  <1>1. CASE w = 32
    <2>1. PICK y \in Nat : x = 32 * y
      BY <1>1
    <2>. QED
      BY <1>1, <2>1
  <1>2. CASE w = 16
    <2>1. PICK y \in Nat : x = 16 * y
      BY <1>2
    <2>. QED
      BY <1>2, <2>1
  <1>3. CASE w = 8
    <2>1. PICK y \in Nat : x = 8 * y
      BY <1>3
    <2>. QED
      BY <1>3, <2>1
  <1>4. CASE w = 4
    <2>1. PICK y \in Nat : x = 4 * y
      BY <1>4
    <2>. QED
      BY <1>4, <2>1
  <1>5. CASE w = 2
    <2>1. PICK y \in Nat : x = 2 * y
      BY <1>5
    <2>. QED
      BY <1>5, <2>1
  <1>6. CASE w = 1
    BY <1>6
  <1>. QED
    BY <1>1, <1>2, <1>3, <1>4, <1>5, <1>6 DEF Sides

\* Two rectangles of which one comes first touch no region both, if one of
\* them is made of whole regions.
LEMMA RegionsApart ==
  ASSUME NEW a \in Items, NEW b \in Items, Aligned(a), Aligned(b), Precedes(a, b), Spans(b),
         NEW g \in Nat \X Nat, Touches(a, g)
  PROVE  ~Touches(b, g)
  <1>. SUFFICES ASSUME Touches(b, g)
                PROVE  FALSE
    OBVIOUS
  <1>1. /\ a.x \in Nat /\ a.y \in Nat /\ Wide(a) \in Sides /\ High(a) \in Sides
        /\ b.x \in Nat /\ b.y \in Nat /\ Wide(b) \in Sides /\ High(b) \in Sides
        /\ a.x % Wide(a) = 0 /\ a.y % High(a) = 0 /\ b.x % Wide(b) = 0 /\ b.y % High(b) = 0
        /\ Wide(b) >= 16 /\ High(b) >= 16
    BY ItemIs DEF Items, Aligned
  <1>2. g[1] \in Nat /\ g[2] \in Nat
    OBVIOUS
  <1>3. /\ a.x < 16 * g[1] + 16 /\ 16 * g[1] < a.x + Wide(a)
        /\ b.x <= 16 * g[1] /\ 16 * g[1] + 16 <= b.x + Wide(b)
    BY <1>1, <1>2, AxisRegions DEF Touches
  <1>4. /\ a.y < 16 * g[2] + 16 /\ 16 * g[2] < a.y + High(a)
        /\ b.y <= 16 * g[2] /\ 16 * g[2] + 16 <= b.y + High(b)
    BY <1>1, <1>2, AxisRegions DEF Touches
  <1>5. /\ Wide(a) \in Nat /\ High(a) \in Nat /\ Wide(b) \in Nat /\ High(b) \in Nat
        /\ Wide(a) > 0 /\ High(a) > 0
    BY <1>1 DEF Sides
  <1>. QED
    BY <1>1, <1>2, <1>3, <1>4, <1>5 DEF Precedes

\* The regions a block touches.
LEMMA RegionsAre ==
  ASSUME NEW b \in CodedBlock, Aligned(b)
  PROVE  /\ Regions64(b) \subseteq Nat \X Nat
         /\ \A g \in Nat \X Nat : g \in Regions64(b) <=> Touches(b, g)
         /\ <<b.x \div 16, b.y \div 16>> \in Regions64(b)
         /\ ~Spans(b) => Regions64(b) = {<<b.x \div 16, b.y \div 16>>}
  <1>1. /\ b.x \in Nat /\ b.y \in Nat /\ Wide(b) = b.w /\ High(b) = b.h /\ b.w \in Sides /\ b.h \in Sides
        /\ b.x % b.w = 0 /\ b.y % b.h = 0
    BY BlockIs DEF Aligned
  <1>. DEFINE a1 == b.x \div 16
              a2 == (b.x + b.w - 1) \div 16
              c1 == b.y \div 16
              c2 == (b.y + b.h - 1) \div 16
  <1>2. a1 \in Nat /\ a2 \in Nat /\ a1 <= a2 /\ (b.w # 32 => a2 = a1)
    BY <1>1, AxisRegions
  <1>3. c1 \in Nat /\ c2 \in Nat /\ c1 <= c2 /\ (b.h # 32 => c2 = c1)
    BY <1>1, AxisRegions
  <1>4. Regions64(b) = {<<x, y>> : x \in a1 .. a2, y \in c1 .. c2}
    BY DEF Regions64
  <1>5. ASSUME NEW g
        PROVE  Touches(b, g) <=> a1 <= g[1] /\ g[1] <= a2 /\ c1 <= g[2] /\ g[2] <= c2
    BY <1>1 DEF Touches
  <1>6. Spans(b) <=> b.w = 32 \/ b.h = 32
    BY <1>1 DEF Spans
  <1>. HIDE DEF a1, a2, c1, c2
  <1>7. Regions64(b) \subseteq Nat \X Nat /\ <<a1, c1>> \in Regions64(b)
    BY <1>2, <1>3, <1>4
  <1>8. ASSUME NEW g \in Nat \X Nat
        PROVE  g \in Regions64(b) <=> Touches(b, g)
    <2>1. g = <<g[1], g[2]>> /\ g[1] \in Nat /\ g[2] \in Nat
      OBVIOUS
    <2>2. /\ g[1] \in a1 .. a2 <=> a1 <= g[1] /\ g[1] <= a2
          /\ g[2] \in c1 .. c2 <=> c1 <= g[2] /\ g[2] <= c2
      BY <2>1, <1>2, <1>3
    <2>3. ASSUME NEW x \in a1 .. a2, NEW y \in c1 .. c2, g = <<x, y>>
          PROVE  g[1] = x /\ g[2] = y
      BY <2>3
    <2>. QED
      BY <1>4, <1>5, <2>1, <2>2, <2>3
  <1>9. ASSUME ~Spans(b)
        PROVE  Regions64(b) = {<<a1, c1>>}
    <2>1. a1 .. a2 = {a1} /\ c1 .. c2 = {c1}
      BY <1>2, <1>3, <1>6, <1>9
    <2>. QED
      BY <2>1, <1>4
  <1>. QED
    BY <1>7, <1>8, <1>9 DEF a1, c1


\* The entries of above that a block leaves.
LEMMA AboveWritten ==
  ASSUME TypeOK, NEW b \in CodedBlock, Aligned(b), NEW p \in Planes
  PROVE  /\ AboveAfter(b)[p] \in [0 .. GridW(p) - 1 -> Nat]
         /\ DOMAIN AboveAfter(b) = Planes
         /\ \A u \in 0 .. GridW(p) - 1 :
              AboveAfter(b)[p][u] = IF /\ InPlane(p, b) /\ u < EdgeW(p)
                                 /\ Rect(p, b).x <= u /\ u < Rect(p, b).x + Rect(p, b).w
                              THEN Rect(p, b).y + Rect(p, b).h ELSE above[p][u]
  <1>. DEFINE r == Rect(p, b)
              W == Written(p, b, EdgeW(p), r.x, r.w)
  <1>1. frame \in Frames /\ above[p] \in [0 .. GridW(p) - 1 -> Nat]
    BY TypeGives
  <1>2. AboveAfter(b)[p] = [u \in 0 .. GridW(p) - 1 |-> IF u \in W THEN r.y + r.h ELSE above[p][u]]
    BY <1>1 DEF AboveAfter
  <1>3. r.x \in Nat /\ r.w \in Nat /\ r.y \in Nat /\ r.h \in Nat
    BY <1>1, RectIs
  <1>4. GridW(p) \in Nat
    BY <1>1, SsOf
  <1>5. ASSUME NEW u \in 0 .. GridW(p) - 1
        PROVE  u \in W <=> (InPlane(p, b) /\ u < EdgeW(p) /\ r.x <= u /\ u < r.x + r.w)
    <2>1. u \in Nat
      BY <1>4
    <2>2. u \in r.x .. r.x + r.w - 1 <=> r.x <= u /\ u < r.x + r.w
      BY <2>1, <1>3
    <2>. QED
      BY <2>2 DEF Written
  <1>. HIDE DEF W
  <1>6. AboveAfter(b)[p] \in [0 .. GridW(p) - 1 -> Nat]
    <2>1. r.y + r.h \in Nat
      BY <1>3
    <2>. QED
      BY <1>1, <1>2, <2>1
  <1>7. DOMAIN AboveAfter(b) = Planes
    BY DEF AboveAfter
  <1>8. \A u \in 0 .. GridW(p) - 1 : AboveAfter(b)[p][u] = IF u \in W THEN r.y + r.h ELSE above[p][u]
    BY <1>2
  <1>. HIDE DEF r
  <1>9. ASSUME NEW u \in 0 .. GridW(p) - 1
        PROVE  AboveAfter(b)[p][u] = IF /\ InPlane(p, b) /\ u < EdgeW(p)
                                   /\ r.x <= u /\ u < r.x + r.w
                                THEN r.y + r.h ELSE above[p][u]
    BY <1>5, <1>8
  <1>. QED
    BY <1>6, <1>7, <1>9 DEF r

\* The entries of left that a block leaves.
LEMMA LeftWritten ==
  ASSUME TypeOK, NEW b \in CodedBlock, Aligned(b), NEW p \in Planes
  PROVE  /\ LeftAfter(b)[p] \in [0 .. GridH(p) - 1 -> Nat]
         /\ DOMAIN LeftAfter(b) = Planes
         /\ \A u \in 0 .. GridH(p) - 1 :
              LeftAfter(b)[p][u] = IF /\ InPlane(p, b) /\ u < EdgeH(p)
                                 /\ Rect(p, b).y <= u /\ u < Rect(p, b).y + Rect(p, b).h
                              THEN Rect(p, b).x + Rect(p, b).w ELSE left[p][u]
  <1>. DEFINE r == Rect(p, b)
              W == Written(p, b, EdgeH(p), r.y, r.h)
  <1>1. frame \in Frames /\ left[p] \in [0 .. GridH(p) - 1 -> Nat]
    BY TypeGives
  <1>2. LeftAfter(b)[p] = [u \in 0 .. GridH(p) - 1 |-> IF u \in W THEN r.x + r.w ELSE left[p][u]]
    BY <1>1 DEF LeftAfter
  <1>3. r.y \in Nat /\ r.h \in Nat /\ r.x \in Nat /\ r.w \in Nat
    BY <1>1, RectIs
  <1>4. GridH(p) \in Nat
    BY <1>1, SsOf
  <1>5. ASSUME NEW u \in 0 .. GridH(p) - 1
        PROVE  u \in W <=> (InPlane(p, b) /\ u < EdgeH(p) /\ r.y <= u /\ u < r.y + r.h)
    <2>1. u \in Nat
      BY <1>4
    <2>2. u \in r.y .. r.y + r.h - 1 <=> r.y <= u /\ u < r.y + r.h
      BY <2>1, <1>3
    <2>. QED
      BY <2>2 DEF Written
  <1>. HIDE DEF W
  <1>6. LeftAfter(b)[p] \in [0 .. GridH(p) - 1 -> Nat]
    <2>1. r.x + r.w \in Nat
      BY <1>3
    <2>. QED
      BY <1>1, <1>2, <2>1
  <1>7. DOMAIN LeftAfter(b) = Planes
    BY DEF LeftAfter
  <1>8. \A u \in 0 .. GridH(p) - 1 : LeftAfter(b)[p][u] = IF u \in W THEN r.x + r.w ELSE left[p][u]
    BY <1>2
  <1>. HIDE DEF r
  <1>9. ASSUME NEW u \in 0 .. GridH(p) - 1
        PROVE  LeftAfter(b)[p][u] = IF /\ InPlane(p, b) /\ u < EdgeH(p)
                                   /\ r.y <= u /\ u < r.y + r.h
                                THEN r.x + r.w ELSE left[p][u]
    BY <1>5, <1>8
  <1>. QED
    BY <1>6, <1>7, <1>9 DEF r

\* Where the block at the head lies, it writes its lower edge above what is
\* still to come of the column; elsewhere it decodes nothing.
LEMMA AboveKeeps ==
  ASSUME TypeOK, WalkInv, DoneInv, ContextInv,
         todo # <<>>, NEW b \in CodedBlock, b = Head(todo), Aligned(b), Starts(b),
         NEW p \in Planes, NEW c \in Cells(Grid(p)), InTile(SbOf(LastCell(p, c)), at),
         c[1] < EdgeW(p), NEW after, after = AboveAfter(b)[p][c[1]],
         NEW cells, c \in cells <=> (c \in done[p] \/ (InPlane(p, b) /\ c \in Cells(Rect(p, b))))
  PROVE  after >= TileTop(p, at) /\ (c \in cells <=> c[2] < after)
  <1>. DEFINE r == Rect(p, b)
              u == c[1]
              v == c[2]
              a == above[p][u]
  <1>1. frame \in Frames /\ above[p] \in [0 .. GridW(p) - 1 -> Nat] /\ PlaceOK(at)
    BY TypeGives
  <1>2. c \in Nat \X Nat /\ c[1] < GridW(p) /\ c[2] < GridH(p)
    BY <1>1, GridCells
  <1>3. u \in Nat /\ v \in Nat /\ u < GridW(p) /\ GridW(p) \in Nat
    BY <1>1, <1>2, SsOf
  <1>4. u \in 0 .. GridW(p) - 1
    BY ONLY <1>3
  <1>5. a \in Nat
    BY <1>1, <1>4
  <1>6. a >= TileTop(p, at) /\ (c \in done[p] <=> v < a)
    BY DEF ContextInv, ContextOK
  <1>7. /\ r.x \in Nat /\ r.w \in Nat /\ r.y \in Nat /\ r.h \in Nat
        /\ c \in Cells(r) <=> /\ r.x <= c[1] /\ c[1] < r.x + r.w
                              /\ r.y <= c[2] /\ c[2] < r.y + r.h
    BY <1>1, <1>2, RectIs
  <1>8. after = IF InPlane(p, b) /\ u < EdgeW(p) /\ r.x <= u /\ u < r.x + r.w THEN r.y + r.h ELSE a
    BY <1>4, AboveWritten
  <1>9. c \in Cells(r) <=> /\ r.x <= u /\ u < r.x + r.w /\ r.y <= v /\ v < r.y + r.h
    BY <1>7
  <1>10. CASE InPlane(p, b) /\ r.x <= u /\ u < r.x + r.w
    <2>1. u < EdgeW(p)
      OBVIOUS
    <2>2. a = r.y /\ r.y >= TileTop(p, at)
      <3>. HIDE DEF r, u
      <3>1. r = Rect(p, b)
        BY DEF r
      <3>. QED
        BY <1>3, <1>10, <2>1, <3>1, AdjacentAbove
    <2>3. after = r.y + r.h
      BY <1>8, <1>10, <2>1
    <2>4. c \in cells <=> v < r.y \/ (r.y <= v /\ v < r.y + r.h)
      BY <1>6, <1>9, <1>10, <2>2
    <2>5. TileTop(p, at) \in Nat
      <3>1. frame.rows[at.row] \in Nat /\ frame.sb \in {16, 32}
        BY <1>1, PlaceIs, FrameFields
      <3>2. TileTop(p, at) = (frame.sb * frame.rows[at.row]) \div StepV(p)
        BY DEF TileTop
      <3>3. StepV(p) \in {1, 2}
        BY <1>1, SsOf
      <3>. QED
        BY ONLY <3>1, <3>2, <3>3, HalfOf
    <2>6. r.y \in Nat /\ r.h \in Nat /\ v \in Nat
      BY <1>3, <1>7
    <2>. HIDE DEF r, u, v, a
    <2>7. after >= TileTop(p, at) /\ (c \in cells <=> v < after)
      BY ONLY <2>2, <2>3, <2>4, <2>5, <2>6
    <2>. QED
      BY <2>7 DEF v
  <1>11. CASE ~(InPlane(p, b) /\ r.x <= u /\ u < r.x + r.w)
    <2>1. after = a
      BY <1>8, <1>11
    <2>2. c \in cells <=> c \in done[p]
      BY <1>9, <1>11
    <2>. QED
      BY <2>1, <2>2, <1>6
  <1>. QED
    BY <1>10, <1>11

\* The same with its right edge and the rows.
LEMMA LeftKeeps ==
  ASSUME TypeOK, WalkInv, DoneInv, ContextInv,
         todo # <<>>, NEW b \in CodedBlock, b = Head(todo), Aligned(b), Starts(b),
         NEW p \in Planes, NEW c \in Cells(Grid(p)), InTile(SbOf(LastCell(p, c)), at),
         c[2] < EdgeH(p), NEW after, after = LeftAfter(b)[p][c[2]],
         NEW cells, c \in cells <=> (c \in done[p] \/ (InPlane(p, b) /\ c \in Cells(Rect(p, b))))
  PROVE  after >= TileLeft(p, at) /\ (c \in cells <=> c[1] < after)
  <1>. DEFINE r == Rect(p, b)
              u == c[2]
              v == c[1]
              a == left[p][u]
  <1>1. frame \in Frames /\ left[p] \in [0 .. GridH(p) - 1 -> Nat] /\ PlaceOK(at)
    BY TypeGives
  <1>2. c \in Nat \X Nat /\ c[1] < GridW(p) /\ c[2] < GridH(p)
    BY <1>1, GridCells
  <1>3. u \in Nat /\ v \in Nat /\ u < GridH(p) /\ GridH(p) \in Nat
    BY <1>1, <1>2, SsOf
  <1>4. u \in 0 .. GridH(p) - 1
    BY ONLY <1>3
  <1>5. a \in Nat
    BY <1>1, <1>4
  <1>6. a >= TileLeft(p, at) /\ (c \in done[p] <=> v < a)
    BY DEF ContextInv, ContextOK
  <1>7. /\ r.y \in Nat /\ r.h \in Nat /\ r.x \in Nat /\ r.w \in Nat
        /\ c \in Cells(r) <=> /\ r.x <= c[1] /\ c[1] < r.x + r.w
                              /\ r.y <= c[2] /\ c[2] < r.y + r.h
    BY <1>1, <1>2, RectIs
  <1>8. after = IF InPlane(p, b) /\ u < EdgeH(p) /\ r.y <= u /\ u < r.y + r.h THEN r.x + r.w ELSE a
    BY <1>4, LeftWritten
  <1>9. c \in Cells(r) <=> /\ r.y <= u /\ u < r.y + r.h /\ r.x <= v /\ v < r.x + r.w
    BY <1>7
  <1>10. CASE InPlane(p, b) /\ r.y <= u /\ u < r.y + r.h
    <2>1. u < EdgeH(p)
      OBVIOUS
    <2>2. a = r.x /\ r.x >= TileLeft(p, at)
      <3>. HIDE DEF r, u
      <3>1. r = Rect(p, b)
        BY DEF r
      <3>. QED
        BY <1>3, <1>10, <2>1, <3>1, AdjacentLeft
    <2>3. after = r.x + r.w
      BY <1>8, <1>10, <2>1
    <2>4. c \in cells <=> v < r.x \/ (r.x <= v /\ v < r.x + r.w)
      BY <1>6, <1>9, <1>10, <2>2
    <2>5. TileLeft(p, at) \in Nat
      <3>1. frame.cols[at.col] \in Nat /\ frame.sb \in {16, 32}
        BY <1>1, PlaceIs, FrameFields
      <3>2. TileLeft(p, at) = (frame.sb * frame.cols[at.col]) \div StepH(p)
        BY DEF TileLeft
      <3>3. StepH(p) \in {1, 2}
        BY <1>1, SsOf
      <3>. QED
        BY ONLY <3>1, <3>2, <3>3, HalfOf
    <2>6. r.x \in Nat /\ r.w \in Nat /\ v \in Nat
      BY <1>3, <1>7
    <2>. HIDE DEF r, u, v, a
    <2>7. after >= TileLeft(p, at) /\ (c \in cells <=> v < after)
      BY ONLY <2>2, <2>3, <2>4, <2>5, <2>6
    <2>. QED
      BY <2>7 DEF v
  <1>11. CASE ~(InPlane(p, b) /\ r.y <= u /\ u < r.y + r.h)
    <2>1. after = a
      BY <1>8, <1>11
    <2>2. c \in cells <=> c \in done[p]
      BY <1>9, <1>11
    <2>. QED
      BY <2>1, <2>2, <1>6
  <1>. QED
    BY <1>10, <1>11

\* A decoded block is no longer to come, and its samples are new.
LEMMA DecodeKeeps ==
  ASSUME Inv, NEW skip \in BOOLEAN, DecodeBlock(skip)
  PROVE  Inv'
  <1>1. TypeOK /\ WalkInv /\ DoneInv /\ ContextInv /\ CdefInv
    BY DEF Inv
  <1>. DEFINE b == Head(todo)
  <1>2. /\ todo # <<>> /\ ~IsNode(b) /\ Starts(b) /\ todo' = Tail(todo)
        /\ frame' = frame /\ at' = at
        /\ done' = [p \in Planes |-> IF InPlane(p, b) THEN done[p] \cup Clipped(p, Rect(p, b)) ELSE done[p]]
        /\ above' = AboveAfter(b) /\ left' = LeftAfter(b)
        /\ cdef' = (IF skip THEN cdef ELSE ReadCDEFIndex(b))
        /\ coded' = (IF skip THEN coded ELSE coded \cup Regions64(b))
    BY DEF DecodeBlock
  <1>3. frame \in Frames /\ PlaceOK(at) /\ todo \in Seq(Items)
    BY <1>1, TypeGives
  <1>4. /\ b \in Items /\ b = todo[1] /\ 1 \in 1 .. Len(todo)
        /\ Inside(b, Root(at)) /\ Aligned(b)
    BY <1>1, <1>2, HeadIs
  <1>5. b \in CodedBlock
    BY <1>2, <1>4, ItemKind DEF Items
  <1>6. /\ todo' \in Seq(Items) /\ Ordered(todo')
        /\ \A c \in Nat \X Nat : Covered(todo', c) <=> (Covered(todo, c) /\ ~In(b, c))
        /\ \A i \in 1 .. Len(todo') : i + 1 \in 2 .. Len(todo) /\ todo'[i] = todo[i + 1] /\ Precedes(b, todo'[i])
    BY <1>1, <1>2, <1>3, TailOrdered DEF WalkInv
  <1>7. \A i \in 1 .. Len(todo') : \E j \in 1 .. Len(todo) : todo'[i] = todo[j]
    <2>1. \A j \in 2 .. Len(todo) : j \in 1 .. Len(todo)
      BY <1>3
    <2>. QED
      BY <1>6, <2>1
  <1>8. b = Head(todo)
    OBVIOUS
  <1>. HIDE DEF b
  <1>9. ASSUME NEW p \in Planes, NEW c \in Cells(Grid(p))
        PROVE  c \in done'[p] <=> (c \in done[p] \/ (InPlane(p, b) /\ c \in Cells(Rect(p, b))))
    BY <1>2, <1>9 DEF Clipped
  <1>10. \A g \in Nat \X Nat : g \in Regions64(b) <=> Touches(b, g)
    BY <1>4, <1>5, RegionsAre
  <1>11. cdef' = coded' /\ cdef' \subseteq cdef \cup Regions64(b) /\ cdef' \subseteq Nat \X Nat
    <2>. DEFINE g == <<b.x \div 16, b.y \div 16>>
    <2>1. /\ cdef = coded /\ cdef \subseteq Nat \X Nat /\ Regions64(b) \subseteq Nat \X Nat
          /\ g \in Regions64(b) /\ (~Spans(b) => Regions64(b) = {g})
      BY <1>1, <1>4, <1>5, RegionsAre, TypeGives DEF CdefInv
    <2>2. CASE skip
      BY <2>1, <2>2, <1>2
    <2>3. CASE ~skip /\ g \in cdef
      <3>1. ~Spans(b)
        <4>1. Touches(b, g)
          BY <2>1, <1>10
        <4>. QED
          BY <4>1, <2>3, <1>1, <1>4 DEF CdefInv
      <3>2. cdef' = cdef /\ coded' = coded \cup {g}
        BY <2>1, <2>3, <3>1, <1>2 DEF ReadCDEFIndex
      <3>. QED
        BY <3>2, <2>1, <2>3
    <2>4. CASE ~skip /\ g \notin cdef
      <3>1. cdef' = cdef \cup Regions64(b) /\ coded' = coded \cup Regions64(b)
        BY <2>4, <1>2 DEF ReadCDEFIndex
      <3>. QED
        BY <3>1, <2>1
    <2>. QED
      BY <2>2, <2>3, <2>4
  <1>12. TypeOK'
    <2>1. DOMAIN done' = Planes /\ \A p \in Planes : done'[p] \subseteq Cells(Grid(p))
      <3>1. \A p \in Planes : done[p] \subseteq Cells(Grid(p))
        BY <1>1, TypeGives
      <3>. QED
        BY <3>1, <1>2 DEF Clipped
    <2>2. /\ DOMAIN above' = Planes /\ \A p \in Planes : above'[p] \in [0 .. GridW(p) - 1 -> Nat]
          /\ DOMAIN left' = Planes /\ \A p \in Planes : left'[p] \in [0 .. GridH(p) - 1 -> Nat]
      <3>1. 0 \in Planes
        BY DEF Planes
      <3>. QED
        BY <3>1, <1>1, <1>2, <1>4, <1>5, AboveWritten, LeftWritten
    <2>. QED
      BY <2>1, <2>2, <1>2, <1>3, <1>6, <1>11, TypeNext DEF Items
  <1>13. WalkInv'
    <2>1. \A i \in 1 .. Len(todo') : Inside(todo'[i], Root(at')) /\ Aligned(todo'[i])
      BY <1>1, <1>2, <1>7 DEF WalkInv
    <2>. QED
      BY <2>1, <1>2, <1>6, WalkNext
  <1>14. DoneInv'
    <2>. SUFFICES ASSUME NEW p \in Planes, NEW c \in Cells(Grid(p))
                  PROVE  c \in done'[p] <=> Decoded(LastCell(p, c), todo', at')
      BY <1>2, DoneNext
    <2>. DEFINE l == LastCell(p, c)
    <2>1. c \in Nat \X Nat
      BY <1>3, GridCells
    <2>2. l \in Nat \X Nat /\ ((InPlane(p, b) /\ c \in Cells(Rect(p, b))) <=> In(b, l))
      BY <2>1, <1>3, <1>4, <1>5, RectLuma
    <2>3. c \in done[p] <=> Decoded(l, todo, at)
      BY <1>1 DEF DoneInv
    <2>. HIDE DEF l
    <2>4. In(b, l) => SbOf(l) = Here(at)
      BY <2>2, <1>1, <1>4, CellHere
    <2>5. Covered(todo', l) <=> (Covered(todo, l) /\ ~In(b, l))
      BY <2>2, <1>6
    <2>6. c \in done'[p] <=> (c \in done[p] \/ In(b, l))
      BY <2>2, <1>9
    <2>7. at' = at
      BY <1>2
    <2>8. Decoded(l, todo', at) <=> ~Covered(todo', l) /\ (Earlier(SbOf(l), at) \/ SbOf(l) = Here(at))
      BY DEF Decoded
    <2>9. Decoded(l, todo, at) <=> ~Covered(todo, l) /\ (Earlier(SbOf(l), at) \/ SbOf(l) = Here(at))
      BY DEF Decoded
    <2>10. c \in done'[p] <=> Decoded(l, todo', at)
      BY <2>3, <2>4, <2>5, <2>6, <2>8, <2>9
    <2>. QED
      BY <2>10, <2>7 DEF l
  <1>15. ContextInv'
    <2>. SUFFICES ASSUME NEW p \in Planes
                  PROVE  ContextOK(p, done'[p], above'[p], left'[p], at')
      BY <1>2, ContextNext
    <2>. SUFFICES ASSUME NEW c \in Cells(Grid(p)), InTile(SbOf(LastCell(p, c)), at)
                  PROVE  /\ c[1] < EdgeW(p) => /\ above'[p][c[1]] >= TileTop(p, at)
                                               /\ c \in done'[p] <=> c[2] < above'[p][c[1]]
                         /\ c[2] < EdgeH(p) => /\ left'[p][c[2]] >= TileLeft(p, at)
                                               /\ c \in done'[p] <=> c[1] < left'[p][c[2]]
      BY <1>2 DEF ContextOK
    <2>1. c \in done'[p] <=> (c \in done[p] \/ (InPlane(p, b) /\ c \in Cells(Rect(p, b))))
      BY <1>9
    <2>2. ASSUME c[1] < EdgeW(p)
          PROVE  above'[p][c[1]] >= TileTop(p, at) /\ (c \in done'[p] <=> c[2] < above'[p][c[1]])
      <3>1. above'[p][c[1]] = AboveAfter(b)[p][c[1]]
        BY <1>2
      <3>. QED
        BY <2>1, <2>2, <3>1, <1>1, <1>2, <1>4, <1>5, <1>8, AboveKeeps
    <2>3. ASSUME c[2] < EdgeH(p)
          PROVE  left'[p][c[2]] >= TileLeft(p, at) /\ (c \in done'[p] <=> c[1] < left'[p][c[2]])
      <3>1. left'[p][c[2]] = LeftAfter(b)[p][c[2]]
        BY <1>2
      <3>. QED
        BY <2>1, <2>3, <3>1, <1>1, <1>2, <1>4, <1>5, <1>8, LeftKeeps
    <2>. QED
      BY <2>2, <2>3
  <1>16. CdefInv'
    <2>1. ASSUME NEW i \in 1 .. Len(todo'), NEW g \in cdef', Spans(todo'[i])
          PROVE  ~Touches(todo'[i], g)
      <3>0. g \in Nat \X Nat
        BY <1>11
      <3>1. CASE g \in cdef
        BY <3>1, <2>1, <1>1, <1>7 DEF CdefInv
      <3>2. CASE g \in Regions64(b)
        <4>1. Touches(b, g)
          BY <3>0, <3>2, <1>10
        <4>2. todo'[i] \in Items /\ Aligned(todo'[i]) /\ Precedes(b, todo'[i])
          <5>1. todo'[i] \in Items
            BY <1>6
          <5>2. Aligned(todo'[i])
            BY <1>1, <1>7 DEF WalkInv
          <5>. QED
            BY <5>1, <5>2, <1>6
        <4>. QED
          BY <4>1, <4>2, <3>0, <2>1, <1>4, RegionsApart
      <3>. QED
        BY <3>1, <3>2, <1>11
    <2>. QED
      BY <2>1, <1>11, CdefNext
  <1>. QED
    BY <1>12, <1>13, <1>14, <1>15, <1>16 DEF Inv

-----------------------------------------------------------------------------
(* The next superblock is begun. *)

\* What is to be done at the start of a superblock: all of it.
LEMMA OnlyRoot ==
  ASSUME frame \in Frames, NEW s, PlaceOK(s)
  PROVE  /\ <<Root(s)>> \in Seq(Items) /\ Root(s) \in Node
         /\ \A i \in 1 .. Len(<<Root(s)>>) : Inside(<<Root(s)>>[i], Root(s)) /\ Aligned(<<Root(s)>>[i])
         /\ Ordered(<<Root(s)>>)
         /\ \A c \in Nat \X Nat : Covered(<<Root(s)>>, c) <=> SbOf(c) = Here(s)
  <1>. DEFINE n == Root(s)
              t == <<n>>
  <1>1. s.x \in Nat /\ s.y \in Nat
    BY PlaceIs
  <1>2. /\ n \in Node /\ Aligned(n)
        /\ \A c \in Nat \X Nat : In(n, c) <=> SbOf(c) = Here(s)
    BY <1>1, RootIs
  <1>3. n.x \in Nat /\ n.y \in Nat /\ Wide(n) \in Nat /\ High(n) \in Nat
    BY <1>2, ItemIs DEF Sides
  <1>4. t \in Seq(Items) /\ Len(t) = 1 /\ t[1] = n
    BY <1>2 DEF Items
  <1>. HIDE DEF n, t
  <1>5. 1 .. Len(t) = {1}
    BY <1>4
  <1>6. Inside(n, n)
    BY <1>3 DEF Inside
  <1>7. Ordered(t)
    BY <1>5 DEF Ordered
  <1>8. \A c : Covered(t, c) <=> In(n, c)
    BY <1>4, <1>5 DEF Covered
  <1>. QED
    BY <1>2, <1>4, <1>5, <1>6, <1>7, <1>8 DEF n, t

\* At the start of a tile: the entries say what the edge of the tile says, and
\* nothing of the tile is decoded.
LEMMA FreshTile ==
  ASSUME frame \in Frames, NEW s, PlaceOK(s), s = TileStart(s.row, s.col),
         NEW p \in Planes, NEW cells,
         \A c \in Cells(Grid(p)) : InTile(SbOf(LastCell(p, c)), s) => c \notin cells
  PROVE  /\ ContextOK(p, cells, ResetTileContexts(Root(s).x, Root(s).y).above[p],
                                ResetTileContexts(Root(s).x, Root(s).y).left[p], s)
         /\ ResetTileContexts(Root(s).x, Root(s).y).above[p] \in [0 .. GridW(p) - 1 -> Nat]
         /\ ResetTileContexts(Root(s).x, Root(s).y).left[p] \in [0 .. GridH(p) - 1 -> Nat]
         /\ DOMAIN ResetTileContexts(Root(s).x, Root(s).y).above = Planes
         /\ DOMAIN ResetTileContexts(Root(s).x, Root(s).y).left = Planes
  <1>. DEFINE z == frame.sb
              top == TileTop(p, s)
              edge == TileLeft(p, s)
              up == ResetTileContexts(Root(s).x, Root(s).y).above[p]
              side == ResetTileContexts(Root(s).x, Root(s).y).left[p]
  <1>1. /\ z \in {16, 32} /\ s.x \in Nat /\ s.y \in Nat /\ s.x = frame.cols[s.col] /\ s.y = frame.rows[s.row]
    BY PlaceIs, FrameFields DEF TileStart, Place
  <1>2. /\ Root(s).x = z * s.x /\ Root(s).y = z * s.y
        /\ top = (z * s.y) \div StepV(p) /\ edge = (z * s.x) \div StepH(p)
    BY <1>1, RootIs DEF TileTop, TileLeft
  <1>3. /\ up = [c \in 0 .. GridW(p) - 1 |-> top] /\ side = [r \in 0 .. GridH(p) - 1 |-> edge]
    BY <1>2 DEF ResetTileContexts
  <1>4. /\ (SsH(p) = 0 /\ StepH(p) = 1) \/ (SsH(p) = 1 /\ StepH(p) = 2)
        /\ (SsV(p) = 0 /\ StepV(p) = 1) \/ (SsV(p) = 1 /\ StepV(p) = 2)
        /\ GridW(p) \in Nat /\ GridH(p) \in Nat
    BY SsOf
  <1>5. /\ top \in Nat /\ edge \in Nat /\ StepV(p) * top = z * s.y /\ StepH(p) * edge = z * s.x
    <2>1. StepV(p) \in {1, 2} /\ StepH(p) \in {1, 2}
      BY <1>4
    <2>. QED
      BY ONLY <1>1, <1>2, <2>1, HalfOf
  <1>6. ASSUME NEW c \in Cells(Grid(p)), InTile(SbOf(LastCell(p, c)), s)
        PROVE  c[1] \in 0 .. GridW(p) - 1 /\ c[2] \in 0 .. GridH(p) - 1 /\ edge <= c[1] /\ top <= c[2]
    <2>. DEFINE l == LastCell(p, c)
    <2>1. c \in Nat \X Nat /\ c[1] < GridW(p) /\ c[2] < GridH(p) /\ l \in Cells(Grid(0))
      BY <1>6, GridCells
    <2>2. c[1] \in Nat /\ c[2] \in Nat
      BY <2>1
    <2>3. l[1] = StepH(p) * c[1] + SsH(p) /\ l[2] = StepV(p) * c[2] + SsV(p)
      BY DEF LastCell
    <2>. HIDE DEF l
    <2>4. /\ SbOf(l) \in Nat \X Nat /\ z * SbOf(l)[1] <= l[1] /\ z * SbOf(l)[2] <= l[2] /\ l \in Nat \X Nat
      BY <2>1, CellInPicture, SuperblockOf
    <2>5. s.x <= SbOf(l)[1] /\ s.y <= SbOf(l)[2]
      BY <1>1, <1>6 DEF InTile, l
    <2>6. SbOf(l)[1] \in Nat /\ SbOf(l)[2] \in Nat /\ l[1] \in Nat /\ l[2] \in Nat
      BY <2>4
    <2>7. StepH(p) * edge <= StepH(p) * c[1] + SsH(p)
      BY ONLY <1>1, <1>5, <2>3, <2>4, <2>5, <2>6, Scaled
    <2>8. StepV(p) * top <= StepV(p) * c[2] + SsV(p)
      BY ONLY <1>1, <1>5, <2>3, <2>4, <2>5, <2>6, Scaled
    <2>9. edge <= c[1] /\ top <= c[2]
      BY ONLY <1>4, <1>5, <2>2, <2>7, <2>8, Unscaled
    <2>. QED
      BY <2>1, <2>2, <2>9, <1>4
  <1>. HIDE DEF top, edge, up, side
  <1>7. ContextOK(p, cells, up, side, s)
    <2>. SUFFICES ASSUME NEW c \in Cells(Grid(p)), InTile(SbOf(LastCell(p, c)), s)
                  PROVE  /\ up[c[1]] >= top /\ (c \in cells <=> c[2] < up[c[1]])
                         /\ side[c[2]] >= edge /\ (c \in cells <=> c[1] < side[c[2]])
      BY DEF ContextOK, top, edge
    <2>1. up[c[1]] = top /\ side[c[2]] = edge
      BY <1>3, <1>6
    <2>2. c \notin cells
      OBVIOUS
    <2>3. ~(c[2] < top) /\ ~(c[1] < edge) /\ top >= top /\ edge >= edge
      <3>1. c[1] \in Nat /\ c[2] \in Nat /\ edge <= c[1] /\ top <= c[2]
        BY <1>4, <1>6
      <3>. QED
        BY ONLY <3>1, <1>5
    <2>. QED
      BY <2>1, <2>2, <2>3
  <1>8. up \in [0 .. GridW(p) - 1 -> Nat] /\ side \in [0 .. GridH(p) - 1 -> Nat]
    BY <1>3, <1>5
  <1>9. /\ DOMAIN ResetTileContexts(Root(s).x, Root(s).y).above = Planes
        /\ DOMAIN ResetTileContexts(Root(s).x, Root(s).y).left = Planes
    BY DEF ResetTileContexts
  <1>. QED
    BY <1>7, <1>8, <1>9 DEF up, side

\* A new superblock: what was decoded is what comes before it; a new tile has
\* entries of its own.
LEMMA StartKeeps ==
  ASSUME Inv, StartSuperblock
  PROVE  Inv'
  <1>1. TypeOK /\ WalkInv /\ DoneInv /\ ContextInv /\ CdefInv
    BY DEF Inv
  <1>. DEFINE reset == ResetTileContexts(Root(at').x, Root(at').y)
              first == at' = TileStart(at'.row, at'.col)
  <1>2. /\ todo = <<>> /\ ~LastSuperblock(at) /\ at' = Following(at) /\ frame' = frame /\ done' = done
        /\ above' = (IF first THEN reset.above ELSE above) /\ left' = (IF first THEN reset.left ELSE left)
        /\ cdef' = {} /\ coded' = {}
    BY DEF StartSuperblock
  <1>. HIDE DEF reset, first
  <1>3. frame \in Frames /\ PlaceOK(at)
    BY <1>1, TypeGives
  <1>4. todo' = << Root(at') >>
    BY DEF StartSuperblock
  <1>5. /\ PlaceOK(at')
        /\ \A u : InPicture(u) => (Earlier(u, at') <=> (Earlier(u, at) \/ u = Here(at)))
        /\ \/ /\ at'.row = at.row /\ at'.col = at.col /\ at' # TileStart(at.row, at.col)
           \/ /\ at' = TileStart(at'.row, at'.col)
              /\ \A u : InPicture(u) /\ InTile(u, at') => ~(Earlier(u, at) \/ u = Here(at))
    BY <1>2, <1>3, FollowingIs
  <1>6. /\ todo' \in Seq(Items) /\ Ordered(todo')
        /\ \A i \in 1 .. Len(todo') : Inside(todo'[i], Root(at')) /\ Aligned(todo'[i])
        /\ \A c \in Nat \X Nat : Covered(todo', c) <=> SbOf(c) = Here(at')
    BY <1>3, <1>4, <1>5, OnlyRoot
  <1>7. ASSUME NEW p \in Planes, NEW c \in Cells(Grid(p))
        PROVE  c \in done[p] <=> (Earlier(SbOf(LastCell(p, c)), at) \/ SbOf(LastCell(p, c)) = Here(at))
    BY <1>1, <1>2 DEF DoneInv, Decoded, Covered
  <1>8. ASSUME NEW p \in Planes, NEW c \in Cells(Grid(p))
        PROVE  LastCell(p, c) \in Nat \X Nat /\ InPicture(SbOf(LastCell(p, c)))
    BY <1>3, GridCells, CellInPicture
  <1>9. ASSUME NEW p \in Planes
        PROVE  /\ ContextOK(p, done'[p], above'[p], left'[p], at')
               /\ above'[p] \in [0 .. GridW(p) - 1 -> Nat] /\ left'[p] \in [0 .. GridH(p) - 1 -> Nat]
               /\ DOMAIN above' = Planes /\ DOMAIN left' = Planes
    <2>1. CASE first
      <3>1. at' = TileStart(at'.row, at'.col)
        BY <2>1 DEF first
      <3>2. \A u : InPicture(u) /\ InTile(u, at') => ~(Earlier(u, at) \/ u = Here(at))
        BY <1>5, <3>1
      <3>3. \A c \in Cells(Grid(p)) : InTile(SbOf(LastCell(p, c)), at') => c \notin done'[p]
        BY <3>2, <1>2, <1>7, <1>8
      <3>4. above' = reset.above /\ left' = reset.left
        BY <1>2, <2>1
      <3>. QED
        BY <3>1, <3>3, <3>4, <1>3, <1>5, FreshTile DEF reset
    <2>2. CASE ~first
      <3>1. at'.row = at.row /\ at'.col = at.col
        BY <2>2, <1>5 DEF first
      <3>2. above' = above /\ left' = left /\ done' = done
        BY <1>2, <2>2
      <3>3. ContextOK(p, done[p], above[p], left[p], at)
        BY <1>1 DEF ContextInv
      <3>4. ContextOK(p, done[p], above[p], left[p], at')
        BY <3>1, <3>3 DEF ContextOK, InTile, TileTop, TileLeft
      <3>. QED
        BY <3>2, <3>4, <1>1, TypeGives
    <2>. QED
      BY <2>1, <2>2
  <1>10. TypeOK'
    <2>1. 0 \in Planes
      BY DEF Planes
    <2>2. {} \subseteq Nat \X Nat
      OBVIOUS
    <2>. QED
      BY <2>1, <2>2, <1>1, <1>2, <1>3, <1>5, <1>6, <1>9, TypeNext, TypeGives DEF Items
  <1>11. WalkInv'
    BY <1>2, <1>6, WalkNext
  <1>12. DoneInv'
    <2>. SUFFICES ASSUME NEW p \in Planes, NEW c \in Cells(Grid(p))
                  PROVE  c \in done'[p] <=> Decoded(LastCell(p, c), todo', at')
      BY <1>2, DoneNext
    <2>. DEFINE u == SbOf(LastCell(p, c))
    <2>1. LastCell(p, c) \in Nat \X Nat /\ InPicture(u)
      BY <1>8
    <2>2. Decoded(LastCell(p, c), todo', at') <=> ~(u = Here(at')) /\ (Earlier(u, at') \/ u = Here(at'))
      BY <2>1, <1>6 DEF Decoded
    <2>3. ~Earlier(Here(at'), at')
      BY <1>3, <1>5, NotEarlier
    <2>4. c \in done'[p] <=> (Earlier(u, at) \/ u = Here(at))
      BY <1>2, <1>7
    <2>5. Earlier(u, at') <=> (Earlier(u, at) \/ u = Here(at))
      BY <2>1, <1>5
    <2>. HIDE DEF u
    <2>6. Earlier(u, at') => ~(u = Here(at'))
      BY <2>3
    <2>. QED
      BY <2>2, <2>4, <2>5, <2>6
  <1>13. ContextInv'
    BY <1>2, <1>9, ContextNext
  <1>14. CdefInv'
    BY <1>2, CdefNext
  <1>. QED
    BY <1>10, <1>11, <1>12, <1>13, <1>14 DEF Inv

-----------------------------------------------------------------------------
(* The theorems. *)

\* At the start nothing is decoded and everything is to come.
LEMMA InitKeeps ==
  ASSUME Init
  PROVE  Inv
  <1>1. /\ frame \in Frames /\ at = TileStart(1, 1) /\ todo = <<Root(at)>>
        /\ done = [p \in Planes |-> {}]
        /\ above = NewFrameState.above /\ left = NewFrameState.left
        /\ cdef = {} /\ coded = {}
    BY DEF Init
  <1>2. /\ TileStarts(frame.cols, Ceil(frame.width, 4 * frame.sb)) /\ TileStarts(frame.rows, Ceil(frame.height, 4 * frame.sb))
        /\ frame.sb \in {16, 32}
    BY <1>1, FrameFields
  <1>3. 1 \in 1 .. Len(frame.rows) - 1 /\ 1 \in 1 .. Len(frame.cols) - 1 /\ frame.cols[1] = 0 /\ frame.rows[1] = 0
    BY <1>2, StartsIncrease
  <1>4. PlaceOK(at) /\ at.row = 1 /\ at.col = 1 /\ at.x = 0 /\ at.y = 0
    BY <1>1, <1>3, TileStartOK
  <1>5. at = TileStart(at.row, at.col) /\ Root(at).x = 0 /\ Root(at).y = 0
    <2>1. frame.sb * 0 = 0
      BY <1>2
    <2>. QED
      BY <2>1, <1>1, <1>4, RootIs
  <1>6. /\ todo \in Seq(Items) /\ Ordered(todo)
        /\ \A i \in 1 .. Len(todo) : Inside(todo[i], Root(at)) /\ Aligned(todo[i])
        /\ \A c \in Nat \X Nat : Covered(todo, c) <=> SbOf(c) = Here(at)
    BY <1>1, <1>4, OnlyRoot
  <1>7. ASSUME NEW p \in Planes
        PROVE  /\ ContextOK(p, done[p], above[p], left[p], at) /\ done[p] = {}
               /\ above[p] \in [0 .. GridW(p) - 1 -> Nat] /\ left[p] \in [0 .. GridH(p) - 1 -> Nat]
               /\ DOMAIN above = Planes /\ DOMAIN left = Planes
    <2>1. above = ResetTileContexts(Root(at).x, Root(at).y).above /\ left = ResetTileContexts(Root(at).x, Root(at).y).left
      BY <1>1, <1>5 DEF NewFrameState
    <2>2. done[p] = {}
      BY <1>1
    <2>3. \A c \in Cells(Grid(p)) : InTile(SbOf(LastCell(p, c)), at) => c \notin done[p]
      BY <2>2
    <2>. QED
      BY <2>1, <2>2, <2>3, <1>1, <1>4, <1>5, FreshTile
  <1>8. TypeOK
    <2>1. 0 \in Planes
      BY DEF Planes
    <2>. QED
      BY <2>1, <1>1, <1>4, <1>6, <1>7 DEF TypeOK, PlaceOK, Items
  <1>9. WalkInv
    BY <1>6 DEF WalkInv
  <1>10. DoneInv
    <2>. SUFFICES ASSUME NEW p \in Planes, NEW c \in Cells(Grid(p))
                  PROVE  ~Decoded(LastCell(p, c), todo, at)
      BY <1>7 DEF DoneInv
    <2>. DEFINE u == SbOf(LastCell(p, c))
    <2>1. LastCell(p, c) \in Nat \X Nat /\ InPicture(u)
      BY <1>1, GridCells, CellInPicture
    <2>2. ~Earlier(u, at)
      BY <2>1, <1>1, FirstIs
    <2>3. Covered(todo, LastCell(p, c)) <=> u = Here(at)
      BY <2>1, <1>6
    <2>. QED
      BY <2>2, <2>3 DEF Decoded
  <1>11. ContextInv
    BY <1>7 DEF ContextInv
  <1>12. CdefInv
    BY <1>1 DEF CdefInv
  <1>. QED
    BY <1>8, <1>9, <1>10, <1>11, <1>12 DEF Inv

\* Every step keeps the invariant.
LEMMA StepKeeps ==
  ASSUME Inv, [Next]_vars
  PROVE  Inv'
  <1>1. CASE StartSuperblock
    BY <1>1, StartKeeps
  <1>2. CASE PassOver
    BY <1>2, PassOverKeeps
  <1>3. CASE \E part \in PartitionKinds : Valid(part) /\ Partition(part)
    BY <1>3, PartitionKeeps
  <1>4. CASE \E skip \in BOOLEAN : DecodeBlock(skip)
    BY <1>4, DecodeKeeps
  <1>5. CASE UNCHANGED vars
    <2>1. /\ frame' = frame /\ at' = at /\ todo' = todo /\ done' = done /\ above' = above
          /\ left' = left /\ cdef' = cdef /\ coded' = coded
      BY <1>5 DEF vars
    <2>2. TypeOK /\ WalkInv /\ DoneInv /\ ContextInv /\ CdefInv
      BY DEF Inv
    <2>3. TypeOK'
      BY <2>1, <2>2, TypeGives, TypeNext DEF Items
    <2>4. WalkInv'
      BY <2>1, <2>2, WalkNext DEF WalkInv
    <2>5. DoneInv'
      BY <2>1, <2>2, DoneNext DEF DoneInv
    <2>6. ContextInv'
      BY <2>1, <2>2, ContextNext DEF ContextInv
    <2>7. CdefInv'
      BY <2>1, <2>2, CdefNext DEF CdefInv
    <2>. QED
      BY <2>3, <2>4, <2>5, <2>6, <2>7 DEF Inv
  <1>. QED
    BY <1>1, <1>2, <1>3, <1>4, <1>5 DEF Next, Done

\* Every state of the walk satisfies the inductive invariant.
THEOREM WalkInvariant == Spec => []Inv
  <1>1. Init => Inv
    BY InitKeeps
  <1>2. Inv /\ [Next]_vars => Inv'
    BY StepKeeps
  <1>. QED
    BY <1>1, <1>2, PTL DEF Spec

\* What is decoded, the tiles it lies in and the entries it leaves are in range.
THEOREM WalkTypes == Spec => []TypeOK
  <1>1. Inv => TypeOK
    BY DEF Inv
  <1>. QED
    BY <1>1, WalkInvariant, PTL

\* A block to come has no sample that is decoded; after the last one, every
\* sample is.
LEMMA InvDecodedOnce ==
  ASSUME Inv
  PROVE  DecodedOnce
  <1>1. TypeOK /\ WalkInv /\ DoneInv
    BY DEF Inv
  <1>2. frame \in Frames /\ PlaceOK(at) /\ \A p \in Planes : done[p] \subseteq Cells(Grid(p))
    BY <1>1, TypeGives
  <1>3. ASSUME NEW b \in HeadBlock, NEW p \in PlanesOf(b)
        PROVE  Clipped(p, Rect(p, b)) \cap done[p] = {}
    <2>1. todo # <<>> /\ b = Head(todo) /\ ~IsNode(b) /\ p \in Planes /\ InPlane(p, b)
      BY <1>3 DEF HeadBlock, PlanesOf
    <2>2. Head(todo) \in CodedBlock
      BY <2>1, <1>1, HeadIs, ItemKind DEF Items
    <2>. QED
      BY <2>1, <2>2, <1>1, HeadFresh DEF Clipped
  <1>4. ASSUME Finished, NEW p \in Planes
        PROVE  done[p] = Cells(Grid(p))
    <2>1. todo = <<>> /\ LastSuperblock(at)
      BY <1>4 DEF Finished
    <2>2. ASSUME NEW c \in Cells(Grid(p))
          PROVE  c \in done[p]
      <3>1. InPicture(SbOf(LastCell(p, c)))
        BY <1>2, GridCells, CellInPicture
      <3>2. Earlier(SbOf(LastCell(p, c)), at) \/ SbOf(LastCell(p, c)) = Here(at)
        BY <1>2, <2>1, <3>1, LastIs
      <3>. QED
        BY <3>2, <2>1, <1>1 DEF DoneInv, Decoded, Covered
    <2>. QED
      BY <2>2, <1>2
  <1>. QED
    BY <1>3, <1>4 DEF DecodedOnce

\* Whatever the frame, its tiles and the partitions chosen, every sample of the
\* coded grid is decoded once, of luma and of chroma.
THEOREM EverySampleOnce == Spec => []DecodedOnce
  <1>1. Inv => DecodedOnce
    BY InvDecodedOnce
  <1>. QED
    BY <1>1, WalkInvariant, PTL

\* The entries beside the block at the head are its own edges.
LEMMA InvContextsAdjacent ==
  ASSUME Inv
  PROVE  ContextsAdjacent
  <1>1. TypeOK /\ WalkInv /\ DoneInv /\ ContextInv
    BY DEF Inv
  <1>2. frame \in Frames
    BY <1>1, TypeGives
  <1>. SUFFICES ASSUME NEW b \in HeadBlock, NEW p \in PlanesOf(b), NEW c \in Clipped(p, Rect(p, b))
                PROVE  /\ c[1] < EdgeW(p) => above[p][c[1]] = Rect(p, b).y
                       /\ c[2] < EdgeH(p) => left[p][c[2]] = Rect(p, b).x
    BY DEF ContextsAdjacent, ReadEntries
  <1>3. todo # <<>> /\ b = Head(todo) /\ ~IsNode(b) /\ Starts(b) /\ p \in Planes /\ InPlane(p, b)
    BY DEF HeadBlock, PlanesOf
  <1>4. b \in CodedBlock /\ Aligned(b)
    BY <1>1, <1>3, HeadIs, ItemKind DEF Items
  <1>5. c \in Nat \X Nat /\ c[1] < GridW(p) /\ c[2] < GridH(p) /\ c \in Cells(Rect(p, b))
    BY <1>2, <1>3, GridCells DEF Clipped
  <1>6. /\ Rect(p, b).x <= c[1] /\ c[1] < Rect(p, b).x + Rect(p, b).w
        /\ Rect(p, b).y <= c[2] /\ c[2] < Rect(p, b).y + Rect(p, b).h
    BY <1>2, <1>3, <1>4, <1>5, RectIs
  <1>7. c[1] \in Nat /\ c[2] \in Nat
    BY <1>5
  <1>8. c[1] < EdgeW(p) => above[p][c[1]] = Rect(p, b).y
    BY <1>1, <1>3, <1>4, <1>5, <1>6, <1>7, AdjacentAbove
  <1>9. c[2] < EdgeH(p) => left[p][c[2]] = Rect(p, b).x
    BY <1>1, <1>3, <1>4, <1>5, <1>6, <1>7, AdjacentLeft
  <1>. QED
    BY <1>8, <1>9

\* What a block reads of the context arrays was left by the blocks that touch
\* it, or by the start of the tile.
THEOREM ContextsAreNeighbours == Spec => []ContextsAdjacent
  <1>1. Inv => ContextsAdjacent
    BY InvContextsAdjacent
  <1>. QED
    BY <1>1, WalkInvariant, PTL

\* The CDEF index of a region is read exactly when a block of it has
\* coefficients.
THEOREM CdefIndexInStep == Spec => []CdefIndexRead
  <1>1. Inv => CdefIndexRead
    BY DEF Inv, CdefInv, CdefIndexRead
  <1>. QED
    BY <1>1, WalkInvariant, PTL

-----------------------------------------------------------------------------
(* What a partition leaves for the nodes below and to the right. *)

\* Of what size a block is: one, two or three steps below a node.
LEMMA Narrower ==
  ASSUME NEW bl \in 0 .. 4, NEW j \in 0 .. 4
  PROVE  /\ Size(bl) < Size(j) <=> j < bl
         /\ Size(bl) \div 2 < Size(j) <=> j < bl + 1
         /\ bl \in {1, 2, 3} => (Size(bl) \div 4 < Size(j) <=> j < bl + 2)
         /\ Size(bl) \div 2 > 0 /\ Size(bl) \in Nat /\ Size(bl) \div 2 \in Nat /\ Size(bl) = 2 * (Size(bl) \div 2)
         /\ bl \in {1, 2, 3} => Size(bl) \div 4 > 0 /\ Size(bl) \div 4 \in Nat /\ Size(bl) = 4 * (Size(bl) \div 4)
         /\ bl = 4 => Size(bl) \div 2 = 1
  <1>. DEFINE s == Size(bl)
              z == Size(j)
  <1>1. (bl = 0 /\ s = 32) \/ (bl = 1 /\ s = 16) \/ (bl = 2 /\ s = 8) \/ (bl = 3 /\ s = 4) \/ (bl = 4 /\ s = 2)
    BY DEF Size
  <1>2. (j = 0 /\ z = 32) \/ (j = 1 /\ z = 16) \/ (j = 2 /\ z = 8) \/ (j = 3 /\ z = 4) \/ (j = 4 /\ z = 2)
    BY DEF Size
  <1>. HIDE DEF s, z
  <1>3. /\ s < z <=> j < bl
        /\ s \div 2 < z <=> j < bl + 1
        /\ bl \in {1, 2, 3} => (s \div 4 < z <=> j < bl + 2)
        /\ s \div 2 > 0 /\ s \in Nat /\ s \div 2 \in Nat /\ s = 2 * (s \div 2)
        /\ bl \in {1, 2, 3} => s \div 4 > 0 /\ s \div 4 \in Nat /\ s = 4 * (s \div 4)
        /\ bl = 4 => s \div 2 = 1
    <2>1. CASE bl = 0
      BY ONLY <1>1, <1>2, <2>1
    <2>2. CASE bl = 1
      BY ONLY <1>1, <1>2, <2>2
    <2>3. CASE bl = 2
      BY ONLY <1>1, <1>2, <2>3
    <2>4. CASE bl = 3
      BY ONLY <1>1, <1>2, <2>4
    <2>5. CASE bl = 4
      BY ONLY <1>1, <1>2, <2>5
    <2>. QED
      BY ONLY <1>1, <2>1, <2>2, <2>3, <2>4, <2>5
  <1>. QED
    BY <1>3 DEF s, z

\* How wide the blocks along the lower edge of a node are, and how high those
\* along its right edge, in steps below the node.
AlongBelow(part) == IF part \in {"None", "H", "H4", "TTop"} THEN 0 ELSE IF part = "V4" THEN 2 ELSE 1
AlongRight(part) == IF part \in {"None", "V", "V4", "TLeft"} THEN 0 ELSE IF part = "H4" THEN 2 ELSE 1
Below(n, i) == IF i = 0 THEN Size(n.bl) ELSE IF i = 1 THEN Half(n) ELSE Size(n.bl) \div 4
EdgeBlock(n, part, b) ==
    /\ b.y + b.h = n.y + Size(n.bl) => b.w = Below(n, AlongBelow(part))
    /\ b.x + b.w = n.x + Size(n.bl) => b.h = Below(n, AlongRight(part))

\* A block's fields, of whatever numbers.
LEMMA BlockSides ==
  ASSUME NEW n, NEW x, NEW y, NEW w, NEW h, NEW flags
  PROVE  /\ Block(n, x, y, w, h, flags).x = n.x + x /\ Block(n, x, y, w, h, flags).y = n.y + y
         /\ Block(n, x, y, w, h, flags).w = w /\ Block(n, x, y, w, h, flags).h = h
  BY DEF Block

\* The sides of the blocks along a node's lower and right edge, kind by kind
\* of partition.
LEMMA NoneEdges ==
  ASSUME NEW n \in Node, NEW b \in ToSet(Blocks(n, "None"))
  PROVE  EdgeBlock(n, "None", b)
  <1>. DEFINE s == Size(n.bl)
              k == Half(n)
              a0 == Block(n, 0, 0, s, s, Flags(n))
  <1>1. Blocks(n, "None") = <<a0>>
    BY DEF Blocks
  <1>2. b = a0
    <2>. HIDE DEF a0
    <2>1. PICK i \in DOMAIN Blocks(n, "None") : b = Blocks(n, "None")[i]
      BY DEF ToSet
    <2>. QED
      BY <2>1, <1>1
  <1>3. /\ n.bl \in 0 .. 4 /\ n.x \in Nat /\ n.y \in Nat
        /\ s \in Nat /\ k \in Nat /\ k > 0 /\ s = 2 * k
    BY NodeIs, Narrower DEF Half
  <1>4. a0.x = n.x + 0 /\ a0.y = n.y + 0 /\ a0.w = s /\ a0.h = s
    BY BlockSides
  <1>. HIDE DEF s, k, a0
  <1>5. /\ b.y + b.h = n.y + s => b.w = s
        /\ b.x + b.w = n.x + s => b.h = s
    BY <1>2, <1>3, <1>4
  <1>. QED
    BY <1>5 DEF EdgeBlock, Below, AlongBelow, AlongRight, s, k

\* Of two blocks across.
LEMMA HEdges ==
  ASSUME NEW n \in Node, NEW b \in ToSet(Blocks(n, "H"))
  PROVE  EdgeBlock(n, "H", b)
  <1>. DEFINE s == Size(n.bl)
              k == Half(n)
              a0 == Block(n, 0, 0, s, k, HFlags(n, 0))
              b0 == Block(n, 0, k, s, k, HFlags(n, 1))
  <1>1. Blocks(n, "H") = <<a0, b0>>
    BY DEF Blocks
  <1>2. b = a0 \/ b = b0
    <2>. HIDE DEF a0, b0
    <2>1. PICK i \in DOMAIN Blocks(n, "H") : b = Blocks(n, "H")[i]
      BY DEF ToSet
    <2>. QED
      BY <2>1, <1>1
  <1>3. /\ n.bl \in 0 .. 4 /\ n.x \in Nat /\ n.y \in Nat
        /\ s \in Nat /\ k \in Nat /\ k > 0 /\ s = 2 * k
    BY NodeIs, Narrower DEF Half
  <1>4. a0.x = n.x + 0 /\ a0.y = n.y + 0 /\ a0.w = s /\ a0.h = k
    BY BlockSides
  <1>5. b0.x = n.x + 0 /\ b0.y = n.y + k /\ b0.w = s /\ b0.h = k
    BY BlockSides
  <1>. HIDE DEF s, k, a0, b0
  <1>6. /\ b.y + b.h = n.y + s => b.w = s
        /\ b.x + b.w = n.x + s => b.h = k
    BY <1>2, <1>3, <1>4, <1>5
  <1>. QED
    BY <1>6 DEF EdgeBlock, Below, AlongBelow, AlongRight, s, k

\* Of two blocks down.
LEMMA VEdges ==
  ASSUME NEW n \in Node, NEW b \in ToSet(Blocks(n, "V"))
  PROVE  EdgeBlock(n, "V", b)
  <1>. DEFINE s == Size(n.bl)
              k == Half(n)
              a0 == Block(n, 0, 0, k, s, VFlags(n, 0))
              b0 == Block(n, k, 0, k, s, VFlags(n, 1))
  <1>1. Blocks(n, "V") = <<a0, b0>>
    BY DEF Blocks
  <1>2. b = a0 \/ b = b0
    <2>. HIDE DEF a0, b0
    <2>1. PICK i \in DOMAIN Blocks(n, "V") : b = Blocks(n, "V")[i]
      BY DEF ToSet
    <2>. QED
      BY <2>1, <1>1
  <1>3. /\ n.bl \in 0 .. 4 /\ n.x \in Nat /\ n.y \in Nat
        /\ s \in Nat /\ k \in Nat /\ k > 0 /\ s = 2 * k
    BY NodeIs, Narrower DEF Half
  <1>4. a0.x = n.x + 0 /\ a0.y = n.y + 0 /\ a0.w = k /\ a0.h = s
    BY BlockSides
  <1>5. b0.x = n.x + k /\ b0.y = n.y + 0 /\ b0.w = k /\ b0.h = s
    BY BlockSides
  <1>. HIDE DEF s, k, a0, b0
  <1>6. /\ b.y + b.h = n.y + s => b.w = k
        /\ b.x + b.w = n.x + s => b.h = s
    BY <1>2, <1>3, <1>4, <1>5
  <1>. QED
    BY <1>6 DEF EdgeBlock, Below, AlongBelow, AlongRight, s, k

\* Of four 4x4 blocks.
LEMMA SplitEdges ==
  ASSUME NEW n \in Node, n.bl = 4, NEW b \in ToSet(Blocks(n, "Split"))
  PROVE  EdgeBlock(n, "Split", b)
  <1>. DEFINE s == Size(n.bl)
              k == Half(n)
              a0 == Block(n, 0, 0, 1, 1, AllEdges)
              b0 == Block(n, 1, 0, 1, 1, (Flags(n) \cap TopRight) \cup {<<"bottom", 422>>})
              c0 == Block(n, 0, 1, 1, 1, Flags(n) \cup {<<"right", 444>>})
              d0 == Block(n, 1, 1, 1, 1, Flags(n) \cap {<<"right", 420>>, <<"bottom", 420>>, <<"bottom", 422>>})
  <1>1. Blocks(n, "Split") = <<a0, b0, c0, d0>>
    BY DEF Blocks
  <1>2. b = a0 \/ b = b0 \/ b = c0 \/ b = d0
    <2>. HIDE DEF a0, b0, c0, d0
    <2>1. PICK i \in DOMAIN Blocks(n, "Split") : b = Blocks(n, "Split")[i]
      BY DEF ToSet
    <2>. QED
      BY <2>1, <1>1
  <1>3. /\ n.bl \in 0 .. 4 /\ n.x \in Nat /\ n.y \in Nat
        /\ s \in Nat /\ k \in Nat /\ k > 0 /\ s = 2 * k /\ k = 1
    BY NodeIs, Narrower DEF Half
  <1>4. a0.x = n.x + 0 /\ a0.y = n.y + 0 /\ a0.w = 1 /\ a0.h = 1
    BY BlockSides
  <1>5. b0.x = n.x + 1 /\ b0.y = n.y + 0 /\ b0.w = 1 /\ b0.h = 1
    BY BlockSides
  <1>6. c0.x = n.x + 0 /\ c0.y = n.y + 1 /\ c0.w = 1 /\ c0.h = 1
    BY BlockSides
  <1>7. d0.x = n.x + 1 /\ d0.y = n.y + 1 /\ d0.w = 1 /\ d0.h = 1
    BY BlockSides
  <1>. HIDE DEF s, k, a0, b0, c0, d0
  <1>8. /\ b.y + b.h = n.y + s => b.w = k
        /\ b.x + b.w = n.x + s => b.h = k
    BY <1>2, <1>3, <1>4, <1>5, <1>6, <1>7
  <1>. QED
    BY <1>8 DEF EdgeBlock, Below, AlongBelow, AlongRight, s, k

\* Of two blocks above one.
LEMMA TTopEdges ==
  ASSUME NEW n \in Node, NEW b \in ToSet(Blocks(n, "TTop"))
  PROVE  EdgeBlock(n, "TTop", b)
  <1>. DEFINE s == Size(n.bl)
              k == Half(n)
              a0 == Block(n, 0, 0, k, k, AllEdges)
              b0 == Block(n, k, 0, k, k, VFlags(n, 1))
              c0 == Block(n, 0, k, s, k, HFlags(n, 1))
  <1>1. Blocks(n, "TTop") = <<a0, b0, c0>>
    BY DEF TBlocks, Blocks
  <1>2. b = a0 \/ b = b0 \/ b = c0
    <2>. HIDE DEF a0, b0, c0
    <2>1. PICK i \in DOMAIN Blocks(n, "TTop") : b = Blocks(n, "TTop")[i]
      BY DEF ToSet
    <2>. QED
      BY <2>1, <1>1
  <1>3. /\ n.bl \in 0 .. 4 /\ n.x \in Nat /\ n.y \in Nat
        /\ s \in Nat /\ k \in Nat /\ k > 0 /\ s = 2 * k
    BY NodeIs, Narrower DEF Half
  <1>4. a0.x = n.x + 0 /\ a0.y = n.y + 0 /\ a0.w = k /\ a0.h = k
    BY BlockSides
  <1>5. b0.x = n.x + k /\ b0.y = n.y + 0 /\ b0.w = k /\ b0.h = k
    BY BlockSides
  <1>6. c0.x = n.x + 0 /\ c0.y = n.y + k /\ c0.w = s /\ c0.h = k
    BY BlockSides
  <1>. HIDE DEF s, k, a0, b0, c0
  <1>7. /\ b.y + b.h = n.y + s => b.w = s
        /\ b.x + b.w = n.x + s => b.h = k
    BY <1>2, <1>3, <1>4, <1>5, <1>6
  <1>. QED
    BY <1>7 DEF EdgeBlock, Below, AlongBelow, AlongRight, s, k

\* Of one block above two.
LEMMA TBottomEdges ==
  ASSUME NEW n \in Node, NEW b \in ToSet(Blocks(n, "TBottom"))
  PROVE  EdgeBlock(n, "TBottom", b)
  <1>. DEFINE s == Size(n.bl)
              k == Half(n)
              a0 == Block(n, 0, 0, s, k, HFlags(n, 0))
              b0 == Block(n, 0, k, k, k, VFlags(n, 0))
              c0 == Block(n, k, k, k, k, {})
  <1>1. Blocks(n, "TBottom") = <<a0, b0, c0>>
    BY DEF TBlocks, Blocks
  <1>2. b = a0 \/ b = b0 \/ b = c0
    <2>. HIDE DEF a0, b0, c0
    <2>1. PICK i \in DOMAIN Blocks(n, "TBottom") : b = Blocks(n, "TBottom")[i]
      BY DEF ToSet
    <2>. QED
      BY <2>1, <1>1
  <1>3. /\ n.bl \in 0 .. 4 /\ n.x \in Nat /\ n.y \in Nat
        /\ s \in Nat /\ k \in Nat /\ k > 0 /\ s = 2 * k
    BY NodeIs, Narrower DEF Half
  <1>4. a0.x = n.x + 0 /\ a0.y = n.y + 0 /\ a0.w = s /\ a0.h = k
    BY BlockSides
  <1>5. b0.x = n.x + 0 /\ b0.y = n.y + k /\ b0.w = k /\ b0.h = k
    BY BlockSides
  <1>6. c0.x = n.x + k /\ c0.y = n.y + k /\ c0.w = k /\ c0.h = k
    BY BlockSides
  <1>. HIDE DEF s, k, a0, b0, c0
  <1>7. /\ b.y + b.h = n.y + s => b.w = k
        /\ b.x + b.w = n.x + s => b.h = k
    BY <1>2, <1>3, <1>4, <1>5, <1>6
  <1>. QED
    BY <1>7 DEF EdgeBlock, Below, AlongBelow, AlongRight, s, k

\* Of two blocks to the left of one.
LEMMA TLeftEdges ==
  ASSUME NEW n \in Node, NEW b \in ToSet(Blocks(n, "TLeft"))
  PROVE  EdgeBlock(n, "TLeft", b)
  <1>. DEFINE s == Size(n.bl)
              k == Half(n)
              a0 == Block(n, 0, 0, k, k, AllEdges)
              b0 == Block(n, 0, k, k, k, HFlags(n, 1))
              c0 == Block(n, k, 0, k, s, VFlags(n, 1))
  <1>1. Blocks(n, "TLeft") = <<a0, b0, c0>>
    BY DEF TBlocks, Blocks
  <1>2. b = a0 \/ b = b0 \/ b = c0
    <2>. HIDE DEF a0, b0, c0
    <2>1. PICK i \in DOMAIN Blocks(n, "TLeft") : b = Blocks(n, "TLeft")[i]
      BY DEF ToSet
    <2>. QED
      BY <2>1, <1>1
  <1>3. /\ n.bl \in 0 .. 4 /\ n.x \in Nat /\ n.y \in Nat
        /\ s \in Nat /\ k \in Nat /\ k > 0 /\ s = 2 * k
    BY NodeIs, Narrower DEF Half
  <1>4. a0.x = n.x + 0 /\ a0.y = n.y + 0 /\ a0.w = k /\ a0.h = k
    BY BlockSides
  <1>5. b0.x = n.x + 0 /\ b0.y = n.y + k /\ b0.w = k /\ b0.h = k
    BY BlockSides
  <1>6. c0.x = n.x + k /\ c0.y = n.y + 0 /\ c0.w = k /\ c0.h = s
    BY BlockSides
  <1>. HIDE DEF s, k, a0, b0, c0
  <1>7. /\ b.y + b.h = n.y + s => b.w = k
        /\ b.x + b.w = n.x + s => b.h = s
    BY <1>2, <1>3, <1>4, <1>5, <1>6
  <1>. QED
    BY <1>7 DEF EdgeBlock, Below, AlongBelow, AlongRight, s, k

\* Of one block to the left of two.
LEMMA TRightEdges ==
  ASSUME NEW n \in Node, NEW b \in ToSet(Blocks(n, "TRight"))
  PROVE  EdgeBlock(n, "TRight", b)
  <1>. DEFINE s == Size(n.bl)
              k == Half(n)
              a0 == Block(n, 0, 0, k, s, VFlags(n, 0))
              b0 == Block(n, k, 0, k, k, HFlags(n, 0))
              c0 == Block(n, k, k, k, k, {})
  <1>1. Blocks(n, "TRight") = <<a0, b0, c0>>
    BY DEF TBlocks, Blocks
  <1>2. b = a0 \/ b = b0 \/ b = c0
    <2>. HIDE DEF a0, b0, c0
    <2>1. PICK i \in DOMAIN Blocks(n, "TRight") : b = Blocks(n, "TRight")[i]
      BY DEF ToSet
    <2>. QED
      BY <2>1, <1>1
  <1>3. /\ n.bl \in 0 .. 4 /\ n.x \in Nat /\ n.y \in Nat
        /\ s \in Nat /\ k \in Nat /\ k > 0 /\ s = 2 * k
    BY NodeIs, Narrower DEF Half
  <1>4. a0.x = n.x + 0 /\ a0.y = n.y + 0 /\ a0.w = k /\ a0.h = s
    BY BlockSides
  <1>5. b0.x = n.x + k /\ b0.y = n.y + 0 /\ b0.w = k /\ b0.h = k
    BY BlockSides
  <1>6. c0.x = n.x + k /\ c0.y = n.y + k /\ c0.w = k /\ c0.h = k
    BY BlockSides
  <1>. HIDE DEF s, k, a0, b0, c0
  <1>7. /\ b.y + b.h = n.y + s => b.w = k
        /\ b.x + b.w = n.x + s => b.h = k
    BY <1>2, <1>3, <1>4, <1>5, <1>6
  <1>. QED
    BY <1>7 DEF EdgeBlock, Below, AlongBelow, AlongRight, s, k

\* Of four blocks across.
LEMMA H4Edges ==
  ASSUME NEW n \in Node, n.bl \in {1, 2, 3}, NEW b \in ToSet(Blocks(n, "H4"))
  PROVE  EdgeBlock(n, "H4", b)
  <1>. DEFINE s == Size(n.bl)
              k == Half(n)
              q == s \div 4
              mid4 == IF n.bl = 3 THEN Flags(n) ELSE {}
              a0 == Block(n, 0, 0, s, q, HFlags(n, 0))
              b0 == Block(n, 0, q, s, q, BottomLeft \cup (mid4 \cap {<<"right", 420>>}))
              c0 == Block(n, 0, 2 * q, s, q, BottomLeft)
              d0 == Block(n, 0, 3 * q, s, q, HFlags(n, 1))
  <1>1. Blocks(n, "H4") = <<a0, b0, c0, d0>>
    BY DEF Blocks
  <1>2. b = a0 \/ b = b0 \/ b = c0 \/ b = d0
    <2>. HIDE DEF a0, b0, c0, d0
    <2>1. PICK i \in DOMAIN Blocks(n, "H4") : b = Blocks(n, "H4")[i]
      BY DEF ToSet
    <2>. QED
      BY <2>1, <1>1
  <1>3. /\ n.bl \in 0 .. 4 /\ n.x \in Nat /\ n.y \in Nat
        /\ s \in Nat /\ k \in Nat /\ k > 0 /\ s = 2 * k /\ q \in Nat /\ q > 0 /\ s = 4 * q
    BY NodeIs, Narrower DEF Half
  <1>4. a0.x = n.x + 0 /\ a0.y = n.y + 0 /\ a0.w = s /\ a0.h = q
    BY BlockSides
  <1>5. b0.x = n.x + 0 /\ b0.y = n.y + q /\ b0.w = s /\ b0.h = q
    BY BlockSides
  <1>6. c0.x = n.x + 0 /\ c0.y = n.y + 2 * q /\ c0.w = s /\ c0.h = q
    BY BlockSides
  <1>7. d0.x = n.x + 0 /\ d0.y = n.y + 3 * q /\ d0.w = s /\ d0.h = q
    BY BlockSides
  <1>. HIDE DEF s, k, q, a0, b0, c0, d0
  <1>8. /\ b.y + b.h = n.y + s => b.w = s
        /\ b.x + b.w = n.x + s => b.h = q
    BY <1>2, <1>3, <1>4, <1>5, <1>6, <1>7
  <1>. QED
    BY <1>8 DEF EdgeBlock, Below, AlongBelow, AlongRight, s, k, q

\* Of four blocks down.
LEMMA V4Edges ==
  ASSUME NEW n \in Node, n.bl \in {1, 2, 3}, NEW b \in ToSet(Blocks(n, "V4"))
  PROVE  EdgeBlock(n, "V4", b)
  <1>. DEFINE s == Size(n.bl)
              k == Half(n)
              q == s \div 4
              mid4 == IF n.bl = 3 THEN Flags(n) ELSE {}
              a0 == Block(n, 0, 0, q, s, VFlags(n, 0))
              b0 == Block(n, q, 0, q, s, TopRight \cup (mid4 \cap {<<"bottom", 420>>, <<"bottom", 422>>}))
              c0 == Block(n, 2 * q, 0, q, s, TopRight)
              d0 == Block(n, 3 * q, 0, q, s, VFlags(n, 1))
  <1>1. Blocks(n, "V4") = <<a0, b0, c0, d0>>
    BY DEF Blocks
  <1>2. b = a0 \/ b = b0 \/ b = c0 \/ b = d0
    <2>. HIDE DEF a0, b0, c0, d0
    <2>1. PICK i \in DOMAIN Blocks(n, "V4") : b = Blocks(n, "V4")[i]
      BY DEF ToSet
    <2>. QED
      BY <2>1, <1>1
  <1>3. /\ n.bl \in 0 .. 4 /\ n.x \in Nat /\ n.y \in Nat
        /\ s \in Nat /\ k \in Nat /\ k > 0 /\ s = 2 * k /\ q \in Nat /\ q > 0 /\ s = 4 * q
    BY NodeIs, Narrower DEF Half
  <1>4. a0.x = n.x + 0 /\ a0.y = n.y + 0 /\ a0.w = q /\ a0.h = s
    BY BlockSides
  <1>5. b0.x = n.x + q /\ b0.y = n.y + 0 /\ b0.w = q /\ b0.h = s
    BY BlockSides
  <1>6. c0.x = n.x + 2 * q /\ c0.y = n.y + 0 /\ c0.w = q /\ c0.h = s
    BY BlockSides
  <1>7. d0.x = n.x + 3 * q /\ d0.y = n.y + 0 /\ d0.w = q /\ d0.h = s
    BY BlockSides
  <1>. HIDE DEF s, k, q, a0, b0, c0, d0
  <1>8. /\ b.y + b.h = n.y + s => b.w = q
        /\ b.x + b.w = n.x + s => b.h = s
    BY <1>2, <1>3, <1>4, <1>5, <1>6, <1>7
  <1>. QED
    BY <1>8 DEF EdgeBlock, Below, AlongBelow, AlongRight, s, k, q

\* The entry, in terms of those sides.
LEMMA EntryIs ==
  ASSUME NEW bl \in 0 .. 4, NEW part \in PartitionKinds, NEW j \in 0 .. 4
  PROVE  /\ PartitionEntry(bl, part, "above")[4 - j] <=> j < bl + AlongBelow(part)
         /\ PartitionEntry(bl, part, "left")[4 - j] <=> j < bl + AlongRight(part)
  <1>1. 4 - j \in 0 .. 4
    OBVIOUS
  <1>2. PartitionEntry(bl, part, "above") = [b \in 0 .. 4 |-> b >= 5 - (bl + AlongBelow(part))]
    BY DEF PartitionEntry, AlongBelow, PartitionKinds
  <1>3. PartitionEntry(bl, part, "left") = [b \in 0 .. 4 |-> b >= 5 - (bl + AlongRight(part))]
    BY DEF PartitionEntry, AlongRight, PartitionKinds
  <1>4. AlongBelow(part) \in Nat /\ AlongRight(part) \in Nat
    BY DEF AlongBelow, AlongRight
  <1>5. \A m \in Nat : 4 - j >= 5 - (bl + m) <=> j < bl + m
    OBVIOUS
  <1>. QED
    BY <1>1, <1>2, <1>3, <1>4, <1>5

\* The entry of each partition says what its blocks' sides are.
LEMMA InvPartitionContext ==
  ASSUME Inv
  PROVE  PartitionContextExact
  <1>1. TypeOK /\ WalkInv
    BY DEF Inv
  <1>. SUFFICES ASSUME todo # <<>>, IsNode(Head(todo)), NEW n, n = Head(todo),
                       NEW part \in Partitions(n) \ (IF n.bl < 4 THEN {"Split"} ELSE {}),
                       NEW b \in ToSet(Blocks(n, part)), NEW j \in 0 .. 4
                PROVE  /\ b.y + b.h = n.y + Size(n.bl) =>
                            (PartitionEntry(n.bl, part, "above")[4 - j] <=> b.w < Size(j))
                       /\ b.x + b.w = n.x + Size(n.bl) =>
                            (PartitionEntry(n.bl, part, "left")[4 - j] <=> b.h < Size(j))
    BY DEF PartitionContextExact
  <1>2. n \in Node
    BY <1>1, HeadIs, ItemKind DEF Items
  <1>3. n.bl \in 0 .. 4
    BY <1>2, NodeIs
  <1>4. part \in PartitionKinds
    BY DEF Partitions, PartitionKinds
  <1>5. EdgeBlock(n, part, b) /\ (2 \in {AlongBelow(part), AlongRight(part)} => n.bl \in {1, 2, 3})
    <2>1. CASE part \in {"H4", "V4"}
      <3>1. n.bl \in {1, 2, 3}
        BY <2>1, <1>3 DEF Partitions
      <3>. QED
        BY <2>1, <3>1, <1>2, H4Edges, V4Edges
    <2>2. CASE part = "Split"
      <3>1. n.bl = 4
        BY <2>2, <1>3
      <3>. QED
        BY <2>2, <3>1, <1>2, SplitEdges DEF AlongBelow, AlongRight
    <2>3. CASE part \in {"None", "H", "V", "TTop", "TBottom", "TLeft", "TRight"}
      BY <2>3, <1>2, NoneEdges, HEdges, VEdges, TTopEdges, TBottomEdges, TLeftEdges, TRightEdges
         DEF AlongBelow, AlongRight
    <2>. QED
      BY <2>1, <2>2, <2>3, <1>4 DEF PartitionKinds
  <1>6. \A i \in {0, 1, 2} : (i = 2 => n.bl \in {1, 2, 3}) => (Below(n, i) < Size(j) <=> j < n.bl + i)
    <2>1. n.bl + 0 = n.bl
      BY <1>3
    <2>2. /\ Size(n.bl) < Size(j) <=> j < n.bl
          /\ Size(n.bl) \div 2 < Size(j) <=> j < n.bl + 1
          /\ n.bl \in {1, 2, 3} => (Size(n.bl) \div 4 < Size(j) <=> j < n.bl + 2)
      BY <1>3, Narrower
    <2>3. Below(n, 0) = Size(n.bl) /\ Below(n, 1) = Size(n.bl) \div 2 /\ Below(n, 2) = Size(n.bl) \div 4
      BY DEF Below, Half
    <2>. QED
      BY <2>1, <2>2, <2>3, Zenon
  <1>7. AlongBelow(part) \in {0, 1, 2} /\ AlongRight(part) \in {0, 1, 2}
    BY DEF AlongBelow, AlongRight
  <1>8. /\ Below(n, AlongBelow(part)) < Size(j) <=> j < n.bl + AlongBelow(part)
        /\ Below(n, AlongRight(part)) < Size(j) <=> j < n.bl + AlongRight(part)
    BY <1>5, <1>6, <1>7
  <1>. QED
    BY <1>3, <1>4, <1>5, <1>8, EntryIs DEF EdgeBlock

\* The entries a partition leaves say of every node size whether the blocks
\* along the edge are smaller.
THEOREM PartitionEntriesExact == Spec => []PartitionContextExact
  <1>1. Inv => PartitionContextExact
    BY InvPartitionContext
  <1>. QED
    BY <1>1, WalkInvariant, PTL


-----------------------------------------------------------------------------
(* One axis: units of a size over a length.  Between two units the edge lies  *)
(* off samples before the multiple of the size: 0 across, up to 8 down.       *)

UnitSizes == {32, 64, 128, 256}

\* Where the unit that starts at pos starts and ends.
From(pos, off) == IF pos > 0 THEN pos - off ELSE 0
Until(pos, total, size, off) ==
    IF pos \div size < UnitCount(total, size) - 1 THEN pos + size - off ELSE total

\* There is a unit, and the last one is between half a size short and half a
\* size long.
LEMMA CountIs ==
  ASSUME NEW size \in UnitSizes, NEW total \in Nat \ {0}
  PROVE  LET n == UnitCount(total, size)
         IN /\ n \in Nat /\ n >= 1
            /\ n > 1 => size * n <= total + size \div 2
            /\ total + size \div 2 < size * (n + 1)
  <1>1. CASE size = 32
    BY <1>1 DEF UnitCount
  <1>2. CASE size = 64
    BY <1>2 DEF UnitCount
  <1>3. CASE size = 128
    BY <1>3 DEF UnitCount
  <1>4. CASE size = 256
    BY <1>4 DEF UnitCount
  <1>. QED
    BY <1>1, <1>2, <1>3, <1>4 DEF UnitSizes

\* A unit starts at each multiple of the size but those from the count on.
LEMMA StartIs ==
  ASSUME NEW size \in UnitSizes, NEW total \in Nat \ {0}, NEW pos \in Nat
  PROVE  UnitStartsAt(pos, total, size) <=>
           (\E q \in 0 .. UnitCount(total, size) - 1 : pos = size * q /\ pos \div size = q)
  <1>. DEFINE n == UnitCount(total, size)
              q == pos \div size
  <1>1. /\ n \in Nat /\ n >= 1 /\ (n > 1 => size * n <= total + size \div 2)
        /\ total + size \div 2 < size * (n + 1)
    BY CountIs
  <1>2. q \in Nat /\ (pos % size = 0 <=> pos = size * q)
    BY DEF UnitSizes
  <1>3. ASSUME NEW k \in Nat
        PROVE  (size * k < total /\ (size * k = 0 \/ size * k + size \div 2 <= total)) <=> k < n
    <2>. HIDE DEF n
    <2>1. CASE size = 32
      BY <2>1, <1>1
    <2>2. CASE size = 64
      BY <2>2, <1>1
    <2>3. CASE size = 128
      BY <2>3, <1>1
    <2>4. CASE size = 256
      BY <2>4, <1>1
    <2>. QED
      BY <2>1, <2>2, <2>3, <2>4 DEF UnitSizes
  <1>4. ASSUME UnitStartsAt(pos, total, size)
        PROVE  q \in 0 .. n - 1 /\ pos = size * q
    <2>1. pos % size = 0 /\ pos < total /\ (pos = 0 \/ pos + size \div 2 <= total)
      BY <1>4 DEF UnitStartsAt
    <2>2. pos = size * q
      BY <2>1, <1>2
    <2>. HIDE DEF q, n
    <2>3. q < n
      BY <2>1, <2>2, <1>2, <1>3
    <2>. QED
      BY <1>1, <1>2, <2>2, <2>3
  <1>5. ASSUME NEW k \in 0 .. n - 1, pos = size * k, pos \div size = k
        PROVE  UnitStartsAt(pos, total, size)
    <2>1. k \in Nat /\ k < n
      BY <1>1
    <2>2. pos % size = 0
      BY <1>2, <1>5
    <2>. HIDE DEF n
    <2>3. size * k < total /\ (size * k = 0 \/ size * k + size \div 2 <= total)
      BY <2>1, <1>3
    <2>. QED
      BY <2>2, <2>3, <1>5 DEF UnitStartsAt
  <1>. QED
    BY <1>4, <1>5

\* Every place of the length lies in a unit.
LEMMA AxisCovered ==
  ASSUME NEW size \in UnitSizes, NEW total \in Nat \ {0}, NEW off \in {0, 4, 8},
         NEW v \in 0 .. total - 1
  PROVE  \E q \in Nat : /\ UnitStartsAt(size * q, total, size)
                        /\ From(size * q, off) <= v /\ v < Until(size * q, total, size, off)
  <1>. DEFINE n == UnitCount(total, size)
              k == (v + off) \div size
              q == Lower(k, n - 1)
  <1>1. /\ n \in Nat /\ n >= 1
        /\ total + size \div 2 < size * (n + 1)
    BY CountIs
  <1>2. k \in Nat /\ size * k <= v + off /\ v + off < size * k + size
    <2>1. CASE size = 32
      BY <2>1
    <2>2. CASE size = 64
      BY <2>2
    <2>3. CASE size = 128
      BY <2>3
    <2>4. CASE size = 256
      BY <2>4
    <2>. QED
      BY <2>1, <2>2, <2>3, <2>4 DEF UnitSizes
  <1>3. \A r \in Nat : size * r \in Nat /\ (size * r) \div size = r /\ (r > 0 => size * r >= size)
                       /\ (size * r > 0 => r > 0)
    <2>1. CASE size = 32
      BY <2>1
    <2>2. CASE size = 64
      BY <2>2
    <2>3. CASE size = 128
      BY <2>3
    <2>4. CASE size = 256
      BY <2>4
    <2>. QED
      BY <2>1, <2>2, <2>3, <2>4 DEF UnitSizes
  <1>. HIDE DEF n, k
  <1>4. q \in 0 .. n - 1 /\ q <= k /\ (q < n - 1 => q = k)
    BY <1>1, <1>2 DEF Lower
  <1>. HIDE DEF q
  <1>5. UnitStartsAt(size * q, total, size)
    BY <1>1, <1>3, <1>4, StartIs DEF n
  <1>6. From(size * q, off) <= v
    <2>1. size * q <= v + off
      <3>1. CASE size = 32
        BY <3>1, <1>1, <1>2, <1>4
      <3>2. CASE size = 64
        BY <3>2, <1>1, <1>2, <1>4
      <3>3. CASE size = 128
        BY <3>3, <1>1, <1>2, <1>4
      <3>4. CASE size = 256
        BY <3>4, <1>1, <1>2, <1>4
      <3>. QED
        BY <3>1, <3>2, <3>3, <3>4 DEF UnitSizes
    <2>2. size * q \in Nat
      BY <1>1, <1>3, <1>4
    <2>. QED
      BY ONLY <2>1, <2>2, v \in 0 .. total - 1, off \in {0, 4, 8}, total \in Nat DEF From
  <1>7. v < Until(size * q, total, size, off)
    <2>1. CASE q < n - 1
      <3>1. (size * q) \div size = q /\ q = k
        BY <2>1, <1>1, <1>3, <1>4
      <3>2. Until(size * q, total, size, off) = size * q + size - off
        BY <3>1, <2>1 DEF Until, n
      <3>3. size * q \in Nat /\ size \in Nat /\ v + off < size * q + size
        BY <3>1, <1>2, <1>3 DEF UnitSizes
      <3>. QED
        BY ONLY <3>2, <3>3, v \in 0 .. total - 1, off \in {0, 4, 8}, total \in Nat
    <2>2. CASE ~(q < n - 1)
      <3>1. (size * q) \div size = q
        BY <1>1, <1>3, <1>4
      <3>2. Until(size * q, total, size, off) = total
        BY <3>1, <2>2 DEF Until, n
      <3>. QED
        BY <3>2
    <2>. QED
      BY <2>1, <2>2
  <1>. QED
    BY <1>1, <1>4, <1>5, <1>6, <1>7

\* No place lies in two units; nor do two units start at the same place.
LEMMA AxisApart ==
  ASSUME NEW size \in UnitSizes, NEW total \in Nat \ {0}, NEW off \in {0, 4, 8},
         NEW a \in Nat, NEW b \in Nat, UnitStartsAt(a, total, size), UnitStartsAt(b, total, size),
         \/ From(a, off) = From(b, off)
         \/ \E v \in 0 .. total - 1 : /\ From(a, off) <= v /\ v < Until(a, total, size, off)
                                      /\ From(b, off) <= v /\ v < Until(b, total, size, off)
  PROVE  a = b
  <1>. DEFINE n == UnitCount(total, size)
  <1>1. n \in Nat /\ n >= 1
    BY CountIs
  <1>2. PICK q \in 0 .. n - 1 : a = size * q /\ a \div size = q
    BY StartIs
  <1>3. PICK r \in 0 .. n - 1 : b = size * r /\ b \div size = r
    BY StartIs
  <1>. HIDE DEF n
  <1>4. /\ From(a, off) = (IF a > 0 THEN a - off ELSE 0)
        /\ From(b, off) = (IF b > 0 THEN b - off ELSE 0)
        /\ q < n - 1 => Until(a, total, size, off) = a + size - off
        /\ r < n - 1 => Until(b, total, size, off) = b + size - off
    BY <1>2, <1>3 DEF From, Until, n
  <1>5. /\ q < r => a + size <= b
        /\ r < q => b + size <= a
        /\ size > off
    <2>1. CASE size = 32
      BY <2>1, <1>1, <1>2, <1>3
    <2>2. CASE size = 64
      BY <2>2, <1>1, <1>2, <1>3
    <2>3. CASE size = 128
      BY <2>3, <1>1, <1>2, <1>3
    <2>4. CASE size = 256
      BY <2>4, <1>1, <1>2, <1>3
    <2>. QED
      BY <2>1, <2>2, <2>3, <2>4 DEF UnitSizes
  <1>6. size \in Nat /\ total \in Nat
    BY DEF UnitSizes
  <1>7. ~(q < r)
    BY <1>1, <1>4, <1>5, <1>6
  <1>8. ~(r < q)
    BY <1>1, <1>4, <1>5, <1>6
  <1>. QED
    BY <1>1, <1>2, <1>3, <1>7, <1>8

-----------------------------------------------------------------------------
(* A plane: the unit of a superblock, as two axes.                            *)

Superblocks == (0 .. Ceil(frame.width, 4 * frame.sb) - 1) \X (0 .. Ceil(frame.height, 4 * frame.sb) - 1)
Has(p, u) == HasUnit(p, u[1], u[2])
UnitOf(p, u) == UnitAt(p, u[1], u[2])
Holds(unit, x, y) == /\ unit.x <= x /\ x < unit.x + unit.w
                     /\ unit.y <= y /\ y < unit.y + unit.h

\* How many rows early a row of units starts.
Early(p) == 8 \div (1 + SsV(p))

\* A superblock is as wide and as high as some sizes, in samples of a plane;
\* a unit is a whole number of superblocks.
LEMMA UnitSteps ==
  ASSUME frame \in Frames, NEW p \in Planes
  PROVE  /\ UnitSize(p) \in UnitSizes /\ Early(p) \in {4, 8}
         /\ \E k \in {32, 64, 128}, m \in {1, 2, 4, 8} :
              k = (4 * frame.sb) \div StepH(p) /\ UnitSize(p) = k * m
         /\ \E k \in {32, 64, 128}, m \in {1, 2, 4, 8} :
              k = (4 * frame.sb) \div StepV(p) /\ UnitSize(p) = k * m
         /\ \A j \in Nat : /\ UnitX(p, j) = ((4 * frame.sb) \div StepH(p)) * j
                           /\ UnitY(p, j) = ((4 * frame.sb) \div StepV(p)) * j
  <1>1. /\ frame.sb \in {16, 32} /\ <<frame.ssH, frame.ssV>> \in {<<0, 0>>, <<1, 0>>, <<1, 1>>}
        /\ frame.lr[1] \in {64, 128, 256} /\ frame.lr[1] >= 4 * frame.sb
        /\ frame.lr[2] = frame.lr[1] \/ (frame.ssV = 1 /\ frame.lr[2] = frame.lr[1] \div 2)
    BY FramesAssumption
  <1>2. \/ StepH(p) = 1 /\ StepV(p) = 1 /\ SsV(p) = 0
        \/ p = 1 /\ StepH(p) = 2 /\ StepV(p) = 1 /\ SsV(p) = 0 /\ frame.ssV = 0
        \/ p = 1 /\ StepH(p) = 2 /\ StepV(p) = 2 /\ SsV(p) = 1
    BY <1>1 DEF Planes, StepH, StepV, SsH, SsV
  <1>3. \/ StepH(p) = 1 /\ StepV(p) = 1 /\ UnitSize(p) = frame.lr[1]
        \/ StepH(p) = 2 /\ StepV(p) = 1 /\ UnitSize(p) = frame.lr[1]
        \/ StepH(p) = 2 /\ StepV(p) = 2 /\ UnitSize(p) \in {frame.lr[1], frame.lr[1] \div 2}
    BY <1>1, <1>2 DEF Planes, UnitSize, StepH, StepV, SsH, SsV
  <1>4. UnitSize(p) \in UnitSizes
    BY <1>1, <1>3 DEF UnitSizes
  <1>5. /\ \E k \in {32, 64, 128}, m \in {1, 2, 4, 8} :
              k = (4 * frame.sb) \div StepH(p) /\ UnitSize(p) = k * m
        /\ \E k \in {32, 64, 128}, m \in {1, 2, 4, 8} :
              k = (4 * frame.sb) \div StepV(p) /\ UnitSize(p) = k * m
    BY <1>1, <1>3
  <1>6. Early(p) \in {4, 8}
    BY <1>2 DEF Early
  <1>7. ASSUME NEW j \in Nat
        PROVE  /\ UnitX(p, j) = ((4 * frame.sb) \div StepH(p)) * j
               /\ UnitY(p, j) = ((4 * frame.sb) \div StepV(p)) * j
    <2>1. /\ UnitX(p, j) = (4 * frame.sb * j) \div StepH(p)
          /\ UnitY(p, j) = (4 * frame.sb * j) \div StepV(p)
      BY DEF UnitX, UnitY
    <2>2. CASE frame.sb = 16
      BY ONLY <1>2, <2>1, <2>2, j \in Nat
    <2>3. CASE frame.sb = 32
      BY ONLY <1>2, <2>1, <2>3, j \in Nat
    <2>. QED
      BY <1>1, <2>2, <2>3
  <1>. QED
    BY <1>4, <1>5, <1>6, <1>7

\* The plane is not empty, and a superblock that starts inside it belongs to
\* the picture.
LEMMA PlaneIs ==
  ASSUME frame \in Frames, NEW p \in Planes
  PROVE  /\ PlaneW(p) \in Nat \ {0} /\ PlaneH(p) \in Nat \ {0}
         /\ \A j \in Nat : UnitX(p, j) < PlaneW(p) => j \in 0 .. Ceil(frame.width, 4 * frame.sb) - 1
         /\ \A j \in Nat : UnitY(p, j) < PlaneH(p) => j \in 0 .. Ceil(frame.height, 4 * frame.sb) - 1
  <1>1. /\ frame.width \in Nat \ {0} /\ frame.height \in Nat \ {0} /\ frame.sb \in {16, 32}
    BY FrameFields
  <1>2. StepH(p) \in {1, 2} /\ StepV(p) \in {1, 2}
    BY Steps DEF Planes
  <1>3. ASSUME NEW size \in Nat \ {0}, NEW step \in {1, 2}
        PROVE  /\ Ceil(size, step) \in Nat \ {0}
               /\ \A j \in Nat : (4 * frame.sb * j) \div step < Ceil(size, step)
                                   => j \in 0 .. Ceil(size, 4 * frame.sb) - 1
    <2>1. CASE frame.sb = 16
      <3>1. CASE step = 1
        BY <2>1, <3>1 DEF Ceil
      <3>2. CASE step = 2
        BY <2>1, <3>2 DEF Ceil
      <3>. QED
        BY <3>1, <3>2
    <2>2. CASE frame.sb = 32
      <3>1. CASE step = 1
        BY <2>2, <3>1 DEF Ceil
      <3>2. CASE step = 2
        BY <2>2, <3>2 DEF Ceil
      <3>. QED
        BY <3>1, <3>2
    <2>. QED
      BY <1>1, <2>1, <2>2
  <1>. QED
    BY <1>1, <1>2, <1>3 DEF PlaneW, PlaneH, UnitX, UnitY

\* Across, a unit ends where the next one starts, or with the plane.
LEMMA ExtentIs ==
  ASSUME NEW size \in UnitSizes, NEW total \in Nat \ {0}, NEW pos \in Nat,
         UnitStartsAt(pos, total, size)
  PROVE  pos = From(pos, 0) /\ pos + UnitExtent(pos, total, size) = Until(pos, total, size, 0)
  <1>. DEFINE n == UnitCount(total, size)
  <1>1. n \in Nat /\ n >= 1 /\ (n > 1 => size * n <= total + size \div 2)
    BY CountIs
  <1>2. PICK q \in 0 .. n - 1 : pos = size * q /\ pos \div size = q
    BY StartIs
  <1>3. /\ UnitExtent(pos, total, size) = (IF q = n - 1 THEN total - pos ELSE Lower(size, total - pos))
        /\ Until(pos, total, size, 0) = (IF q < n - 1 THEN pos + size - 0 ELSE total)
    BY <1>2 DEF UnitExtent, Until
  <1>. HIDE DEF n
  <1>4. q < n - 1 => pos + size <= total
    <2>1. CASE size = 32
      BY <2>1, <1>1, <1>2
    <2>2. CASE size = 64
      BY <2>2, <1>1, <1>2
    <2>3. CASE size = 128
      BY <2>3, <1>1, <1>2
    <2>4. CASE size = 256
      BY <2>4, <1>1, <1>2
    <2>. QED
      BY <2>1, <2>2, <2>3, <2>4 DEF UnitSizes
  <1>5. size \in Nat
    BY DEF UnitSizes
  <1>6. pos = From(pos, 0)
    BY DEF From
  <1>. QED
    BY <1>1, <1>2, <1>3, <1>4, <1>5, <1>6 DEF Lower

\* Where the unit of a superblock lies.
LEMMA UnitFields ==
  ASSUME frame \in Frames, NEW p \in Planes, NEW u \in Superblocks
  PROVE  /\ UnitOf(p, u).plane = p
         /\ UnitX(p, u[1]) \in Nat /\ UnitY(p, u[2]) \in Nat
         /\ Has(p, u) <=> /\ UnitStartsAt(UnitX(p, u[1]), PlaneW(p), UnitSize(p))
                          /\ UnitStartsAt(UnitY(p, u[2]), PlaneH(p), UnitSize(p))
         /\ UnitOf(p, u).y = From(UnitY(p, u[2]), Early(p))
         /\ UnitOf(p, u).y + UnitOf(p, u).h = Until(UnitY(p, u[2]), PlaneH(p), UnitSize(p), Early(p))
         /\ Has(p, u) =>
              /\ UnitOf(p, u).x = From(UnitX(p, u[1]), 0)
              /\ UnitOf(p, u).x + UnitOf(p, u).w = Until(UnitX(p, u[1]), PlaneW(p), UnitSize(p), 0)
  <1>. DEFINE x == UnitX(p, u[1])
              y == UnitY(p, u[2])
              t == UnitSize(p)
  <1>1. u[1] \in Nat /\ u[2] \in Nat
    BY DEF Superblocks
  <1>2. /\ (4 * frame.sb) \div StepH(p) \in Nat /\ (4 * frame.sb) \div StepV(p) \in Nat
        /\ x = ((4 * frame.sb) \div StepH(p)) * u[1] /\ y = ((4 * frame.sb) \div StepV(p)) * u[2]
        /\ t \in UnitSizes /\ Early(p) \in {4, 8}
    BY <1>1, UnitSteps
  <1>3. x \in Nat /\ y \in Nat
    BY ONLY <1>1, <1>2
  <1>4. Has(p, u) <=> UnitStartsAt(x, PlaneW(p), t) /\ UnitStartsAt(y, PlaneH(p), t)
    BY DEF Has, HasUnit
  <1>5. /\ UnitOf(p, u).plane = p /\ UnitOf(p, u).x = x /\ UnitOf(p, u).w = UnitExtent(x, PlaneW(p), t)
        /\ UnitOf(p, u).y = UnitRows(y, PlaneH(p), t, SsV(p)).start
        /\ UnitOf(p, u).h = UnitRows(y, PlaneH(p), t, SsV(p)).extent
    BY DEF UnitOf, UnitAt
  <1>6. /\ UnitRows(y, PlaneH(p), t, SsV(p)).start = From(y, Early(p))
        /\ UnitRows(y, PlaneH(p), t, SsV(p)).extent = Until(y, PlaneH(p), t, Early(p)) - From(y, Early(p))
    BY DEF UnitRows, From, Until, Early
  <1>7. PlaneW(p) \in Nat \ {0} /\ PlaneH(p) \in Nat \ {0}
    BY PlaneIs
  <1>8. From(y, Early(p)) \in Int /\ Until(y, PlaneH(p), t, Early(p)) \in Int
    BY <1>2, <1>3, <1>7 DEF From, Until, UnitSizes
  <1>9. Has(p, u) => x = From(x, 0) /\ x + UnitExtent(x, PlaneW(p), t) = Until(x, PlaneW(p), t, 0)
    BY <1>2, <1>3, <1>4, <1>7, ExtentIs
  <1>. HIDE DEF x, y, t
  <1>10. UnitOf(p, u).y + UnitOf(p, u).h = Until(y, PlaneH(p), t, Early(p))
    BY ONLY <1>5, <1>6, <1>8
  <1>. QED
    BY <1>3, <1>4, <1>5, <1>6, <1>9, <1>10 DEF x, y, t

\* Superblocks with a unit at the same place are the same.
LEMMA SameUnit ==
  ASSUME frame \in Frames, NEW p \in Planes, NEW u \in Superblocks, NEW v \in Superblocks,
         UnitX(p, u[1]) = UnitX(p, v[1]), UnitY(p, u[2]) = UnitY(p, v[2])
  PROVE  u = v
  <1>1. /\ u[1] \in Nat /\ u[2] \in Nat /\ v[1] \in Nat /\ v[2] \in Nat
        /\ u = <<u[1], u[2]>> /\ v = <<v[1], v[2]>>
    BY DEF Superblocks
  <1>2. PICK k \in {32, 64, 128} : k = (4 * frame.sb) \div StepH(p)
    BY UnitSteps
  <1>3. PICK l \in {32, 64, 128} : l = (4 * frame.sb) \div StepV(p)
    BY UnitSteps
  <1>4. k * u[1] = k * v[1] /\ l * u[2] = l * v[2]
    BY <1>1, <1>2, <1>3, UnitSteps
  <1>5. \A d \in {32, 64, 128} : \A a, b \in Nat : d * a = d * b => a = b
    OBVIOUS
  <1>6. u[1] = v[1] /\ u[2] = v[2]
    BY ONLY <1>1, <1>2, <1>3, <1>4, <1>5
  <1>. QED
    BY <1>1, <1>6

\* A place where a unit starts across, and down, is that of a superblock.
LEMMA UnitStarts ==
  ASSUME frame \in Frames, NEW p \in Planes
  PROVE  /\ \A q \in Nat : UnitSize(p) * q < PlaneW(p) =>
              \E j \in 0 .. Ceil(frame.width, 4 * frame.sb) - 1 : UnitX(p, j) = UnitSize(p) * q
         /\ \A q \in Nat : UnitSize(p) * q < PlaneH(p) =>
              \E j \in 0 .. Ceil(frame.height, 4 * frame.sb) - 1 : UnitY(p, j) = UnitSize(p) * q
  <1>1. \A k \in {32, 64, 128}, m \in {1, 2, 4, 8} : \A q \in Nat :
            m * q \in Nat /\ (k * m) * q = k * (m * q)
    OBVIOUS
  <1>2. ASSUME NEW q \in Nat, UnitSize(p) * q < PlaneW(p)
        PROVE  \E j \in 0 .. Ceil(frame.width, 4 * frame.sb) - 1 : UnitX(p, j) = UnitSize(p) * q
    <2>1. PICK k \in {32, 64, 128}, m \in {1, 2, 4, 8} :
                 k = (4 * frame.sb) \div StepH(p) /\ UnitSize(p) = k * m
      BY UnitSteps
    <2>. DEFINE j == m * q
    <2>2. j \in Nat /\ UnitSize(p) * q = k * j
      BY ONLY <1>1, <2>1, q \in Nat
    <2>. HIDE DEF j
    <2>3. UnitX(p, j) = UnitSize(p) * q
      BY <2>1, <2>2, UnitSteps
    <2>4. j \in 0 .. Ceil(frame.width, 4 * frame.sb) - 1
      BY <1>2, <2>2, <2>3, PlaneIs
    <2>. QED
      BY <2>3, <2>4
  <1>3. ASSUME NEW q \in Nat, UnitSize(p) * q < PlaneH(p)
        PROVE  \E j \in 0 .. Ceil(frame.height, 4 * frame.sb) - 1 : UnitY(p, j) = UnitSize(p) * q
    <2>1. PICK k \in {32, 64, 128}, m \in {1, 2, 4, 8} :
                 k = (4 * frame.sb) \div StepV(p) /\ UnitSize(p) = k * m
      BY UnitSteps
    <2>. DEFINE j == m * q
    <2>2. j \in Nat /\ UnitSize(p) * q = k * j
      BY ONLY <1>1, <2>1, q \in Nat
    <2>. HIDE DEF j
    <2>3. UnitY(p, j) = UnitSize(p) * q
      BY <2>1, <2>2, UnitSteps
    <2>4. j \in 0 .. Ceil(frame.height, 4 * frame.sb) - 1
      BY <1>3, <2>2, <2>3, PlaneIs
    <2>. QED
      BY <2>3, <2>4
  <1>. QED
    BY <1>2, <1>3

\* Every sample of a plane lies in the unit of a superblock.
LEMMA PlaneCovered ==
  ASSUME frame \in Frames, NEW p \in Planes,
         NEW x \in 0 .. PlaneW(p) - 1, NEW y \in 0 .. PlaneH(p) - 1
  PROVE  \E u \in Superblocks : Has(p, u) /\ Holds(UnitOf(p, u), x, y)
  <1>. DEFINE t == UnitSize(p)
              e == Early(p)
  <1>1. /\ t \in UnitSizes /\ e \in {0, 4, 8} /\ 0 \in {0, 4, 8}
        /\ PlaneW(p) \in Nat \ {0} /\ PlaneH(p) \in Nat \ {0}
    BY UnitSteps, PlaneIs
  <1>2. PICK q \in Nat : /\ UnitStartsAt(t * q, PlaneW(p), t)
                         /\ From(t * q, 0) <= x /\ x < Until(t * q, PlaneW(p), t, 0)
    BY <1>1, AxisCovered
  <1>3. PICK r \in Nat : /\ UnitStartsAt(t * r, PlaneH(p), t)
                         /\ From(t * r, e) <= y /\ y < Until(t * r, PlaneH(p), t, e)
    BY <1>1, AxisCovered
  <1>4. t * q < PlaneW(p) /\ t * r < PlaneH(p)
    BY <1>2, <1>3 DEF UnitStartsAt
  <1>5. PICK i \in 0 .. Ceil(frame.width, 4 * frame.sb) - 1 : UnitX(p, i) = t * q
    BY <1>4, UnitStarts
  <1>6. PICK j \in 0 .. Ceil(frame.height, 4 * frame.sb) - 1 : UnitY(p, j) = t * r
    BY <1>4, UnitStarts
  <1>7. <<i, j>> \in Superblocks /\ <<i, j>>[1] = i /\ <<i, j>>[2] = j
    BY DEF Superblocks
  <1>. DEFINE u == <<i, j>>
  <1>. HIDE DEF t, e, u
  <1>8. u \in Superblocks /\ UnitX(p, u[1]) = t * q /\ UnitY(p, u[2]) = t * r
    BY <1>5, <1>6, <1>7 DEF u
  <1>9. Has(p, u)
    BY <1>2, <1>3, <1>8, UnitFields DEF t
  <1>10. Holds(UnitOf(p, u), x, y)
    <2>1. /\ UnitOf(p, u).x = From(t * q, 0)
          /\ UnitOf(p, u).x + UnitOf(p, u).w = Until(t * q, PlaneW(p), t, 0)
          /\ UnitOf(p, u).y = From(t * r, e)
          /\ UnitOf(p, u).y + UnitOf(p, u).h = Until(t * r, PlaneH(p), t, e)
      BY <1>8, <1>9, UnitFields DEF t, e
    <2>. QED
      BY <1>2, <1>3, <2>1 DEF Holds
  <1>. QED
    BY <1>8, <1>9, <1>10

\* Two superblocks' units have no sample in common, nor are they equal.
LEMMA UnitsApart ==
  ASSUME frame \in Frames, NEW p \in Planes, NEW u \in Superblocks, NEW v \in Superblocks,
         Has(p, u), Has(p, v),
         \/ UnitOf(p, u) = UnitOf(p, v)
         \/ \E x \in 0 .. PlaneW(p) - 1, y \in 0 .. PlaneH(p) - 1 :
              Holds(UnitOf(p, u), x, y) /\ Holds(UnitOf(p, v), x, y)
  PROVE  u = v
  <1>. DEFINE t == UnitSize(p)
              e == Early(p)
              a == UnitX(p, u[1])
              b == UnitX(p, v[1])
              c == UnitY(p, u[2])
              d == UnitY(p, v[2])
  <1>1. /\ t \in UnitSizes /\ e \in {0, 4, 8} /\ 0 \in {0, 4, 8}
        /\ PlaneW(p) \in Nat \ {0} /\ PlaneH(p) \in Nat \ {0}
    BY UnitSteps, PlaneIs
  <1>2. /\ a \in Nat /\ UnitStartsAt(a, PlaneW(p), t)
        /\ UnitOf(p, u).x = From(a, 0) /\ UnitOf(p, u).x + UnitOf(p, u).w = Until(a, PlaneW(p), t, 0)
        /\ c \in Nat /\ UnitStartsAt(c, PlaneH(p), t)
        /\ UnitOf(p, u).y = From(c, e) /\ UnitOf(p, u).y + UnitOf(p, u).h = Until(c, PlaneH(p), t, e)
    BY UnitFields
  <1>3. /\ b \in Nat /\ UnitStartsAt(b, PlaneW(p), t)
        /\ UnitOf(p, v).x = From(b, 0) /\ UnitOf(p, v).x + UnitOf(p, v).w = Until(b, PlaneW(p), t, 0)
        /\ d \in Nat /\ UnitStartsAt(d, PlaneH(p), t)
        /\ UnitOf(p, v).y = From(d, e) /\ UnitOf(p, v).y + UnitOf(p, v).h = Until(d, PlaneH(p), t, e)
    BY UnitFields
  <1>. HIDE DEF t, e, a, b, c, d
  <1>4. /\ \/ From(a, 0) = From(b, 0)
           \/ \E x \in 0 .. PlaneW(p) - 1 : /\ From(a, 0) <= x /\ x < Until(a, PlaneW(p), t, 0)
                                            /\ From(b, 0) <= x /\ x < Until(b, PlaneW(p), t, 0)
        /\ \/ From(c, e) = From(d, e)
           \/ \E y \in 0 .. PlaneH(p) - 1 : /\ From(c, e) <= y /\ y < Until(c, PlaneH(p), t, e)
                                            /\ From(d, e) <= y /\ y < Until(d, PlaneH(p), t, e)
    BY <1>2, <1>3, Zenon DEF Holds
  <1>5. a = b
    BY <1>1, <1>2, <1>3, <1>4, AxisApart
  <1>6. c = d
    BY <1>1, <1>2, <1>3, <1>4, AxisApart
  <1>. QED
    BY <1>5, <1>6, SameUnit DEF a, b, c, d

-----------------------------------------------------------------------------
(* The units read so far: one for each superblock that was begun and has one. *)

Visited(s) == {u \in Superblocks : Earlier(u, s) \/ u = Here(s)}
Units == {UnitOf(p, u) : p \in Planes, u \in Superblocks}

\* A list of units, and the planes' superblocks it is complete for.
Lists(us, begun) ==
    /\ us \in Seq(Units)
    /\ \A i \in 1 .. Len(us) : \E b \in begun : Has(b[1], b[2]) /\ us[i] = UnitOf(b[1], b[2])
    /\ \A b \in begun : Has(b[1], b[2]) => \E i \in 1 .. Len(us) : us[i] = UnitOf(b[1], b[2])
    /\ \A i, j \in 1 .. Len(us) : us[i] = us[j] => i = j

UnitsInv == Lists(units, Planes \X Visited(at))

\* The unit, if there is one, of one more superblock of a plane.
OneMore(p, u) == IF Has(p, u) THEN << UnitOf(p, u) >> ELSE <<>>

\* Reading it, the list stays complete.
LEMMA ListGrows ==
  ASSUME frame \in Frames, NEW us, NEW begun \in SUBSET (Planes \X Superblocks), Lists(us, begun),
         NEW p \in Planes, NEW u \in Superblocks, <<p, u>> \notin begun
  PROVE  OneMore(p, u) \in Seq(Units) /\ Lists(us \o OneMore(p, u), begun \cup {<<p, u>>})
  <1>. DEFINE unit == UnitOf(p, u)
              more == begun \cup {<<p, u>>}
  <1>1. /\ us \in Seq(Units)
        /\ \A i \in 1 .. Len(us) : \E b \in begun : Has(b[1], b[2]) /\ us[i] = UnitOf(b[1], b[2])
        /\ \A b \in begun : Has(b[1], b[2]) => \E i \in 1 .. Len(us) : us[i] = UnitOf(b[1], b[2])
        /\ \A i, j \in 1 .. Len(us) : us[i] = us[j] => i = j
    BY DEF Lists
  <1>2. unit \in Units
    BY DEF Units
  <1>3. \A b \in more : b \in begun \/ (b[1] = p /\ b[2] = u)
    OBVIOUS
  <1>4. <<p, u>> \in more /\ <<p, u>>[1] = p /\ <<p, u>>[2] = u /\ begun \subseteq more
    OBVIOUS
  <1>5. CASE Has(p, u)
    <2>. DEFINE new == us \o <<unit>>
                n == Len(us)
    <2>. HIDE DEF unit, more
    <2>1. /\ new \in Seq(Units) /\ n \in Nat /\ Len(new) = n + 1 /\ new[n + 1] = unit
          /\ \A i \in 1 .. n : new[i] = us[i]
          /\ <<unit>> \in Seq(Units)
      BY <1>1, <1>2
    <2>2. \A i \in 1 .. n : us[i] # unit
      <3>. SUFFICES ASSUME NEW i \in 1 .. n, us[i] = unit
                    PROVE  FALSE
        OBVIOUS
      <3>1. PICK b \in begun : Has(b[1], b[2]) /\ us[i] = UnitOf(b[1], b[2])
        BY <1>1
      <3>2. b[1] \in Planes /\ b[2] \in Superblocks /\ b = <<b[1], b[2]>>
        OBVIOUS
      <3>3. b[1] = p
        <4>1. UnitOf(b[1], b[2]).plane = b[1] /\ unit.plane = p
          BY DEF UnitOf, UnitAt, unit
        <4>. QED
          BY <3>1, <4>1
      <3>4. UnitOf(p, b[2]) = UnitOf(p, u) /\ Has(p, b[2])
        BY <3>1, <3>3 DEF unit
      <3>5. b[2] = u
        BY <3>2, <3>4, <1>5, UnitsApart
      <3>6. b = <<p, u>>
        BY <3>2, <3>3, <3>5
      <3>. QED
        BY <3>6
    <2>. HIDE DEF new, n
    <2>3. 1 .. n + 1 = (1 .. n) \cup {n + 1} /\ n + 1 \notin 1 .. n
      BY <2>1
    <2>4. \A i \in 1 .. n + 1 : \E b \in more : Has(b[1], b[2]) /\ new[i] = UnitOf(b[1], b[2])
      <3>1. \A i \in 1 .. n : \E b \in more : Has(b[1], b[2]) /\ new[i] = UnitOf(b[1], b[2])
        <4>. SUFFICES ASSUME NEW i \in 1 .. n
                      PROVE  \E b \in more : Has(b[1], b[2]) /\ new[i] = UnitOf(b[1], b[2])
          OBVIOUS
        <4>1. PICK b \in begun : Has(b[1], b[2]) /\ us[i] = UnitOf(b[1], b[2])
          BY <1>1 DEF n
        <4>2. b \in more /\ new[i] = us[i]
          BY <1>4, <2>1
        <4>. QED
          BY <4>1, <4>2
      <3>2. \E b \in more : Has(b[1], b[2]) /\ new[n + 1] = UnitOf(b[1], b[2])
        BY <1>4, <1>5, <2>1 DEF unit
      <3>. QED
        BY <2>3, <3>1, <3>2
    <2>5. \A b \in more : Has(b[1], b[2]) => \E i \in 1 .. n + 1 : new[i] = UnitOf(b[1], b[2])
      <3>. SUFFICES ASSUME NEW b \in more, Has(b[1], b[2])
                    PROVE  \E i \in 1 .. n + 1 : new[i] = UnitOf(b[1], b[2])
        OBVIOUS
      <3>1. CASE b \in begun
        <4>1. PICK i \in 1 .. n : us[i] = UnitOf(b[1], b[2])
          BY <1>1, <3>1 DEF n
        <4>2. new[i] = UnitOf(b[1], b[2]) /\ i \in 1 .. n + 1
          BY <2>1, <2>3, <4>1
        <4>. QED
          BY <4>2
      <3>2. CASE b[1] = p /\ b[2] = u
        <4>1. new[n + 1] = UnitOf(b[1], b[2]) /\ n + 1 \in 1 .. n + 1
          BY <2>1, <2>3, <3>2 DEF unit
        <4>. QED
          BY <4>1
      <3>. QED
        BY <1>3, <3>1, <3>2
    <2>6. \A i, j \in 1 .. n + 1 : new[i] = new[j] => i = j
      <3>1. \A i, j \in 1 .. n : us[i] = us[j] => i = j
        BY <1>1 DEF n
      <3>. QED
        BY <2>1, <2>2, <2>3, <3>1
    <2>7. Lists(new, more)
      BY <2>1, <2>4, <2>5, <2>6 DEF Lists
    <2>8. OneMore(p, u) = <<unit>>
      BY <1>5 DEF OneMore, unit
    <2>. QED
      BY <2>1, <2>7, <2>8 DEF new, more
  <1>6. CASE ~Has(p, u)
    <2>1. OneMore(p, u) = <<>> /\ <<>> \in Seq(Units)
      BY <1>6 DEF OneMore
    <2>2. us \o <<>> = us
      BY <1>1, ConcatEmptySeq
    <2>3. \A i \in 1 .. Len(us) : \E b \in more : Has(b[1], b[2]) /\ us[i] = UnitOf(b[1], b[2])
      BY <1>1, <1>4
    <2>4. \A b \in more : Has(b[1], b[2]) => \E i \in 1 .. Len(us) : us[i] = UnitOf(b[1], b[2])
      BY <1>1, <1>3, <1>6
    <2>5. Lists(us, more)
      BY <1>1, <2>3, <2>4 DEF Lists
    <2>. QED
      BY <2>1, <2>2, <2>5
  <1>. QED
    BY <1>5, <1>6

\* A superblock is begun: the units of both planes are read.
LEMMA SuperblockRead ==
  ASSUME frame \in Frames, NEW us, NEW begun \in SUBSET Superblocks, Lists(us, Planes \X begun),
         NEW s, Here(s) \in Superblocks, Here(s) \notin begun
  PROVE  /\ RestorationUnits(s) \in Seq(Units)
         /\ Lists(us \o RestorationUnits(s), Planes \X (begun \cup {Here(s)}))
  <1>. DEFINE u == Here(s)
              b0 == Planes \X begun
              b1 == b0 \cup {<<0, u>>}
              b2 == b1 \cup {<<1, u>>}
  <1>1. 0 \in Planes /\ 1 \in Planes
    BY DEF Planes
  <1>2. RestorationUnits(s) = OneMore(0, u) \o OneMore(1, u)
    BY DEF RestorationUnits, OneMore, Has, UnitOf, Here
  <1>. HIDE DEF u
  <1>3. OneMore(0, u) \in Seq(Units) /\ Lists(us \o OneMore(0, u), b1)
    <2>1. b0 \in SUBSET (Planes \X Superblocks) /\ <<0, u>> \notin b0 /\ u \in Superblocks
      BY DEF u
    <2>. QED
      BY <1>1, <2>1, ListGrows
  <1>4. OneMore(1, u) \in Seq(Units) /\ Lists((us \o OneMore(0, u)) \o OneMore(1, u), b2)
    <2>1. b1 \in SUBSET (Planes \X Superblocks) /\ <<1, u>> \notin b1 /\ u \in Superblocks
      BY <1>1 DEF u
    <2>. HIDE DEF b1
    <2>. QED
      BY <1>1, <1>3, <2>1, ListGrows
  <1>5. b2 = Planes \X (begun \cup {u})
    BY DEF Planes
  <1>6. us \in Seq(Units)
    BY DEF Lists
  <1>7. (us \o OneMore(0, u)) \o OneMore(1, u) = us \o (OneMore(0, u) \o OneMore(1, u))
    BY <1>3, <1>4, <1>6, ConcatAssociative
  <1>8. OneMore(0, u) \o OneMore(1, u) \in Seq(Units)
    BY <1>3, <1>4, ConcatProperties
  <1>. HIDE DEF b2
  <1>. QED
    BY <1>2, <1>4, <1>5, <1>7, <1>8 DEF u

\* The superblocks are those of the picture.
LEMMA SuperblocksAre ==
  ASSUME frame \in Frames
  PROVE  /\ \A u : u \in Superblocks <=> InPicture(u)
         /\ \A s : PlaceOK(s) => Here(s) \in Superblocks
  <1>1. Ceil(frame.width, 4 * frame.sb) \in Nat /\ Ceil(frame.height, 4 * frame.sb) \in Nat
    <2>1. frame.width \in Nat /\ frame.height \in Nat /\ frame.sb \in {16, 32}
      BY FrameFields
    <2>2. \A a \in Nat, sb \in {16, 32} : Ceil(a, 4 * sb) \in Nat
      BY DEF Ceil
    <2>. QED
      BY ONLY <2>1, <2>2, Zenon
  <1>2. \A u : u \in Superblocks <=> InPicture(u)
    BY <1>1 DEF Superblocks, InPicture
  <1>3. ASSUME NEW s, PlaceOK(s)
        PROVE  Here(s) \in Superblocks
    <2>1. /\ s.x \in Nat /\ s.y \in Nat
          /\ s.x < Ceil(frame.width, 4 * frame.sb) /\ s.y < Ceil(frame.height, 4 * frame.sb)
      <3>1. /\ s.x \in Nat /\ s.y \in Nat
            /\ frame.cols[s.col + 1] \in Nat /\ frame.rows[s.row + 1] \in Nat
            /\ s.x < frame.cols[s.col + 1] /\ s.y < frame.rows[s.row + 1]
            /\ frame.cols[s.col + 1] <= Ceil(frame.width, 4 * frame.sb)
            /\ frame.rows[s.row + 1] <= Ceil(frame.height, 4 * frame.sb)
        BY <1>3, PlaceIs
      <3>. QED
        BY ONLY <1>1, <3>1
    <2>. QED
      BY <2>1, <1>1 DEF Superblocks, Here
  <1>. QED
    BY <1>2, <1>3

\* What is listed after a step.
LEMMA UnitsNext ==
  ASSUME frame' = frame, Lists(units', Planes \X Visited(at'))
  PROVE  UnitsInv'
  <1>1. Superblocks' = Superblocks
    BY DEF Superblocks, Ceil
  <1>2. ASSUME NEW u
        PROVE  (Earlier(u, at) \/ u = Here(at))' <=> (Earlier(u, at') \/ u = Here(at'))
    BY DEF Earlier, Here
  <1>3. Visited(at)' = Visited(at')
    BY <1>1, <1>2 DEF Visited
  <1>4. ASSUME NEW p
        PROVE  /\ StepH(p)' = StepH(p) /\ StepV(p)' = StepV(p) /\ SsV(p)' = SsV(p)
               /\ PlaneW(p)' = PlaneW(p) /\ PlaneH(p)' = PlaneH(p) /\ UnitSize(p)' = UnitSize(p)
    BY DEF StepH, StepV, SsH, SsV, PlaneW, PlaneH, UnitSize, Ceil
  <1>5. ASSUME NEW p, NEW j
        PROVE  UnitX(p, j)' = UnitX(p, j) /\ UnitY(p, j)' = UnitY(p, j)
    BY <1>4 DEF UnitX, UnitY
  <1>6. ASSUME NEW p, NEW u
        PROVE  /\ Has(p, u)' <=> Has(p, u)
               /\ UnitOf(p, u)' = UnitOf(p, u)
    BY <1>4, <1>5 DEF Has, HasUnit, UnitOf, UnitAt
  <1>7. Units' = Units
    BY <1>1, <1>6 DEF Units
  <1>8. Lists(units, Planes \X Visited(at))' <=> Lists(units', Planes \X Visited(at'))
    BY <1>3, <1>6, <1>7 DEF Lists
  <1>. QED
    BY <1>8 DEF UnitsInv

\* At the start, the units of the first superblock are read.
LEMMA InitUnits ==
  ASSUME Init
  PROVE  UnitsInv
  <1>1. frame \in Frames /\ at = TileStart(1, 1) /\ units = RestorationUnits(at)
    BY DEF Init
  <1>2. PlaceOK(at) /\ Here(at) \in Superblocks
    <2>1. frame.width \in Nat \ {0} /\ frame.height \in Nat \ {0} /\ frame.sb \in {16, 32}
      BY <1>1, FrameFields
    <2>2. InPicture(<<0, 0>>)
      <3>1. \A a \in Nat \ {0}, b \in {16, 32} : 0 < Ceil(a, 4 * b)
        BY DEF Ceil
      <3>. QED
        BY <2>1, <3>1 DEF InPicture
    <2>. QED
      BY <1>1, <2>2, FirstIs, SuperblocksAre
  <1>3. Lists(<<>>, Planes \X {})
    BY DEF Lists
  <1>4. /\ RestorationUnits(at) \in Seq(Units)
        /\ Lists(<<>> \o RestorationUnits(at), Planes \X ({} \cup {Here(at)}))
    <2>1. {} \in SUBSET Superblocks /\ Here(at) \notin {}
      OBVIOUS
    <2>. QED
      BY <1>1, <1>2, <1>3, <2>1, SuperblockRead, Zenon
  <1>5. <<>> \o RestorationUnits(at) = RestorationUnits(at)
    BY <1>4, ConcatEmptySeq
  <1>6. \A u \in Superblocks : ~Earlier(u, at)
    BY <1>1, FirstIs, SuperblocksAre
  <1>7. Visited(at) = {} \cup {Here(at)}
    BY <1>2, <1>6 DEF Visited
  <1>. QED
    BY <1>1, <1>4, <1>5, <1>7 DEF UnitsInv

\* A superblock that is begun was not begun before.
LEMMA StartReads ==
  ASSUME Inv, UnitsInv, StartSuperblock
  PROVE  UnitsInv'
  <1>1. /\ ~LastSuperblock(at) /\ at' = Following(at) /\ frame' = frame
        /\ units' = units \o RestorationUnits(at')
    BY DEF StartSuperblock
  <1>2. frame \in Frames /\ PlaceOK(at)
    BY TypeGives DEF Inv
  <1>3. /\ PlaceOK(at')
        /\ \A u : InPicture(u) => (Earlier(u, at') <=> (Earlier(u, at) \/ u = Here(at)))
    BY <1>1, <1>2, FollowingIs
  <1>4. Here(at') \in Superblocks
    BY <1>2, <1>3, SuperblocksAre
  <1>5. \A u \in Superblocks : Earlier(u, at') <=> (Earlier(u, at) \/ u = Here(at))
    BY <1>2, <1>3, SuperblocksAre
  <1>6. ~Earlier(Here(at'), at')
    BY <1>2, <1>3, NotEarlier
  <1>7. Here(at') \notin Visited(at)
    BY <1>4, <1>5, <1>6 DEF Visited
  <1>8. Visited(at') = Visited(at) \cup {Here(at')}
    BY <1>4, <1>5 DEF Visited
  <1>9. Visited(at) \in SUBSET Superblocks /\ Lists(units, Planes \X Visited(at))
    BY DEF Visited, UnitsInv
  <1>10. Lists(units \o RestorationUnits(at'), Planes \X (Visited(at) \cup {Here(at')}))
    BY <1>2, <1>4, <1>7, <1>9, SuperblockRead
  <1>. QED
    BY <1>1, <1>8, <1>10, UnitsNext

\* The units read are, of each superblock begun, the one it has.
THEOREM UnitsInvariant == Spec => []UnitsInv
  <1>1. Init => UnitsInv
    BY InitUnits
  <1>2. ASSUME Inv, UnitsInv, [Next]_vars
        PROVE  UnitsInv'
    <2>1. CASE StartSuperblock
      BY <1>2, <2>1, StartReads
    <2>2. CASE ~StartSuperblock
      <3>1. frame' = frame /\ at' = at /\ units' = units
        BY <1>2, <2>2 DEF Next, PassOver, Partition, DecodeBlock, Done, vars
      <3>2. Lists(units', Planes \X Visited(at'))
        BY <1>2, <3>1 DEF UnitsInv
      <3>. QED
        BY <3>1, <3>2, UnitsNext
    <2>. QED
      BY <2>1, <2>2
  <1>. QED
    BY <1>1, <1>2, WalkInvariant, PTL DEF Spec

\* When every superblock was begun, each sample has one unit.
LEMMA InvRestorationTiles ==
  ASSUME Inv, UnitsInv
  PROVE  RestorationTiles
  <1>. SUFFICES ASSUME Finished, NEW p \in Planes,
                       NEW x \in 0 .. PlaneW(p) - 1, NEW y \in 0 .. PlaneH(p) - 1
                PROVE  Cardinality({i \in {i \in 1 .. Len(units) : units[i].plane = p} :
                                      Holds(units[i], x, y)}) = 1
    BY DEF RestorationTiles, Holds
  <1>1. frame \in Frames /\ PlaceOK(at)
    BY TypeGives DEF Inv
  <1>2. Visited(at) = Superblocks
    <2>1. LastSuperblock(at)
      BY DEF Finished
    <2>. QED
      BY <1>1, <2>1, LastIs, SuperblocksAre DEF Visited
  <1>3. Lists(units, Planes \X Superblocks)
    BY <1>2 DEF UnitsInv
  <1>. DEFINE here == {i \in {i \in 1 .. Len(units) : units[i].plane = p} : Holds(units[i], x, y)}
  <1>4. PICK u \in Superblocks : Has(p, u) /\ Holds(UnitOf(p, u), x, y)
    BY <1>1, PlaneCovered
  <1>5. PICK i \in 1 .. Len(units) : units[i] = UnitOf(p, u)
    <2>1. <<p, u>> \in Planes \X Superblocks /\ <<p, u>>[1] = p /\ <<p, u>>[2] = u
      OBVIOUS
    <2>2. \A b \in Planes \X Superblocks : Has(b[1], b[2]) => \E i \in 1 .. Len(units) : units[i] = UnitOf(b[1], b[2])
      BY <1>3 DEF Lists
    <2>. QED
      BY <1>4, <2>1, <2>2
  <1>6. i \in here
    <2>1. UnitOf(p, u).plane = p
      BY <1>1, UnitFields
    <2>. QED
      BY <1>4, <1>5, <2>1
  <1>7. ASSUME NEW j \in here
        PROVE  j = i
    <2>1. j \in 1 .. Len(units) /\ units[j].plane = p /\ Holds(units[j], x, y)
      OBVIOUS
    <2>2. PICK b \in Planes \X Superblocks : Has(b[1], b[2]) /\ units[j] = UnitOf(b[1], b[2])
      BY <1>3, <2>1 DEF Lists
    <2>3. b[1] \in Planes /\ b[2] \in Superblocks
      BY <2>2
    <2>4. UnitOf(b[1], b[2]).plane = b[1]
      BY <1>1, <2>3, UnitFields
    <2>5. b[1] = p
      BY <2>1, <2>2, <2>4
    <2>6. Has(p, b[2]) /\ units[j] = UnitOf(p, b[2])
      BY <2>2, <2>5
    <2>7. b[2] = u
      BY <1>1, <1>4, <2>1, <2>3, <2>6, UnitsApart
    <2>8. units[j] = units[i]
      BY <1>5, <2>6, <2>7
    <2>9. \A k, l \in 1 .. Len(units) : units[k] = units[l] => k = l
      BY <1>3 DEF Lists
    <2>. QED
      BY <1>5, <2>1, <2>8, <2>9
  <1>. HIDE DEF here
  <1>8. here = {i}
    BY <1>6, <1>7
  <1>9. Cardinality(here) = 1
    BY <1>8, FS_Singleton
  <1>. QED
    BY <1>9 DEF here

\* Every sample of every plane has exactly one restoration unit's parameters
\* when the walk ends (decodeRestorationUnits, restorationUnitStartsAt,
\* restorationUnitExtent, restorationUnitYExtent).
THEOREM UnitsTileThePlanes == Spec => []RestorationTiles
  <1>1. Inv /\ UnitsInv => RestorationTiles
    BY InvRestorationTiles
  <1>. QED
    BY <1>1, WalkInvariant, UnitsInvariant, PTL

=============================================================================
