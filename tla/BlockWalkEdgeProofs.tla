------------------------ MODULE BlockWalkEdgeProofs -------------------------
(***************************************************************************)
(* Theorems about BlockWalk: what the partition tree hands down to blocks  *)
(* and transforms about their above-right and below-left neighbours is     *)
(* what the order of the walk makes true, for every frame and partition.   *)
(***************************************************************************)
EXTENDS BlockWalkProofs

-----------------------------------------------------------------------------
(* The neighbours beyond two corners. *)

\* The subsampling of a plane, across and down, with its layout.
Kinds == {<<0, 0, 444>>, <<1, 0, 422>>, <<1, 1, 420>>}
EdgeSides == {"right", "bottom"}

\* Has a rectangle samples of its own in such a plane?
HasArea(it, k) == /\ Wide(it) > k[1] \/ it.x % 2 = 1
                  /\ High(it) > k[2] \/ it.y % 2 = 1

\* The last luma cell of the neighbour above and right, below and left, of a
\* rectangle's area: one that shares its area with the one before starts there.
Back(size, ss) == IF size = 1 /\ ss = 1 THEN 2 ELSE 1
Corner(it, k, side) ==
    IF side = "right" THEN <<it.x + Wide(it) + k[1], it.y - Back(High(it), k[2])>>
    ELSE <<it.x - Back(Wide(it), k[1]), it.y + High(it) + k[2]>>

\* What a node or a block says of that neighbour.
HasFlag(it, k, side) ==
    IF IsNode(it) THEN (IF side = "right" THEN it.right ELSE it.bottom)
    ELSE <<side, k[3]>> \in it.flags

\* It is there if its superblock was begun and nothing to come holds it: what
\* is said of it is right, if it lies in the grid and in the tile.
Begun(c, s) == Earlier(SbOf(c), s) \/ SbOf(c) = Here(s)
ToCome(t, i, c) == \E j \in i .. Len(t) : In(t[j], c)
Reached(c, s) == c \in Cells(Grid(0)) /\ InTile(SbOf(c), s)
Right(c, flag, t, i, s) == Reached(c, s) => (flag <=> ~ToCome(t, i, c) /\ Begun(c, s))
EdgeOK(t, i, s) ==
    \A k \in Kinds : \A side \in EdgeSides :
       HasArea(t[i], k) => Right(Corner(t[i], k, side), HasFlag(t[i], k, side), t, i, s)
EdgeInv == \A i \in 1 .. Len(todo) : EdgeOK(todo, i, at)

-----------------------------------------------------------------------------
(* The corners of the parts of a node. *)

\* Above a rectangle, or left of it; right of it, or below.
Before(n, c) == \/ n.x <= c[1] /\ c[1] < n.x + Wide(n) /\ c[2] < n.y
                \/ n.y <= c[2] /\ c[2] < n.y + High(n) /\ c[1] < n.x
After(n, c) == \/ n.x <= c[1] /\ c[1] < n.x + Wide(n) /\ c[2] >= n.y + High(n)
               \/ n.y <= c[2] /\ c[2] < n.y + High(n) /\ c[1] >= n.x + Wide(n)

\* What a part of n may say of a cell: what n says, of n's own corner; that it
\* is there, above or left of n; that it is not, below or right of n.
Judged(n, k, side, c, flag) ==
    \/ c = Corner(n, k, side) /\ (flag <=> HasFlag(n, k, side))
    \/ Before(n, c) /\ flag
    \/ After(n, c) /\ ~flag
\* Or it is in another part, which comes before or after.
Classified(n, s, i, k, side) ==
    HasArea(s[i], k) =>
       \/ Judged(n, k, side, Corner(s[i], k, side), HasFlag(s[i], k, side))
       \/ \E j \in 1 .. Len(s) : In(s[j], Corner(s[i], k, side)) /\ (HasFlag(s[i], k, side) <=> j < i)
PartsJudged(n, s) ==
    \A i \in 1 .. Len(s) : \A k \in Kinds : \A side \in EdgeSides : Classified(n, s, i, k, side)

\* Does a part that is d into a node reach back to the node's start?
AtStart(d, size, ss) == d = 0 \/ (d = 1 /\ size = 1 /\ ss = 1)

\* The kinds, as numbers.
LEMMA KindIs ==
  ASSUME NEW k \in Kinds
  PROVE  /\ k[1] \in {0, 1} /\ k[2] \in {0, 1}
         /\ k[3] = 420 <=> k[2] = 1
         /\ k[3] = 444 <=> k[1] = 0
         /\ k[3] = 422 <=> (k[1] = 1 /\ k[2] = 0)
         /\ k[3] \in {444, 422, 420}
         /\ k[2] = 1 => k[1] = 1
  BY DEF Kinds

\* Along one axis: how far forward and how far back the corners of a part lie.
AlongAxis(x, S, w, d, ss) ==
    /\ d + w < S => x <= x + d + w + ss /\ x + d + w + ss < x + S
    /\ AtStart(d, w, ss) => x + d - Back(w, ss) = x - 1
    /\ ~AtStart(d, w, ss) => x <= x + d - Back(w, ss) /\ x + d - Back(w, ss) < x + d
    /\ Back(S, ss) = 1

\* What a size divides is even.
LEMMA EvenPlace ==
  ASSUME NEW x \in Nat, NEW S \in {2, 4, 8, 16, 32}, x % S = 0
  PROVE  x % 2 = 0
  OBVIOUS

\* A part ends with the node or a whole unit before it, and reaches back beyond
\* the node's start only from there.
LEMMA CornerAxis ==
  ASSUME NEW x \in Nat, x % 2 = 0, NEW S \in {2, 4, 8, 16, 32}, NEW w \in Sides, NEW d \in Nat,
         d % w = 0, d + w <= S, NEW ss \in {0, 1}, w > ss \/ (x + d) % 2 = 1
  PROVE  AlongAxis(x, S, w, d, ss)
  <1>1. CASE w = 1
    BY <1>1 DEF AlongAxis, AtStart, Back
  <1>2. CASE w # 1
    <2>1. w % 2 = 0 /\ w > 1 /\ w \in Nat
      BY <1>2 DEF Sides
    <2>2. d % 2 = 0
      BY <1>2 DEF Sides
    <2>3. d + w < S => d + w + ss < S
      BY <2>1, <2>2
    <2>. QED
      BY <2>1, <2>2, <2>3 DEF AlongAxis, AtStart, Back
  <1>. QED
    BY <1>1, <1>2

\* So a corner of a part is that of the node, or beside the node, or in it.
LEMMA PartCorner ==
  ASSUME NEW n \in Node, Aligned(n), NEW b \in Items, NEW dx \in Nat, NEW dy \in Nat,
         b.x = n.x + dx, b.y = n.y + dy,
         dx % Wide(b) = 0, dy % High(b) = 0, dx + Wide(b) <= Size(n.bl), dy + High(b) <= Size(n.bl),
         NEW k \in Kinds, HasArea(b, k)
  PROVE  /\ LET c == Corner(b, k, "right")
                end == dx + Wide(b) = Size(n.bl)
                start == AtStart(dy, High(b), k[2])
            IN /\ end /\ start => c = Corner(n, k, "right")
               /\ end /\ ~start => After(n, c)
               /\ ~end /\ start => Before(n, c)
               /\ ~start => n.y <= c[2] /\ c[2] < n.y + dy
               /\ c[1] >= n.x + dx + Wide(b)
               /\ ~end => c[1] < n.x + Size(n.bl)
         /\ LET c == Corner(b, k, "bottom")
                end == dy + High(b) = Size(n.bl)
                start == AtStart(dx, Wide(b), k[1])
            IN /\ end /\ start => c = Corner(n, k, "bottom")
               /\ end /\ ~start => After(n, c)
               /\ ~end /\ start => Before(n, c)
               /\ ~start => n.x <= c[1] /\ c[1] < n.x + dx
               /\ c[2] >= n.y + dy + High(b)
               /\ ~end => c[2] < n.y + Size(n.bl)
  <1>. DEFINE S == Size(n.bl)
              w == Wide(b)
              h == High(b)
  <1>1. /\ n.x \in Nat /\ n.y \in Nat /\ Wide(n) = S /\ High(n) = S /\ S \in {2, 4, 8, 16, 32}
        /\ n.x % S = 0 /\ n.y % S = 0
    BY NodeShape
  <1>2. w \in Sides /\ h \in Sides
    BY ItemIs DEF Items
  <1>3. k[1] \in {0, 1} /\ k[2] \in {0, 1}
    BY KindIs
  <1>4. (w > k[1] \/ (n.x + dx) % 2 = 1) /\ (h > k[2] \/ (n.y + dy) % 2 = 1)
    BY DEF HasArea
  <1>5. dx % w = 0 /\ dy % h = 0 /\ dx + w <= S /\ dy + h <= S
    OBVIOUS
  <1>6. b.x = n.x + dx /\ b.y = n.y + dy
    OBVIOUS
  <1>. HIDE DEF S, w, h
  <1>7. n.x % 2 = 0 /\ n.y % 2 = 0
    BY <1>1, EvenPlace
  <1>8. AlongAxis(n.x, S, w, dx, k[1])
    BY <1>1, <1>2, <1>3, <1>4, <1>5, <1>7, CornerAxis
  <1>9. AlongAxis(n.y, S, h, dy, k[2])
    BY <1>1, <1>2, <1>3, <1>4, <1>5, <1>7, CornerAxis
  <1>10. /\ Corner(b, k, "right") = <<n.x + dx + w + k[1], n.y + dy - Back(h, k[2])>>
         /\ Corner(b, k, "bottom") = <<n.x + dx - Back(w, k[1]), n.y + dy + h + k[2]>>
         /\ Corner(n, k, "right") = <<n.x + S + k[1], n.y - Back(S, k[2])>>
         /\ Corner(n, k, "bottom") = <<n.x - Back(S, k[1]), n.y + S + k[2]>>
    <2>1. Corner(b, k, "right") = <<b.x + w + k[1], b.y - Back(h, k[2])>>
      BY DEF Corner, w, h
    <2>2. Corner(b, k, "bottom") = <<b.x - Back(w, k[1]), b.y + h + k[2]>>
      BY DEF Corner, w, h
    <2>3. Corner(n, k, "right") = <<n.x + S + k[1], n.y - Back(S, k[2])>>
      BY <1>1 DEF Corner
    <2>4. Corner(n, k, "bottom") = <<n.x - Back(S, k[1]), n.y + S + k[2]>>
      BY <1>1 DEF Corner
    <2>. QED
      <3>1. /\ b.x + w + k[1] = n.x + dx + w + k[1] /\ b.y - Back(h, k[2]) = n.y + dy - Back(h, k[2])
            /\ b.x - Back(w, k[1]) = n.x + dx - Back(w, k[1]) /\ b.y + h + k[2] = n.y + dy + h + k[2]
        <4>1. n.x \in Nat /\ n.y \in Nat /\ w \in Nat /\ h \in Nat /\ k[1] \in Nat /\ k[2] \in Nat
          BY <1>1, <1>2, <1>3 DEF Sides
        <4>2. Back(w, k[1]) \in Nat /\ Back(h, k[2]) \in Nat
          BY DEF Back
        <4>. QED
          BY ONLY <1>6, <4>1, <4>2, dx \in Nat, dy \in Nat
      <3>2. Corner(b, k, "right") = <<n.x + dx + w + k[1], n.y + dy - Back(h, k[2])>>
        BY ONLY <2>1, <3>1
      <3>3. Corner(b, k, "bottom") = <<n.x + dx - Back(w, k[1]), n.y + dy + h + k[2]>>
        BY ONLY <2>2, <3>1
      <3>. QED
        BY ONLY <2>3, <2>4, <3>2, <3>3
  <1>11. w \in Nat /\ h \in Nat /\ w > 0 /\ h > 0 /\ S \in Nat
    BY <1>1, <1>2 DEF Sides
  <1>12. n.y <= n.y + dy - Back(h, k[2]) => n.y + dy - Back(h, k[2]) < n.y + S
    BY <1>3, <1>5, <1>11, <1>1 DEF Back
  <1>13. n.x <= n.x + dx - Back(w, k[1]) => n.x + dx - Back(w, k[1]) < n.x + S
    BY <1>3, <1>5, <1>11, <1>1 DEF Back
  <1>. DEFINE c == Corner(b, k, "right")
              e == Corner(b, k, "bottom")
  <1>14. /\ c[1] = n.x + dx + w + k[1] /\ c[2] = n.y + dy - Back(h, k[2])
         /\ e[1] = n.x + dx - Back(w, k[1]) /\ e[2] = n.y + dy + h + k[2]
    BY <1>10
  <1>15. Back(w, k[1]) \in {1, 2} /\ Back(h, k[2]) \in {1, 2}
    BY DEF Back
  <1>16. dx + w = S /\ AtStart(dy, h, k[2]) => c = Corner(n, k, "right")
    <2>. SUFFICES ASSUME dx + w = S, AtStart(dy, h, k[2]) PROVE c = Corner(n, k, "right")
      OBVIOUS
    <2>1. n.x + dx + w + k[1] = n.x + S + k[1]
      BY <1>1, <1>11
    <2>2. n.y + dy - Back(h, k[2]) = n.y - Back(S, k[2])
      BY <1>9 DEF AlongAxis
    <2>. QED
      BY <2>1, <2>2, <1>10
  <1>17. dy + h = S /\ AtStart(dx, w, k[1]) => e = Corner(n, k, "bottom")
    <2>. SUFFICES ASSUME dy + h = S, AtStart(dx, w, k[1]) PROVE e = Corner(n, k, "bottom")
      OBVIOUS
    <2>1. n.y + dy + h + k[2] = n.y + S + k[2]
      BY <1>1, <1>11
    <2>2. n.x + dx - Back(w, k[1]) = n.x - Back(S, k[1])
      BY <1>8 DEF AlongAxis
    <2>. QED
      BY <2>1, <2>2, <1>10
  <1>. HIDE DEF c, e
  <1>18. dx + w = S /\ ~AtStart(dy, h, k[2]) => After(n, c)
    BY ONLY <1>1, <1>3, <1>9, <1>11, <1>12, <1>14, <1>15, dx \in Nat, dy \in Nat DEF After, AlongAxis
  <1>19. dx + w # S /\ AtStart(dy, h, k[2]) => Before(n, c)
    BY ONLY <1>1, <1>3, <1>5, <1>8, <1>9, <1>11, <1>14, <1>15, dx \in Nat, dy \in Nat DEF Before, AlongAxis
  <1>20. dy + h = S /\ ~AtStart(dx, w, k[1]) => After(n, e)
    BY ONLY <1>1, <1>3, <1>8, <1>11, <1>13, <1>14, <1>15, dx \in Nat, dy \in Nat DEF After, AlongAxis
  <1>21. dy + h # S /\ AtStart(dx, w, k[1]) => Before(n, e)
    BY ONLY <1>1, <1>3, <1>5, <1>8, <1>9, <1>11, <1>14, <1>15, dx \in Nat, dy \in Nat DEF Before, AlongAxis
  <1>22. /\ ~AtStart(dy, h, k[2]) => n.y <= c[2] /\ c[2] < n.y + dy
         /\ c[1] >= n.x + dx + w
         /\ dx + w # S => c[1] < n.x + S
         /\ ~AtStart(dx, w, k[1]) => n.x <= e[1] /\ e[1] < n.x + dx
         /\ e[2] >= n.y + dy + h
         /\ dy + h # S => e[2] < n.y + S
    BY ONLY <1>1, <1>3, <1>5, <1>8, <1>9, <1>11, <1>14, <1>15, dx \in Nat, dy \in Nat DEF AlongAxis
  <1>. QED
    BY <1>16, <1>17, <1>18, <1>19, <1>20, <1>21, <1>22 DEF S, w, h, c, e

\* What a part has to say of its upper right corner, d into a node of size S,
\* and of its lower left one, to be right if the node is.
RightSaid(n, dx, dy, w, h, k, f) ==
    /\ dx + w = Size(n.bl) /\ AtStart(dy, h, k[2]) => (f <=> n.right)
    /\ dx + w = Size(n.bl) /\ ~AtStart(dy, h, k[2]) => ~f
    /\ dx + w # Size(n.bl) => AtStart(dy, h, k[2]) /\ f
BottomSaid(n, dx, dy, w, h, k, f) ==
    /\ dy + h = Size(n.bl) /\ AtStart(dx, w, k[1]) => (f <=> n.bottom)
    /\ dy + h = Size(n.bl) /\ ~AtStart(dx, w, k[1]) => ~f
    /\ dy + h # Size(n.bl) => AtStart(dx, w, k[1]) /\ f
Said(n, dx, dy, w, h, k, side, f) ==
    IF side = "right" THEN RightSaid(n, dx, dy, w, h, k, f) ELSE BottomSaid(n, dx, dy, w, h, k, f)

\* What such a part says of either corner is right.
LEMMA PartJudged ==
  ASSUME NEW n \in Node, Aligned(n), NEW b \in Items, NEW dx \in Nat, NEW dy \in Nat,
         b.x = n.x + dx, b.y = n.y + dy,
         dx % Wide(b) = 0, dy % High(b) = 0, dx + Wide(b) <= Size(n.bl), dy + High(b) <= Size(n.bl),
         NEW k \in Kinds, HasArea(b, k), NEW side \in EdgeSides,
         Said(n, dx, dy, Wide(b), High(b), k, side, HasFlag(b, k, side))
  PROVE  Judged(n, k, side, Corner(b, k, side), HasFlag(b, k, side))
  <1>1. HasFlag(n, k, "right") = n.right /\ HasFlag(n, k, "bottom") = n.bottom
    <2>1. IsNode(n)
      BY NodeIs
    <2>. QED
      BY <2>1 DEF HasFlag
  <1>2. CASE side = "right"
    <2>. DEFINE c == Corner(b, k, "right")
                end == dx + Wide(b) = Size(n.bl)
                start == AtStart(dy, High(b), k[2])
                f == HasFlag(b, k, "right")
    <2>1. /\ end /\ start => c = Corner(n, k, "right")
          /\ end /\ ~start => After(n, c)
          /\ ~end /\ start => Before(n, c)
      BY PartCorner
    <2>2. (end /\ start => (f <=> n.right)) /\ (end /\ ~start => ~f) /\ (~end => start /\ f)
      BY <1>2 DEF Said, RightSaid
    <2>. HIDE DEF c, end, start, f
    <2>3. Judged(n, k, "right", c, f)
      BY <2>1, <2>2, <1>1 DEF Judged
    <2>. QED
      BY <2>3, <1>2 DEF c, f
  <1>3. CASE side = "bottom"
    <2>. DEFINE c == Corner(b, k, "bottom")
                end == dy + High(b) = Size(n.bl)
                start == AtStart(dx, Wide(b), k[1])
                f == HasFlag(b, k, "bottom")
    <2>1. /\ end /\ start => c = Corner(n, k, "bottom")
          /\ end /\ ~start => After(n, c)
          /\ ~end /\ start => Before(n, c)
      BY PartCorner
    <2>2. (end /\ start => (f <=> n.bottom)) /\ (end /\ ~start => ~f) /\ (~end => start /\ f)
      BY <1>3 DEF Said, BottomSaid
    <2>. HIDE DEF c, end, start, f
    <2>3. Judged(n, k, "bottom", c, f)
      BY <2>1, <2>2, <1>1 DEF Judged
    <2>. QED
      BY <2>3, <1>3 DEF c, f
  <1>. QED
    BY <1>2, <1>3 DEF EdgeSides

\* The flags handed to blocks, kind by kind.
QuarterH(n) == BottomLeft \cup ((IF n.bl = 3 THEN Flags(n) ELSE {}) \cap {<<"right", 420>>})
QuarterV(n) == TopRight \cup ((IF n.bl = 3 THEN Flags(n) ELSE {}) \cap {<<"bottom", 420>>, <<"bottom", 422>>})
SmallFlags(n, i) ==
    CASE i = 1 -> (Flags(n) \cap TopRight) \cup {<<"bottom", 422>>}
      [] i = 2 -> Flags(n) \cup {<<"right", 444>>}
      [] i = 3 -> Flags(n) \cap {<<"right", 420>>, <<"bottom", 420>>, <<"bottom", 422>>}
FlagFacts(n, k) ==
    LET R == <<"right", k[3]>>
        B == <<"bottom", k[3]>>
    IN /\ R \in AllEdges /\ B \in AllEdges
       /\ R \in TopRight /\ R \notin BottomLeft /\ B \in BottomLeft /\ B \notin TopRight
       /\ R \in Flags(n) <=> n.right
       /\ B \in Flags(n) <=> n.bottom
       /\ R \in HFlags(n, 0) <=> n.right
       /\ B \in HFlags(n, 0)
       /\ R \in HFlags(n, 1) <=> n.right /\ n.bl = 4 /\ k[2] = 1
       /\ B \in HFlags(n, 1) <=> n.bottom
       /\ R \in VFlags(n, 0)
       /\ B \in VFlags(n, 0) <=> n.bottom
       /\ R \in VFlags(n, 1) <=> n.right
       /\ B \in VFlags(n, 1) <=> n.bottom /\ n.bl = 4 /\ k[1] = 1
       /\ R \in QuarterH(n) <=> n.right /\ n.bl = 3 /\ k[2] = 1
       /\ B \in QuarterH(n)
       /\ R \in QuarterV(n)
       /\ B \in QuarterV(n) <=> n.bottom /\ n.bl = 3 /\ k[1] = 1
       /\ R \in SmallFlags(n, 1) <=> n.right
       /\ B \in SmallFlags(n, 1) <=> k[1] = 1 /\ k[2] = 0
       /\ R \in SmallFlags(n, 2) <=> n.right \/ k[1] = 0
       /\ B \in SmallFlags(n, 2) <=> n.bottom
       /\ R \in SmallFlags(n, 3) <=> n.right /\ k[2] = 1
       /\ B \in SmallFlags(n, 3) <=> n.bottom /\ k[1] = 1
\* The sets of flags of the middle quarters and of 4x4 blocks are flags.
LEMMA SmallFlagsAre ==
  ASSUME NEW n
  PROVE  /\ QuarterH(n) \in SUBSET AllEdges /\ QuarterV(n) \in SUBSET AllEdges
         /\ \A i \in {1, 2, 3} : SmallFlags(n, i) \in SUBSET AllEdges
  <1>1. Flags(n) \in SUBSET AllEdges /\ TopRight \in SUBSET AllEdges /\ BottomLeft \in SUBSET AllEdges
    BY FlagsAre
  <1>2. <<"right", 444>> \in AllEdges /\ <<"bottom", 422>> \in AllEdges
    BY EdgesAre
  <1>3. QuarterH(n) \in SUBSET AllEdges /\ QuarterV(n) \in SUBSET AllEdges
    BY <1>1 DEF QuarterH, QuarterV
  <1>4. \A i \in {1, 2, 3} : SmallFlags(n, i) \in SUBSET AllEdges
    BY <1>1, <1>2 DEF SmallFlags
  <1>. QED
    BY <1>3, <1>4

\* What flags each kind of plane finds in them.
LEMMA FlagTable ==
  ASSUME NEW n \in Node, NEW k \in Kinds
  PROVE  FlagFacts(n, k)
  <1>. DEFINE R == <<"right", k[3]>>
              B == <<"bottom", k[3]>>
  <1>1. /\ R = <<"right", 420>> <=> k[2] = 1
        /\ B = <<"bottom", 420>> \/ B = <<"bottom", 422>> <=> k[1] = 1
        /\ B = <<"bottom", 422>> <=> k[1] = 1 /\ k[2] = 0
        /\ R = <<"right", 444>> <=> k[1] = 0
    BY KindIs
  <1>2. R \in TopRight /\ B \in BottomLeft
    BY KindIs DEF TopRight, BottomLeft, Layouts
  <1>3. R \notin BottomLeft /\ B \notin TopRight
    BY DEF TopRight, BottomLeft
  <1>4. <<"right", 420>> \notin BottomLeft /\ R # <<"bottom", 420>> /\ R # <<"bottom", 422>> /\ B # <<"right", 420>>
        /\ B # <<"right", 444>>
    BY DEF BottomLeft
  <1>. HIDE DEF R, B
  <1>5. (R \in Flags(n) <=> n.right) /\ (B \in Flags(n) <=> n.bottom)
    BY <1>2, <1>3 DEF Flags
  <1>6. R \in AllEdges /\ B \in AllEdges
    BY <1>2 DEF AllEdges
  <1>7. (R \in HFlags(n, 0) <=> n.right) /\ B \in HFlags(n, 0)
    BY <1>2, <1>3, <1>5 DEF HFlags
  <1>8. (R \in HFlags(n, 1) <=> n.right /\ n.bl = 4 /\ k[2] = 1) /\ (B \in HFlags(n, 1) <=> n.bottom)
    BY <1>1, <1>2, <1>3, <1>4, <1>5 DEF HFlags
  <1>9. R \in VFlags(n, 0) /\ (B \in VFlags(n, 0) <=> n.bottom)
    BY <1>2, <1>3, <1>5 DEF VFlags
  <1>10. (R \in VFlags(n, 1) <=> n.right) /\ (B \in VFlags(n, 1) <=> n.bottom /\ n.bl = 4 /\ k[1] = 1)
    BY <1>1, <1>2, <1>3, <1>4, <1>5 DEF VFlags
  <1>11. (R \in QuarterH(n) <=> n.right /\ n.bl = 3 /\ k[2] = 1) /\ B \in QuarterH(n)
    BY <1>1, <1>2, <1>3, <1>4, <1>5 DEF QuarterH
  <1>12. R \in QuarterV(n) /\ (B \in QuarterV(n) <=> n.bottom /\ n.bl = 3 /\ k[1] = 1)
    BY <1>1, <1>2, <1>3, <1>4, <1>5 DEF QuarterV
  <1>13. (R \in SmallFlags(n, 1) <=> n.right) /\ (B \in SmallFlags(n, 1) <=> k[1] = 1 /\ k[2] = 0)
    BY <1>1, <1>2, <1>3, <1>4, <1>5 DEF SmallFlags
  <1>14. (R \in SmallFlags(n, 2) <=> n.right \/ k[1] = 0) /\ (B \in SmallFlags(n, 2) <=> n.bottom)
    BY <1>1, <1>2, <1>3, <1>4, <1>5 DEF SmallFlags
  <1>15. (R \in SmallFlags(n, 3) <=> n.right /\ k[2] = 1) /\ (B \in SmallFlags(n, 3) <=> n.bottom /\ k[1] = 1)
    BY <1>1, <1>2, <1>3, <1>4, <1>5 DEF SmallFlags
  <1>. QED
    BY <1>2, <1>3, <1>5, <1>6, <1>7, <1>8, <1>9, <1>10, <1>11, <1>12, <1>13, <1>14, <1>15 DEF R, B, FlagFacts

\* The numbers of a node that its parts are made of.
NodeNumbers(n) ==
    /\ Size(n.bl) \in {2, 4, 8, 16, 32} /\ Size(n.bl) = 2 * Half(n) /\ Half(n) \in Sides
    /\ Half(n) = 1 <=> n.bl = 4
    /\ n.bl \in {1, 2, 3} => /\ Size(n.bl) = 4 * (Size(n.bl) \div 4) /\ Size(n.bl) \div 4 \in Sides
                             /\ Size(n.bl) \div 4 = 1 <=> n.bl = 3
\* The sizes of a node's size and of its parts are those of the table.
LEMMA NodeSizes ==
  ASSUME NEW n \in Node
  PROVE  NodeNumbers(n)
  <1>1. n.bl \in 0 .. 4
    BY NodeIs
  <1>. QED
    BY <1>1, SizeOf DEF NodeNumbers, Half, Sides

\* A rectangle of given sides, at a given place of a node.
Fits(n, dx, dy, w, h) ==
    /\ dx \in Nat /\ dy \in Nat /\ w \in Sides /\ h \in Sides
    /\ dx % w = 0 /\ dy % h = 0 /\ dx + w <= Size(n.bl) /\ dy + h <= Size(n.bl)
ItemAt(n, b, dx, dy, w, h) ==
    /\ b \in Items /\ b.x = n.x + dx /\ b.y = n.y + dy /\ Wide(b) = w /\ High(b) = h
    /\ Fits(n, dx, dy, w, h)

\* A block that fits, and what it says.
LEMMA BlockAt ==
  ASSUME NEW n \in Node, NEW dx, NEW dy, NEW w, NEW h, Fits(n, dx, dy, w, h),
         NEW flags \in SUBSET AllEdges
  PROVE  /\ ItemAt(n, Block(n, dx, dy, w, h, flags), dx, dy, w, h)
         /\ \A k \in Kinds : \A side \in EdgeSides :
              HasFlag(Block(n, dx, dy, w, h, flags), k, side) <=> <<side, k[3]>> \in flags
  <1>. DEFINE b == Block(n, dx, dy, w, h, flags)
  <1>1. dx \in Nat /\ dy \in Nat /\ w \in Sides /\ h \in Sides
    BY DEF Fits
  <1>2. /\ b \in CodedBlock /\ b.x = n.x + dx /\ b.y = n.y + dy
        /\ Wide(b) = w /\ High(b) = h
    BY <1>1, BlockFields
  <1>3. b.flags = flags
    BY DEF Block
  <1>4. ~IsNode(b) /\ b \in Items
    BY <1>2, BlockIs DEF Items
  <1>. HIDE DEF b
  <1>5. \A k \in Kinds : \A side \in EdgeSides : HasFlag(b, k, side) <=> <<side, k[3]>> \in flags
    BY <1>3, <1>4 DEF HasFlag
  <1>6. ItemAt(n, b, dx, dy, w, h)
    BY <1>2, <1>4 DEF ItemAt
  <1>. QED
    BY <1>5, <1>6 DEF b

\* A part that says of a corner beside the node what is right,
LEMMA SaidClassified ==
  ASSUME NEW n \in Node, Aligned(n), NEW s, NEW i \in 1 .. Len(s),
         NEW dx, NEW dy, NEW w, NEW h, ItemAt(n, s[i], dx, dy, w, h),
         NEW k \in Kinds, NEW side \in EdgeSides,
         Said(n, dx, dy, w, h, k, side, HasFlag(s[i], k, side))
  PROVE  Classified(n, s, i, k, side)
  <1>. SUFFICES ASSUME HasArea(s[i], k)
                PROVE  Judged(n, k, side, Corner(s[i], k, side), HasFlag(s[i], k, side))
    BY DEF Classified
  <1>. DEFINE b == s[i]
  <1>1. /\ b \in Items /\ b.x = n.x + dx /\ b.y = n.y + dy /\ Wide(b) = w /\ High(b) = h
        /\ dx \in Nat /\ dy \in Nat
        /\ dx % w = 0 /\ dy % h = 0 /\ dx + w <= Size(n.bl) /\ dy + h <= Size(n.bl)
    BY DEF ItemAt, Fits
  <1>2. HasArea(b, k) /\ Said(n, dx, dy, Wide(b), High(b), k, side, HasFlag(b, k, side))
    BY <1>1
  <1>. HIDE DEF b
  <1>3. Judged(n, k, side, Corner(b, k, side), HasFlag(b, k, side))
    BY <1>1, <1>2, PartJudged
  <1>. QED
    BY <1>3 DEF b

\* A corner's coordinates are numbers.
LEMMA CornerIs ==
  ASSUME NEW b \in Items, NEW k \in Kinds, NEW side \in EdgeSides
  PROVE  Corner(b, k, side)[1] \in Int /\ Corner(b, k, side)[2] \in Int
  <1>1. b.x \in Nat /\ b.y \in Nat /\ Wide(b) \in Nat /\ High(b) \in Nat
    BY ItemIs DEF Items, Sides
  <1>2. k[1] \in Nat /\ k[2] \in Nat
    BY KindIs
  <1>3. Back(High(b), k[2]) \in Nat /\ Back(Wide(b), k[1]) \in Nat
    BY DEF Back
  <1>4. CASE side = "right"
    <2>1. /\ Corner(b, k, side)[1] = b.x + Wide(b) + k[1]
          /\ Corner(b, k, side)[2] = b.y - Back(High(b), k[2])
      BY <1>4 DEF Corner
    <2>. QED
      BY ONLY <1>1, <1>2, <1>3, <2>1
  <1>5. CASE side = "bottom"
    <2>1. /\ Corner(b, k, side)[1] = b.x - Back(Wide(b), k[1])
          /\ Corner(b, k, side)[2] = b.y + High(b) + k[2]
      BY <1>5 DEF Corner
    <2>. QED
      BY ONLY <1>1, <1>2, <1>3, <2>1
  <1>. QED
    BY <1>4, <1>5 DEF EdgeSides

\* Less than a smaller sum.
LEMMA LessPlus == \A x, d, w \in Nat : \A c \in Int : c < x + d /\ d <= w => c < x + w
  OBVIOUS

\* Between two numbers.
LEMMA Between ==
  \A x, d, w, j, jw \in Nat : \A c \in Int :
     (x + d + w <= c /\ c < x + (j + jw) /\ j <= d + w) => (x + j <= c /\ c < x + j + jw)
  OBVIOUS

\* or of one in another part, whether that came before.
Beyond(n, dx, dy, w, h, k, side, jx, jy, jw, jh) ==
    IF side = "right"
    THEN /\ dx + w # Size(n.bl) /\ ~AtStart(dy, h, k[2])
         /\ jx <= dx + w /\ jx + jw = Size(n.bl) /\ jy = 0 /\ dy <= jh
    ELSE /\ dy + h # Size(n.bl) /\ ~AtStart(dx, w, k[1])
         /\ jy <= dy + h /\ jy + jh = Size(n.bl) /\ jx = 0 /\ dx <= jw
\* A corner that another part of the node has is rightly told of: the flag
\* says whether that part comes earlier.
LEMMA InsideClassified ==
  ASSUME NEW n \in Node, Aligned(n), NEW s, NEW i \in 1 .. Len(s), NEW j \in 1 .. Len(s),
         NEW dx, NEW dy, NEW w, NEW h, ItemAt(n, s[i], dx, dy, w, h),
         NEW jx, NEW jy, NEW jw, NEW jh, ItemAt(n, s[j], jx, jy, jw, jh),
         NEW k \in Kinds, NEW side \in EdgeSides, Beyond(n, dx, dy, w, h, k, side, jx, jy, jw, jh),
         HasFlag(s[i], k, side) <=> j < i
  PROVE  Classified(n, s, i, k, side)
  <1>. SUFFICES ASSUME HasArea(s[i], k)
                PROVE  In(s[j], Corner(s[i], k, side))
    BY DEF Classified
  <1>. DEFINE b == s[i]
              a == s[j]
  <1>1. /\ b \in Items /\ b.x = n.x + dx /\ b.y = n.y + dy /\ Wide(b) = w /\ High(b) = h
        /\ dx \in Nat /\ dy \in Nat
        /\ dx % w = 0 /\ dy % h = 0 /\ dx + w <= Size(n.bl) /\ dy + h <= Size(n.bl)
    BY DEF ItemAt, Fits
  <1>2. /\ a.x = n.x + jx /\ a.y = n.y + jy /\ Wide(a) = jw /\ High(a) = jh
        /\ jx \in Nat /\ jy \in Nat /\ jw \in Nat /\ jh \in Nat /\ w \in Nat /\ h \in Nat
        /\ n.x \in Nat /\ n.y \in Nat /\ Size(n.bl) \in Nat
    <2>1. /\ a.x = n.x + jx /\ a.y = n.y + jy /\ Wide(a) = jw /\ High(a) = jh
          /\ jx \in Nat /\ jy \in Nat /\ jw \in Sides /\ jh \in Sides /\ w \in Sides /\ h \in Sides
      BY DEF ItemAt, Fits
    <2>2. n.x \in Nat /\ n.y \in Nat /\ Size(n.bl) \in {2, 4, 8, 16, 32}
      BY NodeShape
    <2>3. \A v \in Sides : v \in Nat
      BY DEF Sides
    <2>4. Size(n.bl) \in Nat
      BY ONLY <2>2
    <2>. QED
      BY ONLY <2>1, <2>2, <2>3, <2>4
  <1>3. HasArea(b, k)
    OBVIOUS
  <1>6. /\ dx % Wide(b) = 0 /\ dy % High(b) = 0
        /\ dx + Wide(b) <= Size(n.bl) /\ dy + High(b) <= Size(n.bl)
    BY <1>1
  <1>7. dx \in Nat /\ dy \in Nat
    BY <1>1
  <1>. HIDE DEF a, b
  <1>4. CASE side = "right"
    <2>1. /\ dx + w # Size(n.bl) /\ ~AtStart(dy, h, k[2])
          /\ jx <= dx + w /\ jx + jw = Size(n.bl) /\ jy = 0 /\ dy <= jh
      BY <1>4 DEF Beyond
    <2>. DEFINE c == Corner(b, k, "right")
    <2>2. /\ ~AtStart(dy, High(b), k[2]) => n.y <= c[2] /\ c[2] < n.y + dy
          /\ c[1] >= n.x + dx + Wide(b)
          /\ dx + Wide(b) # Size(n.bl) => c[1] < n.x + Size(n.bl)
      BY <1>1, <1>3, <1>6, PartCorner
    <2>4. c[1] \in Int /\ c[2] \in Int
      BY <1>1, CornerIs DEF EdgeSides
    <2>. HIDE DEF c
    <2>5. In(a, c)
      <3>1. /\ n.y <= c[2] /\ c[2] < n.y + dy /\ c[1] >= n.x + dx + w
            /\ c[1] < n.x + Size(n.bl)
        BY ONLY <1>1, <2>1, <2>2, Zenon
      <3>2. /\ n.x + jx <= c[1] /\ c[1] < n.x + jx + jw
            /\ n.y + jy <= c[2] /\ c[2] < n.y + jy + jh
        <4>1. n.x + jx <= c[1] /\ c[1] < n.x + jx + jw
          BY ONLY <1>2, <1>7, <2>1, <2>4, <3>1, Between
        <4>2. n.y + jy <= c[2] /\ c[2] < n.y + jy + jh
          <5>1. jy = 0 /\ dy <= jh /\ jh \in Nat
            BY ONLY <1>2, <2>1
          <5>2. n.y \in Nat /\ c[2] \in Int /\ dy \in Nat /\ n.y <= c[2] /\ c[2] < n.y + dy
            BY ONLY <1>2, <1>7, <2>4, <3>1
          <5>3. n.y <= c[2] /\ c[2] < n.y + jh
            BY ONLY <5>1, <5>2, LessPlus, Zenon
          <5>4. n.y + jy = n.y
            BY ONLY <5>1, <5>2
          <5>. QED
            BY ONLY <5>3, <5>4
        <4>. QED
          BY ONLY <4>1, <4>2
      <3>. QED
        BY ONLY <1>2, <3>2 DEF In
    <2>. QED
      BY <2>5, <1>4 DEF c, a, b
  <1>5. CASE side = "bottom"
    <2>1. /\ dy + h # Size(n.bl) /\ ~AtStart(dx, w, k[1])
          /\ jy <= dy + h /\ jy + jh = Size(n.bl) /\ jx = 0 /\ dx <= jw
      BY <1>5 DEF Beyond
    <2>. DEFINE c == Corner(b, k, "bottom")
    <2>2. /\ ~AtStart(dx, Wide(b), k[1]) => n.x <= c[1] /\ c[1] < n.x + dx
          /\ c[2] >= n.y + dy + High(b)
          /\ dy + High(b) # Size(n.bl) => c[2] < n.y + Size(n.bl)
      BY <1>1, <1>3, <1>6, PartCorner
    <2>4. c[1] \in Int /\ c[2] \in Int
      BY <1>1, CornerIs DEF EdgeSides
    <2>. HIDE DEF c
    <2>5. In(a, c)
      <3>1. /\ n.x <= c[1] /\ c[1] < n.x + dx /\ c[2] >= n.y + dy + h
            /\ c[2] < n.y + Size(n.bl)
        BY ONLY <1>1, <2>1, <2>2, Zenon
      <3>2. /\ n.x + jx <= c[1] /\ c[1] < n.x + jx + jw
            /\ n.y + jy <= c[2] /\ c[2] < n.y + jy + jh
        <4>1. n.x + jx <= c[1] /\ c[1] < n.x + jx + jw
          <5>1. jx = 0 /\ dx <= jw /\ jw \in Nat
            BY ONLY <1>2, <2>1
          <5>2. n.x \in Nat /\ c[1] \in Int /\ dx \in Nat /\ n.x <= c[1] /\ c[1] < n.x + dx
            BY ONLY <1>2, <1>7, <2>4, <3>1
          <5>3. n.x <= c[1] /\ c[1] < n.x + jw
            BY ONLY <5>1, <5>2, LessPlus, Zenon
          <5>4. n.x + jx = n.x
            BY ONLY <5>1, <5>2
          <5>. QED
            BY ONLY <5>3, <5>4
        <4>2. n.y + jy <= c[2] /\ c[2] < n.y + jy + jh
          BY ONLY <1>2, <1>7, <2>1, <2>4, <3>1, Between
        <4>. QED
          BY ONLY <4>1, <4>2
      <3>. QED
        BY ONLY <1>2, <3>2 DEF In
    <2>. QED
      BY <2>5, <1>5 DEF c, a, b
  <1>. QED
    BY <1>4, <1>5 DEF EdgeSides

\* A node that is not cut.
LEMMA NoneJudged ==
  ASSUME NEW n \in Node, Aligned(n)
  PROVE  PartsJudged(n, Parts(n, "None"))
  <1>. DEFINE a == Block(n, 0, 0, Size(n.bl), Size(n.bl), Flags(n))
              t == <<a>>
  <1>1. Parts(n, "None") = t
    BY DEF Parts, Blocks
  <1>2. Len(t) = 1 /\ t[1] = a
    OBVIOUS
  <1>3. 1 .. Len(t) = {1}
    BY <1>2
  <1>4. NodeNumbers(n)
    BY NodeSizes
  <1>5. /\ ItemAt(n, t[1], 0, 0, Size(n.bl), Size(n.bl))
        /\ \A k \in Kinds : \A side \in EdgeSides : HasFlag(t[1], k, side) <=> <<side, k[3]>> \in Flags(n)
    <2>1. Fits(n, 0, 0, Size(n.bl), Size(n.bl))
      BY <1>4 DEF NodeNumbers, Fits, Sides
    <2>2. Flags(n) \in SUBSET AllEdges
      BY FlagsAre
    <2>. HIDE DEF t
    <2>3. /\ ItemAt(n, a, 0, 0, Size(n.bl), Size(n.bl))
          /\ \A k \in Kinds : \A side \in EdgeSides : HasFlag(a, k, side) <=> <<side, k[3]>> \in Flags(n)
      BY <2>1, <2>2, BlockAt
    <2>. HIDE DEF a
    <2>. QED
      BY <1>2, <2>3, Zenon
  <1>. HIDE DEF a, t
  <1>6. ASSUME NEW k \in Kinds, NEW side \in EdgeSides
        PROVE  Classified(n, t, 1, k, side)
    <2>1. FlagFacts(n, k) /\ k[1] \in {0, 1} /\ k[2] \in {0, 1}
      BY FlagTable, KindIs
    <2>2. HasFlag(t[1], k, side) <=> <<side, k[3]>> \in Flags(n)
      BY <1>5, Zenon
    <2>3. CASE side = "right"
      <3>1. RightSaid(n, 0, 0, Size(n.bl), Size(n.bl), k, <<"right", k[3]>> \in Flags(n))
        BY <2>1, <1>4 DEF NodeNumbers, FlagFacts, Sides, RightSaid, AtStart
      <3>2. Said(n, 0, 0, Size(n.bl), Size(n.bl), k, side, HasFlag(t[1], k, side))
        BY <2>2, <2>3, <3>1 DEF Said, RightSaid
      <3>. QED
        BY <1>3, <1>5, <3>2, SaidClassified
    <2>4. CASE side = "bottom"
      <3>1. BottomSaid(n, 0, 0, Size(n.bl), Size(n.bl), k, <<"bottom", k[3]>> \in Flags(n))
        BY <2>1, <1>4 DEF NodeNumbers, FlagFacts, Sides, BottomSaid, AtStart
      <3>2. Said(n, 0, 0, Size(n.bl), Size(n.bl), k, side, HasFlag(t[1], k, side))
        BY <2>2, <2>4, <3>1 DEF Said, BottomSaid
      <3>. QED
        BY <1>3, <1>5, <3>2, SaidClassified
    <2>. QED
      BY <2>3, <2>4 DEF EdgeSides
  <1>. QED
    BY <1>1, <1>3, <1>6 DEF PartsJudged

\* Cut once across.
LEMMA HJudged ==
  ASSUME NEW n \in Node, Aligned(n)
  PROVE  PartsJudged(n, Parts(n, "H"))
  <1>. DEFINE a == Block(n, 0, 0, Size(n.bl), Half(n), HFlags(n, 0))
              b == Block(n, 0, Half(n), Size(n.bl), Half(n), HFlags(n, 1))
              t == <<a, b>>
  <1>1. Parts(n, "H") = t
    BY DEF Parts, Blocks
  <1>2. Len(t) = 2 /\ t[1] = a /\ t[2] = b
    OBVIOUS
  <1>3. 1 .. Len(t) = {1, 2}
    BY <1>2
  <1>4. NodeNumbers(n)
    BY NodeSizes
  <1>5. /\ ItemAt(n, t[1], 0, 0, Size(n.bl), Half(n))
        /\ \A k \in Kinds : \A side \in EdgeSides : HasFlag(t[1], k, side) <=> <<side, k[3]>> \in HFlags(n, 0)
    <2>1. Fits(n, 0, 0, Size(n.bl), Half(n))
      BY <1>4 DEF NodeNumbers, Fits, Sides
    <2>2. HFlags(n, 0) \in SUBSET AllEdges
      BY FlagsAre
    <2>. HIDE DEF t
    <2>3. /\ ItemAt(n, a, 0, 0, Size(n.bl), Half(n))
          /\ \A k \in Kinds : \A side \in EdgeSides : HasFlag(a, k, side) <=> <<side, k[3]>> \in HFlags(n, 0)
      BY <2>1, <2>2, BlockAt
    <2>. HIDE DEF a
    <2>. QED
      BY <1>2, <2>3, Zenon
  <1>6. /\ ItemAt(n, t[2], 0, Half(n), Size(n.bl), Half(n))
        /\ \A k \in Kinds : \A side \in EdgeSides : HasFlag(t[2], k, side) <=> <<side, k[3]>> \in HFlags(n, 1)
    <2>1. Fits(n, 0, Half(n), Size(n.bl), Half(n))
      BY <1>4 DEF NodeNumbers, Fits, Sides
    <2>2. HFlags(n, 1) \in SUBSET AllEdges
      BY FlagsAre
    <2>. HIDE DEF t
    <2>3. /\ ItemAt(n, b, 0, Half(n), Size(n.bl), Half(n))
          /\ \A k \in Kinds : \A side \in EdgeSides : HasFlag(b, k, side) <=> <<side, k[3]>> \in HFlags(n, 1)
      BY <2>1, <2>2, BlockAt
    <2>. HIDE DEF b
    <2>. QED
      BY <1>2, <2>3, Zenon
  <1>. HIDE DEF a, b, t
  <1>7. ASSUME NEW k \in Kinds, NEW side \in EdgeSides
        PROVE  Classified(n, t, 1, k, side)
    <2>1. FlagFacts(n, k) /\ k[1] \in {0, 1} /\ k[2] \in {0, 1}
      BY FlagTable, KindIs
    <2>2. HasFlag(t[1], k, side) <=> <<side, k[3]>> \in HFlags(n, 0)
      BY <1>5, Zenon
    <2>3. CASE side = "right"
      <3>1. RightSaid(n, 0, 0, Size(n.bl), Half(n), k, <<"right", k[3]>> \in HFlags(n, 0))
        BY <2>1, <1>4 DEF NodeNumbers, FlagFacts, Sides, RightSaid, AtStart
      <3>2. Said(n, 0, 0, Size(n.bl), Half(n), k, side, HasFlag(t[1], k, side))
        BY <2>2, <2>3, <3>1 DEF Said, RightSaid
      <3>. QED
        BY <1>3, <1>5, <3>2, SaidClassified
    <2>4. CASE side = "bottom"
      <3>1. BottomSaid(n, 0, 0, Size(n.bl), Half(n), k, <<"bottom", k[3]>> \in HFlags(n, 0))
        BY <2>1, <1>4 DEF NodeNumbers, FlagFacts, Sides, BottomSaid, AtStart
      <3>2. Said(n, 0, 0, Size(n.bl), Half(n), k, side, HasFlag(t[1], k, side))
        BY <2>2, <2>4, <3>1 DEF Said, BottomSaid
      <3>. QED
        BY <1>3, <1>5, <3>2, SaidClassified
    <2>. QED
      BY <2>3, <2>4 DEF EdgeSides
  <1>8. ASSUME NEW k \in Kinds, NEW side \in EdgeSides
        PROVE  Classified(n, t, 2, k, side)
    <2>1. FlagFacts(n, k) /\ k[1] \in {0, 1} /\ k[2] \in {0, 1}
      BY FlagTable, KindIs
    <2>2. HasFlag(t[2], k, side) <=> <<side, k[3]>> \in HFlags(n, 1)
      BY <1>6, Zenon
    <2>3. CASE side = "right"
      <3>1. RightSaid(n, 0, Half(n), Size(n.bl), Half(n), k, <<"right", k[3]>> \in HFlags(n, 1))
        BY <2>1, <1>4 DEF NodeNumbers, FlagFacts, Sides, RightSaid, AtStart
      <3>2. Said(n, 0, Half(n), Size(n.bl), Half(n), k, side, HasFlag(t[2], k, side))
        BY <2>2, <2>3, <3>1 DEF Said, RightSaid
      <3>. QED
        BY <1>3, <1>6, <3>2, SaidClassified
    <2>4. CASE side = "bottom"
      <3>1. BottomSaid(n, 0, Half(n), Size(n.bl), Half(n), k, <<"bottom", k[3]>> \in HFlags(n, 1))
        BY <2>1, <1>4 DEF NodeNumbers, FlagFacts, Sides, BottomSaid, AtStart
      <3>2. Said(n, 0, Half(n), Size(n.bl), Half(n), k, side, HasFlag(t[2], k, side))
        BY <2>2, <2>4, <3>1 DEF Said, BottomSaid
      <3>. QED
        BY <1>3, <1>6, <3>2, SaidClassified
    <2>. QED
      BY <2>3, <2>4 DEF EdgeSides
  <1>. QED
    BY <1>1, <1>3, <1>7, <1>8 DEF PartsJudged

\* Cut once down.
LEMMA VJudged ==
  ASSUME NEW n \in Node, Aligned(n)
  PROVE  PartsJudged(n, Parts(n, "V"))
  <1>. DEFINE a == Block(n, 0, 0, Half(n), Size(n.bl), VFlags(n, 0))
              b == Block(n, Half(n), 0, Half(n), Size(n.bl), VFlags(n, 1))
              t == <<a, b>>
  <1>1. Parts(n, "V") = t
    BY DEF Parts, Blocks
  <1>2. Len(t) = 2 /\ t[1] = a /\ t[2] = b
    OBVIOUS
  <1>3. 1 .. Len(t) = {1, 2}
    BY <1>2
  <1>4. NodeNumbers(n)
    BY NodeSizes
  <1>5. /\ ItemAt(n, t[1], 0, 0, Half(n), Size(n.bl))
        /\ \A k \in Kinds : \A side \in EdgeSides : HasFlag(t[1], k, side) <=> <<side, k[3]>> \in VFlags(n, 0)
    <2>1. Fits(n, 0, 0, Half(n), Size(n.bl))
      BY <1>4 DEF NodeNumbers, Fits, Sides
    <2>2. VFlags(n, 0) \in SUBSET AllEdges
      BY FlagsAre
    <2>. HIDE DEF t
    <2>3. /\ ItemAt(n, a, 0, 0, Half(n), Size(n.bl))
          /\ \A k \in Kinds : \A side \in EdgeSides : HasFlag(a, k, side) <=> <<side, k[3]>> \in VFlags(n, 0)
      BY <2>1, <2>2, BlockAt
    <2>. HIDE DEF a
    <2>. QED
      BY <1>2, <2>3, Zenon
  <1>6. /\ ItemAt(n, t[2], Half(n), 0, Half(n), Size(n.bl))
        /\ \A k \in Kinds : \A side \in EdgeSides : HasFlag(t[2], k, side) <=> <<side, k[3]>> \in VFlags(n, 1)
    <2>1. Fits(n, Half(n), 0, Half(n), Size(n.bl))
      BY <1>4 DEF NodeNumbers, Fits, Sides
    <2>2. VFlags(n, 1) \in SUBSET AllEdges
      BY FlagsAre
    <2>. HIDE DEF t
    <2>3. /\ ItemAt(n, b, Half(n), 0, Half(n), Size(n.bl))
          /\ \A k \in Kinds : \A side \in EdgeSides : HasFlag(b, k, side) <=> <<side, k[3]>> \in VFlags(n, 1)
      BY <2>1, <2>2, BlockAt
    <2>. HIDE DEF b
    <2>. QED
      BY <1>2, <2>3, Zenon
  <1>. HIDE DEF a, b, t
  <1>7. ASSUME NEW k \in Kinds, NEW side \in EdgeSides
        PROVE  Classified(n, t, 1, k, side)
    <2>1. FlagFacts(n, k) /\ k[1] \in {0, 1} /\ k[2] \in {0, 1}
      BY FlagTable, KindIs
    <2>2. HasFlag(t[1], k, side) <=> <<side, k[3]>> \in VFlags(n, 0)
      BY <1>5, Zenon
    <2>3. CASE side = "right"
      <3>1. RightSaid(n, 0, 0, Half(n), Size(n.bl), k, <<"right", k[3]>> \in VFlags(n, 0))
        BY <2>1, <1>4 DEF NodeNumbers, FlagFacts, Sides, RightSaid, AtStart
      <3>2. Said(n, 0, 0, Half(n), Size(n.bl), k, side, HasFlag(t[1], k, side))
        BY <2>2, <2>3, <3>1 DEF Said, RightSaid
      <3>. QED
        BY <1>3, <1>5, <3>2, SaidClassified
    <2>4. CASE side = "bottom"
      <3>1. BottomSaid(n, 0, 0, Half(n), Size(n.bl), k, <<"bottom", k[3]>> \in VFlags(n, 0))
        BY <2>1, <1>4 DEF NodeNumbers, FlagFacts, Sides, BottomSaid, AtStart
      <3>2. Said(n, 0, 0, Half(n), Size(n.bl), k, side, HasFlag(t[1], k, side))
        BY <2>2, <2>4, <3>1 DEF Said, BottomSaid
      <3>. QED
        BY <1>3, <1>5, <3>2, SaidClassified
    <2>. QED
      BY <2>3, <2>4 DEF EdgeSides
  <1>8. ASSUME NEW k \in Kinds, NEW side \in EdgeSides
        PROVE  Classified(n, t, 2, k, side)
    <2>1. FlagFacts(n, k) /\ k[1] \in {0, 1} /\ k[2] \in {0, 1}
      BY FlagTable, KindIs
    <2>2. HasFlag(t[2], k, side) <=> <<side, k[3]>> \in VFlags(n, 1)
      BY <1>6, Zenon
    <2>3. CASE side = "right"
      <3>1. RightSaid(n, Half(n), 0, Half(n), Size(n.bl), k, <<"right", k[3]>> \in VFlags(n, 1))
        BY <2>1, <1>4 DEF NodeNumbers, FlagFacts, Sides, RightSaid, AtStart
      <3>2. Said(n, Half(n), 0, Half(n), Size(n.bl), k, side, HasFlag(t[2], k, side))
        BY <2>2, <2>3, <3>1 DEF Said, RightSaid
      <3>. QED
        BY <1>3, <1>6, <3>2, SaidClassified
    <2>4. CASE side = "bottom"
      <3>1. BottomSaid(n, Half(n), 0, Half(n), Size(n.bl), k, <<"bottom", k[3]>> \in VFlags(n, 1))
        BY <2>1, <1>4 DEF NodeNumbers, FlagFacts, Sides, BottomSaid, AtStart
      <3>2. Said(n, Half(n), 0, Half(n), Size(n.bl), k, side, HasFlag(t[2], k, side))
        BY <2>2, <2>4, <3>1 DEF Said, BottomSaid
      <3>. QED
        BY <1>3, <1>6, <3>2, SaidClassified
    <2>. QED
      BY <2>3, <2>4 DEF EdgeSides
  <1>. QED
    BY <1>1, <1>3, <1>7, <1>8 DEF PartsJudged

\* Two blocks above one: the right one has the lower one below left, to come.
LEMMA TTopJudged ==
  ASSUME NEW n \in Node, Aligned(n), n.bl # 4
  PROVE  PartsJudged(n, Parts(n, "TTop"))
  <1>. DEFINE a == Block(n, 0, 0, Half(n), Half(n), AllEdges)
              b == Block(n, Half(n), 0, Half(n), Half(n), VFlags(n, 1))
              c == Block(n, 0, Half(n), Size(n.bl), Half(n), HFlags(n, 1))
              t == <<a, b, c>>
  <1>1. Parts(n, "TTop") = t
    BY DEF Parts, Blocks, TBlocks
  <1>2. Len(t) = 3 /\ t[1] = a /\ t[2] = b /\ t[3] = c
    OBVIOUS
  <1>3. 1 .. Len(t) = {1, 2, 3}
    BY <1>2
  <1>4. NodeNumbers(n)
    BY NodeSizes
  <1>5. /\ ItemAt(n, t[1], 0, 0, Half(n), Half(n))
        /\ \A k \in Kinds : \A side \in EdgeSides : HasFlag(t[1], k, side) <=> <<side, k[3]>> \in AllEdges
    <2>1. Fits(n, 0, 0, Half(n), Half(n))
      BY <1>4 DEF NodeNumbers, Fits, Sides
    <2>2. AllEdges \in SUBSET AllEdges
      BY FlagsAre, EdgesAre, SmallFlagsAre
    <2>. HIDE DEF t
    <2>3. /\ ItemAt(n, a, 0, 0, Half(n), Half(n))
          /\ \A k \in Kinds : \A side \in EdgeSides : HasFlag(a, k, side) <=> <<side, k[3]>> \in AllEdges
      BY <2>1, <2>2, BlockAt
    <2>. HIDE DEF a
    <2>. QED
      BY <1>2, <2>3, Zenon
  <1>6. /\ ItemAt(n, t[2], Half(n), 0, Half(n), Half(n))
        /\ \A k \in Kinds : \A side \in EdgeSides : HasFlag(t[2], k, side) <=> <<side, k[3]>> \in VFlags(n, 1)
    <2>1. Fits(n, Half(n), 0, Half(n), Half(n))
      BY <1>4 DEF NodeNumbers, Fits, Sides
    <2>2. VFlags(n, 1) \in SUBSET AllEdges
      BY FlagsAre
    <2>. HIDE DEF t
    <2>3. /\ ItemAt(n, b, Half(n), 0, Half(n), Half(n))
          /\ \A k \in Kinds : \A side \in EdgeSides : HasFlag(b, k, side) <=> <<side, k[3]>> \in VFlags(n, 1)
      BY <2>1, <2>2, BlockAt
    <2>. HIDE DEF b
    <2>. QED
      BY <1>2, <2>3, Zenon
  <1>7. /\ ItemAt(n, t[3], 0, Half(n), Size(n.bl), Half(n))
        /\ \A k \in Kinds : \A side \in EdgeSides : HasFlag(t[3], k, side) <=> <<side, k[3]>> \in HFlags(n, 1)
    <2>1. Fits(n, 0, Half(n), Size(n.bl), Half(n))
      BY <1>4 DEF NodeNumbers, Fits, Sides
    <2>2. HFlags(n, 1) \in SUBSET AllEdges
      BY FlagsAre
    <2>. HIDE DEF t
    <2>3. /\ ItemAt(n, c, 0, Half(n), Size(n.bl), Half(n))
          /\ \A k \in Kinds : \A side \in EdgeSides : HasFlag(c, k, side) <=> <<side, k[3]>> \in HFlags(n, 1)
      BY <2>1, <2>2, BlockAt
    <2>. HIDE DEF c
    <2>. QED
      BY <1>2, <2>3, Zenon
  <1>. HIDE DEF a, b, c, t
  <1>8. ASSUME NEW k \in Kinds, NEW side \in EdgeSides
        PROVE  Classified(n, t, 1, k, side)
    <2>1. FlagFacts(n, k) /\ k[1] \in {0, 1} /\ k[2] \in {0, 1}
      BY FlagTable, KindIs
    <2>2. HasFlag(t[1], k, side) <=> <<side, k[3]>> \in AllEdges
      BY <1>5, Zenon
    <2>3. CASE side = "right"
      <3>1. RightSaid(n, 0, 0, Half(n), Half(n), k, <<"right", k[3]>> \in AllEdges)
        BY <2>1, <1>4 DEF NodeNumbers, FlagFacts, Sides, RightSaid, AtStart
      <3>2. Said(n, 0, 0, Half(n), Half(n), k, side, HasFlag(t[1], k, side))
        BY <2>2, <2>3, <3>1 DEF Said, RightSaid
      <3>. QED
        BY <1>3, <1>5, <3>2, SaidClassified
    <2>4. CASE side = "bottom"
      <3>1. BottomSaid(n, 0, 0, Half(n), Half(n), k, <<"bottom", k[3]>> \in AllEdges)
        BY <2>1, <1>4 DEF NodeNumbers, FlagFacts, Sides, BottomSaid, AtStart
      <3>2. Said(n, 0, 0, Half(n), Half(n), k, side, HasFlag(t[1], k, side))
        BY <2>2, <2>4, <3>1 DEF Said, BottomSaid
      <3>. QED
        BY <1>3, <1>5, <3>2, SaidClassified
    <2>. QED
      BY <2>3, <2>4 DEF EdgeSides
  <1>9. ASSUME NEW k \in Kinds, NEW side \in EdgeSides
        PROVE  Classified(n, t, 2, k, side)
    <2>1. FlagFacts(n, k) /\ k[1] \in {0, 1} /\ k[2] \in {0, 1}
      BY FlagTable, KindIs
    <2>2. HasFlag(t[2], k, side) <=> <<side, k[3]>> \in VFlags(n, 1)
      BY <1>6, Zenon
    <2>3. CASE side = "right"
      <3>1. RightSaid(n, Half(n), 0, Half(n), Half(n), k, <<"right", k[3]>> \in VFlags(n, 1))
        BY <2>1, <1>4 DEF NodeNumbers, FlagFacts, Sides, RightSaid, AtStart
      <3>2. Said(n, Half(n), 0, Half(n), Half(n), k, side, HasFlag(t[2], k, side))
        BY <2>2, <2>3, <3>1 DEF Said, RightSaid
      <3>. QED
        BY <1>3, <1>6, <3>2, SaidClassified
    <2>4. CASE side = "bottom"
      <3>1. Beyond(n, Half(n), 0, Half(n), Half(n), k, side, 0, Half(n), Size(n.bl), Half(n))
        BY <2>4, <1>4 DEF NodeNumbers, Sides, Beyond, AtStart
      <3>2. HasFlag(t[2], k, side) <=> 3 < 2
        BY <2>1, <2>2, <2>4 DEF FlagFacts
      <3>. QED
        BY <1>3, <1>6, <1>7, <3>1, <3>2, InsideClassified
    <2>. QED
      BY <2>3, <2>4 DEF EdgeSides
  <1>10. ASSUME NEW k \in Kinds, NEW side \in EdgeSides
        PROVE  Classified(n, t, 3, k, side)
    <2>1. FlagFacts(n, k) /\ k[1] \in {0, 1} /\ k[2] \in {0, 1}
      BY FlagTable, KindIs
    <2>2. HasFlag(t[3], k, side) <=> <<side, k[3]>> \in HFlags(n, 1)
      BY <1>7, Zenon
    <2>3. CASE side = "right"
      <3>1. RightSaid(n, 0, Half(n), Size(n.bl), Half(n), k, <<"right", k[3]>> \in HFlags(n, 1))
        BY <2>1, <1>4 DEF NodeNumbers, FlagFacts, Sides, RightSaid, AtStart
      <3>2. Said(n, 0, Half(n), Size(n.bl), Half(n), k, side, HasFlag(t[3], k, side))
        BY <2>2, <2>3, <3>1 DEF Said, RightSaid
      <3>. QED
        BY <1>3, <1>7, <3>2, SaidClassified
    <2>4. CASE side = "bottom"
      <3>1. BottomSaid(n, 0, Half(n), Size(n.bl), Half(n), k, <<"bottom", k[3]>> \in HFlags(n, 1))
        BY <2>1, <1>4 DEF NodeNumbers, FlagFacts, Sides, BottomSaid, AtStart
      <3>2. Said(n, 0, Half(n), Size(n.bl), Half(n), k, side, HasFlag(t[3], k, side))
        BY <2>2, <2>4, <3>1 DEF Said, BottomSaid
      <3>. QED
        BY <1>3, <1>7, <3>2, SaidClassified
    <2>. QED
      BY <2>3, <2>4 DEF EdgeSides
  <1>. QED
    BY <1>1, <1>3, <1>8, <1>9, <1>10 DEF PartsJudged

\* One block above two: the left one has it above right.
LEMMA TBottomJudged ==
  ASSUME NEW n \in Node, Aligned(n), n.bl # 4
  PROVE  PartsJudged(n, Parts(n, "TBottom"))
  <1>. DEFINE a == Block(n, 0, 0, Size(n.bl), Half(n), HFlags(n, 0))
              b == Block(n, 0, Half(n), Half(n), Half(n), VFlags(n, 0))
              c == Block(n, Half(n), Half(n), Half(n), Half(n), {})
              t == <<a, b, c>>
  <1>1. Parts(n, "TBottom") = t
    BY DEF Parts, Blocks, TBlocks
  <1>2. Len(t) = 3 /\ t[1] = a /\ t[2] = b /\ t[3] = c
    OBVIOUS
  <1>3. 1 .. Len(t) = {1, 2, 3}
    BY <1>2
  <1>4. NodeNumbers(n)
    BY NodeSizes
  <1>5. /\ ItemAt(n, t[1], 0, 0, Size(n.bl), Half(n))
        /\ \A k \in Kinds : \A side \in EdgeSides : HasFlag(t[1], k, side) <=> <<side, k[3]>> \in HFlags(n, 0)
    <2>1. Fits(n, 0, 0, Size(n.bl), Half(n))
      BY <1>4 DEF NodeNumbers, Fits, Sides
    <2>2. HFlags(n, 0) \in SUBSET AllEdges
      BY FlagsAre
    <2>. HIDE DEF t
    <2>3. /\ ItemAt(n, a, 0, 0, Size(n.bl), Half(n))
          /\ \A k \in Kinds : \A side \in EdgeSides : HasFlag(a, k, side) <=> <<side, k[3]>> \in HFlags(n, 0)
      BY <2>1, <2>2, BlockAt
    <2>. HIDE DEF a
    <2>. QED
      BY <1>2, <2>3, Zenon
  <1>6. /\ ItemAt(n, t[2], 0, Half(n), Half(n), Half(n))
        /\ \A k \in Kinds : \A side \in EdgeSides : HasFlag(t[2], k, side) <=> <<side, k[3]>> \in VFlags(n, 0)
    <2>1. Fits(n, 0, Half(n), Half(n), Half(n))
      BY <1>4 DEF NodeNumbers, Fits, Sides
    <2>2. VFlags(n, 0) \in SUBSET AllEdges
      BY FlagsAre
    <2>. HIDE DEF t
    <2>3. /\ ItemAt(n, b, 0, Half(n), Half(n), Half(n))
          /\ \A k \in Kinds : \A side \in EdgeSides : HasFlag(b, k, side) <=> <<side, k[3]>> \in VFlags(n, 0)
      BY <2>1, <2>2, BlockAt
    <2>. HIDE DEF b
    <2>. QED
      BY <1>2, <2>3, Zenon
  <1>7. /\ ItemAt(n, t[3], Half(n), Half(n), Half(n), Half(n))
        /\ \A k \in Kinds : \A side \in EdgeSides : HasFlag(t[3], k, side) <=> <<side, k[3]>> \in {}
    <2>1. Fits(n, Half(n), Half(n), Half(n), Half(n))
      BY <1>4 DEF NodeNumbers, Fits, Sides
    <2>2. {} \in SUBSET AllEdges
      BY FlagsAre, EdgesAre, SmallFlagsAre
    <2>. HIDE DEF t
    <2>3. /\ ItemAt(n, c, Half(n), Half(n), Half(n), Half(n))
          /\ \A k \in Kinds : \A side \in EdgeSides : HasFlag(c, k, side) <=> <<side, k[3]>> \in {}
      BY <2>1, <2>2, BlockAt
    <2>. HIDE DEF c
    <2>. QED
      BY <1>2, <2>3, Zenon
  <1>. HIDE DEF a, b, c, t
  <1>8. ASSUME NEW k \in Kinds, NEW side \in EdgeSides
        PROVE  Classified(n, t, 1, k, side)
    <2>1. FlagFacts(n, k) /\ k[1] \in {0, 1} /\ k[2] \in {0, 1}
      BY FlagTable, KindIs
    <2>2. HasFlag(t[1], k, side) <=> <<side, k[3]>> \in HFlags(n, 0)
      BY <1>5, Zenon
    <2>3. CASE side = "right"
      <3>1. RightSaid(n, 0, 0, Size(n.bl), Half(n), k, <<"right", k[3]>> \in HFlags(n, 0))
        BY <2>1, <1>4 DEF NodeNumbers, FlagFacts, Sides, RightSaid, AtStart
      <3>2. Said(n, 0, 0, Size(n.bl), Half(n), k, side, HasFlag(t[1], k, side))
        BY <2>2, <2>3, <3>1 DEF Said, RightSaid
      <3>. QED
        BY <1>3, <1>5, <3>2, SaidClassified
    <2>4. CASE side = "bottom"
      <3>1. BottomSaid(n, 0, 0, Size(n.bl), Half(n), k, <<"bottom", k[3]>> \in HFlags(n, 0))
        BY <2>1, <1>4 DEF NodeNumbers, FlagFacts, Sides, BottomSaid, AtStart
      <3>2. Said(n, 0, 0, Size(n.bl), Half(n), k, side, HasFlag(t[1], k, side))
        BY <2>2, <2>4, <3>1 DEF Said, BottomSaid
      <3>. QED
        BY <1>3, <1>5, <3>2, SaidClassified
    <2>. QED
      BY <2>3, <2>4 DEF EdgeSides
  <1>9. ASSUME NEW k \in Kinds, NEW side \in EdgeSides
        PROVE  Classified(n, t, 2, k, side)
    <2>1. FlagFacts(n, k) /\ k[1] \in {0, 1} /\ k[2] \in {0, 1}
      BY FlagTable, KindIs
    <2>2. HasFlag(t[2], k, side) <=> <<side, k[3]>> \in VFlags(n, 0)
      BY <1>6, Zenon
    <2>3. CASE side = "right"
      <3>1. Beyond(n, 0, Half(n), Half(n), Half(n), k, side, 0, 0, Size(n.bl), Half(n))
        BY <2>3, <1>4 DEF NodeNumbers, Sides, Beyond, AtStart
      <3>2. HasFlag(t[2], k, side) <=> 1 < 2
        BY <2>1, <2>2, <2>3 DEF FlagFacts
      <3>. QED
        BY <1>3, <1>6, <1>5, <3>1, <3>2, InsideClassified
    <2>4. CASE side = "bottom"
      <3>1. BottomSaid(n, 0, Half(n), Half(n), Half(n), k, <<"bottom", k[3]>> \in VFlags(n, 0))
        BY <2>1, <1>4 DEF NodeNumbers, FlagFacts, Sides, BottomSaid, AtStart
      <3>2. Said(n, 0, Half(n), Half(n), Half(n), k, side, HasFlag(t[2], k, side))
        BY <2>2, <2>4, <3>1 DEF Said, BottomSaid
      <3>. QED
        BY <1>3, <1>6, <3>2, SaidClassified
    <2>. QED
      BY <2>3, <2>4 DEF EdgeSides
  <1>10. ASSUME NEW k \in Kinds, NEW side \in EdgeSides
        PROVE  Classified(n, t, 3, k, side)
    <2>1. FlagFacts(n, k) /\ k[1] \in {0, 1} /\ k[2] \in {0, 1}
      BY FlagTable, KindIs
    <2>2. HasFlag(t[3], k, side) <=> <<side, k[3]>> \in {}
      BY <1>7, Zenon
    <2>3. CASE side = "right"
      <3>1. RightSaid(n, Half(n), Half(n), Half(n), Half(n), k, <<"right", k[3]>> \in {})
        BY <2>1, <1>4 DEF NodeNumbers, FlagFacts, Sides, RightSaid, AtStart
      <3>2. Said(n, Half(n), Half(n), Half(n), Half(n), k, side, HasFlag(t[3], k, side))
        BY <2>2, <2>3, <3>1 DEF Said, RightSaid
      <3>. QED
        BY <1>3, <1>7, <3>2, SaidClassified
    <2>4. CASE side = "bottom"
      <3>1. BottomSaid(n, Half(n), Half(n), Half(n), Half(n), k, <<"bottom", k[3]>> \in {})
        BY <2>1, <1>4 DEF NodeNumbers, FlagFacts, Sides, BottomSaid, AtStart
      <3>2. Said(n, Half(n), Half(n), Half(n), Half(n), k, side, HasFlag(t[3], k, side))
        BY <2>2, <2>4, <3>1 DEF Said, BottomSaid
      <3>. QED
        BY <1>3, <1>7, <3>2, SaidClassified
    <2>. QED
      BY <2>3, <2>4 DEF EdgeSides
  <1>. QED
    BY <1>1, <1>3, <1>8, <1>9, <1>10 DEF PartsJudged

\* Two blocks to the left of one: the lower one has it above right, to come.
LEMMA TLeftJudged ==
  ASSUME NEW n \in Node, Aligned(n), n.bl # 4
  PROVE  PartsJudged(n, Parts(n, "TLeft"))
  <1>. DEFINE a == Block(n, 0, 0, Half(n), Half(n), AllEdges)
              b == Block(n, 0, Half(n), Half(n), Half(n), HFlags(n, 1))
              c == Block(n, Half(n), 0, Half(n), Size(n.bl), VFlags(n, 1))
              t == <<a, b, c>>
  <1>1. Parts(n, "TLeft") = t
    BY DEF Parts, Blocks, TBlocks
  <1>2. Len(t) = 3 /\ t[1] = a /\ t[2] = b /\ t[3] = c
    OBVIOUS
  <1>3. 1 .. Len(t) = {1, 2, 3}
    BY <1>2
  <1>4. NodeNumbers(n)
    BY NodeSizes
  <1>5. /\ ItemAt(n, t[1], 0, 0, Half(n), Half(n))
        /\ \A k \in Kinds : \A side \in EdgeSides : HasFlag(t[1], k, side) <=> <<side, k[3]>> \in AllEdges
    <2>1. Fits(n, 0, 0, Half(n), Half(n))
      BY <1>4 DEF NodeNumbers, Fits, Sides
    <2>2. AllEdges \in SUBSET AllEdges
      BY FlagsAre, EdgesAre, SmallFlagsAre
    <2>. HIDE DEF t
    <2>3. /\ ItemAt(n, a, 0, 0, Half(n), Half(n))
          /\ \A k \in Kinds : \A side \in EdgeSides : HasFlag(a, k, side) <=> <<side, k[3]>> \in AllEdges
      BY <2>1, <2>2, BlockAt
    <2>. HIDE DEF a
    <2>. QED
      BY <1>2, <2>3, Zenon
  <1>6. /\ ItemAt(n, t[2], 0, Half(n), Half(n), Half(n))
        /\ \A k \in Kinds : \A side \in EdgeSides : HasFlag(t[2], k, side) <=> <<side, k[3]>> \in HFlags(n, 1)
    <2>1. Fits(n, 0, Half(n), Half(n), Half(n))
      BY <1>4 DEF NodeNumbers, Fits, Sides
    <2>2. HFlags(n, 1) \in SUBSET AllEdges
      BY FlagsAre
    <2>. HIDE DEF t
    <2>3. /\ ItemAt(n, b, 0, Half(n), Half(n), Half(n))
          /\ \A k \in Kinds : \A side \in EdgeSides : HasFlag(b, k, side) <=> <<side, k[3]>> \in HFlags(n, 1)
      BY <2>1, <2>2, BlockAt
    <2>. HIDE DEF b
    <2>. QED
      BY <1>2, <2>3, Zenon
  <1>7. /\ ItemAt(n, t[3], Half(n), 0, Half(n), Size(n.bl))
        /\ \A k \in Kinds : \A side \in EdgeSides : HasFlag(t[3], k, side) <=> <<side, k[3]>> \in VFlags(n, 1)
    <2>1. Fits(n, Half(n), 0, Half(n), Size(n.bl))
      BY <1>4 DEF NodeNumbers, Fits, Sides
    <2>2. VFlags(n, 1) \in SUBSET AllEdges
      BY FlagsAre
    <2>. HIDE DEF t
    <2>3. /\ ItemAt(n, c, Half(n), 0, Half(n), Size(n.bl))
          /\ \A k \in Kinds : \A side \in EdgeSides : HasFlag(c, k, side) <=> <<side, k[3]>> \in VFlags(n, 1)
      BY <2>1, <2>2, BlockAt
    <2>. HIDE DEF c
    <2>. QED
      BY <1>2, <2>3, Zenon
  <1>. HIDE DEF a, b, c, t
  <1>8. ASSUME NEW k \in Kinds, NEW side \in EdgeSides
        PROVE  Classified(n, t, 1, k, side)
    <2>1. FlagFacts(n, k) /\ k[1] \in {0, 1} /\ k[2] \in {0, 1}
      BY FlagTable, KindIs
    <2>2. HasFlag(t[1], k, side) <=> <<side, k[3]>> \in AllEdges
      BY <1>5, Zenon
    <2>3. CASE side = "right"
      <3>1. RightSaid(n, 0, 0, Half(n), Half(n), k, <<"right", k[3]>> \in AllEdges)
        BY <2>1, <1>4 DEF NodeNumbers, FlagFacts, Sides, RightSaid, AtStart
      <3>2. Said(n, 0, 0, Half(n), Half(n), k, side, HasFlag(t[1], k, side))
        BY <2>2, <2>3, <3>1 DEF Said, RightSaid
      <3>. QED
        BY <1>3, <1>5, <3>2, SaidClassified
    <2>4. CASE side = "bottom"
      <3>1. BottomSaid(n, 0, 0, Half(n), Half(n), k, <<"bottom", k[3]>> \in AllEdges)
        BY <2>1, <1>4 DEF NodeNumbers, FlagFacts, Sides, BottomSaid, AtStart
      <3>2. Said(n, 0, 0, Half(n), Half(n), k, side, HasFlag(t[1], k, side))
        BY <2>2, <2>4, <3>1 DEF Said, BottomSaid
      <3>. QED
        BY <1>3, <1>5, <3>2, SaidClassified
    <2>. QED
      BY <2>3, <2>4 DEF EdgeSides
  <1>9. ASSUME NEW k \in Kinds, NEW side \in EdgeSides
        PROVE  Classified(n, t, 2, k, side)
    <2>1. FlagFacts(n, k) /\ k[1] \in {0, 1} /\ k[2] \in {0, 1}
      BY FlagTable, KindIs
    <2>2. HasFlag(t[2], k, side) <=> <<side, k[3]>> \in HFlags(n, 1)
      BY <1>6, Zenon
    <2>3. CASE side = "right"
      <3>1. Beyond(n, 0, Half(n), Half(n), Half(n), k, side, Half(n), 0, Half(n), Size(n.bl))
        BY <2>3, <1>4 DEF NodeNumbers, Sides, Beyond, AtStart
      <3>2. HasFlag(t[2], k, side) <=> 3 < 2
        BY <2>1, <2>2, <2>3 DEF FlagFacts
      <3>. QED
        BY <1>3, <1>6, <1>7, <3>1, <3>2, InsideClassified
    <2>4. CASE side = "bottom"
      <3>1. BottomSaid(n, 0, Half(n), Half(n), Half(n), k, <<"bottom", k[3]>> \in HFlags(n, 1))
        BY <2>1, <1>4 DEF NodeNumbers, FlagFacts, Sides, BottomSaid, AtStart
      <3>2. Said(n, 0, Half(n), Half(n), Half(n), k, side, HasFlag(t[2], k, side))
        BY <2>2, <2>4, <3>1 DEF Said, BottomSaid
      <3>. QED
        BY <1>3, <1>6, <3>2, SaidClassified
    <2>. QED
      BY <2>3, <2>4 DEF EdgeSides
  <1>10. ASSUME NEW k \in Kinds, NEW side \in EdgeSides
        PROVE  Classified(n, t, 3, k, side)
    <2>1. FlagFacts(n, k) /\ k[1] \in {0, 1} /\ k[2] \in {0, 1}
      BY FlagTable, KindIs
    <2>2. HasFlag(t[3], k, side) <=> <<side, k[3]>> \in VFlags(n, 1)
      BY <1>7, Zenon
    <2>3. CASE side = "right"
      <3>1. RightSaid(n, Half(n), 0, Half(n), Size(n.bl), k, <<"right", k[3]>> \in VFlags(n, 1))
        BY <2>1, <1>4 DEF NodeNumbers, FlagFacts, Sides, RightSaid, AtStart
      <3>2. Said(n, Half(n), 0, Half(n), Size(n.bl), k, side, HasFlag(t[3], k, side))
        BY <2>2, <2>3, <3>1 DEF Said, RightSaid
      <3>. QED
        BY <1>3, <1>7, <3>2, SaidClassified
    <2>4. CASE side = "bottom"
      <3>1. BottomSaid(n, Half(n), 0, Half(n), Size(n.bl), k, <<"bottom", k[3]>> \in VFlags(n, 1))
        BY <2>1, <1>4 DEF NodeNumbers, FlagFacts, Sides, BottomSaid, AtStart
      <3>2. Said(n, Half(n), 0, Half(n), Size(n.bl), k, side, HasFlag(t[3], k, side))
        BY <2>2, <2>4, <3>1 DEF Said, BottomSaid
      <3>. QED
        BY <1>3, <1>7, <3>2, SaidClassified
    <2>. QED
      BY <2>3, <2>4 DEF EdgeSides
  <1>. QED
    BY <1>1, <1>3, <1>8, <1>9, <1>10 DEF PartsJudged

\* One block to the left of two: the upper one has it below left.
LEMMA TRightJudged ==
  ASSUME NEW n \in Node, Aligned(n), n.bl # 4
  PROVE  PartsJudged(n, Parts(n, "TRight"))
  <1>. DEFINE a == Block(n, 0, 0, Half(n), Size(n.bl), VFlags(n, 0))
              b == Block(n, Half(n), 0, Half(n), Half(n), HFlags(n, 0))
              c == Block(n, Half(n), Half(n), Half(n), Half(n), {})
              t == <<a, b, c>>
  <1>1. Parts(n, "TRight") = t
    BY DEF Parts, Blocks, TBlocks
  <1>2. Len(t) = 3 /\ t[1] = a /\ t[2] = b /\ t[3] = c
    OBVIOUS
  <1>3. 1 .. Len(t) = {1, 2, 3}
    BY <1>2
  <1>4. NodeNumbers(n)
    BY NodeSizes
  <1>5. /\ ItemAt(n, t[1], 0, 0, Half(n), Size(n.bl))
        /\ \A k \in Kinds : \A side \in EdgeSides : HasFlag(t[1], k, side) <=> <<side, k[3]>> \in VFlags(n, 0)
    <2>1. Fits(n, 0, 0, Half(n), Size(n.bl))
      BY <1>4 DEF NodeNumbers, Fits, Sides
    <2>2. VFlags(n, 0) \in SUBSET AllEdges
      BY FlagsAre
    <2>. HIDE DEF t
    <2>3. /\ ItemAt(n, a, 0, 0, Half(n), Size(n.bl))
          /\ \A k \in Kinds : \A side \in EdgeSides : HasFlag(a, k, side) <=> <<side, k[3]>> \in VFlags(n, 0)
      BY <2>1, <2>2, BlockAt
    <2>. HIDE DEF a
    <2>. QED
      BY <1>2, <2>3, Zenon
  <1>6. /\ ItemAt(n, t[2], Half(n), 0, Half(n), Half(n))
        /\ \A k \in Kinds : \A side \in EdgeSides : HasFlag(t[2], k, side) <=> <<side, k[3]>> \in HFlags(n, 0)
    <2>1. Fits(n, Half(n), 0, Half(n), Half(n))
      BY <1>4 DEF NodeNumbers, Fits, Sides
    <2>2. HFlags(n, 0) \in SUBSET AllEdges
      BY FlagsAre
    <2>. HIDE DEF t
    <2>3. /\ ItemAt(n, b, Half(n), 0, Half(n), Half(n))
          /\ \A k \in Kinds : \A side \in EdgeSides : HasFlag(b, k, side) <=> <<side, k[3]>> \in HFlags(n, 0)
      BY <2>1, <2>2, BlockAt
    <2>. HIDE DEF b
    <2>. QED
      BY <1>2, <2>3, Zenon
  <1>7. /\ ItemAt(n, t[3], Half(n), Half(n), Half(n), Half(n))
        /\ \A k \in Kinds : \A side \in EdgeSides : HasFlag(t[3], k, side) <=> <<side, k[3]>> \in {}
    <2>1. Fits(n, Half(n), Half(n), Half(n), Half(n))
      BY <1>4 DEF NodeNumbers, Fits, Sides
    <2>2. {} \in SUBSET AllEdges
      BY FlagsAre, EdgesAre, SmallFlagsAre
    <2>. HIDE DEF t
    <2>3. /\ ItemAt(n, c, Half(n), Half(n), Half(n), Half(n))
          /\ \A k \in Kinds : \A side \in EdgeSides : HasFlag(c, k, side) <=> <<side, k[3]>> \in {}
      BY <2>1, <2>2, BlockAt
    <2>. HIDE DEF c
    <2>. QED
      BY <1>2, <2>3, Zenon
  <1>. HIDE DEF a, b, c, t
  <1>8. ASSUME NEW k \in Kinds, NEW side \in EdgeSides
        PROVE  Classified(n, t, 1, k, side)
    <2>1. FlagFacts(n, k) /\ k[1] \in {0, 1} /\ k[2] \in {0, 1}
      BY FlagTable, KindIs
    <2>2. HasFlag(t[1], k, side) <=> <<side, k[3]>> \in VFlags(n, 0)
      BY <1>5, Zenon
    <2>3. CASE side = "right"
      <3>1. RightSaid(n, 0, 0, Half(n), Size(n.bl), k, <<"right", k[3]>> \in VFlags(n, 0))
        BY <2>1, <1>4 DEF NodeNumbers, FlagFacts, Sides, RightSaid, AtStart
      <3>2. Said(n, 0, 0, Half(n), Size(n.bl), k, side, HasFlag(t[1], k, side))
        BY <2>2, <2>3, <3>1 DEF Said, RightSaid
      <3>. QED
        BY <1>3, <1>5, <3>2, SaidClassified
    <2>4. CASE side = "bottom"
      <3>1. BottomSaid(n, 0, 0, Half(n), Size(n.bl), k, <<"bottom", k[3]>> \in VFlags(n, 0))
        BY <2>1, <1>4 DEF NodeNumbers, FlagFacts, Sides, BottomSaid, AtStart
      <3>2. Said(n, 0, 0, Half(n), Size(n.bl), k, side, HasFlag(t[1], k, side))
        BY <2>2, <2>4, <3>1 DEF Said, BottomSaid
      <3>. QED
        BY <1>3, <1>5, <3>2, SaidClassified
    <2>. QED
      BY <2>3, <2>4 DEF EdgeSides
  <1>9. ASSUME NEW k \in Kinds, NEW side \in EdgeSides
        PROVE  Classified(n, t, 2, k, side)
    <2>1. FlagFacts(n, k) /\ k[1] \in {0, 1} /\ k[2] \in {0, 1}
      BY FlagTable, KindIs
    <2>2. HasFlag(t[2], k, side) <=> <<side, k[3]>> \in HFlags(n, 0)
      BY <1>6, Zenon
    <2>3. CASE side = "right"
      <3>1. RightSaid(n, Half(n), 0, Half(n), Half(n), k, <<"right", k[3]>> \in HFlags(n, 0))
        BY <2>1, <1>4 DEF NodeNumbers, FlagFacts, Sides, RightSaid, AtStart
      <3>2. Said(n, Half(n), 0, Half(n), Half(n), k, side, HasFlag(t[2], k, side))
        BY <2>2, <2>3, <3>1 DEF Said, RightSaid
      <3>. QED
        BY <1>3, <1>6, <3>2, SaidClassified
    <2>4. CASE side = "bottom"
      <3>1. Beyond(n, Half(n), 0, Half(n), Half(n), k, side, 0, 0, Half(n), Size(n.bl))
        BY <2>4, <1>4 DEF NodeNumbers, Sides, Beyond, AtStart
      <3>2. HasFlag(t[2], k, side) <=> 1 < 2
        BY <2>1, <2>2, <2>4 DEF FlagFacts
      <3>. QED
        BY <1>3, <1>6, <1>5, <3>1, <3>2, InsideClassified
    <2>. QED
      BY <2>3, <2>4 DEF EdgeSides
  <1>10. ASSUME NEW k \in Kinds, NEW side \in EdgeSides
        PROVE  Classified(n, t, 3, k, side)
    <2>1. FlagFacts(n, k) /\ k[1] \in {0, 1} /\ k[2] \in {0, 1}
      BY FlagTable, KindIs
    <2>2. HasFlag(t[3], k, side) <=> <<side, k[3]>> \in {}
      BY <1>7, Zenon
    <2>3. CASE side = "right"
      <3>1. RightSaid(n, Half(n), Half(n), Half(n), Half(n), k, <<"right", k[3]>> \in {})
        BY <2>1, <1>4 DEF NodeNumbers, FlagFacts, Sides, RightSaid, AtStart
      <3>2. Said(n, Half(n), Half(n), Half(n), Half(n), k, side, HasFlag(t[3], k, side))
        BY <2>2, <2>3, <3>1 DEF Said, RightSaid
      <3>. QED
        BY <1>3, <1>7, <3>2, SaidClassified
    <2>4. CASE side = "bottom"
      <3>1. BottomSaid(n, Half(n), Half(n), Half(n), Half(n), k, <<"bottom", k[3]>> \in {})
        BY <2>1, <1>4 DEF NodeNumbers, FlagFacts, Sides, BottomSaid, AtStart
      <3>2. Said(n, Half(n), Half(n), Half(n), Half(n), k, side, HasFlag(t[3], k, side))
        BY <2>2, <2>4, <3>1 DEF Said, BottomSaid
      <3>. QED
        BY <1>3, <1>7, <3>2, SaidClassified
    <2>. QED
      BY <2>3, <2>4 DEF EdgeSides
  <1>. QED
    BY <1>1, <1>3, <1>8, <1>9, <1>10 DEF PartsJudged

\* Four blocks across.
LEMMA H4Judged ==
  ASSUME NEW n \in Node, Aligned(n), n.bl \in {1, 2, 3}
  PROVE  PartsJudged(n, Parts(n, "H4"))
  <1>. DEFINE q == Size(n.bl) \div 4
              a == Block(n, 0, 0, Size(n.bl), q, HFlags(n, 0))
              b == Block(n, 0, q, Size(n.bl), q, QuarterH(n))
              c == Block(n, 0, 2 * q, Size(n.bl), q, BottomLeft)
              d == Block(n, 0, 3 * q, Size(n.bl), q, HFlags(n, 1))
              t == <<a, b, c, d>>
  <1>1. Parts(n, "H4") = t
    BY DEF Parts, Blocks, QuarterH
  <1>2. Len(t) = 4 /\ t[1] = a /\ t[2] = b /\ t[3] = c /\ t[4] = d
    OBVIOUS
  <1>3. 1 .. Len(t) = {1, 2, 3, 4}
    BY <1>2
  <1>4. NodeNumbers(n)
    BY NodeSizes
  <1>5. q \in {1, 2, 4} /\ Size(n.bl) = 4 * q /\ (q = 1 <=> n.bl = 3) /\ Size(n.bl) \in {4, 8, 16} /\ n.bl # 4
    BY SizeOf
  <1>. HIDE DEF q
  <1>6. /\ ItemAt(n, t[1], 0, 0, Size(n.bl), q)
        /\ \A k \in Kinds : \A side \in EdgeSides : HasFlag(t[1], k, side) <=> <<side, k[3]>> \in HFlags(n, 0)
    <2>1. Fits(n, 0, 0, Size(n.bl), q)
      BY <1>5 DEF NodeNumbers, Fits, Sides
    <2>2. HFlags(n, 0) \in SUBSET AllEdges
      BY FlagsAre
    <2>. HIDE DEF t
    <2>3. /\ ItemAt(n, a, 0, 0, Size(n.bl), q)
          /\ \A k \in Kinds : \A side \in EdgeSides : HasFlag(a, k, side) <=> <<side, k[3]>> \in HFlags(n, 0)
      BY <2>1, <2>2, BlockAt
    <2>. HIDE DEF a
    <2>. QED
      BY <1>2, <2>3, Zenon
  <1>7. /\ ItemAt(n, t[2], 0, q, Size(n.bl), q)
        /\ \A k \in Kinds : \A side \in EdgeSides : HasFlag(t[2], k, side) <=> <<side, k[3]>> \in QuarterH(n)
    <2>1. Fits(n, 0, q, Size(n.bl), q)
      BY <1>5 DEF NodeNumbers, Fits, Sides
    <2>2. QuarterH(n) \in SUBSET AllEdges
      BY FlagsAre, EdgesAre, SmallFlagsAre
    <2>. HIDE DEF t
    <2>3. /\ ItemAt(n, b, 0, q, Size(n.bl), q)
          /\ \A k \in Kinds : \A side \in EdgeSides : HasFlag(b, k, side) <=> <<side, k[3]>> \in QuarterH(n)
      BY <2>1, <2>2, BlockAt
    <2>. HIDE DEF b
    <2>. QED
      BY <1>2, <2>3, Zenon
  <1>8. /\ ItemAt(n, t[3], 0, 2 * q, Size(n.bl), q)
        /\ \A k \in Kinds : \A side \in EdgeSides : HasFlag(t[3], k, side) <=> <<side, k[3]>> \in BottomLeft
    <2>1. Fits(n, 0, 2 * q, Size(n.bl), q)
      BY <1>5 DEF NodeNumbers, Fits, Sides
    <2>2. BottomLeft \in SUBSET AllEdges
      BY FlagsAre
    <2>. HIDE DEF t
    <2>3. /\ ItemAt(n, c, 0, 2 * q, Size(n.bl), q)
          /\ \A k \in Kinds : \A side \in EdgeSides : HasFlag(c, k, side) <=> <<side, k[3]>> \in BottomLeft
      BY <2>1, <2>2, BlockAt
    <2>. HIDE DEF c
    <2>. QED
      BY <1>2, <2>3, Zenon
  <1>9. /\ ItemAt(n, t[4], 0, 3 * q, Size(n.bl), q)
        /\ \A k \in Kinds : \A side \in EdgeSides : HasFlag(t[4], k, side) <=> <<side, k[3]>> \in HFlags(n, 1)
    <2>1. Fits(n, 0, 3 * q, Size(n.bl), q)
      BY <1>5 DEF NodeNumbers, Fits, Sides
    <2>2. HFlags(n, 1) \in SUBSET AllEdges
      BY FlagsAre
    <2>. HIDE DEF t
    <2>3. /\ ItemAt(n, d, 0, 3 * q, Size(n.bl), q)
          /\ \A k \in Kinds : \A side \in EdgeSides : HasFlag(d, k, side) <=> <<side, k[3]>> \in HFlags(n, 1)
      BY <2>1, <2>2, BlockAt
    <2>. HIDE DEF d
    <2>. QED
      BY <1>2, <2>3, Zenon
  <1>. HIDE DEF a, b, c, d, t
  <1>10. ASSUME NEW k \in Kinds, NEW side \in EdgeSides
        PROVE  Classified(n, t, 1, k, side)
    <2>1. FlagFacts(n, k) /\ k[1] \in {0, 1} /\ k[2] \in {0, 1}
      BY FlagTable, KindIs
    <2>2. HasFlag(t[1], k, side) <=> <<side, k[3]>> \in HFlags(n, 0)
      BY <1>6, Zenon
    <2>3. CASE side = "right"
      <3>1. RightSaid(n, 0, 0, Size(n.bl), q, k, <<"right", k[3]>> \in HFlags(n, 0))
        BY <2>1, <1>5 DEF NodeNumbers, FlagFacts, Sides, RightSaid, AtStart
      <3>2. Said(n, 0, 0, Size(n.bl), q, k, side, HasFlag(t[1], k, side))
        BY <2>2, <2>3, <3>1 DEF Said, RightSaid
      <3>. QED
        BY <1>3, <1>6, <3>2, SaidClassified
    <2>4. CASE side = "bottom"
      <3>1. BottomSaid(n, 0, 0, Size(n.bl), q, k, <<"bottom", k[3]>> \in HFlags(n, 0))
        BY <2>1, <1>5 DEF NodeNumbers, FlagFacts, Sides, BottomSaid, AtStart
      <3>2. Said(n, 0, 0, Size(n.bl), q, k, side, HasFlag(t[1], k, side))
        BY <2>2, <2>4, <3>1 DEF Said, BottomSaid
      <3>. QED
        BY <1>3, <1>6, <3>2, SaidClassified
    <2>. QED
      BY <2>3, <2>4 DEF EdgeSides
  <1>11. ASSUME NEW k \in Kinds, NEW side \in EdgeSides
        PROVE  Classified(n, t, 2, k, side)
    <2>1. FlagFacts(n, k) /\ k[1] \in {0, 1} /\ k[2] \in {0, 1}
      BY FlagTable, KindIs
    <2>2. HasFlag(t[2], k, side) <=> <<side, k[3]>> \in QuarterH(n)
      BY <1>7, Zenon
    <2>3. CASE side = "right"
      <3>1. RightSaid(n, 0, q, Size(n.bl), q, k, <<"right", k[3]>> \in QuarterH(n))
        BY <2>1, <1>5 DEF NodeNumbers, FlagFacts, Sides, RightSaid, AtStart
      <3>2. Said(n, 0, q, Size(n.bl), q, k, side, HasFlag(t[2], k, side))
        BY <2>2, <2>3, <3>1 DEF Said, RightSaid
      <3>. QED
        BY <1>3, <1>7, <3>2, SaidClassified
    <2>4. CASE side = "bottom"
      <3>1. BottomSaid(n, 0, q, Size(n.bl), q, k, <<"bottom", k[3]>> \in QuarterH(n))
        BY <2>1, <1>5 DEF NodeNumbers, FlagFacts, Sides, BottomSaid, AtStart
      <3>2. Said(n, 0, q, Size(n.bl), q, k, side, HasFlag(t[2], k, side))
        BY <2>2, <2>4, <3>1 DEF Said, BottomSaid
      <3>. QED
        BY <1>3, <1>7, <3>2, SaidClassified
    <2>. QED
      BY <2>3, <2>4 DEF EdgeSides
  <1>12. ASSUME NEW k \in Kinds, NEW side \in EdgeSides
        PROVE  Classified(n, t, 3, k, side)
    <2>1. FlagFacts(n, k) /\ k[1] \in {0, 1} /\ k[2] \in {0, 1}
      BY FlagTable, KindIs
    <2>2. HasFlag(t[3], k, side) <=> <<side, k[3]>> \in BottomLeft
      BY <1>8, Zenon
    <2>3. CASE side = "right"
      <3>1. RightSaid(n, 0, 2 * q, Size(n.bl), q, k, <<"right", k[3]>> \in BottomLeft)
        BY <2>1, <1>5 DEF NodeNumbers, FlagFacts, Sides, RightSaid, AtStart
      <3>2. Said(n, 0, 2 * q, Size(n.bl), q, k, side, HasFlag(t[3], k, side))
        BY <2>2, <2>3, <3>1 DEF Said, RightSaid
      <3>. QED
        BY <1>3, <1>8, <3>2, SaidClassified
    <2>4. CASE side = "bottom"
      <3>1. BottomSaid(n, 0, 2 * q, Size(n.bl), q, k, <<"bottom", k[3]>> \in BottomLeft)
        BY <2>1, <1>5 DEF NodeNumbers, FlagFacts, Sides, BottomSaid, AtStart
      <3>2. Said(n, 0, 2 * q, Size(n.bl), q, k, side, HasFlag(t[3], k, side))
        BY <2>2, <2>4, <3>1 DEF Said, BottomSaid
      <3>. QED
        BY <1>3, <1>8, <3>2, SaidClassified
    <2>. QED
      BY <2>3, <2>4 DEF EdgeSides
  <1>13. ASSUME NEW k \in Kinds, NEW side \in EdgeSides
        PROVE  Classified(n, t, 4, k, side)
    <2>1. FlagFacts(n, k) /\ k[1] \in {0, 1} /\ k[2] \in {0, 1}
      BY FlagTable, KindIs
    <2>2. HasFlag(t[4], k, side) <=> <<side, k[3]>> \in HFlags(n, 1)
      BY <1>9, Zenon
    <2>3. CASE side = "right"
      <3>1. RightSaid(n, 0, 3 * q, Size(n.bl), q, k, <<"right", k[3]>> \in HFlags(n, 1))
        BY <2>1, <1>5 DEF NodeNumbers, FlagFacts, Sides, RightSaid, AtStart
      <3>2. Said(n, 0, 3 * q, Size(n.bl), q, k, side, HasFlag(t[4], k, side))
        BY <2>2, <2>3, <3>1 DEF Said, RightSaid
      <3>. QED
        BY <1>3, <1>9, <3>2, SaidClassified
    <2>4. CASE side = "bottom"
      <3>1. BottomSaid(n, 0, 3 * q, Size(n.bl), q, k, <<"bottom", k[3]>> \in HFlags(n, 1))
        BY <2>1, <1>5 DEF NodeNumbers, FlagFacts, Sides, BottomSaid, AtStart
      <3>2. Said(n, 0, 3 * q, Size(n.bl), q, k, side, HasFlag(t[4], k, side))
        BY <2>2, <2>4, <3>1 DEF Said, BottomSaid
      <3>. QED
        BY <1>3, <1>9, <3>2, SaidClassified
    <2>. QED
      BY <2>3, <2>4 DEF EdgeSides
  <1>. QED
    BY <1>1, <1>3, <1>10, <1>11, <1>12, <1>13 DEF PartsJudged

\* Four blocks down.
LEMMA V4Judged ==
  ASSUME NEW n \in Node, Aligned(n), n.bl \in {1, 2, 3}
  PROVE  PartsJudged(n, Parts(n, "V4"))
  <1>. DEFINE q == Size(n.bl) \div 4
              a == Block(n, 0, 0, q, Size(n.bl), VFlags(n, 0))
              b == Block(n, q, 0, q, Size(n.bl), QuarterV(n))
              c == Block(n, 2 * q, 0, q, Size(n.bl), TopRight)
              d == Block(n, 3 * q, 0, q, Size(n.bl), VFlags(n, 1))
              t == <<a, b, c, d>>
  <1>1. Parts(n, "V4") = t
    BY DEF Parts, Blocks, QuarterV
  <1>2. Len(t) = 4 /\ t[1] = a /\ t[2] = b /\ t[3] = c /\ t[4] = d
    OBVIOUS
  <1>3. 1 .. Len(t) = {1, 2, 3, 4}
    BY <1>2
  <1>4. NodeNumbers(n)
    BY NodeSizes
  <1>5. q \in {1, 2, 4} /\ Size(n.bl) = 4 * q /\ (q = 1 <=> n.bl = 3) /\ Size(n.bl) \in {4, 8, 16} /\ n.bl # 4
    BY SizeOf
  <1>. HIDE DEF q
  <1>6. /\ ItemAt(n, t[1], 0, 0, q, Size(n.bl))
        /\ \A k \in Kinds : \A side \in EdgeSides : HasFlag(t[1], k, side) <=> <<side, k[3]>> \in VFlags(n, 0)
    <2>1. Fits(n, 0, 0, q, Size(n.bl))
      BY <1>5 DEF NodeNumbers, Fits, Sides
    <2>2. VFlags(n, 0) \in SUBSET AllEdges
      BY FlagsAre
    <2>. HIDE DEF t
    <2>3. /\ ItemAt(n, a, 0, 0, q, Size(n.bl))
          /\ \A k \in Kinds : \A side \in EdgeSides : HasFlag(a, k, side) <=> <<side, k[3]>> \in VFlags(n, 0)
      BY <2>1, <2>2, BlockAt
    <2>. HIDE DEF a
    <2>. QED
      BY <1>2, <2>3, Zenon
  <1>7. /\ ItemAt(n, t[2], q, 0, q, Size(n.bl))
        /\ \A k \in Kinds : \A side \in EdgeSides : HasFlag(t[2], k, side) <=> <<side, k[3]>> \in QuarterV(n)
    <2>1. Fits(n, q, 0, q, Size(n.bl))
      BY <1>5 DEF NodeNumbers, Fits, Sides
    <2>2. QuarterV(n) \in SUBSET AllEdges
      BY FlagsAre, EdgesAre, SmallFlagsAre
    <2>. HIDE DEF t
    <2>3. /\ ItemAt(n, b, q, 0, q, Size(n.bl))
          /\ \A k \in Kinds : \A side \in EdgeSides : HasFlag(b, k, side) <=> <<side, k[3]>> \in QuarterV(n)
      BY <2>1, <2>2, BlockAt
    <2>. HIDE DEF b
    <2>. QED
      BY <1>2, <2>3, Zenon
  <1>8. /\ ItemAt(n, t[3], 2 * q, 0, q, Size(n.bl))
        /\ \A k \in Kinds : \A side \in EdgeSides : HasFlag(t[3], k, side) <=> <<side, k[3]>> \in TopRight
    <2>1. Fits(n, 2 * q, 0, q, Size(n.bl))
      BY <1>5 DEF NodeNumbers, Fits, Sides
    <2>2. TopRight \in SUBSET AllEdges
      BY FlagsAre
    <2>. HIDE DEF t
    <2>3. /\ ItemAt(n, c, 2 * q, 0, q, Size(n.bl))
          /\ \A k \in Kinds : \A side \in EdgeSides : HasFlag(c, k, side) <=> <<side, k[3]>> \in TopRight
      BY <2>1, <2>2, BlockAt
    <2>. HIDE DEF c
    <2>. QED
      BY <1>2, <2>3, Zenon
  <1>9. /\ ItemAt(n, t[4], 3 * q, 0, q, Size(n.bl))
        /\ \A k \in Kinds : \A side \in EdgeSides : HasFlag(t[4], k, side) <=> <<side, k[3]>> \in VFlags(n, 1)
    <2>1. Fits(n, 3 * q, 0, q, Size(n.bl))
      BY <1>5 DEF NodeNumbers, Fits, Sides
    <2>2. VFlags(n, 1) \in SUBSET AllEdges
      BY FlagsAre
    <2>. HIDE DEF t
    <2>3. /\ ItemAt(n, d, 3 * q, 0, q, Size(n.bl))
          /\ \A k \in Kinds : \A side \in EdgeSides : HasFlag(d, k, side) <=> <<side, k[3]>> \in VFlags(n, 1)
      BY <2>1, <2>2, BlockAt
    <2>. HIDE DEF d
    <2>. QED
      BY <1>2, <2>3, Zenon
  <1>. HIDE DEF a, b, c, d, t
  <1>10. ASSUME NEW k \in Kinds, NEW side \in EdgeSides
        PROVE  Classified(n, t, 1, k, side)
    <2>1. FlagFacts(n, k) /\ k[1] \in {0, 1} /\ k[2] \in {0, 1}
      BY FlagTable, KindIs
    <2>2. HasFlag(t[1], k, side) <=> <<side, k[3]>> \in VFlags(n, 0)
      BY <1>6, Zenon
    <2>3. CASE side = "right"
      <3>1. RightSaid(n, 0, 0, q, Size(n.bl), k, <<"right", k[3]>> \in VFlags(n, 0))
        BY <2>1, <1>5 DEF NodeNumbers, FlagFacts, Sides, RightSaid, AtStart
      <3>2. Said(n, 0, 0, q, Size(n.bl), k, side, HasFlag(t[1], k, side))
        BY <2>2, <2>3, <3>1 DEF Said, RightSaid
      <3>. QED
        BY <1>3, <1>6, <3>2, SaidClassified
    <2>4. CASE side = "bottom"
      <3>1. BottomSaid(n, 0, 0, q, Size(n.bl), k, <<"bottom", k[3]>> \in VFlags(n, 0))
        BY <2>1, <1>5 DEF NodeNumbers, FlagFacts, Sides, BottomSaid, AtStart
      <3>2. Said(n, 0, 0, q, Size(n.bl), k, side, HasFlag(t[1], k, side))
        BY <2>2, <2>4, <3>1 DEF Said, BottomSaid
      <3>. QED
        BY <1>3, <1>6, <3>2, SaidClassified
    <2>. QED
      BY <2>3, <2>4 DEF EdgeSides
  <1>11. ASSUME NEW k \in Kinds, NEW side \in EdgeSides
        PROVE  Classified(n, t, 2, k, side)
    <2>1. FlagFacts(n, k) /\ k[1] \in {0, 1} /\ k[2] \in {0, 1}
      BY FlagTable, KindIs
    <2>2. HasFlag(t[2], k, side) <=> <<side, k[3]>> \in QuarterV(n)
      BY <1>7, Zenon
    <2>3. CASE side = "right"
      <3>1. RightSaid(n, q, 0, q, Size(n.bl), k, <<"right", k[3]>> \in QuarterV(n))
        BY <2>1, <1>5 DEF NodeNumbers, FlagFacts, Sides, RightSaid, AtStart
      <3>2. Said(n, q, 0, q, Size(n.bl), k, side, HasFlag(t[2], k, side))
        BY <2>2, <2>3, <3>1 DEF Said, RightSaid
      <3>. QED
        BY <1>3, <1>7, <3>2, SaidClassified
    <2>4. CASE side = "bottom"
      <3>1. BottomSaid(n, q, 0, q, Size(n.bl), k, <<"bottom", k[3]>> \in QuarterV(n))
        BY <2>1, <1>5 DEF NodeNumbers, FlagFacts, Sides, BottomSaid, AtStart
      <3>2. Said(n, q, 0, q, Size(n.bl), k, side, HasFlag(t[2], k, side))
        BY <2>2, <2>4, <3>1 DEF Said, BottomSaid
      <3>. QED
        BY <1>3, <1>7, <3>2, SaidClassified
    <2>. QED
      BY <2>3, <2>4 DEF EdgeSides
  <1>12. ASSUME NEW k \in Kinds, NEW side \in EdgeSides
        PROVE  Classified(n, t, 3, k, side)
    <2>1. FlagFacts(n, k) /\ k[1] \in {0, 1} /\ k[2] \in {0, 1}
      BY FlagTable, KindIs
    <2>2. HasFlag(t[3], k, side) <=> <<side, k[3]>> \in TopRight
      BY <1>8, Zenon
    <2>3. CASE side = "right"
      <3>1. RightSaid(n, 2 * q, 0, q, Size(n.bl), k, <<"right", k[3]>> \in TopRight)
        BY <2>1, <1>5 DEF NodeNumbers, FlagFacts, Sides, RightSaid, AtStart
      <3>2. Said(n, 2 * q, 0, q, Size(n.bl), k, side, HasFlag(t[3], k, side))
        BY <2>2, <2>3, <3>1 DEF Said, RightSaid
      <3>. QED
        BY <1>3, <1>8, <3>2, SaidClassified
    <2>4. CASE side = "bottom"
      <3>1. BottomSaid(n, 2 * q, 0, q, Size(n.bl), k, <<"bottom", k[3]>> \in TopRight)
        BY <2>1, <1>5 DEF NodeNumbers, FlagFacts, Sides, BottomSaid, AtStart
      <3>2. Said(n, 2 * q, 0, q, Size(n.bl), k, side, HasFlag(t[3], k, side))
        BY <2>2, <2>4, <3>1 DEF Said, BottomSaid
      <3>. QED
        BY <1>3, <1>8, <3>2, SaidClassified
    <2>. QED
      BY <2>3, <2>4 DEF EdgeSides
  <1>13. ASSUME NEW k \in Kinds, NEW side \in EdgeSides
        PROVE  Classified(n, t, 4, k, side)
    <2>1. FlagFacts(n, k) /\ k[1] \in {0, 1} /\ k[2] \in {0, 1}
      BY FlagTable, KindIs
    <2>2. HasFlag(t[4], k, side) <=> <<side, k[3]>> \in VFlags(n, 1)
      BY <1>9, Zenon
    <2>3. CASE side = "right"
      <3>1. RightSaid(n, 3 * q, 0, q, Size(n.bl), k, <<"right", k[3]>> \in VFlags(n, 1))
        BY <2>1, <1>5 DEF NodeNumbers, FlagFacts, Sides, RightSaid, AtStart
      <3>2. Said(n, 3 * q, 0, q, Size(n.bl), k, side, HasFlag(t[4], k, side))
        BY <2>2, <2>3, <3>1 DEF Said, RightSaid
      <3>. QED
        BY <1>3, <1>9, <3>2, SaidClassified
    <2>4. CASE side = "bottom"
      <3>1. BottomSaid(n, 3 * q, 0, q, Size(n.bl), k, <<"bottom", k[3]>> \in VFlags(n, 1))
        BY <2>1, <1>5 DEF NodeNumbers, FlagFacts, Sides, BottomSaid, AtStart
      <3>2. Said(n, 3 * q, 0, q, Size(n.bl), k, side, HasFlag(t[4], k, side))
        BY <2>2, <2>4, <3>1 DEF Said, BottomSaid
      <3>. QED
        BY <1>3, <1>9, <3>2, SaidClassified
    <2>. QED
      BY <2>3, <2>4 DEF EdgeSides
  <1>. QED
    BY <1>1, <1>3, <1>10, <1>11, <1>12, <1>13 DEF PartsJudged

\* Four 4x4 blocks: of chroma, only the last has any in 4:2:0.
LEMMA SplitJudged ==
  ASSUME NEW n \in Node, Aligned(n), n.bl = 4
  PROVE  PartsJudged(n, Parts(n, "Split"))
  <1>. DEFINE a == Block(n, 0, 0, 1, 1, AllEdges)
              b == Block(n, 1, 0, 1, 1, SmallFlags(n, 1))
              c == Block(n, 0, 1, 1, 1, SmallFlags(n, 2))
              d == Block(n, 1, 1, 1, 1, SmallFlags(n, 3))
              t == <<a, b, c, d>>
  <1>1. Parts(n, "Split") = t
    BY DEF Parts, Blocks, SmallFlags
  <1>2. Len(t) = 4 /\ t[1] = a /\ t[2] = b /\ t[3] = c /\ t[4] = d
    OBVIOUS
  <1>3. 1 .. Len(t) = {1, 2, 3, 4}
    BY <1>2
  <1>4. NodeNumbers(n)
    BY NodeSizes
  <1>5. /\ ItemAt(n, t[1], 0, 0, 1, 1)
        /\ \A k \in Kinds : \A side \in EdgeSides : HasFlag(t[1], k, side) <=> <<side, k[3]>> \in AllEdges
    <2>1. Fits(n, 0, 0, 1, 1)
      BY <1>4 DEF NodeNumbers, Fits, Sides
    <2>2. AllEdges \in SUBSET AllEdges
      BY FlagsAre, EdgesAre, SmallFlagsAre
    <2>. HIDE DEF t
    <2>3. /\ ItemAt(n, a, 0, 0, 1, 1)
          /\ \A k \in Kinds : \A side \in EdgeSides : HasFlag(a, k, side) <=> <<side, k[3]>> \in AllEdges
      BY <2>1, <2>2, BlockAt
    <2>. HIDE DEF a
    <2>. QED
      BY <1>2, <2>3, Zenon
  <1>6. /\ ItemAt(n, t[2], 1, 0, 1, 1)
        /\ \A k \in Kinds : \A side \in EdgeSides : HasFlag(t[2], k, side) <=> <<side, k[3]>> \in SmallFlags(n, 1)
    <2>1. Fits(n, 1, 0, 1, 1)
      BY <1>4 DEF NodeNumbers, Fits, Sides
    <2>2. SmallFlags(n, 1) \in SUBSET AllEdges
      BY FlagsAre, EdgesAre, SmallFlagsAre
    <2>. HIDE DEF t
    <2>3. /\ ItemAt(n, b, 1, 0, 1, 1)
          /\ \A k \in Kinds : \A side \in EdgeSides : HasFlag(b, k, side) <=> <<side, k[3]>> \in SmallFlags(n, 1)
      BY <2>1, <2>2, BlockAt
    <2>. HIDE DEF b
    <2>. QED
      BY <1>2, <2>3, Zenon
  <1>7. /\ ItemAt(n, t[3], 0, 1, 1, 1)
        /\ \A k \in Kinds : \A side \in EdgeSides : HasFlag(t[3], k, side) <=> <<side, k[3]>> \in SmallFlags(n, 2)
    <2>1. Fits(n, 0, 1, 1, 1)
      BY <1>4 DEF NodeNumbers, Fits, Sides
    <2>2. SmallFlags(n, 2) \in SUBSET AllEdges
      BY FlagsAre, EdgesAre, SmallFlagsAre
    <2>. HIDE DEF t
    <2>3. /\ ItemAt(n, c, 0, 1, 1, 1)
          /\ \A k \in Kinds : \A side \in EdgeSides : HasFlag(c, k, side) <=> <<side, k[3]>> \in SmallFlags(n, 2)
      BY <2>1, <2>2, BlockAt
    <2>. HIDE DEF c
    <2>. QED
      BY <1>2, <2>3, Zenon
  <1>8. /\ ItemAt(n, t[4], 1, 1, 1, 1)
        /\ \A k \in Kinds : \A side \in EdgeSides : HasFlag(t[4], k, side) <=> <<side, k[3]>> \in SmallFlags(n, 3)
    <2>1. Fits(n, 1, 1, 1, 1)
      BY <1>4 DEF NodeNumbers, Fits, Sides
    <2>2. SmallFlags(n, 3) \in SUBSET AllEdges
      BY FlagsAre, EdgesAre, SmallFlagsAre
    <2>. HIDE DEF t
    <2>3. /\ ItemAt(n, d, 1, 1, 1, 1)
          /\ \A k \in Kinds : \A side \in EdgeSides : HasFlag(d, k, side) <=> <<side, k[3]>> \in SmallFlags(n, 3)
      BY <2>1, <2>2, BlockAt
    <2>. HIDE DEF d
    <2>. QED
      BY <1>2, <2>3, Zenon
  <1>. HIDE DEF a, b, c, d, t
  <1>20. Size(n.bl) = 2 /\ n.x \in Nat /\ n.y \in Nat /\ n.x % 2 = 0 /\ n.y % 2 = 0
    <2>1. Size(n.bl) = 2
      BY SizeOf
    <2>. QED
      BY <2>1, NodeShape
  <1>9. ASSUME NEW k \in Kinds, NEW side \in EdgeSides
        PROVE  Classified(n, t, 1, k, side)
    <2>1. FlagFacts(n, k) /\ k[1] \in {0, 1} /\ k[2] \in {0, 1}
      BY FlagTable, KindIs
    <2>2. HasFlag(t[1], k, side) <=> <<side, k[3]>> \in AllEdges
      BY <1>5, Zenon
    <2>3. CASE side = "right"
      <3>1. RightSaid(n, 0, 0, 1, 1, k, <<"right", k[3]>> \in AllEdges)
        BY <2>1, <1>4 DEF NodeNumbers, FlagFacts, Sides, RightSaid, AtStart
      <3>2. Said(n, 0, 0, 1, 1, k, side, HasFlag(t[1], k, side))
        BY <2>2, <2>3, <3>1 DEF Said, RightSaid
      <3>. QED
        BY <1>3, <1>5, <3>2, SaidClassified
    <2>4. CASE side = "bottom"
      <3>1. BottomSaid(n, 0, 0, 1, 1, k, <<"bottom", k[3]>> \in AllEdges)
        BY <2>1, <1>4 DEF NodeNumbers, FlagFacts, Sides, BottomSaid, AtStart
      <3>2. Said(n, 0, 0, 1, 1, k, side, HasFlag(t[1], k, side))
        BY <2>2, <2>4, <3>1 DEF Said, BottomSaid
      <3>. QED
        BY <1>3, <1>5, <3>2, SaidClassified
    <2>. QED
      BY <2>3, <2>4 DEF EdgeSides
  <1>10. ASSUME NEW k \in Kinds, NEW side \in EdgeSides
        PROVE  Classified(n, t, 2, k, side)
    <2>1. FlagFacts(n, k) /\ k[1] \in {0, 1} /\ k[2] \in {0, 1}
      BY FlagTable, KindIs
    <2>2. HasFlag(t[2], k, side) <=> <<side, k[3]>> \in SmallFlags(n, 1)
      BY <1>6, Zenon
    <2>3. CASE side = "right"
      <3>1. RightSaid(n, 1, 0, 1, 1, k, <<"right", k[3]>> \in SmallFlags(n, 1))
        BY <2>1, <1>4 DEF NodeNumbers, FlagFacts, Sides, RightSaid, AtStart
      <3>2. Said(n, 1, 0, 1, 1, k, side, HasFlag(t[2], k, side))
        BY <2>2, <2>3, <3>1 DEF Said, RightSaid
      <3>. QED
        BY <1>3, <1>6, <3>2, SaidClassified
    <2>4. CASE side = "bottom"
      <3>1. CASE k[1] = 0
        <4>1. Beyond(n, 1, 0, 1, 1, k, side, 0, 1, 1, 1)
          BY <2>4, <3>1, <1>20, KindIs DEF Beyond, AtStart
        <4>2. HasFlag(t[2], k, side) <=> 3 < 2
          BY <2>1, <2>2, <2>4, <3>1 DEF FlagFacts
        <4>. QED
          BY <1>3, <1>6, <1>7, <4>1, <4>2, InsideClassified
      <3>2. CASE k[2] = 1
        <4>1. ~HasArea(t[2], k)
          BY <3>2, <1>6, <1>20 DEF HasArea, ItemAt
        <4>. QED
          BY <4>1 DEF Classified
      <3>3. CASE k[1] = 1 /\ k[2] = 0
        <4>1. <<"bottom", k[3]>> \in SmallFlags(n, 1)
          BY <2>1, <3>3 DEF FlagFacts
        <4>2. Said(n, 1, 0, 1, 1, k, side, <<"bottom", k[3]>> \in SmallFlags(n, 1))
          BY <2>4, <3>3, <4>1, <1>4 DEF NodeNumbers, Sides, Said, BottomSaid, AtStart
        <4>3. Said(n, 1, 0, 1, 1, k, side, HasFlag(t[2], k, side))
          BY <2>2, <2>4, <4>2 DEF Said, BottomSaid
        <4>. QED
          BY <1>3, <1>6, <4>3, SaidClassified
      <3>. QED
        BY <3>1, <3>2, <3>3, KindIs
    <2>. QED
      BY <2>3, <2>4 DEF EdgeSides
  <1>11. ASSUME NEW k \in Kinds, NEW side \in EdgeSides
        PROVE  Classified(n, t, 3, k, side)
    <2>1. FlagFacts(n, k) /\ k[1] \in {0, 1} /\ k[2] \in {0, 1}
      BY FlagTable, KindIs
    <2>2. HasFlag(t[3], k, side) <=> <<side, k[3]>> \in SmallFlags(n, 2)
      BY <1>7, Zenon
    <2>3. CASE side = "right"
      <3>1. CASE k[1] = 0
        <4>1. Beyond(n, 0, 1, 1, 1, k, side, 1, 0, 1, 1)
          BY <2>3, <3>1, <1>20, KindIs DEF Beyond, AtStart
        <4>2. HasFlag(t[3], k, side) <=> 2 < 3
          BY <2>1, <2>2, <2>3, <3>1 DEF FlagFacts
        <4>. QED
          BY <1>3, <1>7, <1>6, <4>1, <4>2, InsideClassified
      <3>2. CASE k[1] = 1
        <4>1. ~HasArea(t[3], k)
          BY <3>2, <1>7, <1>20 DEF HasArea, ItemAt
        <4>. QED
          BY <4>1 DEF Classified
      <3>. QED
        BY <3>1, <3>2, KindIs
    <2>4. CASE side = "bottom"
      <3>1. BottomSaid(n, 0, 1, 1, 1, k, <<"bottom", k[3]>> \in SmallFlags(n, 2))
        BY <2>1, <1>4 DEF NodeNumbers, FlagFacts, Sides, BottomSaid, AtStart
      <3>2. Said(n, 0, 1, 1, 1, k, side, HasFlag(t[3], k, side))
        BY <2>2, <2>4, <3>1 DEF Said, BottomSaid
      <3>. QED
        BY <1>3, <1>7, <3>2, SaidClassified
    <2>. QED
      BY <2>3, <2>4 DEF EdgeSides
  <1>12. ASSUME NEW k \in Kinds, NEW side \in EdgeSides
        PROVE  Classified(n, t, 4, k, side)
    <2>1. FlagFacts(n, k) /\ k[1] \in {0, 1} /\ k[2] \in {0, 1}
      BY FlagTable, KindIs
    <2>2. HasFlag(t[4], k, side) <=> <<side, k[3]>> \in SmallFlags(n, 3)
      BY <1>8, Zenon
    <2>3. CASE side = "right"
      <3>1. RightSaid(n, 1, 1, 1, 1, k, <<"right", k[3]>> \in SmallFlags(n, 3))
        BY <2>1, <1>4 DEF NodeNumbers, FlagFacts, Sides, RightSaid, AtStart
      <3>2. Said(n, 1, 1, 1, 1, k, side, HasFlag(t[4], k, side))
        BY <2>2, <2>3, <3>1 DEF Said, RightSaid
      <3>. QED
        BY <1>3, <1>8, <3>2, SaidClassified
    <2>4. CASE side = "bottom"
      <3>1. BottomSaid(n, 1, 1, 1, 1, k, <<"bottom", k[3]>> \in SmallFlags(n, 3))
        BY <2>1, <1>4 DEF NodeNumbers, FlagFacts, Sides, BottomSaid, AtStart
      <3>2. Said(n, 1, 1, 1, 1, k, side, HasFlag(t[4], k, side))
        BY <2>2, <2>4, <3>1 DEF Said, BottomSaid
      <3>. QED
        BY <1>3, <1>8, <3>2, SaidClassified
    <2>. QED
      BY <2>3, <2>4 DEF EdgeSides
  <1>. QED
    BY <1>1, <1>3, <1>9, <1>10, <1>11, <1>12 DEF PartsJudged

\* Four smaller nodes: of the upper right one, what lies below left is in the
\* next; of that one, what lies above right is in the one before.
LEMMA NodesJudged ==
  ASSUME NEW n \in Node, Aligned(n), n.bl < 4
  PROVE  PartsJudged(n, Parts(n, "Split"))
  <1>. DEFINE t == <<SplitChild(n, 0), SplitChild(n, 1), SplitChild(n, 2), SplitChild(n, 3)>>
              h == Half(n)
  <1>1. Parts(n, "Split") = t
    <2>1. [i \in 1 .. 4 |-> SplitChild(n, i - 1)] = t
      OBVIOUS
    <2>. QED
      BY <2>1 DEF Parts
  <1>2. Len(t) = 4 /\ \A i \in 1 .. 4 : t[i] = SplitChild(n, i - 1)
    OBVIOUS
  <1>3. 1 .. Len(t) = {1, 2, 3, 4}
    BY <1>2
  <1>4. h \in {2, 4, 8, 16} /\ Size(n.bl) = 2 * h /\ n.x \in Nat /\ n.y \in Nat
    BY NodeIs, SizeOf DEF Half
  <1>5. /\ h * (0 % 2) = 0 /\ h * (0 \div 2) = 0 /\ h * (1 % 2) = h /\ h * (1 \div 2) = 0
        /\ h * (2 % 2) = 0 /\ h * (2 \div 2) = h /\ h * (3 % 2) = h /\ h * (3 \div 2) = h
    BY <1>4
  <1>6. ASSUME NEW i \in 0 .. 3
        PROVE  /\ SplitChild(n, i) \in Items /\ IsNode(SplitChild(n, i))
               /\ SplitChild(n, i).x = n.x + h * (i % 2)
               /\ SplitChild(n, i).y = n.y + h * (i \div 2)
               /\ Wide(SplitChild(n, i)) = h /\ High(SplitChild(n, i)) = h
    BY ChildFields, NodeIs DEF Items
  <1>7. /\ SplitChild(n, 0).right /\ SplitChild(n, 0).bottom
        /\ (SplitChild(n, 1).right <=> n.right) /\ ~SplitChild(n, 1).bottom
        /\ SplitChild(n, 2).right /\ (SplitChild(n, 2).bottom <=> n.bottom)
        /\ ~SplitChild(n, 3).right /\ ~SplitChild(n, 3).bottom
    <2>1. \A i \in 0 .. 3 : /\ SplitChild(n, i).right <=> ~(i = 3 \/ (i = 1 /\ ~n.right))
                            /\ SplitChild(n, i).bottom <=> (i = 0 \/ (i = 2 /\ n.bottom))
      BY DEF SplitChild
    <2>. QED
      BY <2>1
  <1>. HIDE DEF h
  <1>8. /\ Fits(n, 0, 0, h, h) /\ Fits(n, h, 0, h, h) /\ Fits(n, 0, h, h, h) /\ Fits(n, h, h, h, h)
    BY <1>4 DEF Fits, Sides
  <1>9. /\ ItemAt(n, t[1], 0, 0, h, h) /\ ItemAt(n, t[2], h, 0, h, h)
        /\ ItemAt(n, t[3], 0, h, h, h) /\ ItemAt(n, t[4], h, h, h, h)
    <2>1. ItemAt(n, SplitChild(n, 0), 0, 0, h, h)
      BY <1>5, <1>6, <1>8 DEF ItemAt
    <2>2. ItemAt(n, SplitChild(n, 1), h, 0, h, h)
      BY <1>5, <1>6, <1>8 DEF ItemAt
    <2>3. ItemAt(n, SplitChild(n, 2), 0, h, h, h)
      BY <1>5, <1>6, <1>8 DEF ItemAt
    <2>4. ItemAt(n, SplitChild(n, 3), h, h, h, h)
      BY <1>5, <1>6, <1>8 DEF ItemAt
    <2>. QED
      BY <2>1, <2>2, <2>3, <2>4
  <1>10. ASSUME NEW k \in Kinds
         PROVE  /\ HasFlag(t[1], k, "right") /\ HasFlag(t[1], k, "bottom")
                /\ (HasFlag(t[2], k, "right") <=> n.right) /\ ~HasFlag(t[2], k, "bottom")
                /\ HasFlag(t[3], k, "right") /\ (HasFlag(t[3], k, "bottom") <=> n.bottom)
                /\ ~HasFlag(t[4], k, "right") /\ ~HasFlag(t[4], k, "bottom")
    <2>1. \A i \in 0 .. 3 : /\ HasFlag(SplitChild(n, i), k, "right") <=> SplitChild(n, i).right
                            /\ HasFlag(SplitChild(n, i), k, "bottom") <=> SplitChild(n, i).bottom
      BY <1>6 DEF HasFlag
    <2>. QED
      BY <2>1, <1>7
  <1>. HIDE DEF t
  <1>11. ASSUME NEW k \in Kinds, NEW side \in EdgeSides
         PROVE  Classified(n, t, 1, k, side)
    <2>1. /\ HasFlag(t[1], k, "right") /\ HasFlag(t[1], k, "bottom")
          /\ (HasFlag(t[2], k, "right") <=> n.right) /\ ~HasFlag(t[2], k, "bottom")
          /\ HasFlag(t[3], k, "right") /\ (HasFlag(t[3], k, "bottom") <=> n.bottom)
          /\ ~HasFlag(t[4], k, "right") /\ ~HasFlag(t[4], k, "bottom")
      BY <1>10
    <2>2. CASE side = "right"
      <3>1. RightSaid(n, 0, 0, h, h, k, HasFlag(t[1], k, "right"))
        BY <1>4, <2>1 DEF RightSaid, AtStart
      <3>2. Said(n, 0, 0, h, h, k, side, HasFlag(t[1], k, side))
        BY <2>2, <3>1 DEF Said
      <3>. QED
        BY <1>3, <1>9, <3>2, SaidClassified
    <2>3. CASE side = "bottom"
      <3>1. BottomSaid(n, 0, 0, h, h, k, HasFlag(t[1], k, "bottom"))
        BY <1>4, <2>1 DEF BottomSaid, AtStart
      <3>2. Said(n, 0, 0, h, h, k, side, HasFlag(t[1], k, side))
        BY <2>3, <3>1 DEF Said
      <3>. QED
        BY <1>3, <1>9, <3>2, SaidClassified
    <2>. QED
      BY <2>2, <2>3 DEF EdgeSides
  <1>12. ASSUME NEW k \in Kinds, NEW side \in EdgeSides
         PROVE  Classified(n, t, 2, k, side)
    <2>1. /\ HasFlag(t[1], k, "right") /\ HasFlag(t[1], k, "bottom")
          /\ (HasFlag(t[2], k, "right") <=> n.right) /\ ~HasFlag(t[2], k, "bottom")
          /\ HasFlag(t[3], k, "right") /\ (HasFlag(t[3], k, "bottom") <=> n.bottom)
          /\ ~HasFlag(t[4], k, "right") /\ ~HasFlag(t[4], k, "bottom")
      BY <1>10
    <2>2. CASE side = "right"
      <3>1. RightSaid(n, h, 0, h, h, k, HasFlag(t[2], k, "right"))
        BY <1>4, <2>1 DEF RightSaid, AtStart
      <3>2. Said(n, h, 0, h, h, k, side, HasFlag(t[2], k, side))
        BY <2>2, <3>1 DEF Said
      <3>. QED
        BY <1>3, <1>9, <3>2, SaidClassified
    <2>3. CASE side = "bottom"
      <3>1. Beyond(n, h, 0, h, h, k, side, 0, h, h, h)
        BY <1>4, <2>3 DEF Beyond, AtStart
      <3>2. HasFlag(t[2], k, side) <=> 3 < 2
        BY <2>1, <2>3
      <3>. QED
        BY <1>3, <1>9, <3>1, <3>2, InsideClassified
    <2>. QED
      BY <2>2, <2>3 DEF EdgeSides
  <1>13. ASSUME NEW k \in Kinds, NEW side \in EdgeSides
         PROVE  Classified(n, t, 3, k, side)
    <2>1. /\ HasFlag(t[1], k, "right") /\ HasFlag(t[1], k, "bottom")
          /\ (HasFlag(t[2], k, "right") <=> n.right) /\ ~HasFlag(t[2], k, "bottom")
          /\ HasFlag(t[3], k, "right") /\ (HasFlag(t[3], k, "bottom") <=> n.bottom)
          /\ ~HasFlag(t[4], k, "right") /\ ~HasFlag(t[4], k, "bottom")
      BY <1>10
    <2>2. CASE side = "right"
      <3>1. Beyond(n, 0, h, h, h, k, side, h, 0, h, h)
        BY <1>4, <2>2 DEF Beyond, AtStart
      <3>2. HasFlag(t[3], k, side) <=> 2 < 3
        BY <2>1, <2>2
      <3>. QED
        BY <1>3, <1>9, <3>1, <3>2, InsideClassified
    <2>3. CASE side = "bottom"
      <3>1. BottomSaid(n, 0, h, h, h, k, HasFlag(t[3], k, "bottom"))
        BY <1>4, <2>1 DEF BottomSaid, AtStart
      <3>2. Said(n, 0, h, h, h, k, side, HasFlag(t[3], k, side))
        BY <2>3, <3>1 DEF Said
      <3>. QED
        BY <1>3, <1>9, <3>2, SaidClassified
    <2>. QED
      BY <2>2, <2>3 DEF EdgeSides
  <1>14. ASSUME NEW k \in Kinds, NEW side \in EdgeSides
         PROVE  Classified(n, t, 4, k, side)
    <2>1. /\ HasFlag(t[1], k, "right") /\ HasFlag(t[1], k, "bottom")
          /\ (HasFlag(t[2], k, "right") <=> n.right) /\ ~HasFlag(t[2], k, "bottom")
          /\ HasFlag(t[3], k, "right") /\ (HasFlag(t[3], k, "bottom") <=> n.bottom)
          /\ ~HasFlag(t[4], k, "right") /\ ~HasFlag(t[4], k, "bottom")
      BY <1>10
    <2>2. CASE side = "right"
      <3>1. RightSaid(n, h, h, h, h, k, HasFlag(t[4], k, "right"))
        BY <1>4, <2>1 DEF RightSaid, AtStart
      <3>2. Said(n, h, h, h, h, k, side, HasFlag(t[4], k, side))
        BY <2>2, <3>1 DEF Said
      <3>. QED
        BY <1>3, <1>9, <3>2, SaidClassified
    <2>3. CASE side = "bottom"
      <3>1. BottomSaid(n, h, h, h, h, k, HasFlag(t[4], k, "bottom"))
        BY <1>4, <2>1 DEF BottomSaid, AtStart
      <3>2. Said(n, h, h, h, h, k, side, HasFlag(t[4], k, side))
        BY <2>3, <3>1 DEF Said
      <3>. QED
        BY <1>3, <1>9, <3>2, SaidClassified
    <2>. QED
      BY <2>2, <2>3 DEF EdgeSides
  <1>. QED
    BY <1>1, <1>3, <1>11, <1>12, <1>13, <1>14 DEF PartsJudged

\* However a node is cut, what its parts say of their corners is right if what
\* the node says of its own is.
LEMMA AllPartsJudged ==
  ASSUME NEW n \in Node, Aligned(n), NEW part \in Partitions(n)
  PROVE  PartsJudged(n, Parts(n, part))
  <1>1. n.bl \in 0 .. 4
    BY NodeIs
  <1>2. CASE part = "Split" /\ n.bl < 4
    BY <1>2, NodesJudged
  <1>3. CASE part = "Split" /\ ~(n.bl < 4)
    BY <1>1, <1>3, SplitJudged
  <1>4. CASE part \in {"H4", "V4"}
    <2>1. n.bl \in {1, 2, 3}
      BY <1>1, <1>4 DEF Partitions
    <2>. QED
      BY <1>4, <2>1, H4Judged, V4Judged
  <1>5. CASE part \in {"TTop", "TBottom", "TLeft", "TRight"}
    <2>1. n.bl # 4
      BY <1>5 DEF Partitions
    <2>. QED
      BY <1>5, <2>1, TTopJudged, TBottomJudged, TLeftJudged, TRightJudged
  <1>6. CASE part \in {"None", "H", "V"}
    BY <1>6, NoneJudged, HJudged, VJudged
  <1>7. part \in {"None", "H", "V", "Split", "TTop", "TBottom", "TLeft", "TRight", "H4", "V4"}
    BY DEF Partitions
  <1>. QED
    BY <1>2, <1>3, <1>4, <1>5, <1>6, <1>7

-----------------------------------------------------------------------------
(* What lies beside the head of what is to be done. *)

\* A cell of the grid that is in the tile, and where it is.
LEMMA ReachedIs ==
  ASSUME TypeOK, NEW c, Reached(c, at)
  PROVE  /\ c \in Nat \X Nat /\ c[1] \in Nat /\ c[2] \in Nat /\ c[1] < GridW(0) /\ c[2] < GridH(0)
         /\ c \in Cells(Grid(0)) /\ InTile(SbOf(c), at) /\ SbOf(c) \in Nat \X Nat
  <1>1. frame \in Frames
    BY DEF TypeOK
  <1>2. c \in Cells(Grid(0)) /\ InTile(SbOf(c), at)
    BY DEF Reached
  <1>3. c \in Nat \X Nat /\ c[1] < GridW(0) /\ c[2] < GridH(0)
    BY <1>1, <1>2, CellInPicture
  <1>4. SbOf(c) \in Nat \X Nat
    BY <1>1, <1>3, SuperblockOf
  <1>. QED
    BY <1>2, <1>3, <1>4

\* Luma cells stand for themselves.
LEMMA LumaCell ==
  ASSUME frame \in Frames, NEW c \in Nat \X Nat
  PROVE  LastCell(0, c) = c
  BY Steps DEF LastCell

\* A cell of luma is decoded when it is begun and nothing to come holds it; and
\* then so are those above and to the left of it in the tile.
LEMMA LumaDone ==
  ASSUME TypeOK, DoneInv, ContextInv, NEW c, Reached(c, at), Decoded(c, todo, at),
         NEW d, Reached(d, at), \/ d[1] = c[1] /\ d[2] <= c[2]
                                \/ d[2] = c[2] /\ d[1] <= c[1]
  PROVE  Decoded(d, todo, at)
  <1>1. frame \in Frames /\ 0 \in Planes
    BY DEF TypeOK, Planes
  <1>2. /\ c \in Nat \X Nat /\ c[1] \in Nat /\ c[2] \in Nat /\ c[1] < GridW(0) /\ c[2] < GridH(0)
        /\ c \in Cells(Grid(0)) /\ InTile(SbOf(c), at)
    BY ReachedIs
  <1>3. /\ d \in Nat \X Nat /\ d[1] \in Nat /\ d[2] \in Nat /\ d[1] < GridW(0) /\ d[2] < GridH(0)
        /\ d \in Cells(Grid(0)) /\ InTile(SbOf(d), at)
    BY ReachedIs
  <1>4. LastCell(0, c) = c /\ LastCell(0, d) = d
    BY <1>1, <1>2, <1>3, LumaCell
  <1>5. c \in done[0] /\ (d \in done[0] => Decoded(d, todo, at))
    BY <1>1, <1>2, <1>3, <1>4 DEF DoneInv
  <1>6. EdgeW(0) = GridW(0) /\ EdgeH(0) = GridH(0)
    BY DEF EdgeW, EdgeH
  <1>7. ContextOK(0, done[0], above[0], left[0], at)
    BY <1>1 DEF ContextInv
  <1>8. /\ c \in done[0] <=> c[2] < above[0][c[1]]
        /\ c \in done[0] <=> c[1] < left[0][c[2]]
        /\ d \in done[0] <=> d[2] < above[0][d[1]]
        /\ d \in done[0] <=> d[1] < left[0][d[2]]
    BY <1>2, <1>3, <1>4, <1>6, <1>7 DEF ContextOK
  <1>9. above[0][c[1]] \in Nat /\ left[0][c[2]] \in Nat
    <2>1. above[0] \in [0 .. GridW(0) - 1 -> Nat] /\ left[0] \in [0 .. GridH(0) - 1 -> Nat]
      BY <1>1, TypeGives
    <2>2. GridW(0) \in Nat /\ GridH(0) \in Nat
      BY <1>1, Grids
    <2>3. c[1] \in 0 .. GridW(0) - 1 /\ c[2] \in 0 .. GridH(0) - 1
      BY ONLY <1>2, <2>2
    <2>. QED
      BY <2>1, <2>3
  <1>10. d \in done[0]
    <2>1. CASE d[1] = c[1] /\ d[2] <= c[2]
      <3>1. c[2] < above[0][c[1]]
        BY <1>5, <1>8
      <3>2. d[2] < above[0][c[1]]
        BY ONLY <1>2, <1>3, <1>9, <2>1, <3>1
      <3>. QED
        BY <1>8, <2>1, <3>2
    <2>2. CASE d[2] = c[2] /\ d[1] <= c[1]
      <3>1. c[1] < left[0][c[2]]
        BY <1>5, <1>8
      <3>2. d[1] < left[0][c[2]]
        BY ONLY <1>2, <1>3, <1>9, <2>2, <3>1
      <3>. QED
        BY <1>8, <2>2, <3>2
    <2>. QED
      BY <2>1, <2>2
  <1>. QED
    BY <1>5, <1>10

\* A cell of an item that lies above or left of one in the grid is in the grid.
LEMMA ReachedInside ==
  ASSUME TypeOK, NEW it \in Items, Inside(it, Root(at)), NEW d \in Nat \X Nat, In(it, d),
         d[1] < GridW(0), d[2] < GridH(0)
  PROVE  Reached(d, at) /\ SbOf(d) = Here(at)
  <1>1. frame \in Frames /\ 0 \in Planes
    BY DEF TypeOK, Planes
  <1>2. SbOf(d) = Here(at) /\ InTile(SbOf(d), at)
    BY CellHere
  <1>3. d \in Cells(Grid(0))
    BY <1>1, GridCells
  <1>. QED
    BY <1>2, <1>3 DEF Reached

\* What lies above the head or to the left of it is decoded; what lies below or
\* to the right is not.
LEMMA BesideHead ==
  ASSUME TypeOK, WalkInv, DoneInv, ContextInv, todo # <<>>, NEW n, n = Head(todo),
         NEW c, Reached(c, at)
  PROVE  /\ Before(n, c) => Decoded(c, todo, at) /\ ~In(n, c)
         /\ After(n, c) => ~Decoded(c, todo, at) /\ ~In(n, c)
  <1>1. frame \in Frames /\ PlaceOK(at) /\ todo \in Seq(Items)
    BY TypeGives
  <1>2. /\ n \in Items /\ n = todo[1] /\ 1 \in 1 .. Len(todo) /\ Inside(n, Root(at))
        /\ \A e : In(n, e) => Covered(todo, e)
    BY HeadIs
  <1>3. n.x \in Nat /\ n.y \in Nat /\ Wide(n) \in Nat /\ High(n) \in Nat /\ Wide(n) > 0 /\ High(n) > 0
    <2>1. n.x \in Nat /\ n.y \in Nat /\ Wide(n) \in Sides /\ High(n) \in Sides
      BY <1>2, ItemIs DEF Items
    <2>. QED
      BY <2>1 DEF Sides
  <1>4. /\ c \in Nat \X Nat /\ c[1] \in Nat /\ c[2] \in Nat /\ c[1] < GridW(0) /\ c[2] < GridH(0)
        /\ InTile(SbOf(c), at) /\ SbOf(c) \in Nat \X Nat
    BY ReachedIs
  <1>5. (Before(n, c) \/ After(n, c)) => ~In(n, c)
    BY ONLY <1>3, <1>4 DEF Before, After, In
  <1>6. ASSUME NEW d \in Nat \X Nat, In(n, d),
               (d[1] = c[1] /\ c[2] <= d[2]) \/ (d[2] = c[2] /\ c[1] <= d[1]), ~In(n, c)
        PROVE  Decoded(c, todo, at)
    <2>1. SbOf(d) = Here(at)
      BY <1>2, <1>6, CellHere
    <2>2. (SbOf(c)[1] = at.x /\ SbOf(c)[2] <= at.y) \/ (SbOf(c)[2] = at.y /\ SbOf(c)[1] <= at.x)
      <3>1. /\ SbOf(c)[1] = c[1] \div frame.sb /\ SbOf(c)[2] = c[2] \div frame.sb
            /\ d[1] \div frame.sb = at.x /\ d[2] \div frame.sb = at.y
        BY <2>1 DEF SbOf, Here
      <3>2. d[1] \in Nat /\ d[2] \in Nat /\ frame.sb \in {16, 32}
        BY <1>1, <1>6, FrameFields
      <3>3. /\ c[1] <= d[1] => c[1] \div frame.sb <= d[1] \div frame.sb
            /\ c[2] <= d[2] => c[2] \div frame.sb <= d[2] \div frame.sb
        BY ONLY <1>4, <3>2
      <3>. QED
        BY <1>6, <3>1, <3>3
    <2>3. Begun(c, at)
      BY <1>1, <1>4, <2>2, AboveAndLeft DEF Begun
    <2>4. ~Covered(todo, c)
      <3>. SUFFICES ASSUME NEW i \in 1 .. Len(todo), In(todo[i], c)
                    PROVE  FALSE
        BY DEF Covered
      <3>1. i # 1
        BY <1>2, <1>6
      <3>2. todo[i] \in Items /\ 1 < i
        BY <1>1, <3>1
      <3>3. Precedes(n, todo[i])
        BY <1>2, <3>2 DEF WalkInv, Ordered
      <3>4. ~(c[1] = d[1] /\ c[2] <= d[2]) /\ ~(c[2] = d[2] /\ c[1] <= d[1])
        BY <1>2, <1>4, <1>6, <3>2, <3>3, OrderedCells
      <3>. QED
        BY <1>6, <3>4
    <2>. QED
      BY <2>3, <2>4 DEF Decoded, Begun
  <1>7. ASSUME Before(n, c)
        PROVE  Decoded(c, todo, at)
    <2>1. CASE n.x <= c[1] /\ c[1] < n.x + Wide(n) /\ c[2] < n.y
      <3>. DEFINE d == <<c[1], n.y>>
      <3>1. d \in Nat \X Nat /\ d[1] = c[1] /\ d[2] = n.y
        BY <1>3, <1>4
      <3>2. In(n, d) /\ c[2] <= d[2]
        BY ONLY <1>3, <1>4, <2>1, <3>1 DEF In
      <3>. QED
        BY <1>5, <1>6, <1>7, <3>1, <3>2
    <2>2. CASE n.y <= c[2] /\ c[2] < n.y + High(n) /\ c[1] < n.x
      <3>. DEFINE d == <<n.x, c[2]>>
      <3>1. d \in Nat \X Nat /\ d[2] = c[2] /\ d[1] = n.x
        BY <1>3, <1>4
      <3>2. In(n, d) /\ c[1] <= d[1]
        BY ONLY <1>3, <1>4, <2>2, <3>1 DEF In
      <3>. QED
        BY <1>5, <1>6, <1>7, <3>1, <3>2
    <2>. QED
      BY <1>7, <2>1, <2>2 DEF Before
  <1>8. ASSUME NEW d \in Nat \X Nat, In(n, d), d[1] <= c[1], d[2] <= c[2],
               d[1] = c[1] \/ d[2] = c[2]
        PROVE  ~Decoded(c, todo, at)
    <2>1. d[1] \in Nat /\ d[2] \in Nat /\ GridW(0) \in Nat /\ GridH(0) \in Nat
      BY <1>1, Grids DEF Planes
    <2>2. d[1] < GridW(0) /\ d[2] < GridH(0)
      BY ONLY <1>4, <1>8, <2>1
    <2>3. Reached(d, at)
      BY <1>2, <1>8, <2>2, ReachedInside
    <2>4. ~Decoded(d, todo, at)
      BY <1>2, <1>8 DEF Decoded
    <2>. QED
      BY <1>8, <2>3, <2>4, LumaDone
  <1>9. ASSUME After(n, c)
        PROVE  ~Decoded(c, todo, at)
    <2>1. CASE n.x <= c[1] /\ c[1] < n.x + Wide(n) /\ c[2] >= n.y + High(n)
      <3>. DEFINE d == <<c[1], n.y>>
      <3>1. d \in Nat \X Nat /\ d[1] = c[1] /\ d[2] = n.y
        BY <1>3, <1>4
      <3>2. In(n, d) /\ d[2] <= c[2] /\ d[1] <= c[1]
        BY ONLY <1>3, <1>4, <2>1, <3>1 DEF In
      <3>. QED
        BY <1>8, <3>1, <3>2
    <2>2. CASE n.y <= c[2] /\ c[2] < n.y + High(n) /\ c[1] >= n.x + Wide(n)
      <3>. DEFINE d == <<n.x, c[2]>>
      <3>1. d \in Nat \X Nat /\ d[2] = c[2] /\ d[1] = n.x
        BY <1>3, <1>4
      <3>2. In(n, d) /\ d[1] <= c[1] /\ d[2] <= c[2]
        BY ONLY <1>3, <1>4, <2>2, <3>1 DEF In
      <3>. QED
        BY <1>8, <3>1, <3>2
    <2>. QED
      BY <1>9, <2>1, <2>2 DEF After
  <1>. QED
    BY <1>5, <1>7, <1>9

\* No rectangle holds its own corner neighbours.
LEMMA CornerOutside ==
  ASSUME NEW b \in Items, NEW k \in Kinds, NEW side \in EdgeSides
  PROVE  ~In(b, Corner(b, k, side))
  <1>1. b.x \in Nat /\ b.y \in Nat /\ Wide(b) \in Nat /\ High(b) \in Nat
    BY ItemIs DEF Items, Sides
  <1>2. k[1] \in Nat /\ k[2] \in Nat
    BY KindIs
  <1>3. CASE side = "right"
    <2>1. Corner(b, k, side)[1] = b.x + Wide(b) + k[1]
      BY <1>3 DEF Corner
    <2>. QED
      BY ONLY <1>1, <1>2, <2>1 DEF In
  <1>4. CASE side = "bottom"
    <2>1. Corner(b, k, side)[2] = b.y + High(b) + k[2]
      BY <1>4 DEF Corner
    <2>. QED
      BY ONLY <1>1, <1>2, <2>1 DEF In
  <1>. QED
    BY <1>3, <1>4 DEF EdgeSides

\* Every node has samples in every plane.
LEMMA NodeArea ==
  ASSUME NEW n \in Node, NEW k \in Kinds
  PROVE  HasArea(n, k)
  <1>1. Size(n.bl) \in {2, 4, 8, 16, 32} /\ Wide(n) = Size(n.bl) /\ High(n) = Size(n.bl)
    BY NodeIs, SizeOf
  <1>2. k[1] \in {0, 1} /\ k[2] \in {0, 1}
    BY KindIs
  <1>. QED
    BY <1>1, <1>2 DEF HasArea

\* What is to come once other rectangles took the place of the head.
ReplacedBy(t, s, u) ==
    /\ Len(u) = Len(s) + Len(t) - 1
    /\ \A i \in 1 .. Len(s) :
         /\ i \in 1 .. Len(u) /\ u[i] = s[i]
         /\ \A c : ToCome(u, i, c) <=> (\E j \in i .. Len(s) : In(s[j], c)) \/ ToCome(t, 2, c)
    /\ \A m \in 2 .. Len(t) :
         /\ Len(s) + m - 1 \in 1 .. Len(u) /\ u[Len(s) + m - 1] = t[m]
         /\ \A c : ToCome(u, Len(s) + m - 1, c) <=> ToCome(t, m, c)
    /\ \A i \in 1 .. Len(u) : i \in 1 .. Len(s) \/ \E m \in 2 .. Len(t) : i = Len(s) + m - 1
\* Putting the parts of a node, or nothing, in place of the head leaves the
\* rest of the walk as it was.
LEMMA Replacing ==
  ASSUME NEW t \in Seq(Items), t # <<>>, NEW s \in Seq(Items)
  PROVE  ReplacedBy(t, s, s \o Tail(t))
  <1>. DEFINE u == s \o Tail(t)
              l == Len(s)
              e == Len(t)
  <1>1. l \in Nat /\ e \in Nat /\ e >= 1 /\ Len(u) = l + e - 1
    OBVIOUS
  <1>2. \A i \in 1 .. l : u[i] = s[i]
    OBVIOUS
  <1>3. \A m \in 2 .. e : u[l + m - 1] = t[m]
    <2>. TAKE m \in 2 .. e
    <2>1. l + m - 1 \in 1 .. Len(u) /\ l + m - 1 > l /\ l + m - 1 - l = m - 1 /\ m - 1 \in 1 .. Len(Tail(t))
      BY <1>1
    <2>2. u[l + m - 1] = Tail(t)[m - 1]
      BY <2>1
    <2>3. Tail(t)[m - 1] = t[m]
      BY <2>1
    <2>. QED
      BY <2>2, <2>3
  <1>. HIDE DEF u, l, e
  <1>4. ASSUME NEW m \in 2 .. e, NEW c
        PROVE  ToCome(u, l + m - 1, c) <=> ToCome(t, m, c)
    <2>1. ASSUME NEW j \in (l + m - 1) .. Len(u), In(u[j], c)
          PROVE  ToCome(t, m, c)
      <3>1. j - l + 1 \in m .. e /\ j - l + 1 \in 2 .. e /\ l + (j - l + 1) - 1 = j
        BY <1>1, <2>1
      <3>2. In(t[j - l + 1], c)
        BY <1>3, <2>1, <3>1
      <3>. QED
        BY <3>1, <3>2 DEF ToCome, e
    <2>2. ASSUME NEW j \in m .. e, In(t[j], c)
          PROVE  ToCome(u, l + m - 1, c)
      <3>1. l + j - 1 \in (l + m - 1) .. Len(u) /\ j \in 2 .. e
        BY <1>1, <2>2
      <3>2. In(u[l + j - 1], c)
        BY <1>3, <2>2, <3>1
      <3>. QED
        BY <3>1, <3>2 DEF ToCome
    <2>. QED
      BY <2>1, <2>2 DEF ToCome, e
  <1>5. ASSUME NEW i \in 1 .. l, NEW c
        PROVE  ToCome(u, i, c) <=> (\E j \in i .. l : In(s[j], c)) \/ ToCome(t, 2, c)
    <2>1. ASSUME NEW j \in i .. Len(u), In(u[j], c)
          PROVE  (\E h \in i .. l : In(s[h], c)) \/ ToCome(t, 2, c)
      <3>1. CASE j <= l
        <4>1. j \in i .. l /\ j \in 1 .. l
          BY <1>1, <2>1, <3>1
        <4>2. In(s[j], c)
          BY <1>2, <2>1, <4>1
        <4>. QED
          BY <4>1, <4>2
      <3>2. CASE j > l
        <4>1. j - l + 1 \in 2 .. e /\ l + (j - l + 1) - 1 = j
          BY <1>1, <2>1, <3>2
        <4>2. In(t[j - l + 1], c)
          BY <1>3, <2>1, <4>1
        <4>. QED
          BY <4>1, <4>2 DEF ToCome, e
      <3>3. j <= l \/ j > l
        BY <1>1
      <3>. QED
        BY <3>1, <3>2, <3>3
    <2>2. ASSUME NEW j \in i .. l, In(s[j], c)
          PROVE  ToCome(u, i, c)
      <3>1. j \in i .. Len(u) /\ j \in 1 .. l
        BY <1>1, <2>2
      <3>2. In(u[j], c)
        BY <1>2, <2>2, <3>1
      <3>. QED
        BY <3>1, <3>2 DEF ToCome
    <2>3. ASSUME NEW j \in 2 .. e, In(t[j], c)
          PROVE  ToCome(u, i, c)
      <3>1. l + j - 1 \in i .. Len(u)
        BY <1>1, <2>3
      <3>2. In(u[l + j - 1], c)
        BY <1>3, <2>3
      <3>. QED
        BY <3>1, <3>2 DEF ToCome
    <2>4. ToCome(u, i, c) => \E j \in i .. Len(u) : In(u[j], c)
      BY DEF ToCome
    <2>5. ToCome(t, 2, c) => \E j \in 2 .. e : In(t[j], c)
      BY DEF ToCome, e
    <2>. QED
      BY <2>1, <2>2, <2>3, <2>4, <2>5
  <1>6. \A i \in 1 .. l : i \in 1 .. Len(u)
    BY <1>1
  <1>7. \A m \in 2 .. e : l + m - 1 \in 1 .. Len(u)
    BY <1>1
  <1>8. ASSUME NEW i \in 1 .. Len(u)
        PROVE  i \in 1 .. l \/ \E m \in 2 .. e : i = l + m - 1
    <2>1. CASE i <= l
      BY <1>1, <2>1
    <2>2. CASE i > l
      <3>1. i - l + 1 \in 2 .. e /\ i = l + (i - l + 1) - 1
        BY <1>1, <2>2
      <3>. QED
        BY <3>1
    <2>. QED
      BY <1>1, <2>1, <2>2
  <1>. QED
    BY <1>1, <1>2, <1>3, <1>4, <1>5, <1>6, <1>7, <1>8 DEF ReplacedBy, u, l, e

\* What follows the head says the same after it as before.
LEMMA SameEdges ==
  ASSUME NEW t, NEW u, NEW i, NEW m, u[i] = t[m], \A c : ToCome(u, i, c) <=> ToCome(t, m, c),
         NEW s, EdgeOK(t, m, s)
  PROVE  EdgeOK(u, i, s)
  BY DEF EdgeOK, Right

\* What is said after a step that keeps the frame.
LEMMA EdgeNext ==
  ASSUME frame' = frame, \A i \in 1 .. Len(todo') : EdgeOK(todo', i, at')
  PROVE  EdgeInv'
  <1>. SUFFICES ASSUME NEW i \in 1 .. Len(todo')
                PROVE  EdgeOK(todo, i, at)'
    BY DEF EdgeInv
  <1>1. EdgeOK(todo', i, at')
    OBVIOUS
  <1>2. ASSUME NEW c
        PROVE  Reached(c, at)' <=> Reached(c, at')
    BY DEF Reached, InTile, SbOf, Cells, Grid, GridW, GridH, StepH, StepV, SsH, SsV
  <1>3. ASSUME NEW c, NEW flag
        PROVE  Right(c, flag, todo, i, at)' <=> Right(c, flag, todo', i, at')
    BY <1>2 DEF Right, ToCome, Begun, SbOf, Here, Earlier, In, Wide, High, IsNode, Size
  <1>4. ASSUME NEW k \in Kinds, NEW side \in EdgeSides
        PROVE  /\ HasArea(todo[i], k)' <=> HasArea(todo'[i], k)
               /\ Corner(todo[i], k, side)' = Corner(todo'[i], k, side)
               /\ HasFlag(todo[i], k, side)' = HasFlag(todo'[i], k, side)
    BY DEF HasArea, Corner, HasFlag, Back, Wide, High, IsNode, Size
  <1>. QED
    BY <1>1, <1>3, <1>4 DEF EdgeOK

\* What the parts of a node say of a corner, in place of the node.
LEMMA PartsEdges ==
  ASSUME TypeOK, WalkInv, DoneInv, ContextInv, EdgeInv, todo # <<>>,
         NEW n \in Node, n = Head(todo), NEW s, Tiling(s, n), PartsJudged(n, s),
         NEW i \in 1 .. Len(s), NEW k \in Kinds, NEW side \in EdgeSides, HasArea(s[i], k),
         NEW u, ReplacedBy(todo, s, u)
  PROVE  Right(Corner(s[i], k, side), HasFlag(s[i], k, side), u, i, at)
  <1>. DEFINE c == Corner(s[i], k, side)
              f == HasFlag(s[i], k, side)
  <1>. SUFFICES ASSUME Reached(c, at)
                PROVE  f <=> ~ToCome(u, i, c) /\ Begun(c, at)
    BY DEF Right
  <1>1. c \in Nat \X Nat
    BY ReachedIs
  <1>2. /\ s \in Seq(Items) /\ Ordered(s) /\ \A j \in 1 .. Len(s) : s[j] \in Items /\ Inside(s[j], n)
        /\ Len(s) \in Nat
    BY DEF Tiling
  <1>3. /\ todo \in Seq(Items) /\ n \in Items /\ n = todo[1] /\ 1 \in 1 .. Len(todo) /\ Inside(n, Root(at))
        /\ \A e : In(n, e) => Covered(todo, e)
    BY TypeGives, HeadIs
  <1>4. ToCome(u, i, c) <=> (\E j \in i .. Len(s) : In(s[j], c)) \/ ToCome(todo, 2, c)
    BY DEF ReplacedBy
  <1>5. /\ Covered(todo, c) <=> In(n, c) \/ ToCome(todo, 2, c)
        /\ Covered(todo, c) <=> ToCome(todo, 1, c)
    <2>1. \A j \in 1 .. Len(todo) : j = 1 \/ j \in 2 .. Len(todo)
      OBVIOUS
    <2>2. \A j \in 2 .. Len(todo) : j \in 1 .. Len(todo)
      OBVIOUS
    <2>. QED
      BY <1>3, <2>1, <2>2 DEF Covered, ToCome
  <1>6. ~In(n, c) => (ToCome(u, i, c) <=> Covered(todo, c))
    <2>1. ASSUME NEW j \in i .. Len(s), In(s[j], c)
          PROVE  In(n, c)
      <3>1. j \in 1 .. Len(s)
        BY <1>2, <2>1
      <3>. QED
        BY <1>1, <1>2, <1>3, <2>1, <3>1, InInside
    <2>. QED
      BY <1>4, <1>5, <2>1
  <1>7. Classified(n, s, i, k, side)
    BY DEF PartsJudged
  <1>8. CASE Judged(n, k, side, c, f)
    <2>1. CASE c = Corner(n, k, side) /\ (f <=> HasFlag(n, k, side))
      <3>1. ~In(n, c)
        BY <1>3, <2>1, CornerOutside
      <3>2. EdgeOK(todo, 1, at)
        BY <1>3 DEF EdgeInv
      <3>3. Right(Corner(n, k, side), HasFlag(n, k, side), todo, 1, at)
        BY <1>3, <3>2, NodeArea DEF EdgeOK
      <3>4. HasFlag(n, k, side) <=> ~ToCome(todo, 1, c) /\ Begun(c, at)
        BY <2>1, <3>3 DEF Right
      <3>. QED
        BY <1>5, <1>6, <2>1, <3>1, <3>4
    <2>2. CASE Before(n, c) /\ f
      <3>1. Decoded(c, todo, at) /\ ~In(n, c)
        BY <1>3, <2>2, BesideHead
      <3>. QED
        BY <1>6, <2>2, <3>1 DEF Decoded, Begun
    <2>3. CASE After(n, c) /\ ~f
      <3>1. ~Decoded(c, todo, at) /\ ~In(n, c)
        BY <1>3, <2>3, BesideHead
      <3>. QED
        BY <1>6, <2>3, <3>1 DEF Decoded, Begun
    <2>. QED
      BY <1>8, <2>1, <2>2, <2>3 DEF Judged
  <1>9. ASSUME NEW j \in 1 .. Len(s), In(s[j], c), f <=> j < i
        PROVE  f <=> ~ToCome(u, i, c) /\ Begun(c, at)
    <2>1. In(n, c)
      BY <1>1, <1>2, <1>3, <1>9, InInside
    <2>2. Begun(c, at)
      BY <1>1, <1>3, <2>1, CellHere DEF Begun
    <2>3. ~ToCome(todo, 2, c)
      <3>. SUFFICES ASSUME NEW m \in 2 .. Len(todo), In(todo[m], c)
                    PROVE  FALSE
        BY DEF ToCome
      <3>1. m \in 1 .. Len(todo) /\ 1 < m /\ todo[m] \in Items
        BY <1>3
      <3>2. Precedes(n, todo[m])
        BY <1>3, <3>1 DEF WalkInv, Ordered
      <3>. QED
        BY <1>1, <1>3, <2>1, <3>1, <3>2, PrecedesDisjoint
    <2>4. ASSUME NEW m \in 1 .. Len(s), j < m, In(s[m], c)
          PROVE  FALSE
      <3>1. Precedes(s[j], s[m])
        BY <1>2, <2>4 DEF Ordered
      <3>. QED
        BY <1>1, <1>2, <1>9, <2>4, <3>1, PrecedesDisjoint
    <2>5. CASE j < i
      <3>1. \A m \in i .. Len(s) : m \in 1 .. Len(s) /\ j < m
        BY <1>2, <2>5
      <3>2. ~ToCome(u, i, c)
        BY <1>4, <2>3, <2>4, <3>1
      <3>. QED
        BY <1>9, <2>2, <2>5, <3>2
    <2>6. CASE ~(j < i)
      <3>1. j \in i .. Len(s)
        BY <1>2, <2>6
      <3>2. ToCome(u, i, c)
        BY <1>4, <1>9, <3>1
      <3>. QED
        BY <1>9, <2>6, <3>2
    <2>. QED
      BY <2>5, <2>6
  <1>. QED
    BY <1>7, <1>8, <1>9 DEF Classified

\* A node's parts say what is right in its place.
LEMMA PartitionEdges ==
  ASSUME Inv, EdgeInv, NEW part, Partition(part)
  PROVE  EdgeInv'
  <1>. DEFINE n == Head(todo)
              s == Parts(n, part)
              u == s \o Tail(todo)
  <1>1. /\ todo # <<>> /\ IsNode(n) /\ Starts(n) /\ part \in Partitions(n)
        /\ todo' = u /\ frame' = frame /\ at' = at
    BY DEF Partition
  <1>2. TypeOK /\ WalkInv /\ DoneInv /\ ContextInv
    BY DEF Inv
  <1>3. /\ n \in Items /\ Aligned(n) /\ todo \in Seq(Items)
    BY <1>1, <1>2, HeadIs, TypeGives
  <1>4. n \in Node
    BY <1>1, <1>3, ItemKind DEF Items
  <1>5. Tiling(s, n) /\ PartsJudged(n, s)
    BY <1>1, <1>3, <1>4, PartsTile, AllPartsJudged
  <1>6. s \in Seq(Items)
    BY <1>5 DEF Tiling
  <1>7. ReplacedBy(todo, s, u)
    BY <1>1, <1>3, <1>6, Replacing
  <1>. HIDE DEF s, u, n
  <1>8. ASSUME NEW i \in 1 .. Len(u)
        PROVE  EdgeOK(u, i, at)
    <2>1. CASE i \in 1 .. Len(s)
      <3>1. u[i] = s[i]
        BY <1>7, <2>1 DEF ReplacedBy
      <3>2. ASSUME NEW k \in Kinds, NEW side \in EdgeSides, HasArea(s[i], k)
            PROVE  Right(Corner(s[i], k, side), HasFlag(s[i], k, side), u, i, at)
        BY <1>1, <1>2, <1>4, <1>5, <1>7, <2>1, <3>2, PartsEdges DEF n
      <3>. QED
        BY <3>1, <3>2 DEF EdgeOK
    <2>2. ASSUME NEW m \in 2 .. Len(todo), i = Len(s) + m - 1
          PROVE  EdgeOK(u, i, at)
      <3>1. u[i] = todo[m] /\ \A c : ToCome(u, i, c) <=> ToCome(todo, m, c)
        BY <1>7, <2>2 DEF ReplacedBy
      <3>2. EdgeOK(todo, m, at)
        <4>1. m \in 1 .. Len(todo)
          OBVIOUS
        <4>. QED
          BY <4>1 DEF EdgeInv
      <3>. QED
        BY <3>1, <3>2, SameEdges
    <2>. QED
      BY <1>7, <2>1, <2>2 DEF ReplacedBy
  <1>. QED
    BY <1>1, <1>8, EdgeNext

\* What follows the head says what is right when the head is done.
LEMMA TailEdges ==
  ASSUME TypeOK, EdgeInv, todo # <<>>, todo' = Tail(todo), frame' = frame, at' = at
  PROVE  EdgeInv'
  <1>. DEFINE s == <<>>
              u == s \o Tail(todo)
  <1>1. todo \in Seq(Items)
    BY TypeGives
  <1>2. s \in Seq(Items) /\ Len(s) = 0
    OBVIOUS
  <1>3. u = Tail(todo)
    BY <1>1
  <1>4. ReplacedBy(todo, s, u)
    BY <1>1, <1>2, Replacing
  <1>. HIDE DEF s, u
  <1>5. ASSUME NEW i \in 1 .. Len(u)
        PROVE  EdgeOK(u, i, at)
    <2>1. PICK m \in 2 .. Len(todo) : i = Len(s) + m - 1
      BY <1>2, <1>4 DEF ReplacedBy
    <2>2. u[i] = todo[m] /\ \A c : ToCome(u, i, c) <=> ToCome(todo, m, c)
      BY <1>4, <2>1 DEF ReplacedBy
    <2>3. EdgeOK(todo, m, at)
      <3>1. m \in 1 .. Len(todo)
        OBVIOUS
      <3>. QED
        BY <3>1 DEF EdgeInv
    <2>. QED
      BY <2>2, <2>3, SameEdges
  <1>. QED
    BY <1>3, <1>5, EdgeNext

\* Just after a superblock, and just before it.
LEMMA UnitAfter == \A v \in Nat : \A z \in {16, 32} : \A k \in {0, 1} : (z * v + z + k) \div z = v + 1
  OBVIOUS
\* The last place before a superblock is in the superblock before.
LEMMA UnitBefore == \A v \in Nat : \A z \in {16, 32} : z * v - 1 \in Nat => (z * v - 1) \div z = v - 1
  OBVIOUS

\* In a tile, the superblock above and right of one comes before it, and the
\* one below and left comes after it.
LEMMA RootEdges ==
  ASSUME frame \in Frames, NEW s, PlaceOK(s)
  PROVE  EdgeOK(<<Root(s)>>, 1, s)
  <1>. DEFINE n == Root(s)
              t == <<n>>
  <1>1. /\ s.x \in Nat /\ s.y \in Nat /\ frame.cols[s.col] <= s.x /\ frame.rows[s.row] <= s.y
        /\ frame.cols[s.col] \in Nat /\ frame.cols[s.col + 1] \in Nat
        /\ frame.rows[s.row] \in Nat /\ frame.rows[s.row + 1] \in Nat
        /\ s.x < frame.cols[s.col + 1] /\ s.y < frame.rows[s.row + 1]
    BY PlaceIs
  <1>2. frame.sb \in {16, 32}
    BY FrameFields
  <1>3. /\ n \in Node /\ n \in Items /\ n.x = frame.sb * s.x /\ n.y = frame.sb * s.y
        /\ Wide(n) = frame.sb /\ High(n) = frame.sb
    BY <1>1, RootIs DEF Items
  <1>4. n.right = TRUE /\ n.bottom = FALSE
    BY DEF Root
  <1>5. t[1] = n /\ Len(t) = 1
    OBVIOUS
  <1>. HIDE DEF n, t
  <1>6. ASSUME NEW k \in Kinds, NEW side \in EdgeSides, Reached(Corner(n, k, side), s)
        PROVE  HasFlag(n, k, side) <=> ~ToCome(t, 1, Corner(n, k, side)) /\ Begun(Corner(n, k, side), s)
    <2>. DEFINE c == Corner(n, k, side)
                u == SbOf(c)
                z == frame.sb
    <2>1. ~ToCome(t, 1, c)
      <3>1. ~In(n, c)
        BY <1>3, CornerOutside
      <3>2. \A j \in 1 .. Len(t) : t[j] = n
        BY <1>5
      <3>. QED
        BY <3>1, <3>2 DEF ToCome
    <2>2. c \in Nat \X Nat /\ InTile(u, s)
      BY <1>6, GridCells DEF Reached, Planes
    <2>3. k[1] \in {0, 1} /\ k[2] \in {0, 1}
      BY KindIs
    <2>4. IsNode(n)
      BY <1>3, NodeIs
    <2>5. Back(z, k[1]) = 1 /\ Back(z, k[2]) = 1
      BY <1>2 DEF Back
    <2>6. c[1] \in Nat /\ c[2] \in Nat
      BY <2>2
    <2>7. u[1] = c[1] \div z /\ u[2] = c[2] \div z
      BY DEF SbOf
    <2>8. Here(s)[1] = s.x /\ Here(s)[2] = s.y
      BY DEF Here
    <2>9. CASE side = "right"
      <3>1. c[1] = z * s.x + z + k[1] /\ c[2] = z * s.y - 1
        BY <1>3, <2>5, <2>9 DEF Corner
      <3>2. u[1] = s.x + 1 /\ u[2] = s.y - 1 /\ s.y >= 1
        <4>1. s.y >= 1
          BY ONLY <1>1, <1>2, <2>6, <3>1
        <4>2. u[1] = s.x + 1
          <5>1. (z * s.x + z + k[1]) \div z = s.x + 1
            <6>1. s.x \in Nat /\ z \in {16, 32} /\ k[1] \in {0, 1}
              BY <1>1, <1>2, <2>3
            <6>. HIDE DEF z
            <6>. QED
              BY ONLY <6>1, UnitAfter
          <5>. QED
            BY ONLY <2>7, <3>1, <5>1
        <4>3. u[2] = s.y - 1
          <5>1. z * s.y - 1 \in Nat
            BY <2>6, <3>1
          <5>2. (z * s.y - 1) \div z = s.y - 1
            <6>1. s.y \in Nat /\ z \in {16, 32}
              BY <1>1, <1>2
            <6>. HIDE DEF z
            <6>. QED
              BY ONLY <5>1, <6>1, UnitBefore
          <5>. QED
            BY ONLY <2>7, <3>1, <5>2
        <4>. QED
          BY <4>1, <4>2, <4>3
      <3>3. u[2] < frame.rows[s.row + 1] /\ u[1] < frame.cols[s.col + 1]
        BY <2>2 DEF InTile
      <3>4. u[2] < s.y
        BY ONLY <1>1, <3>2
      <3>5. Begun(c, s)
        BY <3>3, <3>4 DEF Begun, Earlier
      <3>6. HasFlag(n, k, side)
        BY <1>4, <2>4, <2>9 DEF HasFlag
      <3>. QED
        BY <2>1, <3>5, <3>6
    <2>10. CASE side = "bottom"
      <3>1. c[1] = z * s.x - 1 /\ c[2] = z * s.y + z + k[2]
        BY <1>3, <2>5, <2>10 DEF Corner
      <3>2. u[2] = s.y + 1
        <4>1. (z * s.y + z + k[2]) \div z = s.y + 1
          <5>1. s.y \in Nat /\ z \in {16, 32} /\ k[2] \in {0, 1}
            BY <1>1, <1>2, <2>3
          <5>. HIDE DEF z
          <5>. QED
            BY ONLY <5>1, UnitAfter
        <4>. QED
          BY ONLY <2>7, <3>1, <4>1
      <3>3. frame.rows[s.row] <= u[2] /\ frame.cols[s.col] <= u[1] /\ u[1] \in Int
        <4>1. u[1] \in Int
          BY ONLY <1>2, <2>6, <2>7
        <4>. QED
          BY <2>2, <4>1 DEF InTile
      <3>4. ~(u[2] < frame.rows[s.row]) /\ ~(u[1] < frame.cols[s.col]) /\ ~(u[2] < s.y) /\ u[2] # s.y
        BY ONLY <1>1, <3>2, <3>3
      <3>5. ~Begun(c, s)
        BY <2>8, <3>4 DEF Begun, Earlier
      <3>6. ~HasFlag(n, k, side)
        BY <1>4, <2>4, <2>10 DEF HasFlag
      <3>. QED
        BY <2>1, <3>5, <3>6
    <2>. QED
      BY <2>9, <2>10 DEF EdgeSides
  <1>. QED
    BY <1>5, <1>6 DEF EdgeOK, Right, n, t

\* At the start, and at every superblock, what is said is right.
LEMMA EdgeInit ==
  ASSUME Init
  PROVE  EdgeInv
  <1>1. frame \in Frames /\ at = TileStart(1, 1) /\ todo = <<Root(at)>>
    BY DEF Init
  <1>2. PlaceOK(at)
    BY <1>1, InitKeeps, TypeGives DEF Inv
  <1>3. EdgeOK(todo, 1, at)
    BY <1>1, <1>2, RootEdges
  <1>4. \A i \in 1 .. Len(todo) : i = 1
    BY <1>1
  <1>. QED
    BY <1>3, <1>4 DEF EdgeInv

\* A new superblock says what its root says.
LEMMA StartEdges ==
  ASSUME Inv, StartSuperblock
  PROVE  EdgeInv'
  <1>1. ~LastSuperblock(at) /\ at' = Following(at) /\ frame' = frame
    BY DEF StartSuperblock
  <1>2. frame \in Frames /\ PlaceOK(at)
    BY TypeGives DEF Inv
  <1>3. PlaceOK(at')
    BY <1>1, <1>2, FollowingIs
  <1>4. Root(at)' = Root(at') /\ todo' = <<Root(at')>>
    BY <1>1 DEF StartSuperblock, Root
  <1>5. EdgeOK(todo', 1, at')
    BY <1>2, <1>3, <1>4, RootEdges
  <1>6. \A i \in 1 .. Len(todo') : i = 1
    BY <1>4
  <1>. QED
    BY <1>1, <1>5, <1>6, EdgeNext

\* Every step keeps what is said right.
LEMMA StepEdges ==
  ASSUME Inv, EdgeInv, [Next]_vars
  PROVE  EdgeInv'
  <1>. TypeOK
    BY DEF Inv
  <1>1. CASE StartSuperblock
    BY <1>1, StartEdges
  <1>2. CASE PassOver
    BY <1>2, TailEdges DEF PassOver
  <1>3. CASE \E part \in PartitionKinds : Valid(part) /\ Partition(part)
    BY <1>3, PartitionEdges
  <1>4. CASE \E skip \in BOOLEAN : DecodeBlock(skip)
    BY <1>4, TailEdges DEF DecodeBlock
  <1>5. CASE UNCHANGED vars
    <2>1. frame' = frame /\ at' = at /\ todo' = todo
      BY <1>5 DEF vars
    <2>2. \A i \in 1 .. Len(todo') : EdgeOK(todo', i, at')
      BY <2>1 DEF EdgeInv
    <2>. QED
      BY <2>1, <2>2, EdgeNext
  <1>. QED
    BY <1>1, <1>2, <1>3, <1>4, <1>5 DEF Next, Done

\* What a node or a block is told of the neighbours beyond its two corners is
\* right at every moment of the walk: splitChild, hFlags, vFlags and
\* tPartitionEdgeFlags hand down the order in which the tree is walked.
THEOREM EdgesHandedDown == Spec => []EdgeInv
  <1>1. Init => Inv /\ EdgeInv
    BY InitKeeps, EdgeInit
  <1>2. (Inv /\ EdgeInv) /\ [Next]_vars => (Inv /\ EdgeInv)'
    BY StepKeeps, StepEdges
  <1>. QED
    BY <1>1, <1>2, PTL DEF Spec

-----------------------------------------------------------------------------
(* The transforms of a block of up to 64x64. *)

\* Along one axis: the units of a plane just after and just before a rectangle
\* stand for the luma cells of its corners.
LEMMA AxisBeyond ==
  ASSUME NEW x \in Nat, NEW w \in Sides, x % w = 0,
         NEW ss, NEW step, (ss = 0 /\ step = 1) \/ (ss = 1 /\ step = 2), w > ss \/ x % 2 = 1
  PROVE  /\ step * (x \div step + (w + ss) \div step) + ss = x + w + ss
         /\ step * (x \div step - 1) + ss = x - Back(w, ss)
  <1>1. CASE ss = 0 /\ step = 1
    <2>1. Back(w, ss) = 1
      BY <1>1 DEF Back
    <2>. QED
      BY <1>1, <2>1 DEF Sides
  <1>2. CASE ss = 1 /\ step = 2 /\ w = 1
    <2>1. Back(w, ss) = 2
      BY <1>2 DEF Back
    <2>2. x % 2 = 1
      BY <1>2
    <2>. QED
      BY <1>2, <2>1, <2>2
  <1>3. CASE ss = 1 /\ step = 2 /\ w # 1
    <2>1. Back(w, ss) = 1
      BY <1>3 DEF Back
    <2>2. PICK v \in Nat : w = 2 * v
      <3>1. w = 2 * (w \div 2) /\ w \div 2 \in Nat
        BY <1>3 DEF Sides
      <3>. QED
        BY <3>1
    <2>3. x % 2 = 0
      BY <1>3 DEF Sides
    <2>4. PICK y \in Nat : x = 2 * y
      BY <2>3
    <2>5. x \div step = y /\ (w + ss) \div step = v
      BY <1>3, <2>2, <2>4
    <2>. QED
      BY <1>3, <2>1, <2>2, <2>4, <2>5
  <1>. QED
    BY <1>1, <1>2, <1>3

\* Along one axis: where a unit c lies about a rectangle's, its last luma unit l
\* lies about the rectangle.
OnAxis(x, w, ss, rx, rw, c, l) ==
    /\ rx <= c /\ c < rx + rw <=> x <= l /\ l < x + w
    /\ c < rx => l < x
    /\ c >= rx + rw => l >= x + w
    /\ c = rx + rw => l = x + w + ss
    /\ c = rx - 1 => l = x - Back(w, ss)
\* On each axis, the cells of a plane and the luma cells they stand for lie
\* alike around a block.
LEMMA OnAxisIs ==
  ASSUME NEW x \in Nat, NEW w \in Sides, x % w = 0,
         NEW ss, NEW step, (ss = 0 /\ step = 1) \/ (ss = 1 /\ step = 2), w > ss \/ x % 2 = 1,
         NEW c \in Nat, NEW rx, rx = x \div step, NEW rw, rw = (w + ss) \div step,
         NEW l, l = step * c + ss
  PROVE  OnAxis(x, w, ss, rx, rw, c, l)
  <1>1. /\ rx <= c /\ c < rx + rw <=> x <= l /\ l < x + w
        /\ c < rx => l < x
        /\ c >= rx + rw => l >= x + w
    BY Axis
  <1>2. step * (rx + rw) + ss = x + w + ss /\ step * (rx - 1) + ss = x - Back(w, ss)
    BY AxisBeyond
  <1>. QED
    BY <1>1, <1>2 DEF OnAxis

\* The kind of a plane.
Kind(p) == <<SsH(p), SsV(p), Layout(p)>>
\* The kind of a plane is one of those the flags are kept for.
LEMMA PlaneKind ==
  ASSUME frame \in Frames, NEW p \in Planes
  PROVE  /\ Kind(p) \in Kinds
         /\ Kind(p)[1] = SsH(p) /\ Kind(p)[2] = SsV(p) /\ Kind(p)[3] = Layout(p)
  <1>1. <<frame.ssH, frame.ssV>> \in {<<0, 0>>, <<1, 0>>, <<1, 1>>}
    BY FramesAssumption
  <1>2. \/ frame.ssH = 0 /\ frame.ssV = 0
        \/ frame.ssH = 1 /\ frame.ssV = 0
        \/ frame.ssH = 1 /\ frame.ssV = 1
    BY <1>1
  <1>3. CASE p = 0
    BY <1>3 DEF Kind, Kinds, SsH, SsV, Layout
  <1>4. CASE p # 0
    BY <1>2, <1>4 DEF Kind, Kinds, SsH, SsV, Layout
  <1>. QED
    BY <1>3, <1>4 DEF Kind

\* Where a cell of a plane lies about a rectangle's samples, its luma cell lies
\* about the rectangle.
Placed(b, r, k, c, l) ==
    /\ r.x <= c[1] /\ c[1] < r.x + r.w <=> b.x <= l[1] /\ l[1] < b.x + Wide(b)
    /\ r.y <= c[2] /\ c[2] < r.y + r.h <=> b.y <= l[2] /\ l[2] < b.y + High(b)
    /\ c[1] < r.x => l[1] < b.x
    /\ c[2] < r.y => l[2] < b.y
    /\ c[1] >= r.x + r.w => l[1] >= b.x + Wide(b)
    /\ c[2] >= r.y + r.h => l[2] >= b.y + High(b)
    /\ c = <<r.x + r.w, r.y - 1>> => l = Corner(b, k, "right")
    /\ c = <<r.x - 1, r.y + r.h>> => l = Corner(b, k, "bottom")
\* A cell of a plane lies to a block's rectangle there as its luma cell does to
\* the block, and the cells beyond the corners are the corners.
LEMMA PlacedAlike ==
  ASSUME frame \in Frames, NEW p \in Planes, NEW b \in CodedBlock, Aligned(b), InPlane(p, b),
         NEW c \in Nat \X Nat
  PROVE  Placed(b, Rect(p, b), Kind(p), c, LastCell(p, c)) /\ HasArea(b, Kind(p))
  <1>. DEFINE r == Rect(p, b)
              l == LastCell(p, c)
  <1>1. /\ b.x \in Nat /\ b.y \in Nat /\ Wide(b) = b.w /\ High(b) = b.h /\ b.w \in Sides /\ b.h \in Sides
        /\ b.x % b.w = 0 /\ b.y % b.h = 0
    BY BlockIs DEF Aligned
  <1>2. /\ (SsH(p) = 0 /\ StepH(p) = 1) \/ (SsH(p) = 1 /\ StepH(p) = 2)
        /\ (SsV(p) = 0 /\ StepV(p) = 1) \/ (SsV(p) = 1 /\ StepV(p) = 2)
    BY SsOf
  <1>3. (b.w > SsH(p) \/ b.x % 2 = 1) /\ (b.h > SsV(p) \/ b.y % 2 = 1)
    BY InPlaneIs
  <1>4. /\ r.x = b.x \div StepH(p) /\ r.w = (b.w + SsH(p)) \div StepH(p)
        /\ r.y = b.y \div StepV(p) /\ r.h = (b.h + SsV(p)) \div StepV(p)
    BY RectIs
  <1>5. l[1] = StepH(p) * c[1] + SsH(p) /\ l[2] = StepV(p) * c[2] + SsV(p) /\ l = <<l[1], l[2]>>
    BY DEF LastCell
  <1>6. Kind(p)[1] = SsH(p) /\ Kind(p)[2] = SsV(p)
    BY PlaneKind
  <1>7. c[1] \in Nat /\ c[2] \in Nat
    OBVIOUS
  <1>. HIDE DEF r, l
  <1>8. OnAxis(b.x, b.w, SsH(p), r.x, r.w, c[1], l[1])
    BY ONLY <1>1, <1>2, <1>3, <1>4, <1>5, <1>7, OnAxisIs
  <1>9. OnAxis(b.y, b.h, SsV(p), r.y, r.h, c[2], l[2])
    BY ONLY <1>1, <1>2, <1>3, <1>4, <1>5, <1>7, OnAxisIs
  <1>12. ASSUME c = <<r.x + r.w, r.y - 1>>
         PROVE  l = Corner(b, Kind(p), "right")
    <2>1. c[1] = r.x + r.w /\ c[2] = r.y - 1
      BY <1>12
    <2>2. l[1] = b.x + b.w + SsH(p) /\ l[2] = b.y - Back(b.h, SsV(p))
      BY <1>8, <1>9, <2>1 DEF OnAxis
    <2>3. Corner(b, Kind(p), "right") = <<b.x + b.w + SsH(p), b.y - Back(b.h, SsV(p))>>
      BY <1>1, <1>6 DEF Corner
    <2>. QED
      BY <1>5, <2>2, <2>3
  <1>13. ASSUME c = <<r.x - 1, r.y + r.h>>
         PROVE  l = Corner(b, Kind(p), "bottom")
    <2>1. c[1] = r.x - 1 /\ c[2] = r.y + r.h
      BY <1>13
    <2>2. l[1] = b.x - Back(b.w, SsH(p)) /\ l[2] = b.y + b.h + SsV(p)
      BY <1>8, <1>9, <2>1 DEF OnAxis
    <2>3. Corner(b, Kind(p), "bottom") = <<b.x - Back(b.w, SsH(p)), b.y + b.h + SsV(p)>>
      BY <1>1, <1>6 DEF Corner
    <2>. QED
      BY <1>5, <2>2, <2>3
  <1>14. HasArea(b, Kind(p))
    BY <1>1, <1>3, <1>6 DEF HasArea
  <1>15. Wide(b) = b.w /\ High(b) = b.h
    BY <1>1
  <1>. QED
    BY <1>8, <1>9, <1>12, <1>13, <1>14, <1>15 DEF Placed, OnAxis, r, l

\* A unit's last luma unit is in the superblocks the unit is in.
LEMMA UnitsOfTile ==
  ASSUME NEW a \in Nat, NEW z \in {16, 32}, NEW ss, NEW step, (ss = 0 /\ step = 1) \/ (ss = 1 /\ step = 2),
         NEW c \in Nat
  PROVE  /\ (z * a) \div step <= c => a <= (step * c + ss) \div z
         /\ c < (z * a) \div step => (step * c + ss) \div z < a
  <1>1. PICK h \in Nat : z * a = step * h /\ (z * a) \div step = h
    <2>1. CASE ss = 0 /\ step = 1
      BY <2>1
    <2>2. CASE ss = 1 /\ step = 2
      <3>1. z = 16 \/ z = 32
        OBVIOUS
      <3>. QED
        BY <2>2, <3>1
    <2>. QED
      BY <2>1, <2>2
  <1>2. ASSUME h <= c
        PROVE  a <= (step * c + ss) \div z
    <2>1. step * c + ss >= z * a /\ step * c + ss \in Nat
      BY <1>1, <1>2
    <2>. QED
      BY <2>1
  <1>3. ASSUME c < h
        PROVE  (step * c + ss) \div z < a
    <2>1. step * c + ss < z * a /\ step * c + ss \in Nat
      BY <1>1, <1>3
    <2>. QED
      BY <2>1
  <1>. QED
    BY <1>1, <1>2, <1>3

\* A cell of the area of a tile has its last luma cell in the grid and the tile.
LEMMA AreaReached ==
  ASSUME TypeOK, NEW p \in Planes, NEW u, NEW v,
         u \in Area(p, Tile).x0 .. Area(p, Tile).x1 - 1, v \in Area(p, Tile).y0 .. Area(p, Tile).y1 - 1
  PROVE  <<u, v>> \in Nat \X Nat /\ <<u, v>> \in Cells(Grid(p)) /\ Reached(LastCell(p, <<u, v>>), at)
  <1>. DEFINE c == <<u, v>>
              l == LastCell(p, c)
              z == frame.sb
              c0 == frame.cols[at.col]
              c1 == frame.cols[at.col + 1]
              r0 == frame.rows[at.row]
              r1 == frame.rows[at.row + 1]
  <1>1. frame \in Frames /\ PlaceOK(at)
    BY TypeGives
  <1>2. z \in {16, 32}
    BY <1>1, FrameFields
  <1>3. c0 \in Nat /\ c1 \in Nat /\ r0 \in Nat /\ r1 \in Nat
    BY <1>1, PlaceIs
  <1>4. /\ (SsH(p) = 0 /\ StepH(p) = 1) \/ (SsH(p) = 1 /\ StepH(p) = 2)
        /\ (SsV(p) = 0 /\ StepV(p) = 1) \/ (SsV(p) = 1 /\ StepV(p) = 2)
        /\ GridW(p) \in Nat /\ GridH(p) \in Nat
    BY <1>1, SsOf
  <1>5. /\ Area(p, Tile).x0 = (z * c0) \div StepH(p) /\ Area(p, Tile).x1 = Lower(GridW(p), (z * c1) \div StepH(p))
        /\ Area(p, Tile).y0 = (z * r0) \div StepV(p) /\ Area(p, Tile).y1 = Lower(GridH(p), (z * r1) \div StepV(p))
    BY DEF Area, Tile
  <1>6. /\ (z * c0) \div StepH(p) \in Nat /\ (z * c1) \div StepH(p) \in Nat
        /\ (z * r0) \div StepV(p) \in Nat /\ (z * r1) \div StepV(p) \in Nat
    BY <1>2, <1>3, <1>4, HalfOf
  <1>. HIDE DEF z, c0, c1, r0, r1
  <1>7. /\ u \in Nat /\ (z * c0) \div StepH(p) <= u /\ u < GridW(p) /\ u < (z * c1) \div StepH(p)
        /\ v \in Nat /\ (z * r0) \div StepV(p) <= v /\ v < GridH(p) /\ v < (z * r1) \div StepV(p)
    BY ONLY <1>4, <1>5, <1>6, u \in Area(p, Tile).x0 .. Area(p, Tile).x1 - 1,
            v \in Area(p, Tile).y0 .. Area(p, Tile).y1 - 1 DEF Lower
  <1>8. c0 <= (StepH(p) * u + SsH(p)) \div z /\ (StepH(p) * u + SsH(p)) \div z < c1
    BY ONLY <1>2, <1>3, <1>4, <1>7, UnitsOfTile
  <1>9. r0 <= (StepV(p) * v + SsV(p)) \div z /\ (StepV(p) * v + SsV(p)) \div z < r1
    BY ONLY <1>2, <1>3, <1>4, <1>7, UnitsOfTile
  <1>10. c \in Nat \X Nat /\ c[1] = u /\ c[2] = v
    BY <1>7
  <1>11. c \in Cells(Grid(p))
    BY <1>1, <1>7, <1>10, GridCells
  <1>12. l \in Cells(Grid(0))
    BY <1>1, <1>11, GridCells
  <1>13. InTile(SbOf(l), at)
    <2>1. SbOf(l)[1] = (StepH(p) * u + SsH(p)) \div z /\ SbOf(l)[2] = (StepV(p) * v + SsV(p)) \div z
      BY <1>10 DEF SbOf, LastCell, z
    <2>. QED
      BY <1>8, <1>9, <2>1 DEF InTile, c0, c1, r0, r1
  <1>. QED
    BY <1>10, <1>11, <1>12, <1>13 DEF Reached

\* A block of up to 64x64 is one region.
LEMMA OneRegion ==
  ASSUME NEW b \in CodedBlock, ~Large(b), NEW p
  PROVE  /\ Len(Regions(b)) = 1
         /\ Rect(p, Regions(b)[1]) = Rect(p, b)
  <1>1. b.x \in Nat /\ b.y \in Nat /\ b.w \in {1, 2, 4, 8, 16} /\ b.h \in {1, 2, 4, 8, 16}
    <2>1. b.x \in Nat /\ b.y \in Nat /\ b.w \in Sides /\ b.h \in Sides
      BY BlockIs
    <2>. QED
      BY <2>1 DEF Sides, Large
  <1>2. Ceil(b.w, 16) = 1 /\ Ceil(b.h, 16) = 1
    BY <1>1 DEF Ceil
  <1>. DEFINE F(i) == LET x == 16 * ((i - 1) % Ceil(b.w, 16))
                          y == 16 * ((i - 1) \div Ceil(b.w, 16))
                      IN [x |-> b.x + x, y |-> b.y + y, w |-> Lower(16, b.w - x), h |-> Lower(16, b.h - y)]
  <1>3. Regions(b) = [i \in 1 .. Ceil(b.w, 16) * Ceil(b.h, 16) |-> F(i)]
    BY DEF Regions
  <1>4. Ceil(b.w, 16) * Ceil(b.h, 16) = 1
    BY <1>2
  <1>5. F(1) = [x |-> b.x, y |-> b.y, w |-> b.w, h |-> b.h]
    <2>1. (1 - 1) % Ceil(b.w, 16) = 0 /\ (1 - 1) \div Ceil(b.w, 16) = 0
      BY <1>2
    <2>2. Lower(16, b.w - 0) = b.w /\ Lower(16, b.h - 0) = b.h /\ b.x + 0 = b.x /\ b.y + 0 = b.y
      BY <1>1 DEF Lower
    <2>. QED
      BY <2>1, <2>2
  <1>. HIDE DEF F
  <1>6. Regions(b) = [i \in 1 .. 1 |-> F(i)]
    BY <1>3, <1>4
  <1>7. Len(Regions(b)) = 1 /\ Regions(b)[1] = F(1)
    BY <1>6
  <1>. QED
    BY <1>5, <1>7 DEF Rect

\* The sides of such a block in a plane, and of its transforms.
Lengths == {1, 2, 4, 8, 16}
\* Half a transform.
LEMMA HalvedFits ==
  ASSUME NEW t, t \in [w : Lengths, h : Lengths]
  PROVE  /\ Halved(t) \in [w : Lengths, h : Lengths]
         /\ Halved(t).w <= t.w /\ Halved(t).h <= t.h
  <1>1. t.w \in Lengths /\ t.h \in Lengths
    OBVIOUS
  <1>2. CASE t.w > t.h
    <2>1. Halved(t) = [t EXCEPT !.w = t.w \div 2]
      BY <1>2 DEF Halved
    <2>2. t.w \div 2 \in Lengths /\ t.w \div 2 <= t.w
      BY <1>1, <1>2 DEF Lengths
    <2>3. [t EXCEPT !.w = t.w \div 2].w = t.w \div 2 /\ [t EXCEPT !.w = t.w \div 2].h = t.h
      OBVIOUS
    <2>4. t.h <= t.h
      BY <1>1 DEF Lengths
    <2>. QED
      BY <2>1, <2>2, <2>3, <2>4
  <1>3. CASE t.h > t.w
    <2>1. Halved(t) = [t EXCEPT !.h = t.h \div 2]
      BY <1>1, <1>3 DEF Halved, Lengths
    <2>2. t.h \div 2 \in Lengths /\ t.h \div 2 <= t.h
      BY <1>1, <1>3 DEF Lengths
    <2>3. [t EXCEPT !.h = t.h \div 2].h = t.h \div 2 /\ [t EXCEPT !.h = t.h \div 2].w = t.w
      OBVIOUS
    <2>4. t.w <= t.w
      BY <1>1 DEF Lengths
    <2>. QED
      BY <2>1, <2>2, <2>3, <2>4
  <1>4. CASE t.w = t.h
    <2>1. Halved(t) = IF t.w = 1 THEN t ELSE [w |-> t.w \div 2, h |-> t.h \div 2]
      BY <1>1, <1>4 DEF Halved, Lengths
    <2>2. t.w # 1 => /\ t.w \div 2 \in Lengths /\ t.w \div 2 <= t.w
                     /\ t.h \div 2 \in Lengths /\ t.h \div 2 <= t.h
      BY <1>1, <1>4 DEF Lengths
    <2>3. t.w <= t.w /\ t.h <= t.h
      BY <1>1 DEF Lengths
    <2>. QED
      BY <2>1, <2>2, <2>3
  <1>. QED
    BY <1>1, <1>2, <1>3, <1>4 DEF Lengths

\* A transform fits into the block's samples.
LEMMA TransformFits ==
  ASSUME frame \in Frames, NEW b \in CodedBlock, Aligned(b), ~Large(b), NEW p \in Planes, InPlane(p, b),
         NEW t \in TxSizes(p, b)
  PROVE  /\ Rect(p, b).w \in Lengths /\ Rect(p, b).h \in Lengths
         /\ t.w \in Lengths /\ t.h \in Lengths /\ t.w <= Rect(p, b).w /\ t.h <= Rect(p, b).h
  <1>. DEFINE r == Rect(p, b)
              limit == IF p = 0 THEN 16 ELSE 8
              largest == [w |-> Lower(r.w, limit), h |-> Lower(r.h, limit)]
              S == [w : Lengths, h : Lengths]
  <1>1. b.w \in Lengths /\ b.h \in Lengths
    <2>1. b.w \in Sides /\ b.h \in Sides
      BY BlockIs
    <2>. QED
      BY <2>1 DEF Sides, Large, Lengths
  <1>2. /\ (SsH(p) = 0 /\ StepH(p) = 1) \/ (SsH(p) = 1 /\ StepH(p) = 2)
        /\ (SsV(p) = 0 /\ StepV(p) = 1) \/ (SsV(p) = 1 /\ StepV(p) = 2)
    BY SsOf
  <1>3. r.w = (b.w + SsH(p)) \div StepH(p) /\ r.h = (b.h + SsV(p)) \div StepV(p)
    BY RectIs
  <1>. HIDE DEF r
  <1>4. r.w \in Lengths
    BY ONLY <1>1, <1>2, <1>3 DEF Lengths
  <1>5. r.h \in Lengths
    BY ONLY <1>1, <1>2, <1>3 DEF Lengths
  <1>6. \A v \in Lengths : Lower(v, limit) \in Lengths /\ Lower(v, limit) <= v /\ 1 <= v /\ v \in Nat
    BY DEF Lengths, Lower
  <1>7. largest \in S /\ largest.w <= r.w /\ largest.h <= r.h
    BY <1>4, <1>5, <1>6
  <1>. HIDE DEF largest
  <1>8. Halved(largest) \in S /\ Halved(largest).w <= largest.w /\ Halved(largest).h <= largest.h
    BY <1>7, HalvedFits
  <1>9. /\ Halved(Halved(largest)) \in S
        /\ Halved(Halved(largest)).w <= Halved(largest).w /\ Halved(Halved(largest)).h <= Halved(largest).h
    BY <1>8, HalvedFits
  <1>10. \A a \in S : a.w \in Lengths /\ a.h \in Lengths
    OBVIOUS
  <1>11. t \in {largest, [w |-> 1, h |-> 1], Halved(largest), Halved(Halved(largest))}
    BY DEF TxSizes, r, largest
  <1>12. CASE t = largest
    BY <1>4, <1>5, <1>7, <1>10, <1>12 DEF r
  <1>13. CASE t = [w |-> 1, h |-> 1]
    <2>1. t.w = 1 /\ t.h = 1 /\ 1 \in Lengths
      BY <1>13 DEF Lengths
    <2>. QED
      BY <1>4, <1>5, <1>6, <2>1 DEF r
  <1>14. \A x, y, a \in Nat : x <= y /\ y <= a => x <= a
    OBVIOUS
  <1>15. CASE t = Halved(largest)
    BY <1>4, <1>5, <1>6, <1>7, <1>8, <1>10, <1>14, <1>15 DEF r
  <1>16. CASE t = Halved(Halved(largest))
    BY <1>4, <1>5, <1>6, <1>7, <1>8, <1>9, <1>10, <1>14, <1>16 DEF r
  <1>. QED
    BY <1>11, <1>12, <1>13, <1>15, <1>16

\* A whole number of times, so that one that starts inside ends inside.
LEMMA WholeTimes ==
  \A n, w \in Lengths : \A x \in Nat : (x < n /\ x % w = 0 /\ w <= n) => x + w <= n
  BY DEF Lengths

\* Where a transform has a neighbour: inside the block, and beyond its corner
\* as the block has.
LEMMA TransformTells ==
  ASSUME NEW n \in Lengths, NEW m \in Lengths, NEW t, t.w \in Lengths, t.h \in Lengths,
         NEW x \in Nat, NEW y \in Nat, x < n, y < m, x + t.w <= n, y + t.h <= m, NEW has \in BOOLEAN
  PROVE  /\ TransformEdge(n, m, x, y, t, "right", has) <=> (y = 0 /\ has) \/ x + t.w < n
         /\ TransformEdge(n, m, x, y, t, "bottom", has) <=> x = 0 /\ (has \/ y + t.h < m)
  <1>1. n <= 16 /\ m <= 16 /\ n \in Nat /\ m \in Nat /\ t.w \in Nat /\ t.h \in Nat
    BY DEF Lengths
  <1>2. x % 16 = x /\ y % 16 = y
    BY <1>1
  <1>3. x - (x % 16) = 0 /\ y - (y % 16) = 0
    BY <1>2
  <1>4. Lower(n, 0 + 16) = n /\ Lower(m, 0 + 16) = m
    BY <1>1 DEF Lower
  <1>5. ~(0 + 16 < n) /\ ~(0 + 16 < m)
    BY <1>1
  <1>6. /\ y > 0 <=> ~(y = 0)
        /\ x > 0 <=> ~(x = 0)
        /\ x + t.w >= n <=> ~(x + t.w < n)
        /\ y + t.h >= m <=> ~(y + t.h < m)
    BY <1>1
  <1>7. TransformEdge(n, m, x, y, t, "right", has) <=> ~((y > 0 \/ ~has) /\ x + t.w >= n)
    BY <1>3, <1>4, <1>5 DEF TransformEdge
  <1>8. TransformEdge(n, m, x, y, t, "bottom", has) <=> ~(x > 0 \/ (~has /\ y + t.h >= m))
    BY <1>3, <1>4, <1>5 DEF TransformEdge
  <1>9. x + t.w < n => ~(x + t.w >= n)
    BY <1>1
  <1>. QED
    BY <1>6, <1>7, <1>8

\* The cells of a rectangle given by its numbers.
LEMMA CellsAre ==
  ASSUME NEW x \in Nat, NEW y \in Nat, NEW w \in Nat, NEW h \in Nat, NEW c \in Nat \X Nat
  PROVE  c \in Cells([x |-> x, y |-> y, w |-> w, h |-> h]) <=>
           /\ x <= c[1] /\ c[1] < x + w
           /\ y <= c[2] /\ c[2] < y + h
  <1>. DEFINE r == [x |-> x, y |-> y, w |-> w, h |-> h]
  <1>1. r.x = x /\ r.y = y /\ r.w = w /\ r.h = h
    OBVIOUS
  <1>. HIDE DEF r
  <1>2. Cells(r) = {<<i, j>> : i \in x .. x + w - 1, j \in y .. y + h - 1}
    BY <1>1 DEF Cells
  <1>3. c[1] \in Nat /\ c[2] \in Nat /\ c = <<c[1], c[2]>>
    OBVIOUS
  <1>4. c[1] \in x .. x + w - 1 <=> x <= c[1] /\ c[1] < x + w
    BY ONLY <1>3, x \in Nat, w \in Nat
  <1>5. c[2] \in y .. y + h - 1 <=> y <= c[2] /\ c[2] < y + h
    BY ONLY <1>3, y \in Nat, h \in Nat
  <1>6. c \in Cells(r) <=> c[1] \in x .. x + w - 1 /\ c[2] \in y .. y + h - 1
    <2>1. ASSUME NEW i \in x .. x + w - 1, NEW j \in y .. y + h - 1, c = <<i, j>>
          PROVE  c[1] = i /\ c[2] = j
      BY <2>1
    <2>. QED
      BY <1>2, <1>3, <2>1
  <1>. QED
    BY <1>4, <1>5, <1>6 DEF r

\* What is there before a transform of a block that is one region: earlier
\* blocks, and in the block what is above the transform and left of it.
ThereAt(p, r, x, y, h, c) ==
    \/ c \in done[p]
    \/ r.x <= c[1] /\ c[1] < r.x + r.w /\ r.y <= c[2] /\ c[2] < r.y + y
    \/ r.x <= c[1] /\ c[1] < r.x + x /\ r.y + y <= c[2] /\ c[2] < r.y + y + h
\* For blocks of one region, what is there before a transform is what is decoded
\* and what the block's transforms above and left have written.
LEMMA ThereIs ==
  ASSUME frame \in Frames, NEW b \in CodedBlock, Aligned(b), ~Large(b), NEW p \in Planes,
         NEW x \in Nat, NEW y \in Nat, NEW t, t.h \in Nat,
         NEW c \in Nat \X Nat, c \in Cells(Grid(p)), NEW r, r = Rect(p, b)
  PROVE  c \in ThereBefore(p, b, 1, x, y, t) <=> ThereAt(p, r, x, y, t.h, c)
  <1>1. r.x \in Nat /\ r.y \in Nat /\ r.w \in Nat /\ r.h \in Nat
    BY RectIs
  <1>2. Rect(p, Regions(b)[1]) = r
    BY OneRegion
  <1>. DEFINE A == [x |-> r.x, y |-> r.y, w |-> r.w, h |-> y]
              L == [x |-> r.x, y |-> r.y + y, w |-> x, h |-> t.h]
              E == {Clipped(p, Rect(p, Regions(b)[j])) : j \in 1 .. 1 - 1}
  <1>3. ThereBefore(p, b, 1, x, y, t) = done[p] \cup (UNION E) \cup Clipped(p, A) \cup Clipped(p, L)
    BY <1>2 DEF ThereBefore
  <1>4. UNION E = {}
    <2>1. 1 .. 1 - 1 = {}
      OBVIOUS
    <2>2. E = {}
      BY <2>1
    <2>. QED
      BY <2>2
  <1>5. c \in Cells(A) <=> r.x <= c[1] /\ c[1] < r.x + r.w /\ r.y <= c[2] /\ c[2] < r.y + y
    <2>1. \A a, e, w, h \in Nat : c \in Cells([x |-> a, y |-> e, w |-> w, h |-> h]) <=>
             (a <= c[1] /\ c[1] < a + w /\ e <= c[2] /\ c[2] < e + h)
      BY ONLY c \in Nat \X Nat, CellsAre, Zenon
    <2>. QED
      BY ONLY <1>1, <2>1, y \in Nat, Zenon
  <1>6. c \in Cells(L) <=> r.x <= c[1] /\ c[1] < r.x + x /\ r.y + y <= c[2] /\ c[2] < r.y + y + t.h
    <2>1. \A a, e, w, h \in Nat : c \in Cells([x |-> a, y |-> e, w |-> w, h |-> h]) <=>
             (a <= c[1] /\ c[1] < a + w /\ e <= c[2] /\ c[2] < e + h)
      BY ONLY c \in Nat \X Nat, CellsAre, Zenon
    <2>2. r.x \in Nat /\ r.y + y \in Nat /\ x \in Nat /\ t.h \in Nat
      BY <1>1
    <2>. QED
      BY ONLY <2>1, <2>2, Zenon
  <1>. HIDE DEF A, L, E
  <1>7. c \in ThereBefore(p, b, 1, x, y, t) <=> c \in done[p] \/ c \in Clipped(p, A) \/ c \in Clipped(p, L)
    BY ONLY <1>3, <1>4
  <1>8. (c \in Clipped(p, A) <=> c \in Cells(A)) /\ (c \in Clipped(p, L) <=> c \in Cells(L))
    BY DEF Clipped
  <1>. QED
    BY ONLY <1>5, <1>6, <1>7, <1>8 DEF ThereAt

\* What is decoded about the block that comes next, in a plane it has samples
\* in: what is above it or left of it, not what is in it, below or right of it,
\* and beyond its two corners what it is told.
AboutBlock(p, b, r, c) ==
    /\ r.x <= c[1] /\ c[1] < r.x + r.w /\ c[2] < r.y => c \in done[p]
    /\ r.y <= c[2] /\ c[2] < r.y + r.h /\ c[1] < r.x => c \in done[p]
    /\ r.x <= c[1] /\ c[1] < r.x + r.w /\ c[2] >= r.y => c \notin done[p]
    /\ r.y <= c[2] /\ c[2] < r.y + r.h /\ c[1] >= r.x => c \notin done[p]
    /\ c = <<r.x + r.w, r.y - 1>> => (c \in done[p] <=> <<"right", Layout(p)>> \in b.flags)
    /\ c = <<r.x - 1, r.y + r.h>> => (c \in done[p] <=> <<"bottom", Layout(p)>> \in b.flags)
\* What the block to be decoded has around it in a plane, and that its flags
\* say so of the two corners.
LEMMA AboutHead ==
  ASSUME Inv, EdgeInv, todo # <<>>, NEW b \in CodedBlock, b = Head(todo), NEW p \in Planes, InPlane(p, b),
         NEW c \in Nat \X Nat, c \in Cells(Grid(p)), Reached(LastCell(p, c), at)
  PROVE  AboutBlock(p, b, Rect(p, b), c)
  <1>. DEFINE r == Rect(p, b)
              l == LastCell(p, c)
              k == Kind(p)
  <1>1. TypeOK /\ WalkInv /\ DoneInv /\ ContextInv
    BY DEF Inv
  <1>2. frame \in Frames
    BY <1>1, TypeGives
  <1>3. b \in Items /\ b = todo[1] /\ 1 \in 1 .. Len(todo) /\ Aligned(b) /\ \A e : In(b, e) => Covered(todo, e)
    BY <1>1, HeadIs
  <1>4. Placed(b, r, k, c, l) /\ HasArea(b, k)
    BY <1>2, <1>3, PlacedAlike
  <1>5. c \in done[p] <=> Decoded(l, todo, at)
    BY <1>1 DEF DoneInv
  <1>6. /\ Before(b, l) => Decoded(l, todo, at)
        /\ After(b, l) => ~Decoded(l, todo, at)
    BY <1>1, BesideHead
  <1>7. In(b, l) => ~Decoded(l, todo, at)
    BY <1>3 DEF Decoded
  <1>8. k \in Kinds /\ k[3] = Layout(p) /\ ~IsNode(b)
    BY <1>2, PlaneKind, BlockIs
  <1>9. ASSUME NEW side \in EdgeSides, l = Corner(b, k, side)
        PROVE  c \in done[p] <=> <<side, Layout(p)>> \in b.flags
    <2>1. Right(Corner(b, k, side), HasFlag(b, k, side), todo, 1, at)
      BY <1>3, <1>4, <1>8 DEF EdgeInv, EdgeOK
    <2>2. HasFlag(b, k, side) <=> ~ToCome(todo, 1, l) /\ Begun(l, at)
      BY <1>9, <2>1 DEF Right
    <2>3. ToCome(todo, 1, l) <=> Covered(todo, l)
      BY DEF ToCome, Covered
    <2>4. HasFlag(b, k, side) <=> <<side, Layout(p)>> \in b.flags
      BY <1>8 DEF HasFlag
    <2>. QED
      BY <1>5, <2>2, <2>3, <2>4 DEF Decoded, Begun
  <1>10. /\ r.x \in Nat /\ r.y \in Nat /\ r.w \in Nat /\ r.h \in Nat /\ c[1] \in Nat /\ c[2] \in Nat
    BY <1>2, <1>3, RectIs
  <1>11. b.x \in Nat /\ b.y \in Nat /\ Wide(b) \in Nat /\ High(b) \in Nat /\ l[1] \in Nat /\ l[2] \in Nat
    <2>1. l \in Nat \X Nat
      BY <1>1, ReachedIs
    <2>2. b.x \in Nat /\ b.y \in Nat /\ Wide(b) \in Sides /\ High(b) \in Sides
      BY <1>3, ItemIs DEF Items
    <2>. QED
      BY <2>1, <2>2 DEF Sides
  <1>. HIDE DEF r, l, k
  <1>12. /\ r.x <= c[1] /\ c[1] < r.x + r.w /\ c[2] < r.y => Before(b, l)
         /\ r.y <= c[2] /\ c[2] < r.y + r.h /\ c[1] < r.x => Before(b, l)
    BY ONLY <1>4 DEF Placed, Before
  <1>13. \A v, a, w \in Nat : v >= a => (a <= v /\ v < a + w) \/ v >= a + w
    OBVIOUS
  <1>14. c[2] >= r.y => (r.y <= c[2] /\ c[2] < r.y + r.h) \/ c[2] >= r.y + r.h
    BY ONLY <1>10, <1>13
  <1>15. c[1] >= r.x => (r.x <= c[1] /\ c[1] < r.x + r.w) \/ c[1] >= r.x + r.w
    BY ONLY <1>10, <1>13
  <1>16. /\ r.x <= c[1] /\ c[1] < r.x + r.w /\ c[2] >= r.y => In(b, l) \/ After(b, l)
         /\ r.y <= c[2] /\ c[2] < r.y + r.h /\ c[1] >= r.x => In(b, l) \/ After(b, l)
    BY ONLY <1>4, <1>14, <1>15 DEF Placed, After, In
  <1>17. /\ c = <<r.x + r.w, r.y - 1>> => l = Corner(b, k, "right")
         /\ c = <<r.x - 1, r.y + r.h>> => l = Corner(b, k, "bottom")
    BY ONLY <1>4 DEF Placed
  <1>18. "right" \in EdgeSides /\ "bottom" \in EdgeSides
    BY DEF EdgeSides
  <1>19. /\ r.x <= c[1] /\ c[1] < r.x + r.w /\ c[2] < r.y => c \in done[p]
         /\ r.y <= c[2] /\ c[2] < r.y + r.h /\ c[1] < r.x => c \in done[p]
    BY <1>5, <1>6, <1>12
  <1>20. /\ r.x <= c[1] /\ c[1] < r.x + r.w /\ c[2] >= r.y => c \notin done[p]
         /\ r.y <= c[2] /\ c[2] < r.y + r.h /\ c[1] >= r.x => c \notin done[p]
    BY <1>5, <1>6, <1>7, <1>16
  <1>21. /\ c = <<r.x + r.w, r.y - 1>> => (c \in done[p] <=> <<"right", Layout(p)>> \in b.flags)
         /\ c = <<r.x - 1, r.y + r.h>> => (c \in done[p] <=> <<"bottom", Layout(p)>> \in b.flags)
    BY <1>9, <1>17, <1>18
  <1>. QED
    BY <1>19, <1>20, <1>21 DEF AboutBlock, r

\* A transform lies in a rectangle, x across and y down.
LiesIn(r, x, y, w, h) ==
    /\ r.x \in Nat /\ r.y \in Nat /\ r.w \in Nat /\ r.h \in Nat
    /\ x \in Nat /\ y \in Nat /\ w \in Nat /\ h \in Nat /\ w > 0 /\ h > 0
    /\ x + w <= r.w /\ y + h <= r.h

\* A transform is told what is there above right of it,
LEMMA ToldRight ==
  ASSUME NEW r, NEW x, NEW y, NEW w, NEW h, LiesIn(r, x, y, w, h), NEW c, c = <<r.x + x + w, r.y + y - 1>>, c \in Nat \X Nat,
         NEW p, NEW b, AboutBlock(p, b, r, c)
  PROVE  ((y = 0 /\ <<"right", Layout(p)>> \in b.flags) \/ x + w < r.w) <=> ThereAt(p, r, x, y, h, c)
  <1>0. /\ r.x \in Nat /\ r.y \in Nat /\ r.w \in Nat /\ r.h \in Nat
       /\ x \in Nat /\ y \in Nat /\ w \in Nat /\ h \in Nat /\ w > 0 /\ h > 0
       /\ x + w <= r.w /\ y + h <= r.h
    BY DEF LiesIn
  <1>1. c[1] = r.x + x + w /\ c[2] = r.y + y - 1 /\ c[1] \in Nat /\ c[2] \in Nat
    OBVIOUS
  <1>2. ~(c[1] < r.x + x) /\ r.x <= c[1]
    BY ONLY <1>1, <1>0
  <1>3. x + w < r.w <=> c[1] < r.x + r.w
    BY ONLY <1>1, <1>0
  <1>4. c[2] < r.y + y /\ (y # 0 => r.y <= c[2] /\ c[2] < r.y + r.h)
    BY ONLY <1>1, <1>0
  <1>5. ASSUME y = 0
        PROVE  c[2] = r.y - 1 /\ c[2] < r.y /\ ~(r.y <= c[2])
    BY ONLY <1>1, <1>5, <1>0
  <1>6. ~(x + w < r.w) => c[1] = r.x + r.w
    BY ONLY <1>1, <1>0
  <1>7. c[1] >= r.x
    BY ONLY <1>1, <1>2, <1>0
  <1>8. CASE y # 0
    <2>1. c \notin done[p]
      BY <1>4, <1>7, <1>8 DEF AboutBlock
    <2>. QED
      BY ONLY <1>2, <1>3, <1>4, <1>8, <2>1 DEF ThereAt
  <1>9. CASE y = 0 /\ x + w < r.w
    <2>1. c \in done[p]
      BY <1>2, <1>3, <1>5, <1>9 DEF AboutBlock
    <2>. QED
      BY ONLY <1>9, <2>1 DEF ThereAt
  <1>10. CASE y = 0 /\ ~(x + w < r.w)
    <2>1. c = <<r.x + r.w, r.y - 1>>
      BY ONLY <1>1, <1>5, <1>6, <1>10, c = <<r.x + x + w, r.y + y - 1>>
    <2>2. c \in done[p] <=> <<"right", Layout(p)>> \in b.flags
      BY <2>1 DEF AboutBlock
    <2>. QED
      BY ONLY <1>2, <1>3, <1>5, <1>10, <2>2 DEF ThereAt
  <1>. QED
    BY <1>8, <1>9, <1>10

\* and below left of it.
LEMMA ToldBottom ==
  ASSUME NEW r, NEW x, NEW y, NEW w, NEW h, LiesIn(r, x, y, w, h), NEW c, c = <<r.x + x - 1, r.y + y + h>>, c \in Nat \X Nat,
         NEW p, NEW b, AboutBlock(p, b, r, c)
  PROVE  (x = 0 /\ (<<"bottom", Layout(p)>> \in b.flags \/ y + h < r.h)) <=> ThereAt(p, r, x, y, h, c)
  <1>0. /\ r.x \in Nat /\ r.y \in Nat /\ r.w \in Nat /\ r.h \in Nat
       /\ x \in Nat /\ y \in Nat /\ w \in Nat /\ h \in Nat /\ w > 0 /\ h > 0
       /\ x + w <= r.w /\ y + h <= r.h
    BY DEF LiesIn
  <1>1. c[1] = r.x + x - 1 /\ c[2] = r.y + y + h /\ c[1] \in Nat /\ c[2] \in Nat
    OBVIOUS
  <1>2. ~(c[2] < r.y + y) /\ ~(c[2] < r.y + y + h) /\ r.y <= c[2] /\ c[2] >= r.y
    BY ONLY <1>1, <1>0
  <1>3. y + h < r.h <=> c[2] < r.y + r.h
    BY ONLY <1>1, <1>0
  <1>4. x # 0 => r.x <= c[1] /\ c[1] < r.x + r.w
    BY ONLY <1>1, <1>0
  <1>5. ASSUME x = 0
        PROVE  c[1] = r.x - 1 /\ c[1] < r.x
    BY ONLY <1>1, <1>5, <1>0
  <1>6. ~(y + h < r.h) => c[2] = r.y + r.h
    BY ONLY <1>1, <1>0
  <1>8. CASE x # 0
    <2>1. c \notin done[p]
      BY <1>2, <1>4, <1>8 DEF AboutBlock
    <2>. QED
      BY ONLY <1>2, <1>8, <2>1 DEF ThereAt
  <1>9. CASE x = 0 /\ y + h < r.h
    <2>1. c \in done[p]
      BY <1>2, <1>3, <1>5, <1>9 DEF AboutBlock
    <2>. QED
      BY ONLY <1>9, <2>1 DEF ThereAt
  <1>10. CASE x = 0 /\ ~(y + h < r.h)
    <2>1. c = <<r.x - 1, r.y + r.h>>
      BY ONLY <1>1, <1>5, <1>6, <1>10, c = <<r.x + x - 1, r.y + y + h>>
    <2>2. c \in done[p] <=> <<"bottom", Layout(p)>> \in b.flags
      BY <2>1 DEF AboutBlock
    <2>. QED
      BY ONLY <1>2, <1>10, <2>2 DEF ThereAt
  <1>. QED
    BY <1>8, <1>9, <1>10

\* So every transform of a block of up to 64x64 is told right.
LEMMA InvEdgesAsDecoded ==
  ASSUME Inv, EdgeInv
  PROVE  EdgesAsDecoded
  <1>. SUFFICES ASSUME NEW b \in HeadBlock, ~Large(b), NEW p \in PlanesOf(b), NEW t \in TxSizes(p, b),
                       NEW k \in 1 .. Len(Regions(b)),
                       NEW x \in {i \in 0 .. Rect(p, Regions(b)[k]).w - 1 :
                                    i % t.w = 0 /\ Rect(p, Regions(b)[k]).x + i < GridW(p)},
                       NEW y \in {i \in 0 .. Rect(p, Regions(b)[k]).h - 1 :
                                    i % t.h = 0 /\ Rect(p, Regions(b)[k]).y + i < GridH(p)},
                       NEW side \in {"right", "bottom"}
                PROVE  EdgeRight(p, b, k, x, y, t, side, Area(p, Tile))
    BY DEF EdgesAsDecoded, EdgesRight
  <1>. DEFINE r == Rect(p, b)
              has == <<side, Layout(p)>> \in b.flags
              c == IF side = "right" THEN <<r.x + x + t.w, r.y + y - 1>>
                                     ELSE <<r.x + x - 1, r.y + y + t.h>>
  <1>1. TypeOK /\ WalkInv
    BY DEF Inv
  <1>2. todo # <<>> /\ b = Head(todo) /\ ~IsNode(b) /\ p \in Planes /\ InPlane(p, b)
    BY DEF HeadBlock, PlanesOf
  <1>3. frame \in Frames /\ Aligned(b) /\ b \in CodedBlock
    BY <1>1, <1>2, TypeGives, HeadIs, ItemKind DEF Items
  <1>4. k = 1 /\ Rect(p, Regions(b)[k]) = r
    <2>1. Len(Regions(b)) = 1 /\ Rect(p, Regions(b)[1]) = r
      BY <1>3, OneRegion
    <2>. QED
      BY <2>1
  <1>5. /\ r.w \in Lengths /\ r.h \in Lengths
        /\ t.w \in Lengths /\ t.h \in Lengths /\ t.w <= r.w /\ t.h <= r.h
    BY <1>2, <1>3, TransformFits
  <1>6. r.x \in Nat /\ r.y \in Nat /\ r.w \in Nat /\ r.h \in Nat
    BY <1>2, <1>3, RectIs
  <1>7. x \in 0 .. r.w - 1 /\ x % t.w = 0 /\ y \in 0 .. r.h - 1 /\ y % t.h = 0
    BY <1>4
  <1>. HIDE DEF r
  <1>8. x \in Nat /\ y \in Nat /\ x < r.w /\ y < r.h
    <2>1. \A n \in Nat : \A v \in 0 .. n - 1 : v \in Nat /\ v < n
      OBVIOUS
    <2>. QED
      BY ONLY <1>6, <1>7, <2>1, Zenon
  <1>9. x + t.w <= r.w /\ y + t.h <= r.h
    <2>1. x + t.w <= r.w
      BY ONLY <1>5, <1>7, <1>8, WholeTimes
    <2>2. y + t.h <= r.h
      BY ONLY <1>5, <1>7, <1>8, WholeTimes
    <2>. QED
      BY ONLY <2>1, <2>2, Zenon
  <1>10. t.w \in Nat /\ t.h \in Nat /\ t.w > 0 /\ t.h > 0
    <2>1. \A n \in Lengths : n \in Nat /\ n > 0
      BY DEF Lengths
    <2>. QED
      BY ONLY <1>5, <2>1, Zenon
  <1>11. LiesIn(r, x, y, t.w, t.h)
    BY <1>6, <1>8, <1>9, <1>10 DEF LiesIn
  <1>. SUFFICES ASSUME c[1] \in Area(p, Tile).x0 .. Area(p, Tile).x1 - 1,
                       c[2] \in Area(p, Tile).y0 .. Area(p, Tile).y1 - 1
                PROVE  TransformEdge(r.w, r.h, x, y, t, side, has) <=> c \in ThereBefore(p, b, 1, x, y, t)
    BY <1>4 DEF EdgeRight
  <1>12. c = <<c[1], c[2]>>
    OBVIOUS
  <1>13. c \in Nat \X Nat /\ c \in Cells(Grid(p)) /\ Reached(LastCell(p, c), at)
    BY <1>1, <1>2, <1>12, AreaReached
  <1>14. AboutBlock(p, b, r, c)
    BY <1>2, <1>3, <1>13, AboutHead DEF r
  <1>15. c \in ThereBefore(p, b, 1, x, y, t) <=> ThereAt(p, r, x, y, t.h, c)
    BY <1>2, <1>3, <1>8, <1>10, <1>13, ThereIs DEF r
  <1>16. /\ TransformEdge(r.w, r.h, x, y, t, "right", has) <=> (y = 0 /\ has) \/ x + t.w < r.w
         /\ TransformEdge(r.w, r.h, x, y, t, "bottom", has) <=> x = 0 /\ (has \/ y + t.h < r.h)
    <2>1. has \in BOOLEAN
      OBVIOUS
    <2>. HIDE DEF has
    <2>. QED
      BY ONLY <1>5, <1>8, <1>9, <2>1, TransformTells
  <1>17. CASE side = "right"
    <2>1. c = <<r.x + x + t.w, r.y + y - 1>>
      BY <1>17
    <2>. HIDE DEF c
    <2>2. ((y = 0 /\ <<"right", Layout(p)>> \in b.flags) \/ x + t.w < r.w) <=> ThereAt(p, r, x, y, t.h, c)
      BY ONLY <1>13, <1>14, <1>11, <2>1, ToldRight
    <2>. QED
      BY <1>15, <1>16, <1>17, <2>2
  <1>18. CASE side = "bottom"
    <2>1. c = <<r.x + x - 1, r.y + y + t.h>>
      BY <1>18
    <2>. HIDE DEF c
    <2>2. (x = 0 /\ (<<"bottom", Layout(p)>> \in b.flags \/ y + t.h < r.h)) <=> ThereAt(p, r, x, y, t.h, c)
      BY ONLY <1>13, <1>14, <1>11, <2>1, ToldBottom
    <2>. QED
      BY <1>15, <1>16, <1>18, <2>2
  <1>. QED
    BY <1>17, <1>18

\* Whatever the frame and the partitions chosen, a transform of a block of up to
\* 64x64 is told that a neighbour in the tile is there exactly when it is.
THEOREM EdgesExact == Spec => []EdgesAsDecoded
  <1>1. Init => Inv /\ EdgeInv
    BY InitKeeps, EdgeInit
  <1>2. (Inv /\ EdgeInv) /\ [Next]_vars => (Inv /\ EdgeInv)'
    BY StepKeeps, StepEdges
  <1>3. Inv /\ EdgeInv => EdgesAsDecoded
    BY InvEdgesAsDecoded
  <1>. QED
    BY <1>1, <1>2, <1>3, PTL DEF Spec
=============================================================================
