------------------------------ MODULE RtpProofs ------------------------------
(***************************************************************************)
(* Theorems about RtpAssembler, for any sizes of OBUs and units, any cuts  *)
(* into packets and any losses.                                            *)
(***************************************************************************)
EXTENDS RtpAssembler, SequenceTheorems, NaturalsInduction, WellFoundedInduction, TLAPS

-----------------------------------------------------------------------------
(* Induction and recursion over sets of numbers. *)

\* A set of natural numbers has a least one.
LEMMA LeastNumber ==
  ASSUME NEW T \in SUBSET Nat, T # {}
  PROVE  \E n \in T : \A m \in T : n <= m
<1> DEFINE Less == {pair \in Nat \X Nat : pair[1] < pair[2]}
<1>1. IsWellFoundedOn(Less, Nat)
  BY NatLessThanWellFounded DEF OpToRel
<1>2. PICK x \in T : \A y \in T : <<y, x>> \notin Less
  BY <1>1, WFMin
<1>3. ASSUME NEW y \in T PROVE x <= y
  <2>1. <<y, x>> \in Nat \X Nat /\ <<y, x>>[1] = y /\ <<y, x>>[2] = x
    OBVIOUS
  <2>2. ~(y < x)
    BY <1>2, <2>1
  <2> QED
    BY <2>2
<1> QED
  BY <1>3

\* What holds of 0, and of n + 1 below a bound when of n, holds up to the bound.
LEMMA BoundedInduction ==
  ASSUME NEW n \in Nat, NEW T \in SUBSET (0 .. n), 0 \in T,
         \A i \in T : i < n => i + 1 \in T
  PROVE  T = 0 .. n
<1> SUFFICES ASSUME T # 0 .. n PROVE FALSE
  OBVIOUS
<1> DEFINE U == (0 .. n) \ T
<1>1. U # {} /\ U \in SUBSET Nat
  <2> DEFINE whole == 0 .. n
  <2>1. whole \in SUBSET Nat
    OBVIOUS
  <2>2. T \in SUBSET whole /\ T # whole /\ U = whole \ T
    OBVIOUS
  <2> HIDE DEF whole, U
  <2> QED
    BY <2>1, <2>2
<1>2. PICK k \in U : \A m \in U : k <= m
  <2> HIDE DEF U
  <2> QED
    BY <1>1, LeastNumber, Zenon
<1>3. k # 0 /\ k - 1 \in 0 .. n /\ k - 1 < n /\ ~(k <= k - 1)
  BY <1>2
<1>4. k - 1 \in T
  BY <1>2, <1>3
<1> QED
  BY <1>2, <1>3, <1>4

Stepper(n, S) == [1 .. n -> [S -> S]]
IsRun(f, b, step, n) == f[0] = b /\ \A i \in 1 .. n : f[i] = step[i][f[i - 1]]

\* A step at a time, from a start: the run of values exists.
LEMMA RunExists ==
  ASSUME NEW S, NEW b \in S, NEW n \in Nat, NEW step \in Stepper(n, S)
  PROVE  \E f \in [0 .. n -> S] : IsRun(f, b, step, n)
<1> DEFINE Walks(f, m) == f[0] = b /\ \A i \in 1 .. m : f[i] = step[i][f[i - 1]]
           T == {m \in 0 .. n : \E f \in [0 .. m -> S] : Walks(f, m)}
<1>1. 0 \in T
  <2> DEFINE f == [i \in 0 .. 0 |-> b]
  <2>1. f \in [0 .. 0 -> S]
    OBVIOUS
  <2>2. f[0] = b
    OBVIOUS
  <2>3. \A i \in 1 .. 0 : f[i] = step[i][f[i - 1]]
    OBVIOUS
  <2> HIDE DEF f
  <2>4. Walks(f, 0)
    BY <2>2, <2>3
  <2> QED
    BY <2>1, <2>4
<1>2. ASSUME NEW m \in T, m < n PROVE m + 1 \in T
  <2>1. PICK f \in [0 .. m -> S] : Walks(f, m)
    OBVIOUS
  <2>2. m \in Nat /\ m + 1 \in 1 .. n
    BY <1>2
  <2> DEFINE g == [i \in 0 .. m + 1 |-> IF i = m + 1 THEN step[m + 1][f[m]] ELSE f[i]]
  <2>3. g \in [0 .. m + 1 -> S]
    <3>1. step[m + 1][f[m]] \in S
      BY <2>2 DEF Stepper
    <3>2. ASSUME NEW i \in 0 .. m + 1, i # m + 1 PROVE f[i] \in S
      BY <2>2, <3>2
    <3> QED
      BY <3>1, <3>2
  <2>4. Walks(g, m + 1)
    <3>1. g[0] = b
      BY <2>1, <2>2
    <3>2. ASSUME NEW i \in 1 .. m + 1 PROVE g[i] = step[i][g[i - 1]]
      <4>1. CASE i = m + 1
        <5>1. g[i - 1] = f[m] /\ g[i] = step[m + 1][f[m]]
          BY <2>2, <4>1
        <5> QED
          BY <4>1, <5>1
      <4>2. CASE i # m + 1
        <5>1. i \in 1 .. m /\ i - 1 \in 0 .. m /\ i - 1 # m + 1 /\ i \in 0 .. m + 1 /\ i - 1 \in 0 .. m + 1
          BY <2>2, <4>2
        <5>2. g[i] = f[i] /\ g[i - 1] = f[i - 1]
          BY <4>2, <5>1
        <5> QED
          BY <2>1, <5>1, <5>2
      <4> QED
        BY <4>1, <4>2
    <3> HIDE DEF g
    <3> QED
      BY <3>1, <3>2
  <2>5. m + 1 \in 0 .. n
    BY <2>2
  <2> HIDE DEF g, Walks
  <2> QED
    BY <2>3, <2>4, <2>5
<1> HIDE DEF Walks
<1>3. T \in SUBSET (0 .. n)
  OBVIOUS
<1>4. n \in T
  <2> HIDE DEF T
  <2>1. T = 0 .. n
    BY <1>1, <1>2, <1>3, BoundedInduction
  <2> QED
    BY <2>1
<1> QED
  BY <1>4 DEF IsRun, Walks

-----------------------------------------------------------------------------
(* Flattening.  Joins(f, s, n): f[k] is what the first k sequences of s make. *)

Joins(f, s, n) == f[0] = <<>> /\ \A k \in 1 .. n : f[k] = f[k - 1] \o s[k]

\* Every sequence of sequences has its prefixes' concatenations,
LEMMA JoinsExist ==
  ASSUME NEW P, NEW s \in Seq(Seq(P))
  PROVE  \E f \in [0 .. Len(s) -> Seq(P)] : Joins(f, s, Len(s))
<1> DEFINE n == Len(s)
           S == Seq(P)
           none == <<>>
           step == [k \in 1 .. n |-> [x \in S |-> x \o s[k]]]
<1>1. n \in Nat /\ none \in S
  OBVIOUS
<1>2. step \in Stepper(n, S)
  BY DEF Stepper
<1>3. \A k \in 1 .. n : \A x \in S : step[k][x] = x \o s[k]
  OBVIOUS
<1> HIDE DEF n, step, S, none
<1>4. PICK f \in [0 .. n -> S] : IsRun(f, none, step, n)
  BY <1>1, <1>2, RunExists
<1>5. ASSUME NEW k \in 1 .. n PROVE f[k] = f[k - 1] \o s[k]
  <2>1. k - 1 \in 0 .. n
    BY <1>1
  <2>2. f[k - 1] \in S
    BY <2>1
  <2> QED
    BY <1>3, <1>4, <2>2 DEF IsRun
<1>6. Joins(f, s, n)
  BY <1>4, <1>5 DEF Joins, IsRun, none
<1> QED
  BY <1>6 DEF n, S

\* and only one row of them.
LEMMA JoinsUnique ==
  ASSUME NEW s, NEW t, NEW n \in Nat, \A k \in 1 .. n : t[k] = s[k],
         NEW f, NEW g, Joins(f, s, n), Joins(g, t, n), NEW k \in 0 .. n
  PROVE  f[k] = g[k]
<1> DEFINE T == {i \in 0 .. n : f[i] = g[i]}
<1>1. 0 \in T
  BY DEF Joins
<1>2. ASSUME NEW i \in T, i < n PROVE i + 1 \in T
  <2>1. i \in Nat /\ i + 1 \in 1 .. n /\ (i + 1) - 1 = i /\ i + 1 \in 0 .. n
    BY <1>2
  <2>2. f[i + 1] = f[i] \o s[i + 1] /\ g[i + 1] = g[i] \o t[i + 1] /\ t[i + 1] = s[i + 1]
    BY <2>1 DEF Joins
  <2> QED
    BY <2>1, <2>2
<1>3. T \in SUBSET (0 .. n)
  OBVIOUS
<1> HIDE DEF T
<1>4. T = 0 .. n
  BY <1>1, <1>2, <1>3, BoundedInduction
<1>5. k \in T
  BY <1>4
<1> QED
  BY <1>5 DEF T

Flatten(s) == CHOOSE f : f = [k \in 1 .. Len(s) |-> IF k = 1 THEN s[k] ELSE f[k - 1] \o s[k]]

\* FlattenSeq gives what a run of joins ends with.
LEMMA FlatIs ==
  ASSUME NEW P, NEW s \in Seq(Seq(P)), NEW f, Joins(f, s, Len(s))
  PROVE  Flat(s) = f[Len(s)]
<1> DEFINE n == Len(s)
<1>1. n \in Nat
  OBVIOUS
<1>2. CASE n = 0
  <2>1. Flat(s) = s
    BY <1>2 DEF Flat, FlattenSeq
  <2>2. s = <<>>
    BY <1>2
  <2> QED
    BY <1>2, <2>1, <2>2 DEF Joins
<1>3. CASE n # 0
  <2>1. Flat(s) = Flatten(s)[n]
    BY <1>3 DEF Flat, FlattenSeq, Flatten
  <2>2. PICK h \in [0 .. n -> Seq(P)] : Joins(h, s, n)
    BY JoinsExist
  <2> DEFINE r == [k \in 1 .. n |-> h[k]]
             Body(g) == [k \in 1 .. n |-> IF k = 1 THEN s[k] ELSE g[k - 1] \o s[k]]
  <2>3. r = Body(r)
    <3>1. ASSUME NEW k \in 1 .. n PROVE r[k] = Body(r)[k]
      <4>1. h[k] = h[k - 1] \o s[k]
        BY Zenon, <2>2 DEF Joins
      <4>0. s[k] \in Seq(P)
        OBVIOUS
      <4>2. CASE k = 1
        <5>1. h[k - 1] = <<>>
          BY <2>2, <4>2 DEF Joins
        <5>2. <<>> \o s[k] = s[k]
          BY <4>0, ConcatEmptySeq
        <5> QED
          BY <4>1, <4>2, <5>1, <5>2
      <4>3. CASE k # 1
        <5>1. k - 1 \in 1 .. n
          BY <1>1, <4>3
        <5> QED
          BY <4>1, <4>3, <5>1
      <4> QED
        BY <4>2, <4>3
    <3> QED
      BY <3>1
  <2>4. Flatten(s) = Body(Flatten(s))
    <3> HIDE DEF r, Body
    <3>1. \E g : g = Body(g)
      BY <2>3
    <3>2. Flatten(s) = CHOOSE g : g = Body(g)
      BY DEF Flatten, Body
    <3> QED
      BY <3>1, <3>2
  <2> DEFINE e == [k \in 0 .. n |-> IF k = 0 THEN <<>> ELSE Flatten(s)[k]]
  <2>5. Joins(e, s, n)
    <3>1. e[0] = <<>>
      BY <1>1
    <3>2. ASSUME NEW k \in 1 .. n PROVE e[k] = e[k - 1] \o s[k]
      <4>1. k \in 0 .. n /\ k # 0 /\ k - 1 \in 0 .. n
        BY <1>1
      <4>2. e[k] = IF k = 1 THEN s[k] ELSE Flatten(s)[k - 1] \o s[k]
        BY <2>4, <4>1
      <4>3. CASE k = 1
        <5>1. e[k - 1] = <<>>
          BY <1>1, <4>3
        <5>2. <<>> \o s[k] = s[k]
          <6>1. s[k] \in Seq(P)
            OBVIOUS
          <6> QED
            BY <6>1, ConcatEmptySeq
        <5> HIDE DEF e
        <5> QED
          BY <4>2, <4>3, <5>1, <5>2
      <4>4. CASE k # 1
        <5>1. k - 1 # 0
          BY <4>4
        <5>2. e[k - 1] = Flatten(s)[k - 1]
          BY <4>1, <5>1
        <5> HIDE DEF e
        <5> QED
          BY <4>2, <4>4, <5>2
      <4> QED
        BY <4>3, <4>4
    <3> HIDE DEF e
    <3> QED
      BY <3>1, <3>2 DEF Joins
  <2>6. e[n] = Flatten(s)[n]
    BY <1>1, <1>3
  <2> HIDE DEF e
  <2>7. f[n] = e[n]
    BY <1>1, <2>5, JoinsUnique
  <2> QED
    BY <2>1, <2>6, <2>7
<1> QED
  BY <1>2, <1>3

\* The empty sequence, and a sequence with one more.
LEMMA FlatGrows ==
  /\ Flat(<<>>) = <<>>
  /\ \A P : \A s \in Seq(Seq(P)) : Flat(s) \in Seq(P)
  /\ \A P : \A s \in Seq(Seq(P)), x \in Seq(P) : Flat(Append(s, x)) = Flat(s) \o x
<1>1. Flat(<<>>) = <<>>
  BY DEF Flat, FlattenSeq
<1>2. ASSUME NEW P, NEW s \in Seq(Seq(P)) PROVE Flat(s) \in Seq(P)
  <2>1. PICK f \in [0 .. Len(s) -> Seq(P)] : Joins(f, s, Len(s))
    BY JoinsExist
  <2>2. Flat(s) = f[Len(s)]
    BY <2>1, FlatIs
  <2>3. Len(s) \in 0 .. Len(s)
    OBVIOUS
  <2> QED
    BY <2>2, <2>3
<1>3. ASSUME NEW P, NEW s \in Seq(Seq(P)), NEW x \in Seq(P)
      PROVE  Flat(Append(s, x)) = Flat(s) \o x
  <2> DEFINE n == Len(s)
             t == Append(s, x)
  <2>1. PICK f \in [0 .. n -> Seq(P)] : Joins(f, s, n)
    BY JoinsExist
  <2>2. n \in Nat
    OBVIOUS
  <2>3. t \in Seq(Seq(P)) /\ Len(t) = n + 1 /\ t[n + 1] = x /\ \A k \in 1 .. n : t[k] = s[k]
    OBVIOUS
  <2> HIDE DEF n, t
  <2> DEFINE g == [k \in 0 .. n + 1 |-> IF k = n + 1 THEN f[n] \o x ELSE f[k]]
  <2>4. \A k \in 0 .. n : g[k] = f[k]
    BY <2>2
  <2>5. g[n + 1] = f[n] \o x
    BY <2>2
  <2> HIDE DEF g
  <2>6. ASSUME NEW k \in 1 .. n + 1 PROVE g[k] = g[k - 1] \o t[k]
    <3>1. CASE k = n + 1
      <4>1. k - 1 = n /\ n \in 0 .. n
        BY <2>2, <3>1
      <4> QED
        BY <2>3, <2>4, <2>5, <3>1, <4>1
    <3>2. CASE k # n + 1
      <4>1. k \in 1 .. n /\ k \in 0 .. n /\ k - 1 \in 0 .. n
        BY <2>2, <3>2
      <4>2. f[k] = f[k - 1] \o s[k]
        BY <2>1, <4>1 DEF Joins
      <4> QED
        BY <2>3, <2>4, <4>1, <4>2
    <3> QED
      BY <3>1, <3>2
  <2>7. g[0] = <<>>
    BY <2>1, <2>2, <2>4 DEF Joins
  <2>8. Joins(g, t, n + 1)
    BY <2>6, <2>7 DEF Joins
  <2>9. Flat(t) = g[n + 1]
    BY <2>3, <2>8, FlatIs
  <2>10. Flat(s) = f[n]
    BY <2>1, FlatIs DEF n
  <2> QED
    BY <2>5, <2>9, <2>10 DEF t
<1> QED
  BY <1>1, <1>2, <1>3

-----------------------------------------------------------------------------
(* What a reader's buffers hold, whatever the elements are fragments of. *)

Bufs(P) == [tu : Seq(Seq(P)), frag : Seq(P), open : BOOLEAN]
Tidy(P) == {b \in Bufs(P) : ~b.open => b.frag = <<>>}
Content(b) == Flat(b.tu) \o b.frag

\* What is in tidy buffers.
LEMMA TidyParts ==
  ASSUME NEW P, NEW b \in Tidy(P)
  PROVE  /\ b.tu \in Seq(Seq(P)) /\ b.frag \in Seq(P) /\ b.open \in BOOLEAN
         /\ ~b.open => b.frag = <<>>
         /\ b = [tu |-> b.tu, frag |-> b.frag, open |-> b.open]
         /\ Flat(b.tu) \in Seq(P) /\ Content(b) \in Seq(P)
<1>1. b.tu \in Seq(Seq(P)) /\ b.frag \in Seq(P) /\ b.open \in BOOLEAN
  BY DEF Tidy, Bufs
<1>2. ~b.open => b.frag = <<>>
  BY DEF Tidy
<1>3. b = [tu |-> b.tu, frag |-> b.frag, open |-> b.open]
  BY DEF Tidy, Bufs
<1>4. Flat(b.tu) \in Seq(P)
  BY <1>1, FlatGrows
<1>5. Content(b) \in Seq(P)
  BY <1>1, <1>4, ConcatProperties DEF Content
<1> QED
  BY <1>1, <1>2, <1>3, <1>4, <1>5

\* What makes buffers tidy.
LEMMA TidyMade ==
  ASSUME NEW P, NEW tu \in Seq(Seq(P)), NEW frag \in Seq(P), NEW open \in BOOLEAN,
         ~open => frag = <<>>
  PROVE  /\ [tu |-> tu, frag |-> frag, open |-> open] \in Tidy(P)
         /\ Content([tu |-> tu, frag |-> frag, open |-> open]) = Flat(tu) \o frag
<1> DEFINE b == [tu |-> tu, frag |-> frag, open |-> open]
<1>1. b \in Bufs(P)
  BY DEF Bufs
<1>2. b.tu = tu /\ b.frag = frag /\ b.open = open
  OBVIOUS
<1> HIDE DEF b
<1>3. b \in Tidy(P)
  BY <1>1, <1>2 DEF Tidy
<1>4. Content(b) = Flat(tu) \o frag
  BY <1>2 DEF Content
<1> QED
  BY <1>3, <1>4 DEF b

\* Buffers with one field changed.
LEMMA FieldsChanged ==
  ASSUME NEW tu, NEW frag, NEW open, NEW b, b = [tu |-> tu, frag |-> frag, open |-> open],
         NEW x
  PROVE  /\ [b EXCEPT !.frag = x] = [tu |-> tu, frag |-> x, open |-> open]
         /\ [b EXCEPT !.tu = x] = [tu |-> x, frag |-> frag, open |-> open]
OBVIOUS

Associative(P) == \A x, y, z \in Seq(P) : (x \o y) \o z = x \o (y \o z)

\* Concatenation is associative.
LEMMA Reassociate == ASSUME NEW P PROVE Associative(P)
<1>1. ASSUME NEW x \in Seq(P), NEW y \in Seq(P), NEW z \in Seq(P)
      PROVE  (x \o y) \o z = x \o (y \o z)
  BY ConcatAssociative
<1> QED
  BY <1>1 DEF Associative

\* Closing a fragment moves it, and loses nothing.
LEMMA CloseKeeps ==
  ASSUME NEW P, NEW b \in Tidy(P)
  PROVE  /\ CloseFragment(b) \in Tidy(P)
         /\ ~CloseFragment(b).open /\ CloseFragment(b).frag = <<>>
         /\ CloseFragment(b).tu \in Seq(Seq(P))
         /\ Flat(CloseFragment(b).tu) = Content(b)
         /\ Content(CloseFragment(b)) = Content(b)
<1>1. b.tu \in Seq(Seq(P)) /\ b.frag \in Seq(P) /\ Flat(b.tu) \in Seq(P) /\ <<>> \in Seq(P)
  BY TidyParts
<1>2. CASE b.open
  <2> DEFINE t == Append(b.tu, b.frag)
  <2>1. CloseFragment(b) = [tu |-> t, frag |-> <<>>, open |-> FALSE]
    BY <1>2 DEF CloseFragment
  <2>2. t \in Seq(Seq(P)) /\ Flat(t) = Content(b)
    BY <1>1, FlatGrows, AppendProperties DEF Content
  <2>3. Flat(t) \in Seq(P)
    BY <2>2, FlatGrows
  <2> HIDE DEF t
  <2>4. CloseFragment(b) \in Tidy(P) /\ Content(CloseFragment(b)) = Flat(t) \o <<>>
    BY <1>1, <2>1, <2>2, TidyMade
  <2>5. Flat(t) \o <<>> = Flat(t)
    BY <2>3, ConcatEmptySeq
  <2> QED
    BY <2>1, <2>2, <2>4, <2>5
<1>3. CASE ~b.open
  <2>1. CloseFragment(b) = b
    BY <1>3 DEF CloseFragment
  <2>2. b.frag = <<>>
    BY <1>3, TidyParts
  <2>3. Flat(b.tu) = Content(b)
    BY <1>1, <2>2, ConcatEmptySeq DEF Content
  <2> QED
    BY <1>1, <1>3, <2>1, <2>2, <2>3
<1> QED
  BY <1>2, <1>3

\* One element is added to what the buffers hold, whatever it continues.
LEMMA ElementKept ==
  ASSUME NEW P, NEW b \in Tidy(P), NEW pkt, pkt.elems \in Seq(Seq(P)),
         NEW i \in 1 .. Len(pkt.elems)
  PROVE  /\ TakeElement(pkt, b, i) \in Tidy(P)
         /\ Content(TakeElement(pkt, b, i)) = Content(b) \o pkt.elems[i]
<1> DEFINE elem == pkt.elems[i]
           last == pkt.w > 0 /\ i = pkt.w
           longer == [b EXCEPT !.frag = @ \o elem]
           closed == CloseFragment(b)
           after == TakeElement(pkt, b, i)
<1>1. elem \in Seq(P)
  OBVIOUS
<1>2. after = IF i = 1 /\ pkt.z /\ b.open
              THEN IF last /\ pkt.y THEN longer ELSE CloseFragment(longer)
              ELSE IF last /\ pkt.y
                   THEN [tu |-> closed.tu, frag |-> elem, open |-> TRUE]
                   ELSE [closed EXCEPT !.tu = Append(@, elem)]
  BY DEF TakeElement
<1>3. /\ b.tu \in Seq(Seq(P)) /\ b.frag \in Seq(P) /\ b.open \in BOOLEAN
      /\ b = [tu |-> b.tu, frag |-> b.frag, open |-> b.open]
      /\ Flat(b.tu) \in Seq(P) /\ Content(b) \in Seq(P)
  BY TidyParts
<1>4. /\ closed \in Tidy(P) /\ ~closed.open /\ closed.frag = <<>>
      /\ closed.tu \in Seq(Seq(P)) /\ Flat(closed.tu) = Content(b)
  BY CloseKeeps
<1> HIDE DEF elem, last, closed, after
<1>5. CASE b.open /\ (after = longer \/ after = CloseFragment(longer))
  <2> DEFINE frag == b.frag \o elem
  <2>1. longer = [tu |-> b.tu, frag |-> frag, open |-> b.open]
    <3>1. longer = [b EXCEPT !.frag = frag]
      OBVIOUS
    <3> HIDE DEF longer, frag
    <3> QED
      BY <1>3, <3>1, FieldsChanged
  <2>2. frag \in Seq(P)
    BY <1>1, <1>3, ConcatProperties
  <2> HIDE DEF longer
  <2>3. longer \in Tidy(P) /\ Content(longer) = Flat(b.tu) \o frag
    <3> HIDE DEF frag
    <3> QED
      BY <1>3, <1>5, <2>1, <2>2, TidyMade
  <2>4. Flat(b.tu) \o (b.frag \o elem) = (Flat(b.tu) \o b.frag) \o elem
    <3> DEFINE flat == Flat(b.tu)
               open == b.frag
    <3>1. flat \in Seq(P) /\ open \in Seq(P)
      BY <1>3
    <3> HIDE DEF flat, open
    <3>2. (flat \o open) \o elem = flat \o (open \o elem)
      <4>1. Associative(P)
        BY Reassociate
      <4> QED
        BY Zenon, <1>1, <3>1, <4>1 DEF Associative
    <3> QED
      BY <3>2 DEF flat, open
  <2>5. Content(longer) = Content(b) \o elem
    BY <2>3, <2>4 DEF Content
  <2>6. CloseFragment(longer) \in Tidy(P) /\ Content(CloseFragment(longer)) = Content(longer)
    BY <2>3, CloseKeeps
  <2> QED
    BY <1>5, <2>3, <2>5, <2>6 DEF after, elem
<1>6. CASE after = [tu |-> closed.tu, frag |-> elem, open |-> TRUE]
  <2>1. after \in Tidy(P) /\ Content(after) = Flat(closed.tu) \o elem
    BY <1>1, <1>4, <1>6, TidyMade
  <2> QED
    BY <1>4, <2>1 DEF after, elem
<1>7. CASE after = [closed EXCEPT !.tu = Append(@, elem)]
  <2> DEFINE t == Append(closed.tu, elem)
  <2>1. closed = [tu |-> closed.tu, frag |-> closed.frag, open |-> closed.open]
    BY <1>4, TidyParts
  <2>2. after = [tu |-> t, frag |-> <<>>, open |-> FALSE]
    <3>1. after = [closed EXCEPT !.tu = t]
      BY <1>7
    <3> HIDE DEF t
    <3>2. after = [tu |-> t, frag |-> closed.frag, open |-> closed.open]
      BY <2>1, <3>1, FieldsChanged
    <3>3. closed.open = FALSE
      BY <1>4, TidyParts
    <3> QED
      BY <1>4, <3>2, <3>3
  <2>3. t \in Seq(Seq(P)) /\ Flat(t) = Flat(closed.tu) \o elem
    <3>1. Flat(t) = Flat(closed.tu) \o elem
      BY <1>1, <1>4, FlatGrows
    <3>2. t \in Seq(Seq(P))
      BY <1>1, <1>4
    <3> QED
      BY <3>1, <3>2
  <2>4. Flat(t) \in Seq(P) /\ <<>> \in Seq(P)
    BY <2>3, FlatGrows
  <2> HIDE DEF t
  <2>5. after \in Tidy(P) /\ Content(after) = Flat(t) \o <<>>
    BY <2>2, <2>3, <2>4, TidyMade
  <2>6. Flat(t) \o <<>> = Flat(t)
    BY <2>4, ConcatEmptySeq
  <2> QED
    BY <1>4, <2>3, <2>5, <2>6 DEF after, elem
<1> QED
  BY <1>2, <1>5, <1>6, <1>7

Elementwise(pkt, b, g) ==
  [i \in 0 .. Len(pkt.elems) |-> IF i = 0 THEN b ELSE TakeElement(pkt, g[i - 1], i)]

\* The loop over a packet's elements is a run of TakeElement.
LEMMA TakenRuns ==
  ASSUME NEW P, NEW b \in Tidy(P), NEW pkt, pkt.elems \in Seq(Seq(P))
  PROVE  \E taken : /\ TakeElements(pkt, b) = taken[Len(pkt.elems)]
                    /\ taken[0] = b
                    /\ \A i \in 1 .. Len(pkt.elems) : taken[i] = TakeElement(pkt, taken[i - 1], i)
<1> DEFINE n == Len(pkt.elems)
           S == Tidy(P)
           step == [i \in 1 .. n |-> [c \in S |-> TakeElement(pkt, c, i)]]
           taken == CHOOSE g : g = Elementwise(pkt, b, g)
<1>1. n \in Nat
  OBVIOUS
<1>2. TakeElements(pkt, b) = taken[n]
  BY DEF TakeElements, Elementwise
<1>3. step \in Stepper(n, S)
  BY ElementKept DEF Stepper
<1>4. \A i \in 1 .. n : \A c \in S : step[i][c] = TakeElement(pkt, c, i)
  OBVIOUS
<1> HIDE DEF step
<1>5. PICK f \in [0 .. n -> S] : IsRun(f, b, step, n)
  <2> HIDE DEF n, S
  <2>1. b \in S
    BY DEF S
  <2> QED
    BY <1>1, <1>3, <2>1, RunExists
<1>6. f = Elementwise(pkt, b, f)
  <2>1. ASSUME NEW i \in 0 .. n PROVE f[i] = IF i = 0 THEN b ELSE TakeElement(pkt, f[i - 1], i)
    <3>1. CASE i = 0
      BY <1>5, <3>1 DEF IsRun
    <3>2. CASE i # 0
      <4>1. i \in 1 .. n /\ i - 1 \in 0 .. n
        BY <1>1, <3>2
      <4> HIDE DEF n, S
      <4>2. f[i] = step[i][f[i - 1]] /\ f[i - 1] \in S
        BY <1>5, <4>1 DEF IsRun
      <4> QED
        BY <1>4, <3>2, <4>1, <4>2
    <3> QED
      BY <3>1, <3>2
  <2> QED
    BY <2>1 DEF Elementwise
<1>7. taken = Elementwise(pkt, b, taken)
  BY <1>6
<1> HIDE DEF taken
<1>8. taken[0] = b /\ \A i \in 1 .. n : taken[i] = TakeElement(pkt, taken[i - 1], i)
  <2>1. ASSUME NEW i \in 0 .. n
        PROVE  taken[i] = IF i = 0 THEN b ELSE TakeElement(pkt, taken[i - 1], i)
    BY <1>7 DEF Elementwise
  <2>2. 0 \in 0 .. n /\ \A i \in 1 .. n : i \in 0 .. n /\ i # 0
    BY <1>1
  <2> HIDE DEF n
  <2> QED
    BY <2>1, <2>2
<1> QED
  BY <1>2, <1>8

\* The loop over a packet's elements: nothing is lost, repeated or reordered.
LEMMA ElementsKept ==
  ASSUME NEW P, NEW b \in Tidy(P), NEW pkt, pkt.elems \in Seq(Seq(P))
  PROVE  /\ TakeElements(pkt, b) \in Tidy(P)
         /\ Content(TakeElements(pkt, b)) = Content(b) \o Flat(pkt.elems)
<1> DEFINE n == Len(pkt.elems)
           S == Tidy(P)
<1>1. n \in Nat
  OBVIOUS
<1>2. PICK taken : /\ TakeElements(pkt, b) = taken[n]
                   /\ taken[0] = b
                   /\ \A i \in 1 .. n : taken[i] = TakeElement(pkt, taken[i - 1], i)
  <2> HIDE DEF S
  <2> QED
    BY TakenRuns
<1>3. PICK h \in [0 .. n -> Seq(P)] : Joins(h, pkt.elems, n)
  BY JoinsExist
<1> DEFINE T == {i \in 0 .. n : taken[i] \in S /\ Content(taken[i]) = Content(b) \o h[i]}
<1>4. 0 \in T
  <2>1. Content(b) \in Seq(P)
    BY TidyParts
  <2>2. Content(b) \o <<>> = Content(b)
    BY <2>1, ConcatEmptySeq
  <2>3. taken[0] \in S /\ taken[0] = b
    BY <1>2
  <2>4. h[0] = <<>>
    BY <1>3 DEF Joins
  <2>5. 0 \in 0 .. n
    BY <1>1
  <2>6. Content(taken[0]) = Content(b) \o h[0]
    BY <2>2, <2>3, <2>4
  <2> HIDE DEF n, S
  <2> QED
    BY <2>3, <2>5, <2>6
<1>5. ASSUME NEW i \in T, i < n PROVE i + 1 \in T
  <2>1. i \in 0 .. n /\ taken[i] \in S /\ Content(taken[i]) = Content(b) \o h[i]
    OBVIOUS
  <2>2. i + 1 \in 1 .. n /\ (i + 1) - 1 = i /\ i + 1 \in 0 .. n
    BY <1>1, <1>5, <2>1
  <2>3. taken[i + 1] = TakeElement(pkt, taken[i], i + 1)
    BY <1>2, <2>2
  <2>4. /\ taken[i + 1] \in S
        /\ Content(taken[i + 1]) = Content(taken[i]) \o pkt.elems[i + 1]
    <3> DEFINE c == taken[i]
               k == i + 1
    <3>1. c \in Tidy(P) /\ k \in 1 .. Len(pkt.elems)
      BY <2>1, <2>2
    <3>2. taken[k] = TakeElement(pkt, c, k)
      BY <2>3
    <3> HIDE DEF c, k
    <3>3. taken[k] \in Tidy(P) /\ Content(taken[k]) = Content(c) \o pkt.elems[k]
      BY <3>1, <3>2, ElementKept
    <3> QED
      BY <3>3 DEF c, k
  <2>5. h[i + 1] = h[i] \o pkt.elems[i + 1]
    BY <1>3, <2>2 DEF Joins
  <2> DEFINE x == Content(b)
             y == h[i]
             z == pkt.elems[i + 1]
  <2>6. x \in Seq(P) /\ y \in Seq(P) /\ z \in Seq(P)
    <3>1. x \in Seq(P)
      BY TidyParts
    <3>2. y \in Seq(P)
      BY <2>1
    <3>3. z \in Seq(P)
      BY <2>2
    <3> QED
      BY <3>1, <3>2, <3>3
  <2>7. Content(taken[i + 1]) = x \o (y \o z)
    <3>1. Content(taken[i + 1]) = (x \o y) \o z
      BY <2>1, <2>4
    <3> HIDE DEF x, y, z
    <3>2. (x \o y) \o z = x \o (y \o z)
      <4>1. Associative(P)
        BY Reassociate
      <4> QED
        BY Zenon, <2>6, <4>1 DEF Associative
    <3> QED
      BY <3>1, <3>2
  <2>8. Content(taken[i + 1]) = x \o h[i + 1]
    BY <2>5, <2>7
  <2> HIDE DEF S
  <2> QED
    BY <2>2, <2>4, <2>8
<1>6. n \in T
  <2>1. T \in SUBSET (0 .. n)
    OBVIOUS
  <2> HIDE DEF T, n
  <2>2. T = 0 .. n
    BY <1>1, <1>4, <1>5, <2>1, BoundedInduction
  <2> QED
    BY <1>1, <2>2
<1>7. Flat(pkt.elems) = h[n]
  BY <1>3, FlatIs
<1> QED
  BY <1>2, <1>6, <1>7


-----------------------------------------------------------------------------
(* Packets: what the sender cuts. *)

\* P has the parts i .. j.
Spans(P, i, j) == \A p \in Int : i <= p /\ p <= j => p \in P

\* A run of consecutive parts, its length and its parts.
LEMMA RunTyped ==
  ASSUME NEW i \in Int, NEW j \in Int, i - 1 <= j, NEW P, Spans(P, i, j)
  PROVE  /\ Run(i, j) \in Seq(P)
         /\ Len(Run(i, j)) = j - i + 1
         /\ \A k \in 1 .. (j - i + 1) : Run(i, j)[k] = i + k - 1
<1> DEFINE n == j - i + 1
<1>1. n \in Nat
  OBVIOUS
<1>2. Run(i, j) = [k \in 1 .. n |-> i + k - 1]
  BY DEF Run
<1>3. \A k \in 1 .. n : i + k - 1 \in P
  <2>1. ASSUME NEW k \in 1 .. n PROVE i + k - 1 \in P
    <3>1. i + k - 1 \in Int /\ i <= i + k - 1 /\ i + k - 1 <= j
      OBVIOUS
    <3> QED
      BY <3>1 DEF Spans
  <2> QED
    BY <2>1
<1> HIDE DEF n
<1>4. Run(i, j) \in [1 .. n -> P]
  BY <1>2, <1>3
<1>5. Run(i, j) \in Seq(P) /\ Len(Run(i, j)) = n
  <2> DEFINE r == Run(i, j)
  <2>1. r \in [1 .. n -> P]
    BY <1>4
  <2> HIDE DEF r
  <2>2. r \in Seq(P)
    BY <1>1, <2>1
  <2>3. Len(r) = n
    BY <1>1, <2>1
  <2> QED
    BY <2>2, <2>3 DEF r
<1>6. \A k \in 1 .. n : Run(i, j)[k] = i + k - 1
  BY <1>2
<1> QED
  BY <1>5, <1>6 DEF n

\* Two runs that meet are one.
LEMMA RunsJoin ==
  ASSUME NEW i \in Int, NEW m \in Int, NEW j \in Int, i - 1 <= m, m <= j
  PROVE  Run(i, m) \o Run(m + 1, j) = Run(i, j)
<1> DEFINE a == Run(i, m)
           b == Run(m + 1, j)
           c == Run(i, j)
<1>0. Spans(Int, i, m) /\ Spans(Int, m + 1, j) /\ Spans(Int, i, j)
  BY DEF Spans
<1>1. /\ a \in Seq(Int) /\ Len(a) = m - i + 1
      /\ \A k \in 1 .. (m - i + 1) : a[k] = i + k - 1
  BY <1>0, RunTyped
<1>2. /\ b \in Seq(Int) /\ Len(b) = j - (m + 1) + 1
      /\ \A k \in 1 .. (j - (m + 1) + 1) : b[k] = (m + 1) + k - 1
  <2> DEFINE l == m + 1
  <2>1. l \in Int /\ l - 1 <= j /\ Spans(Int, l, j) /\ b = Run(l, j)
    BY <1>0
  <2> HIDE DEF l, b
  <2>2. /\ b \in Seq(Int) /\ Len(b) = j - l + 1
        /\ \A k \in 1 .. (j - l + 1) : b[k] = l + k - 1
    BY <2>1, RunTyped
  <2> QED
    BY <2>2 DEF l
<1>3. /\ c \in Seq(Int) /\ Len(c) = j - i + 1
      /\ \A k \in 1 .. (j - i + 1) : c[k] = i + k - 1
  BY <1>0, RunTyped
<1> HIDE DEF a, b, c
<1>4. a \o b \in Seq(Int) /\ Len(a \o b) = Len(c)
  BY <1>1, <1>2, <1>3
<1>5. ASSUME NEW k \in 1 .. Len(c) PROVE (a \o b)[k] = c[k]
  <2>1. c[k] = i + k - 1
    BY <1>3
  <2>2. CASE k <= Len(a)
    <3>1. k \in 1 .. (m - i + 1) /\ k \in 1 .. Len(a)
      BY <1>1, <1>3, <2>2
    <3>2. (a \o b)[k] = a[k]
      BY <1>1, <1>2, <3>1
    <3> QED
      BY <1>1, <2>1, <3>1, <3>2
  <2>3. CASE ~(k <= Len(a))
    <3>1. (a \o b)[k] = b[k - Len(a)]
      <4>1. k \in 1 .. (Len(a) + Len(b))
        BY <1>1, <1>2, <1>3
      <4> QED
        BY <1>1, <1>2, <2>3, <4>1, ConcatProperties
    <3>2. k - Len(a) \in 1 .. (j - (m + 1) + 1)
      BY <1>1, <1>3, <2>3
    <3>3. b[k - Len(a)] = (m + 1) + (k - Len(a)) - 1
      BY <1>2, <3>2
    <3> QED
      BY <1>1, <1>3, <2>1, <3>1, <3>3
  <2> QED
    BY <2>2, <2>3
<1>6. a \o b = c
  BY <1>3, <1>4, <1>5, SeqEqual
<1> QED
  BY <1>6 DEF a, b, c

\* A part lies between the ends of its OBU.
LEMMA ObuBounds ==
  ASSUME NEW p \in Int, 1 <= p
  PROVE  /\ ObuOf(p) \in Int /\ 1 <= ObuOf(p)
         /\ (ObuOf(p) - 1) * NParts < p
         /\ p <= ObuOf(p) * NParts
<1> DEFINE N == NParts
           q == (p - 1) \div N
<1>1. N \in Int /\ 1 <= N
  BY RtpAssumption
<1>2. ObuOf(p) = q + 1
  BY DEF ObuOf
<1> HIDE DEF N
<1>3. q \in Int /\ 0 <= q
  BY <1>1
<1>4. N * q <= p - 1 /\ p - 1 < N * q + N
  BY <1>1
<1> HIDE DEF q
<1>5. ((q + 1) - 1) * N < p /\ p <= (q + 1) * N
  BY <1>1, <1>3, <1>4
<1> QED
  BY <1>2, <1>3, <1>5 DEF N

\* Later parts are of later OBUs, or of the same.
LEMMA ObuMonotone ==
  ASSUME NEW p \in Int, NEW q \in Int, p <= q
  PROVE  ObuOf(p) <= ObuOf(q)
BY RtpAssumption DEF ObuOf

\* The OBUs before the last of a packet end before it.
LEMMA ObuEnds ==
  ASSUME NEW j \in Int, 1 <= j, NEW o \in Int, o < ObuOf(j)
  PROVE  o * NParts \in Int /\ o * NParts < j
<1>1. NParts \in Int /\ 1 <= NParts
  BY RtpAssumption
<1>2. ObuOf(j) \in Int /\ (ObuOf(j) - 1) * NParts < j
  BY ObuBounds
<1>3. o <= ObuOf(j) - 1
  BY <1>2
<1>4. o * NParts <= (ObuOf(j) - 1) * NParts
  BY <1>1, <1>2, <1>3
<1> QED
  BY <1>1, <1>2, <1>4

\* The last part of the element number k of a packet with the parts i .. j.
ElementEnd(i, j, k) ==
  IF k = 0 THEN i - 1
  ELSE IF ObuOf(i) + k - 1 = ObuOf(j) THEN j ELSE (ObuOf(i) + k - 1) * NParts

\* An element of a packet is a run of parts.
LEMMA ElementIs ==
  ASSUME NEW i \in Int, NEW j \in Int, 1 <= i, i <= j,
         NEW k \in 1 .. (ObuOf(j) - ObuOf(i) + 1)
  PROVE  Elements(i, j)[k] = Run(ElementEnd(i, j, k - 1) + 1, ElementEnd(i, j, k))
<1> DEFINE a == ObuOf(i)
           z == ObuOf(j)
           o == a + k - 1
<1>1. a \in Int /\ z \in Int /\ 1 <= a /\ a <= z
  BY ObuBounds, ObuMonotone
<1>2. k \in Int /\ 1 <= k /\ o \in Int /\ a <= o /\ o <= z
  BY <1>1
<1>3. Elements(i, j)[k] = Run(IF o = a THEN i ELSE (o - 1) * NParts + 1,
                              IF o = z THEN j ELSE o * NParts)
  BY DEF Elements
<1>4. ElementEnd(i, j, k) = IF o = z THEN j ELSE o * NParts
  BY <1>2 DEF ElementEnd
<1>5. ElementEnd(i, j, k - 1) + 1 = IF o = a THEN i ELSE (o - 1) * NParts + 1
  <2>1. CASE k = 1
    <3>1. o = a /\ k - 1 = 0
      BY <1>1, <2>1
    <3>2. ElementEnd(i, j, k - 1) = i - 1
      BY <3>1 DEF ElementEnd
    <3> QED
      BY <3>1, <3>2
  <2>2. CASE k # 1
    <3>1. o # a /\ k - 1 # 0 /\ a + (k - 1) - 1 = o - 1 /\ o - 1 # z
      BY <1>1, <1>2, <2>2
    <3>2. ElementEnd(i, j, k - 1) = (o - 1) * NParts
      BY <3>1 DEF ElementEnd
    <3> QED
      BY <3>1, <3>2
  <2> QED
    BY <2>1, <2>2
<1> QED
  BY <1>3, <1>4, <1>5

\* A packet's elements are its parts, in order.
LEMMA ElementsFlat ==
  ASSUME NEW i \in Int, NEW j \in Int, 1 <= i, i <= j,
         NEW P, Spans(P, i, j)
  PROVE  /\ Elements(i, j) \in Seq(Seq(P))
         /\ Flat(Elements(i, j)) = Run(i, j)
<1> DEFINE a == ObuOf(i)
           z == ObuOf(j)
           n == z - a + 1
           End(k) == ElementEnd(i, j, k)
<1>1. /\ a \in Int /\ z \in Int /\ 1 <= a /\ a <= z
      /\ NParts \in Int /\ 1 <= NParts
      /\ i <= a * NParts /\ (a - 1) * NParts < i
  BY ObuBounds, ObuMonotone, RtpAssumption
<1>2. n \in Nat /\ 1 <= n
  BY <1>1
<1>3. ASSUME NEW k \in 1 .. n PROVE Elements(i, j)[k] = Run(End(k - 1) + 1, End(k))
  BY ElementIs
<1>4. ASSUME NEW k \in 0 .. n
      PROVE  /\ End(k) \in Int /\ i - 1 <= End(k) /\ End(k) <= j
             /\ k \in 1 .. n => End(k - 1) <= End(k)
  <2> USE DEF ElementEnd
  <2>1. CASE k = 0
    BY <2>1
  <2>2. CASE k # 0 /\ a + k - 1 = z
    <3>1. End(k) = j
      BY <2>2
    <3>2. End(k - 1) <= j
      <4>1. CASE k = 1
        BY <4>1
      <4>2. CASE k # 1
        <5>1. End(k - 1) = (z - 1) * NParts
          BY <1>1, <2>2, <4>2
        <5>2. (z - 1) * NParts < j /\ (z - 1) * NParts \in Int
          BY <1>1, ObuEnds
        <5> QED
          BY <5>1, <5>2
      <4> QED
        BY <4>1, <4>2
    <3> QED
      BY <3>1, <3>2
  <2>3. CASE k # 0 /\ a + k - 1 # z
    <3> DEFINE o == a + k - 1
    <3>1. o \in Int /\ a <= o /\ o < z
      BY <1>1, <2>3
    <3>2. End(k) = o * NParts
      BY <2>3
    <3>3. o * NParts \in Int /\ o * NParts < j
      BY <3>1, ObuEnds
    <3>4. a * NParts <= o * NParts
      BY <1>1, <3>1
    <3>5. End(k - 1) <= End(k)
      <4>1. CASE k = 1
        <5>1. End(k - 1) = i - 1
          BY <4>1
        <5> QED
          BY <1>1, <3>2, <3>3, <3>4, <5>1
      <4>2. CASE k # 1
        <5>1. End(k - 1) = (o - 1) * NParts
          BY <1>1, <2>3, <3>1, <4>2
        <5>2. (o - 1) * NParts <= o * NParts
          BY <1>1, <3>1
        <5> QED
          BY <3>2, <5>1, <5>2
      <4> QED
        BY <4>1, <4>2
    <3> QED
      BY <1>1, <3>2, <3>3, <3>4, <3>5
  <2> QED
    BY <2>1, <2>2, <2>3
<1> DEFINE f == [k \in 0 .. n |-> Run(i, End(k))]
<1>5. Elements(i, j) \in Seq(Seq(P)) /\ Len(Elements(i, j)) = n
  <2> DEFINE s == Elements(i, j)
  <2>1. DOMAIN s = 1 .. n /\ s = [k \in 1 .. n |-> s[k]]
    BY DEF Elements
  <2>2. ASSUME NEW k \in 1 .. n PROVE s[k] \in Seq(P)
    <3>1. k \in 0 .. n /\ k - 1 \in 0 .. n
      BY <1>2
    <3>2. /\ End(k - 1) \in Int /\ End(k) \in Int /\ i - 1 <= End(k - 1)
          /\ End(k - 1) <= End(k) /\ End(k) <= j
      BY <1>4, <3>1
    <3>3. s[k] = Run(End(k - 1) + 1, End(k))
      BY <1>3
    <3> DEFINE l == End(k - 1) + 1
               m == End(k)
    <3>4. l \in Int /\ m \in Int /\ l - 1 <= m /\ s[k] = Run(l, m) /\ i <= l /\ m <= j
      BY <3>2, <3>3
    <3> HIDE DEF End, s, l, m
    <3>5. Spans(P, l, m)
      BY <3>4 DEF Spans
    <3> QED
      BY <3>4, <3>5, RunTyped
  <2> HIDE DEF s, n
  <2>3. s \in [1 .. n -> Seq(P)]
    BY <2>1, <2>2
  <2>4. s \in Seq(Seq(P)) /\ Len(s) = n
    BY <1>2, <2>3
  <2> QED
    BY <2>4 DEF s
<1>6. Joins(f, Elements(i, j), n)
  <2>1. f[0] = <<>>
    <3>1. f[0] = Run(i, i - 1)
      BY <1>2 DEF ElementEnd
    <3>2. Run(i, i - 1) \in Seq(Int) /\ Len(Run(i, i - 1)) = 0
      <4>1. Spans(Int, i, i - 1)
        BY DEF Spans
      <4> DEFINE l == i - 1
      <4>2. Run(i, l) \in Seq(Int) /\ Len(Run(i, l)) = l - i + 1
        BY <4>1, RunTyped
      <4> QED
        BY <4>2
    <3> QED
      BY <3>1, <3>2
  <2>2. ASSUME NEW k \in 1 .. n PROVE f[k] = f[k - 1] \o Elements(i, j)[k]
    <3>1. k \in 0 .. n /\ k - 1 \in 0 .. n
      BY <1>2
    <3>2. f[k] = Run(i, End(k)) /\ f[k - 1] = Run(i, End(k - 1))
      BY <3>1
    <3>3. /\ End(k - 1) \in Int /\ End(k) \in Int /\ i - 1 <= End(k - 1)
          /\ End(k - 1) <= End(k)
      BY <1>4, <3>1
    <3>4. Elements(i, j)[k] = Run(End(k - 1) + 1, End(k))
      BY <1>3
    <3> DEFINE m == End(k - 1)
               e == End(k)
    <3>5. m \in Int /\ e \in Int /\ i - 1 <= m /\ m <= e
      BY <3>3
    <3>6. f[k] = Run(i, e) /\ f[k - 1] = Run(i, m) /\ Elements(i, j)[k] = Run(m + 1, e)
      BY <3>2, <3>4
    <3> HIDE DEF End, f, m, e
    <3>7. Run(i, m) \o Run(m + 1, e) = Run(i, e)
      BY <3>5, RunsJoin
    <3> QED
      BY <3>6, <3>7
  <2> HIDE DEF f, n
  <2> QED
    BY <2>1, <2>2 DEF Joins
<1>7. f[n] = Run(i, j)
  <2>1. End(n) = j /\ n \in 0 .. n
    BY <1>1, <1>2 DEF ElementEnd
  <2> QED
    BY <2>1
<1>8. Flat(Elements(i, j)) = f[n]
  <2> HIDE DEF f, n
  <2> QED
    BY <1>5, <1>6, FlatIs
<1> QED
  BY <1>5, <1>7, <1>8


-----------------------------------------------------------------------------
(* Records. *)

Records(P, T) == Seq([obus : Seq(Seq(P)), pts : T])
RecordParts(recs) == Flat([i \in DOMAIN recs |-> Flat(recs[i].obus)])

\* What the records flatten to.
LEMMA RecordsTyped ==
  ASSUME NEW P, NEW T, NEW recs \in Records(P, T)
  PROVE  /\ [i \in DOMAIN recs |-> Flat(recs[i].obus)] \in Seq(Seq(P))
         /\ RecordParts(recs) \in Seq(P)
<1> DEFINE R == [obus : Seq(Seq(P)), pts : T]
           flats == [i \in DOMAIN recs |-> Flat(recs[i].obus)]
<1>1. recs \in Seq(R)
  BY DEF Records
<1>2. ASSUME NEW i \in DOMAIN recs PROVE Flat(recs[i].obus) \in Seq(P)
  <2>1. recs[i] \in R
    <3> HIDE DEF R
    <3> QED
      BY <1>1
  <2>2. recs[i].obus \in Seq(Seq(P))
    BY <2>1
  <2> QED
    BY <2>2, FlatGrows
<1>3. flats \in Seq(Seq(P))
  <2>1. DOMAIN recs = 1 .. Len(recs) /\ Len(recs) \in Nat
    <3> HIDE DEF R
    <3> QED
      BY <1>1
  <2>2. flats \in [1 .. Len(recs) -> Seq(P)]
    BY <1>2, <2>1
  <2> HIDE DEF flats
  <2> DEFINE S == Seq(P)
             l == Len(recs)
  <2>3. flats \in [1 .. l -> S] /\ l \in Nat
    BY <2>1, <2>2
  <2> HIDE DEF S, l
  <2>4. flats \in Seq(S)
    BY <2>3
  <2> QED
    BY <2>4 DEF S
<1>4. RecordParts(recs) \in Seq(P)
  BY <1>3, FlatGrows DEF RecordParts
<1> QED
  BY <1>3, <1>4

\* recordTemporalUnit adds a unit's parts to those recorded.
LEMMA FlushedParts ==
  ASSUME NEW P, NEW T, NEW recs \in Records(P, T), NEW tu \in Seq(Seq(P)), NEW time \in T
  PROVE  /\ Flushed(recs, tu, time) \in Records(P, T)
         /\ RecordParts(Flushed(recs, tu, time)) = RecordParts(recs) \o Flat(tu)
<1> DEFINE R == [obus : Seq(Seq(P)), pts : T]
           rec == [obus |-> tu, pts |-> time]
           flats == [i \in DOMAIN recs |-> Flat(recs[i].obus)]
<1>1. recs \in Seq(R) /\ rec \in R
  BY DEF Records
<1>2. flats \in Seq(Seq(P)) /\ RecordParts(recs) \in Seq(P) /\ Flat(tu) \in Seq(P)
  BY RecordsTyped, FlatGrows
<1>3. CASE tu = <<>>
  <2>1. Flushed(recs, tu, time) = recs /\ Flat(tu) = <<>>
    BY <1>3, FlatGrows DEF Flushed
  <2>2. RecordParts(recs) \o <<>> = RecordParts(recs)
    BY <1>2, ConcatEmptySeq
  <2> QED
    BY <2>1, <2>2
<1>4. CASE tu # <<>>
  <2> DEFINE more == Append(recs, rec)
             l == Len(recs)
             grown == [i \in DOMAIN more |-> Flat(more[i].obus)]
  <2>1. Flushed(recs, tu, time) = more
    BY <1>4 DEF Flushed
  <2>2. /\ more \in Seq(R) /\ l \in Nat /\ DOMAIN recs = 1 .. l /\ DOMAIN more = 1 .. l + 1
        /\ more[l + 1] = rec /\ \A i \in 1 .. l : more[i] = recs[i]
    <3> HIDE DEF R, rec
    <3> QED
      BY <1>1
  <2>3. rec.obus = tu
    OBVIOUS
  <2> HIDE DEF rec, more
  <2>4. grown = Append(flats, Flat(tu))
    <3>1. flats = [i \in 1 .. l |-> Flat(recs[i].obus)]
      BY <2>2
    <3>2. Len(flats) = l
      BY <1>2, <2>2, <3>1
    <3> HIDE DEF l
    <3>3. Append(flats, Flat(tu)) = [i \in 1 .. l + 1 |-> IF i = l + 1 THEN Flat(tu) ELSE flats[i]]
      <4> DEFINE fl == flats
                 x == Flat(tu)
                 S == Seq(P)
      <4>1. fl \in Seq(S) /\ x \in S /\ Len(fl) = l
        BY <1>2, <3>2
      <4> HIDE DEF fl, x, S
      <4>2. /\ DOMAIN Append(fl, x) = 1 .. l + 1 /\ Append(fl, x) \in Seq(S)
            /\ Append(fl, x)[l + 1] = x /\ \A i \in 1 .. l : Append(fl, x)[i] = fl[i]
        BY <2>2, <4>1
      <4>3. Append(fl, x) = [i \in 1 .. l + 1 |-> Append(fl, x)[i]]
        <5> DEFINE a == Append(fl, x)
        <5>1. a \in Seq(S) /\ DOMAIN a = 1 .. l + 1
          BY <4>2
        <5> HIDE DEF a
        <5>2. a \in [1 .. Len(a) -> S] /\ DOMAIN a = 1 .. Len(a)
          BY <5>1
        <5>3. a = [i \in DOMAIN a |-> a[i]]
          BY <5>2
        <5> QED
          BY <5>1, <5>3 DEF a
      <4>4. ASSUME NEW i \in 1 .. l + 1
            PROVE  Append(fl, x)[i] = IF i = l + 1 THEN x ELSE fl[i]
        BY <2>2, <4>2
      <4>5. Append(fl, x) = [i \in 1 .. l + 1 |-> IF i = l + 1 THEN x ELSE fl[i]]
        BY <4>3, <4>4
      <4> QED
        BY <4>5 DEF fl, x
    <3>4. ASSUME NEW i \in 1 .. l + 1
          PROVE  Flat(more[i].obus) = IF i = l + 1 THEN Flat(tu) ELSE flats[i]
      <4>1. CASE i = l + 1
        BY <2>2, <2>3, <4>1
      <4>2. CASE i # l + 1
        <5>1. i \in 1 .. l
          BY <2>2, <4>2
        <5>2. flats[i] = Flat(recs[i].obus)
          BY <3>1, <5>1
        <5> QED
          BY <2>2, <4>2, <5>1, <5>2
      <4> QED
        BY <4>1, <4>2
    <3>5. grown = [i \in 1 .. l + 1 |-> Flat(more[i].obus)]
      BY <2>2
    <3> QED
      BY <3>3, <3>4, <3>5
  <2>5. RecordParts(more) = Flat(flats) \o Flat(tu)
    <3>1. RecordParts(more) = Flat(grown)
      BY DEF RecordParts
    <3> QED
      BY <1>2, <2>4, <3>1, FlatGrows
  <2>6. RecordParts(recs) = Flat(flats)
    BY DEF RecordParts
  <2> QED
    BY <2>1, <2>2, <2>5, <2>6 DEF Records
<1> QED
  BY <1>3, <1>4

\* Everything the reader has: records, the unit in progress, the open fragment.
Total(recs, b) == RecordParts(recs) \o Content(b)

\* What an N bit does to the records and to the buffers.
Earlier(n, recs, b, time) == IF n THEN Flushed(recs, b.tu, time) ELSE recs
Started(n, b) == [tu |-> IF n THEN <<>> ELSE b.tu, frag |-> b.frag, open |-> b.open]

\* The unit before moves from the buffers to the records, or stays.
LEMMA StartKeeps ==
  ASSUME NEW P, NEW T, NEW recs \in Records(P, T), NEW b \in Tidy(P), NEW time \in T,
         NEW n \in BOOLEAN
  PROVE  /\ Earlier(n, recs, b, time) \in Records(P, T)
         /\ Started(n, b) \in Tidy(P)
         /\ Total(Earlier(n, recs, b, time), Started(n, b)) = Total(recs, b)
<1> DEFINE b0 == Started(n, b)
           earlier == Earlier(n, recs, b, time)
           tu == b.tu
           frag == b.frag
           open == b.open
<1>1. /\ tu \in Seq(Seq(P)) /\ frag \in Seq(P) /\ open \in BOOLEAN
      /\ ~open => frag = <<>>
      /\ b = [tu |-> tu, frag |-> frag, open |-> open]
  BY TidyParts
<1>2. b0 = [tu |-> IF n THEN <<>> ELSE tu, frag |-> frag, open |-> open]
  BY DEF Started
<1>3. earlier = IF n THEN Flushed(recs, tu, time) ELSE recs
  BY DEF Earlier
<1>4. Content(b) = Flat(tu) \o frag
  BY DEF Content
<1> HIDE DEF b0, earlier, tu, frag, open
<1>5. Flat(tu) \in Seq(P)
  BY <1>1, FlatGrows
<1>6. RecordParts(recs) \in Seq(P)
  BY RecordsTyped
<1>7. CASE n
  <2>1. earlier = Flushed(recs, tu, time)
    BY <1>3, <1>7
  <2>2. earlier \in Records(P, T) /\ RecordParts(earlier) = RecordParts(recs) \o Flat(tu)
    BY <1>1, <2>1, FlushedParts
  <2> DEFINE none == <<>>
  <2>3. none \in Seq(Seq(P)) /\ Flat(none) = <<>>
    BY FlatGrows
  <2>4. b0 = [tu |-> none, frag |-> frag, open |-> open]
    BY <1>2, <1>7
  <2> HIDE DEF none
  <2>5. b0 \in Tidy(P) /\ Content(b0) = Flat(none) \o frag
    BY <1>1, <2>3, <2>4, TidyMade
  <2>6. <<>> \o frag = frag
    BY <1>1, ConcatEmptySeq
  <2>7. Content(b0) = frag
    BY <2>3, <2>5, <2>6
  <2> DEFINE rp == RecordParts(recs)
             flat == Flat(tu)
  <2>8. rp \in Seq(P) /\ flat \in Seq(P)
    BY <1>5, <1>6
  <2>9. Total(earlier, b0) = (rp \o flat) \o frag
    BY <2>2, <2>7 DEF Total
  <2>10. Total(recs, b) = rp \o (flat \o frag)
    BY <1>4 DEF Total
  <2> HIDE DEF rp, flat
  <2>11. Associative(P)
    BY Reassociate
  <2>12. (rp \o flat) \o frag = rp \o (flat \o frag)
    BY Zenon, <1>1, <2>8, <2>11 DEF Associative
  <2>13. Total(earlier, b0) = Total(recs, b)
    BY <2>9, <2>10, <2>12
  <2> QED
    BY <2>2, <2>5, <2>13 DEF b0, earlier
<1>8. CASE ~n
  <2>1. earlier = recs
    BY <1>3, <1>8
  <2>2. b0 = b
    BY <1>1, <1>2, <1>8
  <2> QED
    BY <2>1, <2>2 DEF b0, earlier
<1> QED
  BY <1>7, <1>8

\* The elements add their parts to what the reader has.
LEMMA ElementsAdd ==
  ASSUME NEW P, NEW T, NEW recs \in Records(P, T), NEW b \in Tidy(P),
         NEW pkt, pkt.elems \in Seq(Seq(P))
  PROVE  /\ TakeElements(pkt, b) \in Tidy(P)
         /\ Total(recs, TakeElements(pkt, b)) = Total(recs, b) \o Flat(pkt.elems)
<1> DEFINE taken == TakeElements(pkt, b)
           rp == RecordParts(recs)
           x == Content(b)
           elems == Flat(pkt.elems)
<1>1. taken \in Tidy(P) /\ Content(taken) = x \o elems
  BY ElementsKept
<1>2. rp \in Seq(P)
  BY RecordsTyped
<1>3. x \in Seq(P)
  BY TidyParts
<1>4. elems \in Seq(P)
  BY FlatGrows
<1>5. Total(recs, taken) = rp \o (x \o elems)
  BY <1>1 DEF Total
<1>6. Total(recs, b) = rp \o x
  BY DEF Total
<1>7. Associative(P)
  BY Reassociate
<1>8. (rp \o x) \o elems = rp \o (x \o elems)
  <2> HIDE DEF rp, x, elems
  <2> QED
    BY Zenon, <1>2, <1>3, <1>4, <1>7 DEF Associative
<1> QED
  BY <1>1, <1>5, <1>6, <1>8

\* Nothing but an empty unit is left of the buffers.
Emptied(b) == [b EXCEPT !.tu = <<>>]

\* Recording the unit in progress, its open fragment closed, moves its parts.
LEMMA FlushKeeps ==
  ASSUME NEW P, NEW T, NEW recs \in Records(P, T), NEW b \in Tidy(P), NEW time \in T
  PROVE  /\ Flushed(recs, CloseFragment(b).tu, time) \in Records(P, T)
         /\ Emptied(CloseFragment(b)) = [tu |-> <<>>, frag |-> <<>>, open |-> FALSE]
         /\ Emptied(CloseFragment(b)) \in Tidy(P)
         /\ Total(Flushed(recs, CloseFragment(b).tu, time), Emptied(CloseFragment(b)))
              = Total(recs, b)
<1> DEFINE closed == CloseFragment(b)
           tu == closed.tu
           frag == closed.frag
           open == closed.open
           flushed == Flushed(recs, tu, time)
           fresh == Emptied(closed)
<1>1. closed \in Tidy(P) /\ ~open /\ frag = <<>> /\ tu \in Seq(Seq(P)) /\ Flat(tu) = Content(b)
  BY CloseKeeps
<1>2. open \in BOOLEAN /\ closed = [tu |-> tu, frag |-> frag, open |-> open]
  <2> HIDE DEF closed
  <2> QED
    BY <1>1, TidyParts
<1>3. fresh = [tu |-> <<>>, frag |-> frag, open |-> open]
  <2>1. fresh = [closed EXCEPT !.tu = <<>>]
    BY DEF Emptied
  <2> HIDE DEF closed, fresh, tu, frag, open
  <2> QED
    BY <1>2, <2>1, FieldsChanged
<1> HIDE DEF closed, tu, frag, open, fresh
<1>4. flushed \in Records(P, T) /\ RecordParts(flushed) = RecordParts(recs) \o Flat(tu)
  <2>1. flushed = Flushed(recs, tu, time)
    OBVIOUS
  <2>2. tu \in Seq(Seq(P))
    BY <1>1
  <2> HIDE DEF flushed
  <2> QED
    BY <2>1, <2>2, FlushedParts
<1>5. open = FALSE
  BY <1>1, <1>2
<1>6. fresh = [tu |-> <<>>, frag |-> <<>>, open |-> FALSE]
  BY <1>1, <1>3, <1>5
<1> HIDE DEF flushed
<1>7. fresh \in Tidy(P) /\ Content(fresh) = <<>>
  <2> DEFINE none == <<>>
             frg == <<>>
             shut == FALSE
  <2>1. none \in Seq(Seq(P)) /\ frg \in Seq(P) /\ shut \in BOOLEAN /\ (~shut => frg = <<>>)
    OBVIOUS
  <2>2. fresh = [tu |-> none, frag |-> frg, open |-> shut]
    BY <1>6
  <2>3. Flat(none) = <<>>
    BY FlatGrows
  <2> HIDE DEF none, frg, shut
  <2>4. fresh \in Tidy(P) /\ Content(fresh) = Flat(none) \o frg
    BY <2>1, <2>2, TidyMade
  <2>5. <<>> \o frg = frg
    BY <2>1, ConcatEmptySeq
  <2> QED
    BY <2>3, <2>4, <2>5 DEF frg
<1>8. Total(flushed, fresh) = Total(recs, b)
  <2>1. Total(flushed, fresh) = RecordParts(flushed) \o <<>>
    BY <1>7 DEF Total
  <2>2. RecordParts(flushed) \in Seq(P)
    BY <1>4, RecordsTyped
  <2>3. RecordParts(flushed) \o <<>> = RecordParts(flushed)
    BY <2>2, ConcatEmptySeq
  <2>4. Total(recs, b) = RecordParts(recs) \o Flat(tu)
    BY <1>1 DEF Total
  <2> QED
    BY <1>4, <2>1, <2>3, <2>4
<1> QED
  BY <1>4, <1>6, <1>7, <1>8 DEF flushed, tu, fresh, closed


-----------------------------------------------------------------------------
(* Nothing that arrives is dropped. *)

Times == 0 .. (ClockMod - 1)
Buffer == [tu |-> tuBuf, frag |-> fragBuf, open |-> inFragment]

\* Records, buffers and clock are what the loop keeps them, and the parts in
\* them are those that arrived, in order.
Kept ==
  /\ due \in Int /\ 1 <= due
  /\ Buffer \in Tidy(Parts)
  /\ recorded \in Records(Parts, Times)
  /\ ptsBase \in Int /\ pts \in Times
  /\ arrived \in Seq(Parts)
  /\ Total(recorded, Buffer) = arrived

\* At the start nothing has arrived and nothing is kept.
LEMMA KeptInit == Init => Kept
<1> SUFFICES ASSUME Init PROVE Kept
  OBVIOUS
<1>1. due = 1 /\ recorded = <<>> /\ ptsBase = -1 /\ pts = 0 /\ arrived = <<>>
  BY DEF Init
<1>2. Buffer = [tu |-> <<>>, frag |-> <<>>, open |-> FALSE]
  BY DEF Init, Buffer
<1>3. Buffer \in Tidy(Parts) /\ Content(Buffer) = <<>>
  <2> DEFINE none == <<>>
             frg == <<>>
             shut == FALSE
             b == Buffer
  <2>1. none \in Seq(Seq(Parts)) /\ frg \in Seq(Parts) /\ shut \in BOOLEAN /\ (~shut => frg = <<>>)
    OBVIOUS
  <2>2. b = [tu |-> none, frag |-> frg, open |-> shut]
    BY <1>2
  <2>3. Flat(none) = <<>>
    BY FlatGrows
  <2> HIDE DEF none, frg, shut, b
  <2>4. b \in Tidy(Parts) /\ Content(b) = Flat(none) \o frg
    BY <2>1, <2>2, TidyMade
  <2>5. <<>> \o frg = frg
    BY <2>1, ConcatEmptySeq
  <2> QED
    BY <2>3, <2>4, <2>5 DEF frg, b
<1>4. recorded \in Records(Parts, Times)
  BY <1>1 DEF Records
<1>5. RecordParts(recorded) = <<>>
  <2>1. [i \in DOMAIN recorded |-> Flat(recorded[i].obus)] = <<>>
    BY <1>1
  <2>2. Flat(<<>>) = <<>>
    BY FlatGrows
  <2> QED
    BY <2>1, <2>2 DEF RecordParts
<1>6. Total(recorded, Buffer) = arrived
  <2>1. Total(recorded, Buffer) = <<>> \o <<>>
    BY <1>3, <1>5 DEF Total
  <2> QED
    BY <1>1, <2>1
<1>7. pts \in Times
  BY <1>1, RtpAssumption DEF Times
<1>8. arrived \in Seq(Parts)
  BY <1>1
<1>9. due \in Int /\ 1 <= due /\ ptsBase \in Int
  BY <1>1
<1> QED
  BY <1>3, <1>4, <1>6, <1>7, <1>8, <1>9 DEF Kept

\* What the fields of a packet are.
LEMMA PacketFields ==
  ASSUME NEW i, NEW j, NEW pkt \in Packets(i, j)
  PROVE  /\ pkt.elems = Elements(i, j)
         /\ pkt.n \in BOOLEAN /\ (i # 1 /\ pkt.n => StartsUnit(i))
         /\ pkt.marker = EndsUnit(j)
         /\ pkt.timestamp = Timestamp(i)
<1> DEFINE E == Elements(i, j)
           W == (IF Len(E) <= 3 THEN {Len(E)} ELSE {})
                  \cup (IF Legacy \/ Len(E) > 3 THEN {0} ELSE {})
           N == IF i = 1 THEN {TRUE} ELSE IF StartsUnit(i) THEN BOOLEAN ELSE {FALSE}
           Z == ~StartsObu(i)
           Y == ~EndsObu(j)
           M == EndsUnit(j)
           T == Timestamp(i)
<1>1. Packets(i, j) = {[elems |-> E, z |-> Z, y |-> Y, w |-> w, n |-> n, marker |-> M,
                        timestamp |-> T] : w \in W, n \in N}
  BY DEF Packets
<1>2. \A n \in N : n \in BOOLEAN /\ (i # 1 /\ n => StartsUnit(i))
  OBVIOUS
<1> HIDE DEF E, W, N, Z, Y, M, T
<1>3. PICK w \in W, n \in N :
        pkt = [elems |-> E, z |-> Z, y |-> Y, w |-> w, n |-> n, marker |-> M, timestamp |-> T]
  BY <1>1
<1>4. pkt.elems = E /\ pkt.n = n /\ pkt.marker = M /\ pkt.timestamp = T
  BY <1>3
<1>5. n \in BOOLEAN /\ (i # 1 /\ n => StartsUnit(i))
  BY <1>2
<1> QED
  BY <1>4, <1>5 DEF E, M, T

\* The time of a packet is one of the clock.
LEMMA NormalizedTime ==
  ASSUME NEW t \in Int, NEW base \in Int
  PROVE  Normalized(t, base) \in Times
<1>1. t - base \in Int /\ ClockMod \in Int /\ 0 < ClockMod
  BY RtpAssumption
<1> QED
  BY <1>1 DEF Normalized, Times

\* Timestamps are times of the clock.
LEMMA TimestampClock ==
  ASSUME NEW p \in Int, 1 <= p
  PROVE  UnitOf(p) \in Int /\ 1 <= UnitOf(p) /\ Timestamp(p) \in Times
<1> DEFINE U == UnitParts
<1>1. U \in Int /\ 1 <= U
  BY RtpAssumption DEF UnitParts
<1>2. UnitOf(p) = (p - 1) \div U + 1
  BY DEF UnitOf
<1> HIDE DEF U
<1>3. UnitOf(p) \in Int /\ 1 <= UnitOf(p)
  BY <1>1, <1>2
<1> DEFINE u == UnitOf(p)
<1>4. Timestamp(p) = (ClockStart + u - 1) % ClockMod
  BY DEF Timestamp
<1>5. u \in Int
  BY <1>3
<1> HIDE DEF u
<1>6. ClockMod \in Int /\ 0 < ClockMod /\ ClockStart \in Int
  BY RtpAssumption
<1>7. Timestamp(p) \in Times
  BY <1>4, <1>5, <1>6 DEF Times
<1> QED
  BY <1>3, <1>7

\* The names that one pass of the loop gives to what it makes.
EarlierOf(pkt) == Earlier(pkt.n, recorded, Buffer, pts)
TakenOf(pkt)   == TakeElements(pkt, Started(pkt.n, Buffer))
BaseOf(pkt)    == IF ptsBase = -1 THEN pkt.timestamp ELSE ptsBase
NowOf(pkt)     == Normalized(pkt.timestamp, BaseOf(pkt))

\* ReadRTP in those names.
LEMMA ReadMakes ==
  ASSUME NEW pkt, pkt.marker \in BOOLEAN, ReadRTP(pkt),
         NEW P, TakenOf(pkt) \in Tidy(P)
  PROVE  /\ ptsBase' = BaseOf(pkt) /\ pts' = NowOf(pkt)
         /\ pkt.marker => /\ recorded' = Flushed(EarlierOf(pkt), CloseFragment(TakenOf(pkt)).tu,
                                                 NowOf(pkt))
                          /\ Buffer' = Emptied(CloseFragment(TakenOf(pkt)))
         /\ ~pkt.marker => recorded' = EarlierOf(pkt) /\ Buffer' = TakenOf(pkt)
<1> DEFINE taken == TakenOf(pkt)
           earlier == EarlierOf(pkt)
           base == BaseOf(pkt)
           now == NowOf(pkt)
           done == CloseFragment(taken)
<1>1. taken = TakeElements(pkt, [tu   |-> IF pkt.n THEN <<>> ELSE tuBuf,
                                 frag |-> fragBuf, open |-> inFragment])
  BY DEF TakenOf, Started, Buffer
<1>2. earlier = IF pkt.n THEN Flushed(recorded, tuBuf, TimeOfPrevious(pkt)) ELSE recorded
  BY DEF EarlierOf, Earlier, Buffer, TimeOfPrevious
<1>3. base = (IF ptsBase = -1 THEN pkt.timestamp ELSE ptsBase)
      /\ now = Normalized(pkt.timestamp, base)
  BY DEF BaseOf, NowOf
<1>4. done = CloseFragment(taken)
  OBVIOUS
<1>5. /\ taken \in Tidy(P)
      /\ done \in Tidy(P)
  BY CloseKeeps
<1>6. taken = [tu |-> taken.tu, frag |-> taken.frag, open |-> taken.open]
  <2> HIDE DEF taken
  <2> QED
    BY <1>5, TidyParts
<1>7. done = [tu |-> done.tu, frag |-> done.frag, open |-> done.open]
  <2> HIDE DEF done
  <2> QED
    BY <1>5, TidyParts
<1> HIDE DEF taken, earlier, base, now, done
<1>8. /\ ptsBase' = base /\ pts' = now
      /\ fragBuf' = IF pkt.marker THEN done.frag ELSE taken.frag
      /\ inFragment' = IF pkt.marker THEN done.open ELSE taken.open
      /\ IF pkt.marker
         THEN recorded' = Flushed(earlier, done.tu, now) /\ tuBuf' = <<>>
         ELSE recorded' = earlier /\ tuBuf' = taken.tu
  BY Zenon, <1>1, <1>2, <1>3, <1>4 DEF ReadRTP
<1>9. Buffer' = [tu |-> tuBuf', frag |-> fragBuf', open |-> inFragment']
  BY DEF Buffer
<1>10. ASSUME pkt.marker
       PROVE  recorded' = Flushed(earlier, done.tu, now) /\ Buffer' = Emptied(done)
  <2>1. Buffer' = [tu |-> <<>>, frag |-> done.frag, open |-> done.open]
    BY <1>8, <1>9, <1>10
  <2>2. [done EXCEPT !.tu = <<>>] = [tu |-> <<>>, frag |-> done.frag, open |-> done.open]
    BY <1>7, FieldsChanged
  <2> QED
    BY <1>8, <1>10, <2>1, <2>2 DEF Emptied
<1>11. ASSUME ~pkt.marker
       PROVE  recorded' = earlier /\ Buffer' = taken
  BY <1>6, <1>8, <1>9, <1>11
<1> QED
  BY <1>8, <1>10, <1>11 DEF taken, earlier, base, now, done

\* The parts of a packet are parts of the stream.
LEMMA PartsSpanned ==
  ASSUME NEW i \in Int, NEW j \in Int, 1 <= i, j <= NumParts
  PROVE  Spans(Parts, i, j) /\ NumParts \in Int
<1>1. NumParts \in Int
  BY RtpAssumption DEF NumParts, UnitParts
<1> QED
  BY <1>1 DEF Spans, Parts

\* The types of what one pass of the loop makes.
LEMMA ReadTyped ==
  ASSUME Kept, NEW j \in Int, due <= j, j <= NumParts, NEW pkt \in Packets(due, j),
         ReadRTP(pkt)
  PROVE  /\ EarlierOf(pkt) \in Records(Parts, Times) /\ Started(pkt.n, Buffer) \in Tidy(Parts)
         /\ TakenOf(pkt) \in Tidy(Parts)
         /\ NowOf(pkt) \in Times /\ BaseOf(pkt) \in Int /\ BaseOf(pkt) # -1
         /\ ptsBase' = BaseOf(pkt)
         /\ EndsUnit(j) => /\ recorded' = Flushed(EarlierOf(pkt), CloseFragment(TakenOf(pkt)).tu,
                                                  NowOf(pkt))
                           /\ Buffer' = Emptied(CloseFragment(TakenOf(pkt)))
         /\ ~EndsUnit(j) => recorded' = EarlierOf(pkt) /\ Buffer' = TakenOf(pkt)
<1> DEFINE b == Buffer
           b0 == Started(pkt.n, b)
           taken == TakenOf(pkt)
           earlier == EarlierOf(pkt)
           base == BaseOf(pkt)
           now == NowOf(pkt)
<1>1. /\ due \in Int /\ 1 <= due /\ b \in Tidy(Parts) /\ recorded \in Records(Parts, Times)
      /\ ptsBase \in Int /\ pts \in Times
  BY DEF Kept
<1>2. /\ pkt.elems = Elements(due, j) /\ pkt.n \in BOOLEAN /\ pkt.marker = EndsUnit(j)
      /\ pkt.timestamp = Timestamp(due)
  BY PacketFields
<1>3. pkt.marker \in BOOLEAN /\ EndsUnit(j) \in BOOLEAN
  BY <1>2 DEF EndsUnit
<1>4. Spans(Parts, due, j)
  BY <1>1, PartsSpanned
<1>5. pkt.elems \in Seq(Seq(Parts))
  BY <1>1, <1>2, <1>4, ElementsFlat
<1>6. earlier \in Records(Parts, Times) /\ b0 \in Tidy(Parts)
  <2> DEFINE n == pkt.n
  <2>1. earlier = Earlier(n, recorded, b, pts) /\ b0 = Started(n, b) /\ n \in BOOLEAN
    BY <1>2 DEF EarlierOf
  <2> HIDE DEF n, earlier, b0, b
  <2> QED
    BY <1>1, <2>1, StartKeeps
<1>7. taken \in Tidy(Parts)
  <2>1. taken = TakeElements(pkt, b0)
    BY DEF TakenOf
  <2> HIDE DEF taken, b0
  <2>2. TakeElements(pkt, b0) \in Tidy(Parts)
    BY <1>5, <1>6, ElementsKept
  <2> QED
    BY <2>1, <2>2
<1>8. pkt.timestamp \in Times
  BY <1>1, <1>2, TimestampClock
<1>9. base \in Int /\ base # -1
  <2>1. pkt.timestamp \in Int /\ 0 <= pkt.timestamp
    BY <1>8, RtpAssumption DEF Times
  <2> QED
    BY <1>1, <2>1 DEF BaseOf
<1>10. now \in Times
  <2> DEFINE t == pkt.timestamp
  <2>1. t \in Int /\ now = Normalized(t, base)
    BY <1>8 DEF NowOf, Times
  <2> HIDE DEF now, base, t
  <2> QED
    BY <1>9, <2>1, NormalizedTime
<1>11. /\ ptsBase' = base
       /\ pkt.marker => /\ recorded' = Flushed(earlier, CloseFragment(taken).tu, now)
                        /\ Buffer' = Emptied(CloseFragment(taken))
       /\ ~pkt.marker => recorded' = earlier /\ Buffer' = taken
  BY <1>3, <1>7, ReadMakes
<1> HIDE DEF b, b0, taken, earlier, base, now
<1>12. /\ EndsUnit(j) => /\ recorded' = Flushed(earlier, CloseFragment(taken).tu, now)
                         /\ Buffer' = Emptied(CloseFragment(taken))
       /\ ~EndsUnit(j) => recorded' = earlier /\ Buffer' = taken
  BY <1>2, <1>3, <1>11
<1> QED
  BY <1>6, <1>7, <1>9, <1>10, <1>11, <1>12 DEF b, b0, taken, earlier, base, now

\* A packet that is read moves its parts, and what N and marker end, no others.
LEMMA ReadKeeps ==
  ASSUME Kept, NEW j \in Int, due <= j, j <= NumParts,
         NEW pkt \in Packets(due, j), ReadRTP(pkt), arrived' = arrived \o Run(due, j),
         due' = j + 1
  PROVE  Kept'
<1> DEFINE b == Buffer
           b0 == Started(pkt.n, b)
           taken == TakenOf(pkt)
           earlier == EarlierOf(pkt)
           now == NowOf(pkt)
           elems == pkt.elems
           sent == Run(due, j)
<1>1. /\ due \in Int /\ 1 <= due /\ b \in Tidy(Parts) /\ recorded \in Records(Parts, Times)
      /\ arrived \in Seq(Parts) /\ Total(recorded, b) = arrived /\ pts \in Times
  BY DEF Kept
<1>2. elems = Elements(due, j) /\ pkt.n \in BOOLEAN
  BY PacketFields
<1>3. /\ earlier \in Records(Parts, Times) /\ b0 \in Tidy(Parts) /\ taken \in Tidy(Parts)
      /\ now \in Times /\ ptsBase' \in Int
      /\ EndsUnit(j) => /\ recorded' = Flushed(earlier, CloseFragment(taken).tu, now)
                        /\ Buffer' = Emptied(CloseFragment(taken))
      /\ ~EndsUnit(j) => recorded' = earlier /\ Buffer' = taken
  BY ReadTyped
<1>4. pts' \in Times
  <2>1. pts' = now
    BY DEF ReadRTP, NowOf, BaseOf
  <2> QED
    BY <1>3, <2>1
<1>5. Spans(Parts, due, j)
  BY <1>1, PartsSpanned
<1>6. elems \in Seq(Seq(Parts)) /\ Flat(elems) = sent
  BY <1>1, <1>2, <1>5, ElementsFlat
<1>7. sent \in Seq(Parts)
  BY <1>1, <1>5, RunTyped
<1>8. Total(earlier, b0) = Total(recorded, b)
  <2> DEFINE n == pkt.n
  <2>1. earlier = Earlier(n, recorded, b, pts) /\ b0 = Started(n, b) /\ n \in BOOLEAN
    BY <1>2 DEF EarlierOf
  <2> HIDE DEF n, earlier, b0, b
  <2> QED
    BY <1>1, <2>1, StartKeeps
<1>9. Total(earlier, taken) = Total(earlier, b0) \o Flat(elems)
  <2>1. taken = TakeElements(pkt, b0)
    BY DEF TakenOf
  <2>2. pkt.elems \in Seq(Seq(Parts))
    BY <1>6
  <2> HIDE DEF taken, b0, earlier
  <2>3. Total(earlier, TakeElements(pkt, b0)) = Total(earlier, b0) \o Flat(pkt.elems)
    BY <1>3, <2>2, ElementsAdd
  <2> QED
    BY <2>1, <2>3
<1>10. Total(earlier, taken) = arrived'
  BY <1>1, <1>6, <1>8, <1>9
<1>11. /\ recorded' \in Records(Parts, Times) /\ Buffer' \in Tidy(Parts)
       /\ Total(recorded', Buffer') = Total(earlier, taken)
  <2> HIDE DEF earlier, taken, now
  <2>1. CASE EndsUnit(j)
    <3>1. recorded' = Flushed(earlier, CloseFragment(taken).tu, now)
          /\ Buffer' = Emptied(CloseFragment(taken))
      BY <1>3, <2>1
    <3>2. /\ Flushed(earlier, CloseFragment(taken).tu, now) \in Records(Parts, Times)
          /\ Emptied(CloseFragment(taken)) \in Tidy(Parts)
          /\ Total(Flushed(earlier, CloseFragment(taken).tu, now),
                   Emptied(CloseFragment(taken))) = Total(earlier, taken)
      BY <1>3, FlushKeeps
    <3> QED
      BY <3>1, <3>2
  <2>2. CASE ~EndsUnit(j)
    BY <1>3, <2>2
  <2> QED
    BY <2>1, <2>2
<1>12. Total(recorded, Buffer)' = arrived'
  <2>1. Total(recorded, Buffer)' = Total(recorded', Buffer')
    BY DEF Total, RecordParts, Content, Flat
  <2> QED
    BY <1>10, <1>11, <2>1
<1>13. arrived' \in Seq(Parts)
  BY <1>1, <1>7, ConcatProperties
<1>14. due' \in Int /\ 1 <= due'
  BY <1>1
<1> QED
  BY <1>3, <1>4, <1>11, <1>12, <1>13, <1>14 DEF Kept, Parts, NumParts, UnitParts, Times, Tidy, Bufs, Records

\* What is left when the track ends is recorded.
LEMMA ErrorKeeps == Kept /\ ReadError => Kept'
<1> SUFFICES ASSUME Kept, ReadError PROVE Kept'
  OBVIOUS
<1> DEFINE b == Buffer
<1>1. /\ due \in Int /\ 1 <= due /\ b \in Tidy(Parts) /\ recorded \in Records(Parts, Times)
      /\ ptsBase \in Int /\ pts \in Times /\ arrived \in Seq(Parts)
      /\ Total(recorded, b) = arrived
  BY DEF Kept
<1>2. /\ recorded' = Flushed(recorded, CloseFragment(b).tu, pts)
      /\ tuBuf' = <<>> /\ fragBuf' = <<>> /\ inFragment' = FALSE
      /\ due' = due /\ ptsBase' = ptsBase /\ pts' = pts /\ arrived' = arrived
  BY DEF ReadError, Buffer
<1> HIDE DEF b
<1>3. /\ Flushed(recorded, CloseFragment(b).tu, pts) \in Records(Parts, Times)
      /\ Emptied(CloseFragment(b)) = [tu |-> <<>>, frag |-> <<>>, open |-> FALSE]
      /\ Emptied(CloseFragment(b)) \in Tidy(Parts)
      /\ Total(Flushed(recorded, CloseFragment(b).tu, pts), Emptied(CloseFragment(b)))
           = Total(recorded, b)
  BY <1>1, FlushKeeps
<1>4. Buffer' = Emptied(CloseFragment(b))
  BY <1>2, <1>3 DEF Buffer
<1>5. Total(recorded, Buffer)' = Total(recorded', Buffer')
  BY DEF Total, RecordParts, Content, Flat
<1>6. Total(recorded, Buffer)' = arrived'
  BY <1>1, <1>2, <1>3, <1>4, <1>5
<1>7. recorded' \in Records(Parts, Times) /\ Buffer' \in Tidy(Parts)
  BY <1>2, <1>3, <1>4
<1> QED
  BY <1>1, <1>2, <1>6, <1>7 DEF Kept, Parts, NumParts, UnitParts, Times, Tidy, Bufs, Records

\* Every step keeps what arrived.
LEMMA KeptStep == Kept /\ [Next]_vars => Kept'
<1> SUFFICES ASSUME Kept, [Next]_vars PROVE Kept'
  OBVIOUS
<1>1. CASE ReadError
  BY <1>1, ErrorKeeps
<1>2. ASSUME NEW j \in Parts, SendPacket(j) PROVE Kept'
  <2>1. j \in due .. NumParts /\ due' = j + 1
    BY <1>2 DEF SendPacket
  <2>2. due \in Int /\ NumParts \in Int
    BY RtpAssumption DEF Kept, NumParts, UnitParts
  <2>3. j \in Int /\ due <= j /\ j <= NumParts
    BY <2>1, <2>2
  <2>4. PICK pkt \in Packets(due, j) :
          \/ ReadRTP(pkt) /\ arrived' = arrived \o Run(due, j)
          \/ Lossy /\ UNCHANGED <<bufVars, recorded, arrived>>
    BY <1>2 DEF SendPacket
  <2>5. CASE ReadRTP(pkt) /\ arrived' = arrived \o Run(due, j)
    BY <2>1, <2>3, <2>5, ReadKeeps
  <2>6. CASE UNCHANGED <<bufVars, recorded, arrived>>
    <3>1. Buffer' = Buffer /\ recorded' = recorded /\ arrived' = arrived
          /\ pts' = pts /\ ptsBase' = ptsBase
      BY <2>6 DEF bufVars, Buffer
    <3>2. Total(recorded, Buffer)' = Total(recorded', Buffer')
      BY DEF Total, RecordParts, Content, Flat
    <3>3. due' \in Int /\ 1 <= due'
      BY <2>1, <2>2, <2>3 DEF Kept
    <3> QED
      BY <3>1, <3>2, <3>3 DEF Kept, Parts, NumParts, UnitParts, Times, Tidy, Bufs, Records
  <2> QED
    BY <2>4, <2>5, <2>6
<1>3. CASE UNCHANGED vars
  <2>1. Buffer' = Buffer /\ recorded' = recorded /\ arrived' = arrived
        /\ pts' = pts /\ ptsBase' = ptsBase /\ due' = due
    BY <1>3 DEF vars, bufVars, Buffer
  <2>2. Total(recorded, Buffer)' = Total(recorded', Buffer')
    BY DEF Total, RecordParts, Content, Flat
  <2> QED
    BY <2>1, <2>2 DEF Kept, Parts, NumParts, UnitParts, Times, Tidy, Bufs, Records
<1> QED
  BY <1>1, <1>2, <1>3 DEF Next

\* What is kept is all that arrived.
LEMMA KeptDropsNothing == Kept => NothingDropped
<1> SUFFICES ASSUME Kept PROVE NothingDropped
  OBVIOUS
<1> DEFINE rp == RecordParts(recorded)
           flat == Flat(tuBuf)
<1>1. Buffer \in Tidy(Parts) /\ recorded \in Records(Parts, Times) /\ Total(recorded, Buffer) = arrived
  BY DEF Kept
<1>2. tuBuf \in Seq(Seq(Parts)) /\ fragBuf \in Seq(Parts)
  <2>1. Buffer.tu = tuBuf /\ Buffer.frag = fragBuf
    BY DEF Buffer
  <2>2. Buffer.tu \in Seq(Seq(Parts)) /\ Buffer.frag \in Seq(Parts)
    BY <1>1, TidyParts
  <2> QED
    BY <2>1, <2>2
<1>3. rp \in Seq(Parts)
  BY <1>1, RecordsTyped
<1>4. flat \in Seq(Parts)
  BY <1>2, FlatGrows
<1>5. Content(Buffer) = flat \o fragBuf
  BY DEF Content, Buffer
<1>6. rp \o (flat \o fragBuf) = arrived
  BY <1>1, <1>5 DEF Total
<1>7. Associative(Parts)
  BY Reassociate
<1>8. (rp \o flat) \o fragBuf = arrived
  <2> HIDE DEF rp, flat
  <2>1. (rp \o flat) \o fragBuf = rp \o (flat \o fragBuf)
    BY Zenon, <1>2, <1>3, <1>4, <1>7 DEF Associative
  <2> QED
    BY <1>6, <2>1
<1> QED
  BY <1>8 DEF NothingDropped, RecordParts

\* Whatever the sender cuts, whatever is lost and whenever the track ends, the
\* parts in the records, the unit in progress and the open fragment are the
\* parts that arrived, each once and in order.
THEOREM NothingIsDropped == Spec => []NothingDropped
<1>1. Init => Kept
  BY KeptInit
<1>2. Kept /\ [Next]_vars => Kept'
  BY KeptStep
<1>3. Kept => NothingDropped
  BY KeptDropsNothing
<1> QED
  BY <1>1, <1>2, <1>3, PTL DEF Spec

-----------------------------------------------------------------------------
(* Units and their times. *)

Clock(u) == (ClockStart + u - 1) % ClockMod

\* A part lies between the ends of its unit.
LEMMA UnitBounds ==
  ASSUME NEW p \in Int, 1 <= p
  PROVE  /\ UnitOf(p) \in Int /\ 1 <= UnitOf(p)
         /\ UnitParts \in Int /\ 1 <= UnitParts
         /\ (UnitOf(p) - 1) * UnitParts < p
         /\ p <= UnitOf(p) * UnitParts
         /\ StartsUnit(p) => p = (UnitOf(p) - 1) * UnitParts + 1
         /\ EndsUnit(p) => p = UnitOf(p) * UnitParts
<1> DEFINE U == UnitParts
           q == (p - 1) \div U
<1>1. U \in Int /\ 1 <= U
  <2>1. NParts \in Int /\ NObus \in Int /\ 1 <= NParts /\ 1 <= NObus
    BY RtpAssumption
  <2>2. NParts * NObus \in Int /\ 1 <= NParts * NObus
    BY <2>1
  <2> QED
    BY <2>2 DEF UnitParts
<1>2. UnitOf(p) = q + 1
  BY DEF UnitOf
<1>3. StartsUnit(p) => (p - 1) % U = 0
  BY DEF StartsUnit
<1>4. EndsUnit(p) => p % U = 0
  BY DEF EndsUnit
<1> HIDE DEF U
<1>5. q \in Int /\ 0 <= q
  BY <1>1
<1>6. U * q <= p - 1 /\ p - 1 < U * q + U
  BY <1>1
<1>7. (p - 1) % U = 0 => p - 1 = U * q
  BY <1>1
<1>8. p % U = 0 => p = U * (p \div U)
  BY <1>1
<1> DEFINE d == p \div U
<1>9. d \in Int
  BY <1>1
<1> HIDE DEF q, d
<1>10. (U * d <= U * q + U) /\ (p = U * d => U * q < U * d) => (p = U * d => d = q + 1)
  <2> SUFFICES ASSUME U * d <= U * q + U, p = U * d => U * q < U * d, p = U * d
               PROVE  d = q + 1
    OBVIOUS
  <2>1. U * d <= U * (q + 1) /\ U * q < U * d
    BY <1>1, <1>5, <1>9
  <2>2. d <= q + 1
    <3>1. CASE d <= q + 1
      BY <3>1
    <3>2. CASE q + 2 <= d
      <4>1. U * (q + 2) <= U * d
        BY <1>1, <1>5, <1>9, <3>2
      <4> QED
        BY <1>1, <1>5, <1>9, <2>1, <4>1
    <3> QED
      BY <1>5, <1>9, <3>1, <3>2
  <2>3. q < d
    <3>1. CASE q < d
      BY <3>1
    <3>2. CASE d <= q
      <4>1. U * d <= U * q
        BY <1>1, <1>5, <1>9, <3>2
      <4> QED
        BY <1>1, <1>5, <1>9, <2>1, <4>1
    <3> QED
      BY <1>5, <1>9, <3>1, <3>2
  <2> QED
    BY <1>5, <1>9, <2>2, <2>3
<1>11. p % U = 0 => p = U * (q + 1)
  <2> SUFFICES ASSUME p % U = 0 PROVE p = U * (q + 1)
    OBVIOUS
  <2>1. p = U * d
    BY <1>8 DEF d
  <2>2. d = q + 1
    BY <1>1, <1>5, <1>6, <1>9, <1>10, <2>1
  <2> QED
    BY <2>1, <2>2
<1>12. ((q + 1) - 1) * U < p /\ p <= (q + 1) * U
  BY <1>1, <1>5, <1>6
<1>13. (p - 1) % U = 0 => p = ((q + 1) - 1) * U + 1
  BY <1>1, <1>5, <1>7
<1>14. p % U = 0 => p = (q + 1) * U
  BY <1>1, <1>5, <1>11
<1> DEFINE u == UnitOf(p)
<1>15. u = q + 1
  BY <1>2
<1> HIDE DEF u
<1>16. /\ u \in Int /\ 1 <= u /\ (u - 1) * U < p /\ p <= u * U
       /\ ((p - 1) % U = 0 => p = (u - 1) * U + 1) /\ (p % U = 0 => p = u * U)
  BY <1>5, <1>12, <1>13, <1>14, <1>15
<1> QED
  BY Zenon, <1>1, <1>3, <1>4, <1>16 DEF u, U

\* Later parts are of later units, or of the same.
LEMMA UnitMonotone ==
  ASSUME NEW p \in Int, NEW q \in Int, 1 <= p, p <= q
  PROVE  UnitOf(p) <= UnitOf(q)
<1>1. UnitParts \in Int /\ 1 <= UnitParts
  BY UnitBounds
<1> QED
  BY <1>1 DEF UnitOf

\* A time is the number of units since the first, across the wrap of the clock.
LEMMA ClockDifference ==
  ASSUME NEW b \in Int, NEW u \in Int, b <= u, u - b < ClockMod
  PROVE  Normalized(Clock(u), Clock(b)) = u - b
<1> DEFINE M == ClockMod
           x == ClockStart + u - 1
           y == ClockStart + b - 1
           r == x % M
           s == y % M
           q == x \div M
           t == y \div M
<1>1. M \in Int /\ 1 <= M /\ ClockStart \in Int
  BY RtpAssumption
<1>2. x \in Int /\ y \in Int /\ x - y = u - b
  BY <1>1
<1>3. Normalized(Clock(u), Clock(b)) = (r - s) % M
  BY DEF Normalized, Clock
<1>4. u - b < M
  OBVIOUS
<1> HIDE DEF M, x, y
<1>5. x = M * q + r /\ r \in Int /\ q \in Int
  BY <1>1, <1>2
<1>6. y = M * t + s /\ s \in Int /\ t \in Int
  BY <1>1, <1>2
<1> HIDE DEF r, s, q, t
<1> DEFINE d == r - s
           k == t - q
           e == d \div M
           m == d % M
<1>7. d \in Int /\ k \in Int
  BY <1>5, <1>6
<1>8. d = M * k + (u - b)
  <2>1. M * k = M * t - M * q
    BY <1>1, <1>5, <1>6
  <2> DEFINE mt == M * t
             mq == M * q
  <2>2. mt \in Int /\ mq \in Int
    BY <1>1, <1>5, <1>6
  <2>3. x = mq + r /\ y = mt + s /\ M * k = mt - mq
    BY <1>5, <1>6, <2>1
  <2> HIDE DEF mt, mq, k
  <2> QED
    BY <1>2, <1>5, <1>6, <2>2, <2>3
<1> HIDE DEF d, k
<1>9. d = M * e + m /\ e \in Int /\ m \in Int /\ 0 <= m /\ m < M
  <2>1. d = M * e + m /\ e \in Int
    BY <1>1, <1>7
  <2>2. m \in Int /\ 0 <= m /\ m < M
    BY <1>1, <1>7
  <2> QED
    BY <2>1, <2>2
<1> HIDE DEF e, m
<1>10. e = k
  <2>1. CASE e <= k - 1
    <3>1. M * e <= M * (k - 1)
      BY <1>1, <1>7, <1>9, <2>1
    <3> QED
      BY <1>1, <1>4, <1>7, <1>8, <1>9, <3>1
  <2>2. CASE k + 1 <= e
    <3>1. M * (k + 1) <= M * e
      BY <1>1, <1>7, <1>9, <2>2
    <3> QED
      BY <1>1, <1>4, <1>7, <1>8, <1>9, <3>1
  <2> QED
    BY <1>7, <1>9, <2>1, <2>2
<1>11. m = u - b
  <2> DEFINE mk == M * k
  <2>1. mk \in Int /\ M * e = mk
    BY <1>1, <1>7, <1>10
  <2>2. d = mk + (u - b) /\ d = mk + m
    BY <1>8, <1>9, <2>1
  <2> HIDE DEF mk
  <2> QED
    BY <1>9, <2>1, <2>2
<1> QED
  BY <1>3, <1>11 DEF m, d

-----------------------------------------------------------------------------
(* Times go up from record to record. *)

\* The parts of the units a .. u.
PartsOf(a, u) == {p \in Parts : a <= UnitOf(p) /\ UnitOf(p) <= u}

\* With b the unit whose time is 0: no record holds parts of a later unit than
\* its time's, and times go up.
InOrder(recs, b) ==
  /\ \A i \in DOMAIN recs : recs[i].obus \in Seq(Seq(PartsOf(b, b + recs[i].pts)))
  /\ \A i, j \in DOMAIN recs : i < j => recs[i].pts < recs[j].pts

Before(recs, t) == \A i \in DOMAIN recs : recs[i].pts < t

\* What a reader keeps that has no part of another set of parts.
LEMMA SeqsGrow ==
  ASSUME NEW P, NEW Q, P \subseteq Q
  PROVE  Seq(P) \subseteq Seq(Q)
<1> SUFFICES ASSUME NEW s \in Seq(P) PROVE s \in Seq(Q)
  OBVIOUS
<1>1. Len(s) \in Nat /\ s \in [1 .. Len(s) -> P]
  OBVIOUS
<1> DEFINE n == Len(s)
<1>2. n \in Nat /\ s \in [1 .. n -> Q]
  BY <1>1
<1> HIDE DEF n
<1> QED
  BY <1>2

\* Tidy buffers of some parts are tidy buffers of more.
LEMMA TidyGrows ==
  ASSUME NEW P, NEW Q, P \subseteq Q
  PROVE  Tidy(P) \subseteq Tidy(Q)
<1>1. Seq(P) \subseteq Seq(Q)
  BY SeqsGrow
<1> DEFINE S == Seq(P)
           T == Seq(Q)
<1>2. S \subseteq T
  BY <1>1
<1> HIDE DEF S, T
<1>3. Seq(S) \subseteq Seq(T)
  BY <1>2, SeqsGrow
<1>4. Bufs(P) = [tu : Seq(S), frag : S, open : BOOLEAN]
      /\ Bufs(Q) = [tu : Seq(T), frag : T, open : BOOLEAN]
  BY DEF Bufs, S, T
<1> DEFINE A == Seq(S)
           B == Seq(T)
<1>5. Bufs(P) = [tu : A, frag : S, open : BOOLEAN]
      /\ Bufs(Q) = [tu : B, frag : T, open : BOOLEAN] /\ A \subseteq B
  BY <1>3, <1>4
<1> HIDE DEF A, B
<1>6. Bufs(P) \subseteq Bufs(Q)
  BY <1>2, <1>5
<1> QED
  BY <1>6 DEF Tidy

\* A record with a later time than those before it keeps the order.
LEMMA FlushedInOrder ==
  ASSUME NEW T, NEW recs \in Records(Parts, T), NEW b \in Int, InOrder(recs, b),
         NEW time \in Int, NEW tu, tu \in Seq(Seq(PartsOf(b, b + time))),
         tu # <<>> => Before(recs, time), Before(recs, time + 1),
         \A i \in DOMAIN recs : recs[i].pts \in Int
  PROVE  /\ InOrder(Flushed(recs, tu, time), b)
         /\ Before(Flushed(recs, tu, time), time + 1)
<1>1. CASE tu = <<>>
  BY <1>1 DEF Flushed
<1>2. CASE tu # <<>>
  <2> DEFINE R == [obus : Seq(Seq(Parts)), pts : T]
             rec == [obus |-> tu, pts |-> time]
             more == Append(recs, rec)
             l == Len(recs)
  <2>1. Flushed(recs, tu, time) = more
    BY <1>2 DEF Flushed
  <2>2. recs \in Seq(R)
    BY DEF Records
  <2>3. rec.obus = tu /\ rec.pts = time
    OBVIOUS
  <2> HIDE DEF R, rec
  <2>4. /\ l \in Nat /\ DOMAIN recs = 1 .. l /\ DOMAIN more = 1 .. l + 1
        /\ more[l + 1] = rec /\ \A i \in 1 .. l : more[i] = recs[i]
    <3> DEFINE S == R \cup {rec}
    <3>1. recs \in Seq(S) /\ rec \in S
      <4>1. R \subseteq S
        OBVIOUS
      <4> HIDE DEF S
      <4>2. Seq(R) \subseteq Seq(S)
        BY <4>1, SeqsGrow
      <4> QED
        BY <2>2, <4>2 DEF S
    <3> HIDE DEF S
    <3> QED
      BY <3>1
  <2> HIDE DEF more, l
  <2>5. ASSUME NEW i \in DOMAIN more
        PROVE  \/ i \in DOMAIN recs /\ more[i] = recs[i] /\ i < l + 1
               \/ i = l + 1 /\ more[i].obus = tu /\ more[i].pts = time
    BY <2>3, <2>4
  <2>6. Before(recs, time)
    BY <1>2
  <2>7. ASSUME NEW i \in DOMAIN more
        PROVE  more[i].obus \in Seq(Seq(PartsOf(b, b + more[i].pts)))
    <3>1. CASE i \in DOMAIN recs /\ more[i] = recs[i]
      <4>1. recs[i].obus \in Seq(Seq(PartsOf(b, b + recs[i].pts)))
        BY <3>1 DEF InOrder
      <4> QED
        BY <3>1, <4>1
    <3>2. CASE more[i].obus = tu /\ more[i].pts = time
      BY <3>2
    <3> QED
      BY <2>5, <3>1, <3>2
  <2>8. ASSUME NEW i \in DOMAIN more, NEW j \in DOMAIN more, i < j
        PROVE  more[i].pts < more[j].pts
    <3>1. i \in DOMAIN recs /\ more[i] = recs[i]
      BY <2>4, <2>8
    <3>2. CASE j \in DOMAIN recs /\ more[j] = recs[j]
      BY <2>8, <3>1, <3>2 DEF InOrder
    <3>3. CASE more[j].pts = time
      BY <2>6, <3>1, <3>3 DEF Before
    <3> QED
      BY <2>5, <3>2, <3>3
  <2>9. ASSUME NEW i \in DOMAIN more PROVE more[i].pts < time + 1
    <3>1. CASE i \in DOMAIN recs /\ more[i] = recs[i]
      BY <3>1 DEF Before
    <3>2. CASE more[i].pts = time
      BY <3>2
    <3> QED
      BY <2>5, <3>1, <3>2
  <2>10. InOrder(more, b)
    BY <2>7, <2>8 DEF InOrder
  <2>11. Before(more, time + 1)
    BY <2>9 DEF Before
  <2> QED
    BY <2>1, <2>10, <2>11
<1> QED
  BY <1>1, <1>2

\* The time of every record is an integer.
LEMMA RecordTimes ==
  ASSUME NEW P, NEW recs \in Records(P, Times)
  PROVE  \A i \in DOMAIN recs : recs[i].pts \in Times /\ recs[i].pts \in Int
<1> DEFINE R == [obus : Seq(Seq(P)), pts : Times]
<1>1. recs \in Seq(R)
  BY DEF Records
<1>2. \A r \in R : r.pts \in Times
  OBVIOUS
<1> HIDE DEF R
<1>3. \A i \in DOMAIN recs : recs[i] \in R
  BY <1>1
<1>4. \A t \in Times : t \in Int
  BY DEF Times
<1> QED
  BY <1>2, <1>3, <1>4

Idle == tuBuf = <<>> /\ ~inFragment

\* Unit first was the first one read, unit cur the last.  While a record has
\* the time of unit cur, nothing of that unit is in the buffers or to come.
Clocked(first, cur) ==
  /\ first \in Int /\ cur \in Int /\ 1 <= first /\ first <= cur /\ cur <= MaxTU
  /\ (cur - 1) * UnitParts < due - 1
  /\ ptsBase = Clock(first) /\ pts = cur - first
  /\ Buffer \in Tidy(PartsOf(first, cur))
  /\ InOrder(recorded, first) /\ Before(recorded, pts + 1)
  /\ Before(recorded, pts) \/ (Idle /\ (ended \/ cur * UnitParts < due))

Unread == ptsBase = -1 /\ recorded = <<>> /\ Idle

Timed == Kept /\ (Unread \/ \E first, cur : Clocked(first, cur))

\* Starting an element leaves the buffers tidy.
LEMMA StartTidy ==
  ASSUME NEW P, NEW b \in Tidy(P), NEW n \in BOOLEAN
  PROVE  Started(n, b) \in Tidy(P)
<1> DEFINE T == {0}
           recs == <<>>
           time == 0
<1>1. recs \in Records(P, T) /\ time \in T
  BY DEF Records
<1> HIDE DEF T, recs, time
<1> QED
  BY <1>1, StartKeeps

\* Idle buffers are empty and tidy.
LEMMA IdleTidy ==
  ASSUME NEW P, Buffer \in Tidy(Parts), Idle
  PROVE  Buffer \in Tidy(P) /\ Buffer = [tu |-> <<>>, frag |-> <<>>, open |-> FALSE]
<1>1. tuBuf = <<>> /\ ~inFragment
  BY DEF Idle
<1>2. /\ Buffer.open \in BOOLEAN
      /\ ~Buffer.open => Buffer.frag = <<>>
  <2> DEFINE c == Buffer
  <2>1. c \in Tidy(Parts)
    OBVIOUS
  <2> HIDE DEF c
  <2>2. c.open \in BOOLEAN /\ (~c.open => c.frag = <<>>)
    BY <2>1, TidyParts
  <2> QED
    BY <2>2 DEF c
<1>3. Buffer.frag = fragBuf /\ Buffer.open = inFragment
  BY DEF Buffer
<1>4. fragBuf = <<>> /\ inFragment = FALSE
  BY <1>1, <1>2, <1>3
<1>5. Buffer = [tu |-> <<>>, frag |-> <<>>, open |-> FALSE]
  BY <1>1, <1>4 DEF Buffer
<1> DEFINE none == <<>>
           frg == <<>>
           shut == FALSE
           b == Buffer
<1>6. none \in Seq(Seq(P)) /\ frg \in Seq(P) /\ shut \in BOOLEAN /\ (~shut => frg = <<>>)
  OBVIOUS
<1>7. b = [tu |-> none, frag |-> frg, open |-> shut]
  BY <1>5
<1> HIDE DEF none, frg, shut, b
<1>8. b \in Tidy(P)
  BY <1>6, <1>7, TidyMade
<1> QED
  BY <1>5, <1>8 DEF b

\* The parts of one packet are of one unit.
LEMMA UnitSpans ==
  ASSUME NEW i \in Int, NEW j \in Int, 1 <= i, i <= j, j <= NumParts, UnitOf(j) = UnitOf(i),
         NEW first \in Int, first <= UnitOf(i)
  PROVE  Spans(PartsOf(first, UnitOf(i)), i, j)
<1> DEFINE u == UnitOf(i)
<1>1. ASSUME NEW p \in Int, i <= p, p <= j PROVE p \in PartsOf(first, u)
  <2>1. p \in Parts
    BY <1>1, PartsSpanned DEF Parts
  <2>2. UnitOf(i) <= UnitOf(p) /\ UnitOf(p) <= UnitOf(j)
    BY <1>1, UnitMonotone
  <2>3. UnitOf(i) \in Int /\ UnitOf(p) \in Int
    BY <1>1, UnitBounds
  <2>4. first <= UnitOf(p) /\ UnitOf(p) <= u
    BY <2>2, <2>3
  <2> QED
    BY <2>1, <2>4 DEF PartsOf
<1> QED
  BY <1>1 DEF Spans

\* Every part is of a unit that is sent.
LEMMA UnitSent ==
  ASSUME NEW p \in Int, 1 <= p, p <= NumParts
  PROVE  UnitOf(p) <= MaxTU
<1> DEFINE u == UnitOf(p)
           U == UnitParts
<1>1. u \in Int /\ U \in Int /\ 1 <= U /\ (u - 1) * U < p
  BY UnitBounds
<1>2. MaxTU \in Int /\ NumParts = U * MaxTU
  BY RtpAssumption DEF NumParts
<1> HIDE DEF u, U
<1>3. (u - 1) * U < U * MaxTU
  BY <1>1, <1>2
<1>4. CASE MaxTU <= u - 1
  <2>1. MaxTU * U <= (u - 1) * U
    BY <1>1, <1>2, <1>4
  <2>2. MaxTU * U = U * MaxTU
    BY <1>1, <1>2
  <2> DEFINE a == MaxTU * U
             c == (u - 1) * U
  <2>3. a \in Int /\ c \in Int /\ a <= c /\ c < a
    BY <1>1, <1>2, <1>3, <2>1, <2>2
  <2> HIDE DEF a, c
  <2> QED
    BY <2>3
<1>5. CASE u <= MaxTU
  BY <1>5 DEF u
<1> QED
  BY <1>1, <1>2, <1>4, <1>5

\* A product of units is ordered as the units are.
LEMMA UnitsCompare ==
  ASSUME NEW a \in Int, NEW c \in Int, a * UnitParts < c * UnitParts
  PROVE  a < c
<1> DEFINE U == UnitParts
<1>1. U \in Int /\ 1 <= U
  BY UnitBounds
<1>2. a * U < c * U
  OBVIOUS
<1> HIDE DEF U
<1>3. CASE c <= a
  <2>1. c * U <= a * U
    BY <1>1, <1>3
  <2> DEFINE x == a * U
             y == c * U
  <2>2. x \in Int /\ y \in Int /\ x < y /\ y <= x
    BY <1>1, <1>2, <2>1
  <2> HIDE DEF x, y
  <2> QED
    BY <2>2
<1> QED
  BY <1>3

\* A packet is of the unit of the last one or of a later one; one that starts
\* a unit is of a later one.
LEMMA UnitAdvances ==
  ASSUME NEW first, NEW cur, Clocked(first, cur), due \in Int, 1 <= due
  PROVE  /\ 1 < due /\ cur <= UnitOf(due)
         /\ StartsUnit(due) => cur < UnitOf(due)
         /\ cur = UnitOf(due) => ~(cur * UnitParts < due)
<1> DEFINE u == UnitOf(due)
           U == UnitParts
           c == (cur - 1) * U
           s == (u - 1) * U
           t == u * U
<1>1. cur \in Int /\ 1 <= cur /\ c < due - 1
  BY DEF Clocked
<1>2. /\ u \in Int /\ U \in Int /\ 1 <= U /\ s < due /\ due <= t
      /\ StartsUnit(due) => due = s + 1
  BY UnitBounds
<1>3. c \in Int /\ 0 <= c
  <2> HIDE DEF U
  <2> QED
    BY <1>1, <1>2
<1>4. s \in Int /\ t \in Int
  <2> HIDE DEF U, u
  <2> QED
    BY <1>2
<1>5. 1 < due
  <2> HIDE DEF c
  <2> QED
    BY <1>1, <1>3
<1>6. cur <= u
  <2>1. c < t
    <3> HIDE DEF c, t
    <3> QED
      BY <1>1, <1>2, <1>3, <1>4
  <2> DEFINE a == cur - 1
  <2>2. a \in Int /\ u \in Int /\ a * UnitParts < u * UnitParts
    BY <1>1, <1>2, <2>1
  <2> HIDE DEF a, u
  <2>3. a < u
    BY <2>2, UnitsCompare
  <2> QED
    BY <1>1, <2>2, <2>3 DEF a
<1>7. ASSUME StartsUnit(due) PROVE cur < u
  <2>1. c < s
    <3> HIDE DEF c, s
    <3> QED
      BY <1>1, <1>2, <1>3, <1>4, <1>7
  <2> DEFINE a == cur - 1
             z == u - 1
  <2>2. a \in Int /\ z \in Int /\ a * UnitParts < z * UnitParts
    BY <1>1, <1>2, <2>1
  <2> HIDE DEF a, z, u
  <2>3. a < z
    BY <2>2, UnitsCompare
  <2> QED
    BY <1>1, <1>2, <2>2, <2>3 DEF a, z
<1>8. ASSUME cur = u PROVE ~(cur * UnitParts < due)
  <2>1. cur * UnitParts = t
    BY <1>8
  <2> HIDE DEF t
  <2> QED
    BY <1>2, <1>4, <2>1
<1> QED
  BY <1>5, <1>6, <1>7, <1>8

\* What an N bit leaves is in order, and older than the unit that it starts.
LEMMA EarlierInTime ==
  ASSUME Kept, NEW first, NEW cur, Clocked(first, cur), ~ended, NEW n \in BOOLEAN,
         n => cur < UnitOf(due)
  PROVE  /\ InOrder(Earlier(n, recorded, Buffer, pts), first)
         /\ Before(Earlier(n, recorded, Buffer, pts), UnitOf(due) - first)
<1> DEFINE u == UnitOf(due)
           earlier == Earlier(n, recorded, Buffer, pts)
<1>1. /\ first \in Int /\ cur \in Int /\ pts = cur - first
      /\ Buffer \in Tidy(PartsOf(first, cur))
      /\ InOrder(recorded, first) /\ Before(recorded, pts + 1)
      /\ Before(recorded, pts) \/ (Idle /\ cur * UnitParts < due)
  BY DEF Clocked
<1>2. /\ due \in Int /\ 1 <= due /\ recorded \in Records(Parts, Times)
  BY DEF Kept
<1>3. \A i \in DOMAIN recorded : recorded[i].pts \in Int
  BY <1>2, RecordTimes
<1>4. u \in Int /\ cur <= u /\ (cur = u => ~(cur * UnitParts < due))
  BY <1>2, UnitBounds, UnitAdvances
<1>5. CASE n
  <2> DEFINE tu == Buffer.tu
             time == pts
  <2>1. time \in Int /\ first + time = cur /\ time + 1 <= u - first
    BY <1>1, <1>4, <1>5
  <2>2. tu \in Seq(Seq(PartsOf(first, cur)))
    BY <1>1, TidyParts
  <2>3. tu # <<>> => Before(recorded, time)
    BY <1>1 DEF Idle, Buffer
  <2>4. Before(recorded, time + 1)
    BY <1>1
  <2>5. earlier = Flushed(recorded, tu, time)
    BY <1>5 DEF Earlier
  <2>6. tu \in Seq(Seq(PartsOf(first, first + time)))
    BY <2>1, <2>2
  <2> HIDE DEF tu, time, earlier
  <2>7. InOrder(earlier, first) /\ Before(earlier, time + 1)
    BY <1>1, <1>2, <1>3, <2>1, <2>3, <2>4, <2>5, <2>6, FlushedInOrder
  <2>8. earlier \in Records(Parts, Times)
    <3> DEFINE e == Earlier(n, recorded, Buffer, pts)
    <3>1. Buffer \in Tidy(Parts) /\ pts \in Times
      BY DEF Kept
    <3>2. e \in Records(Parts, Times)
      BY <1>2, <3>1, StartKeeps
    <3> QED
      BY <3>2 DEF earlier
  <2>9. \A i \in DOMAIN earlier : earlier[i].pts \in Int
    BY <2>8, RecordTimes
  <2> DEFINE t == u - first
  <2>10. t \in Int /\ time + 1 <= t
    BY <1>1, <1>4, <2>1
  <2> HIDE DEF t
  <2>11. Before(earlier, t)
    BY <2>1, <2>7, <2>9, <2>10 DEF Before
  <2> QED
    BY <2>7, <2>11 DEF t, earlier
<1>6. CASE ~n
  <2>1. earlier = recorded
    BY <1>6 DEF Earlier
  <2> DEFINE t == u - first
  <2>2. Before(recorded, t)
    <3>1. CASE cur = u
      <4>1. Before(recorded, pts)
        BY <1>1, <1>4, <3>1
      <4>2. t = pts
        BY <1>1, <3>1
      <4> QED
        BY <4>1, <4>2
    <3>2. CASE cur < u
      <4>1. t \in Int /\ pts \in Int /\ pts + 1 <= t
        BY <1>1, <1>4, <3>2
      <4>2. Before(recorded, pts + 1)
        BY <1>1
      <4> HIDE DEF t
      <4> QED
        BY <1>3, <4>1, <4>2 DEF Before
    <3> QED
      BY <1>1, <1>4, <3>1, <3>2
  <2> QED
    BY <1>1, <2>1, <2>2
<1> QED
  BY <1>5, <1>6

\* The first unit and the records, as a packet that is read finds them.
LEMMA ReadReady ==
  ASSUME Timed, ~ended, due <= NumParts, NEW j, NEW pkt \in Packets(due, j)
  PROVE  \E first \in Int :
           /\ 1 <= first /\ first <= UnitOf(due)
           /\ BaseOf(pkt) = Clock(first)
           /\ InOrder(EarlierOf(pkt), first)
           /\ Before(EarlierOf(pkt), UnitOf(due) - first)
           /\ Started(pkt.n, Buffer) \in Tidy(PartsOf(first, UnitOf(due)))
<1> DEFINE u == UnitOf(due)
           b0 == Started(pkt.n, Buffer)
           n == pkt.n
<1>1. Kept /\ due \in Int /\ 1 <= due /\ Buffer \in Tidy(Parts)
  BY DEF Timed, Kept
<1>2. /\ n \in BOOLEAN /\ (due # 1 /\ n => StartsUnit(due))
      /\ pkt.timestamp = Timestamp(due)
  BY PacketFields
<1>3. u \in Int /\ 1 <= u
  BY <1>1, UnitBounds
<1>4. Timestamp(due) = Clock(u)
  BY DEF Timestamp, Clock
<1>5. EarlierOf(pkt) = Earlier(n, recorded, Buffer, pts)
  BY DEF EarlierOf
<1> HIDE DEF n
<1>6. CASE Unread
  <2>1. ptsBase = -1 /\ recorded = <<>> /\ Idle
    BY <1>6 DEF Unread
  <2>2. BaseOf(pkt) = Clock(u)
    BY <1>2, <1>4, <2>1 DEF BaseOf
  <2>3. Buffer \in Tidy(PartsOf(u, u)) /\ Buffer = [tu |-> <<>>, frag |-> <<>>, open |-> FALSE]
    BY <1>1, <2>1, IdleTidy
  <2>4. Buffer.tu = <<>>
    BY <2>3
  <2>5. EarlierOf(pkt) = <<>>
    BY <1>5, <2>1, <2>4 DEF Earlier, Flushed
  <2>6. InOrder(EarlierOf(pkt), u) /\ Before(EarlierOf(pkt), u - u)
    BY <2>5 DEF InOrder, Before
  <2>7. b0 \in Tidy(PartsOf(u, u))
    <3> DEFINE b == Buffer
               P == PartsOf(u, u)
    <3>1. b \in Tidy(P) /\ b0 = Started(n, b)
      BY <2>3 DEF n
    <3> HIDE DEF b, P, b0
    <3>2. b0 \in Tidy(P)
      BY <1>2, <3>1, StartTidy
    <3> QED
      BY <3>2 DEF P
  <2> HIDE DEF b0, u
  <2> QED
    BY <1>3, <2>2, <2>6, <2>7 DEF u, b0
<1>7. ASSUME NEW first, NEW cur, Clocked(first, cur)
      PROVE  /\ first \in Int /\ 1 <= first /\ first <= u
             /\ BaseOf(pkt) = Clock(first)
             /\ InOrder(EarlierOf(pkt), first)
             /\ Before(EarlierOf(pkt), u - first)
             /\ b0 \in Tidy(PartsOf(first, u))
  <2>1. /\ first \in Int /\ cur \in Int /\ 1 <= first /\ first <= cur
        /\ ptsBase = Clock(first) /\ Buffer \in Tidy(PartsOf(first, cur))
    BY <1>7 DEF Clocked
  <2>2. /\ 1 < due /\ cur <= u /\ (StartsUnit(due) => cur < u)
    BY <1>1, <1>7, UnitAdvances
  <2>3. n => cur < u
    BY <1>1, <1>2, <2>2
  <2>4. InOrder(EarlierOf(pkt), first) /\ Before(EarlierOf(pkt), u - first)
    BY <1>1, <1>2, <1>5, <1>7, <2>3, EarlierInTime
  <2>5. BaseOf(pkt) = Clock(first)
    <3>1. Clock(first) \in Int /\ 0 <= Clock(first)
      <4> DEFINE x == ClockStart + first - 1
      <4>1. x \in Int /\ ClockMod \in Int /\ 0 < ClockMod
        BY <2>1, RtpAssumption
      <4>2. Clock(first) = x % ClockMod
        BY DEF Clock
      <4> HIDE DEF x
      <4> QED
        BY <4>1, <4>2
    <3>2. ptsBase # -1
      BY <2>1, <3>1
    <3> QED
      BY <2>1, <3>2 DEF BaseOf
  <2>6. PartsOf(first, cur) \subseteq PartsOf(first, u)
    <3>1. ASSUME NEW p \in PartsOf(first, cur) PROVE p \in PartsOf(first, u)
      <4>1. p \in Parts /\ first <= UnitOf(p) /\ UnitOf(p) <= cur
        BY DEF PartsOf
      <4>2. p \in Int /\ 1 <= p
        <5>1. NumParts \in Int
          BY RtpAssumption DEF NumParts, UnitParts
        <5> QED
          BY <4>1, <5>1 DEF Parts
      <4>3. UnitOf(p) \in Int
        BY <4>2, UnitBounds
      <4>4. UnitOf(p) <= u
        <5> HIDE DEF u
        <5> QED
          BY <1>3, <2>1, <2>2, <4>1, <4>3
      <4> QED
        BY <4>1, <4>4 DEF PartsOf
    <3> QED
      BY <3>1
  <2>7. b0 \in Tidy(PartsOf(first, u))
    <3> DEFINE b == Buffer
               P == PartsOf(first, cur)
               Q == PartsOf(first, u)
    <3>1. b \in Tidy(P) /\ b0 = Started(n, b) /\ P \subseteq Q
      BY <2>1, <2>6 DEF n
    <3> HIDE DEF b, P, Q, b0
    <3>2. Tidy(P) \subseteq Tidy(Q)
      BY <3>1, TidyGrows
    <3>3. b \in Tidy(Q)
      BY <3>1, <3>2
    <3>4. b0 \in Tidy(Q)
      BY <1>2, <3>1, <3>3, StartTidy
    <3> QED
      BY <3>4 DEF Q
  <2>8. first <= u
    <3> HIDE DEF u
    <3> QED
      BY <1>3, <2>1, <2>2
  <2> QED
    BY <2>1, <2>4, <2>5, <2>7, <2>8
<1> HIDE DEF b0, u
<1>8. CASE \E first, cur : Clocked(first, cur)
  <2>1. PICK first, cur : Clocked(first, cur)
    BY <1>8
  <2> QED
    BY <1>7, <2>1 DEF b0, u
<1> QED
  BY <1>6, <1>8 DEF Timed

\* A packet that is read keeps the times in order.
LEMMA ReadInTime ==
  ASSUME MaxTU <= ClockMod, Timed, Kept', ~ended, NEW j \in Int, due <= j, j <= NumParts,
         UnitOf(j) = UnitOf(due), NEW pkt \in Packets(due, j), ReadRTP(pkt),
         due' = j + 1
  PROVE  \E first, cur : Clocked(first, cur)'
<1>0. PICK u : u = UnitOf(due)
  OBVIOUS
<1> DEFINE b0 == Started(pkt.n, Buffer)
           taken == TakenOf(pkt)
           earlier == EarlierOf(pkt)
           now == NowOf(pkt)
           closed == CloseFragment(taken)
<1>1. /\ Kept /\ due \in Int /\ 1 <= due /\ Buffer \in Tidy(Parts)
      /\ recorded \in Records(Parts, Times) /\ pts \in Times
  BY DEF Timed, Kept
<1>2. /\ pkt.elems = Elements(due, j) /\ pkt.n \in BOOLEAN /\ pkt.marker = EndsUnit(j)
      /\ pkt.timestamp = Timestamp(due)
  BY PacketFields
<1>3. /\ u \in Int /\ 1 <= u /\ (u - 1) * UnitParts < due
      /\ EndsUnit(j) => j = u * UnitParts
  <2>1. /\ u \in Int /\ 1 <= u /\ (u - 1) * UnitParts < due
    BY <1>0, <1>1, UnitBounds
  <2>2. EndsUnit(j) => j = UnitOf(j) * UnitParts
    BY <1>1, UnitBounds
  <2> QED
    BY <1>0, <2>1, <2>2
<1>4. due <= NumParts /\ NumParts \in Int /\ 1 <= j
  BY <1>1, RtpAssumption DEF NumParts, UnitParts
<1>5. u <= MaxTU
  BY <1>0, <1>1, <1>4, UnitSent
<1>6. PICK first \in Int :
        /\ 1 <= first /\ first <= u /\ BaseOf(pkt) = Clock(first)
        /\ InOrder(earlier, first) /\ Before(earlier, u - first)
        /\ b0 \in Tidy(PartsOf(first, u))
  BY <1>0, <1>4, ReadReady
<1> DEFINE P == PartsOf(first, u)
           t == u - first
<1>7. t \in Int /\ 0 <= t /\ t < ClockMod /\ first + t = u
  <2>1. ClockMod \in Int /\ MaxTU \in Int
    BY RtpAssumption
  <2> QED
    BY <1>3, <1>5, <1>6, <2>1
<1>8. now = t
  <2>1. now = Normalized(Clock(u), Clock(first))
    BY <1>0, <1>2, <1>6 DEF NowOf, Timestamp, Clock
  <2>2. u - first < ClockMod
    BY <1>7
  <2> HIDE DEF now
  <2>3. Normalized(Clock(u), Clock(first)) = u - first
    BY <1>3, <1>6, <2>2, ClockDifference
  <2> QED
    BY <2>1, <2>3
<1>9. Spans(P, due, j)
  BY <1>0, <1>1, <1>6, UnitSpans
<1>10. pkt.elems \in Seq(Seq(P))
  <2> HIDE DEF P
  <2> QED
    BY <1>1, <1>2, <1>9, ElementsFlat
<1>11. taken \in Tidy(P)
  <2>1. taken = TakeElements(pkt, b0)
    BY DEF TakenOf
  <2>2. b0 \in Tidy(P)
    BY <1>6
  <2> HIDE DEF taken, b0, P
  <2>3. TakeElements(pkt, b0) \in Tidy(P)
    BY <1>10, <2>2, ElementsKept
  <2> QED
    BY <2>1, <2>3
<1>12. closed \in Tidy(P) /\ closed.tu \in Seq(Seq(P))
  <2> HIDE DEF taken, P
  <2> QED
    BY <1>11, CloseKeeps
<1>13. earlier \in Records(Parts, Times)
  <2> DEFINE n == pkt.n
  <2>1. earlier = Earlier(n, recorded, Buffer, pts) /\ n \in BOOLEAN
    BY <1>2 DEF EarlierOf
  <2> HIDE DEF n, earlier
  <2> QED
    BY <1>1, <2>1, StartKeeps
<1>14. \A i \in DOMAIN earlier : earlier[i].pts \in Int
  <2> HIDE DEF earlier
  <2> QED
    BY <1>13, RecordTimes
<1>15. pkt.marker \in BOOLEAN
  BY <1>2 DEF EndsUnit
<1>16. /\ ptsBase' = BaseOf(pkt) /\ pts' = now
       /\ pkt.marker => recorded' = Flushed(earlier, closed.tu, now) /\ Buffer' = Emptied(closed)
       /\ ~pkt.marker => recorded' = earlier /\ Buffer' = taken
  <2> HIDE DEF P
  <2> QED
    BY <1>11, <1>15, ReadMakes
<1>17. ptsBase' = Clock(first) /\ pts' = t
  BY <1>6, <1>8, <1>16
<1> HIDE DEF b0, taken, earlier, now, closed, P, t
<1>18. /\ InOrder(earlier, first) /\ Before(earlier, t) /\ Before(earlier, t + 1)
  <2>1. InOrder(earlier, first) /\ Before(earlier, t)
    BY <1>6 DEF t
  <2>2. Before(earlier, t + 1)
    BY <1>7, <1>14, <2>1 DEF Before
  <2> QED
    BY <2>1, <2>2
<1>19. /\ InOrder(recorded', first) /\ Before(recorded', t + 1) /\ Buffer' \in Tidy(P)
       /\ Before(recorded', t) \/ (Idle' /\ u * UnitParts < due')
  <2>1. CASE pkt.marker
    <3>1. recorded' = Flushed(earlier, closed.tu, t) /\ Buffer' = Emptied(closed)
      BY <1>8, <1>16, <2>1
    <3> DEFINE tu == closed.tu
    <3>2. tu \in Seq(Seq(PartsOf(first, first + t)))
      BY <1>7, <1>12 DEF P
    <3>3. recorded' = Flushed(earlier, tu, t)
      BY <3>1
    <3> HIDE DEF tu
    <3>4. InOrder(Flushed(earlier, tu, t), first) /\ Before(Flushed(earlier, tu, t), t + 1)
      BY <1>7, <1>13, <1>14, <1>18, <3>2, FlushedInOrder
    <3>5. /\ Emptied(closed) = [tu |-> <<>>, frag |-> <<>>, open |-> FALSE]
          /\ Emptied(closed) \in Tidy(P)
      <4> DEFINE e == <<>>
                 T == {0}
                 z == 0
      <4>1. e \in Records(P, T) /\ z \in T
        BY DEF Records
      <4> HIDE DEF e, T, z
      <4>2. /\ Emptied(CloseFragment(taken)) = [tu |-> <<>>, frag |-> <<>>, open |-> FALSE]
            /\ Emptied(CloseFragment(taken)) \in Tidy(P)
        BY <1>11, <4>1, FlushKeeps
      <4> QED
        BY <4>2 DEF closed
    <3>6. Buffer' = [tu |-> tuBuf', frag |-> fragBuf', open |-> inFragment']
      BY DEF Buffer
    <3>7. tuBuf' = <<>> /\ inFragment' = FALSE
      <4>1. [tu |-> tuBuf', frag |-> fragBuf', open |-> inFragment']
              = [tu |-> <<>>, frag |-> <<>>, open |-> FALSE]
        BY <3>1, <3>5, <3>6
      <4>2. /\ [tu |-> tuBuf', frag |-> fragBuf', open |-> inFragment'].tu = tuBuf'
            /\ [tu |-> tuBuf', frag |-> fragBuf', open |-> inFragment'].open = inFragment'
            /\ [tu |-> <<>>, frag |-> <<>>, open |-> FALSE].tu = <<>>
            /\ [tu |-> <<>>, frag |-> <<>>, open |-> FALSE].open = FALSE
        OBVIOUS
      <4> QED
        BY <4>1, <4>2
    <3>8. Idle'
      BY <3>7 DEF Idle
    <3>9. u * UnitParts < due'
      <4>1. j = u * UnitParts
        BY <1>2, <1>3, <2>1
      <4> QED
        BY <4>1
    <3> QED
      BY <3>1, <3>3, <3>4, <3>5, <3>8, <3>9
  <2>2. CASE ~pkt.marker
    BY <1>11, <1>16, <1>18, <2>2
  <2> QED
    BY <2>1, <2>2
<1>20. (u - 1) * UnitParts < due' - 1
  <2> DEFINE s == (u - 1) * UnitParts
  <2>1. s \in Int /\ s < due
    BY <1>3, RtpAssumption DEF UnitParts
  <2>2. due' - 1 = j
    OBVIOUS
  <2> HIDE DEF s
  <2>3. s < due' - 1
    BY <1>1, <2>1, <2>2
  <2> QED
    BY <2>3 DEF s
<1>21. Clocked(first, u)'
  <2> DEFINE c == Clock(first)
  <2>1. c' = c
    BY DEF Clock
  <2>2. (Buffer \in Tidy(PartsOf(first, u)))' = (Buffer' \in Tidy(P))
    BY DEF Tidy, Bufs, P, PartsOf, Parts, NumParts, UnitParts, UnitOf
  <2>3. InOrder(recorded, first)' = InOrder(recorded', first)
    BY DEF InOrder, PartsOf, Parts, NumParts, UnitParts, UnitOf
  <2>4. Before(recorded, pts + 1)' = Before(recorded', t + 1)
    BY <1>17 DEF Before
  <2>5. Before(recorded, pts)' = Before(recorded', t)
    BY <1>17 DEF Before
  <2>6. UnitParts' = UnitParts
    BY DEF UnitParts
  <2> HIDE DEF c
  <2> QED
    BY <1>3, <1>5, <1>6, <1>17, <1>19, <1>20, <2>1, <2>2, <2>3, <2>4, <2>5, <2>6 DEF Clocked, t, c
<1> QED
  BY <1>21

\* A lost packet, or none, leaves them in order.
LEMMA RestInTime ==
  ASSUME NEW first, NEW cur, Clocked(first, cur), due \in Int, due' \in Int, due <= due',
         UNCHANGED <<bufVars, recorded>>, ended \in BOOLEAN, ended => ended'
  PROVE  Clocked(first, cur)'
<1> DEFINE c == Clock(first)
           s == (cur - 1) * UnitParts
           e == cur * UnitParts
           P == PartsOf(first, cur)
<1>1. c' = c /\ UnitParts' = UnitParts
  BY DEF Clock, UnitParts
<1>2. Buffer' = Buffer /\ Idle' = Idle /\ pts' = pts /\ ptsBase' = ptsBase /\ recorded' = recorded
  BY DEF bufVars, Buffer, Idle
<1>3. (Buffer \in Tidy(PartsOf(first, cur)))' = (Buffer' \in Tidy(P))
  BY DEF Tidy, Bufs, PartsOf, Parts, NumParts, UnitParts, UnitOf
<1>4. InOrder(recorded, first)' = InOrder(recorded', first)
  BY DEF InOrder, PartsOf, Parts, NumParts, UnitParts, UnitOf
<1>5. Before(recorded, pts + 1)' = Before(recorded', pts' + 1)
      /\ Before(recorded, pts)' = Before(recorded', pts')
  BY DEF Before
<1>6. /\ first \in Int /\ cur \in Int /\ 1 <= first /\ first <= cur /\ cur <= MaxTU
      /\ s < due - 1
      /\ ptsBase = c /\ pts = cur - first
      /\ Buffer \in Tidy(P)
      /\ InOrder(recorded, first) /\ Before(recorded, pts + 1)
      /\ Before(recorded, pts) \/ (Idle /\ (ended \/ e < due))
  BY DEF Clocked
<1>7. s \in Int /\ e \in Int
  BY <1>6, RtpAssumption DEF UnitParts
<1> HIDE DEF s, e
<1>8. s < due' - 1 /\ (e < due => e < due')
  <2> DEFINE d == due
             f == due'
  <2>1. d \in Int /\ f \in Int /\ d <= f /\ s < d - 1
    BY <1>6
  <2> HIDE DEF d, f
  <2>2. s < f - 1 /\ (e < d => e < f)
    BY <1>7, <2>1
  <2> QED
    BY <2>2 DEF d, f
<1>9. (cur - 1) * UnitParts < due' - 1 /\ (e < due' => cur * UnitParts < due')
  BY <1>8 DEF s, e
<1> HIDE DEF c, P
<1>10. Before(recorded', pts') \/ (Idle' /\ (ended' \/ cur * UnitParts < due'))
  BY <1>2, <1>6, <1>8, <1>9
<1> QED
  BY <1>1, <1>2, <1>3, <1>4, <1>5, <1>6, <1>9, <1>10 DEF Clocked, c

\* The unit recorded when the track ends is later than those before it.
LEMMA ErrorInTime ==
  ASSUME Kept, ReadError, NEW first, NEW cur, Clocked(first, cur)
  PROVE  Clocked(first, cur)'
<1> DEFINE b == Buffer
           closed == CloseFragment(b)
           tu == closed.tu
           P == PartsOf(first, cur)
           c == Clock(first)
<1>1. /\ first \in Int /\ cur \in Int /\ 1 <= first /\ first <= cur /\ cur <= MaxTU
      /\ (cur - 1) * UnitParts < due - 1
      /\ ptsBase = c /\ pts = cur - first
      /\ b \in Tidy(P)
      /\ InOrder(recorded, first) /\ Before(recorded, pts + 1)
      /\ Before(recorded, pts) \/ Idle
  BY DEF Clocked
<1>2. /\ recorded' = Flushed(recorded, tu, pts)
      /\ tuBuf' = <<>> /\ fragBuf' = <<>> /\ inFragment' = FALSE
      /\ due' = due /\ ptsBase' = ptsBase /\ pts' = pts /\ ended' = TRUE
  BY DEF ReadError, Buffer
<1>3. tu \in Seq(Seq(P))
  <2> HIDE DEF b, P
  <2> QED
    BY <1>1, CloseKeeps
<1>4. tu # <<>> => Before(recorded, pts)
  <2>1. ASSUME Idle PROVE tu = <<>>
    <3>1. b.open = FALSE /\ b.tu = <<>>
      BY <2>1 DEF Idle, Buffer
    <3> HIDE DEF b
    <3> QED
      BY <3>1 DEF CloseFragment
  <2> QED
    BY <1>1, <2>1
<1>5. recorded \in Records(Parts, Times)
  BY DEF Kept
<1>6. \A i \in DOMAIN recorded : recorded[i].pts \in Int
  BY <1>5, RecordTimes
<1>7. pts \in Int /\ first + pts = cur
  BY <1>1
<1>8. tu \in Seq(Seq(PartsOf(first, first + pts)))
  BY <1>3, <1>7
<1>9. InOrder(recorded', first) /\ Before(recorded', pts + 1)
  <2> HIDE DEF tu, b, P, c
  <2> QED
    BY <1>1, <1>2, <1>4, <1>5, <1>6, <1>7, <1>8, FlushedInOrder
<1>10. Idle'
  BY <1>2 DEF Idle
<1>11. Buffer' \in Tidy(P)
  <2> DEFINE none == <<>>
             frg == <<>>
             shut == FALSE
             d == Buffer'
  <2>1. none \in Seq(Seq(P)) /\ frg \in Seq(P) /\ shut \in BOOLEAN /\ (~shut => frg = <<>>)
    OBVIOUS
  <2>2. d = [tu |-> none, frag |-> frg, open |-> shut]
    BY <1>2 DEF Buffer
  <2> HIDE DEF none, frg, shut, d, P
  <2>3. d \in Tidy(P)
    BY <2>1, <2>2, TidyMade
  <2> QED
    BY <2>3 DEF d
<1>12. (Buffer \in Tidy(PartsOf(first, cur)))' = (Buffer' \in Tidy(P))
  BY DEF Tidy, Bufs, PartsOf, Parts, NumParts, UnitParts, UnitOf
<1>13. InOrder(recorded, first)' = InOrder(recorded', first)
  BY DEF InOrder, PartsOf, Parts, NumParts, UnitParts, UnitOf
<1>14. Before(recorded, pts + 1)' = Before(recorded', pts + 1)
  BY <1>2 DEF Before
<1>15. c' = c /\ UnitParts' = UnitParts
  BY DEF Clock, UnitParts
<1> HIDE DEF c, P, b, tu
<1> QED
  BY <1>1, <1>2, <1>9, <1>10, <1>11, <1>12, <1>13, <1>14, <1>15 DEF Clocked, c

\* At the start there is no time to keep.
LEMMA TimedInit == Init => Timed
<1> SUFFICES ASSUME Init PROVE Timed
  OBVIOUS
<1>1. Kept
  BY KeptInit
<1>2. Unread
  BY DEF Init, Unread, Idle
<1> QED
  BY <1>1, <1>2 DEF Timed

\* Every step keeps the times in order.
LEMMA TimedStep ==
  ASSUME MaxTU <= ClockMod
  PROVE  Timed /\ ended \in BOOLEAN /\ [Next]_vars => Timed' /\ ended' \in BOOLEAN
<1> SUFFICES ASSUME Timed, ended \in BOOLEAN, [Next]_vars PROVE Timed' /\ ended' \in BOOLEAN
  OBVIOUS
<1>1. Kept /\ Kept' /\ due \in Int /\ 1 <= due /\ Buffer \in Tidy(Parts)
  BY KeptStep DEF Timed, Kept
<1>2. CASE ReadError
  <2>1. ended' = TRUE
    BY <1>2 DEF ReadError
  <2>2. CASE Unread
    <3>1. ptsBase = -1 /\ recorded = <<>> /\ Idle
      BY <2>2 DEF Unread
    <3>2. recorded' = Flushed(recorded, CloseFragment(Buffer).tu, pts)
          /\ tuBuf' = <<>> /\ inFragment' = FALSE /\ ptsBase' = ptsBase
      BY <1>2 DEF ReadError, Buffer
    <3>3. CloseFragment(Buffer).tu = <<>>
      <4>1. Buffer.open = FALSE /\ Buffer.tu = <<>>
        BY <3>1 DEF Idle, Buffer
      <4> QED
        BY <4>1 DEF CloseFragment
    <3>4. recorded' = <<>>
      BY <3>1, <3>2, <3>3 DEF Flushed
    <3>5. Unread'
      BY <3>1, <3>2, <3>4 DEF Unread, Idle
    <3> QED
      BY <1>1, <2>1, <3>5 DEF Timed
  <2>3. ASSUME NEW first, NEW cur, Clocked(first, cur) PROVE Clocked(first, cur)'
    BY <1>1, <1>2, <2>3, ErrorInTime
  <2>4. CASE \E first, cur : Clocked(first, cur)
    <3>1. PICK first, cur : Clocked(first, cur)
      BY <2>4
    <3>2. Clocked(first, cur)'
      BY <2>3, <3>1
    <3>3. \E f, z : Clocked(f, z)'
      BY <3>2
    <3> QED
      BY <1>1, <2>1, <3>3 DEF Timed
  <2> QED
    BY <2>2, <2>4 DEF Timed
<1>3. ASSUME UNCHANGED <<bufVars, recorded>>, due' \in Int, due <= due', ended' = ended
      PROVE  Timed' /\ ended' \in BOOLEAN
  <2>1. CASE Unread
    <3>1. Unread'
      BY <1>3, <2>1 DEF Unread, Idle, bufVars
    <3> QED
      BY <1>1, <1>3, <3>1 DEF Timed
  <2>2. ASSUME NEW first, NEW cur, Clocked(first, cur) PROVE Clocked(first, cur)'
    BY <1>1, <1>3, <2>2, RestInTime
  <2>3. CASE \E first, cur : Clocked(first, cur)
    <3>1. PICK first, cur : Clocked(first, cur)
      BY <2>3
    <3>2. Clocked(first, cur)'
      BY <2>2, <3>1
    <3>3. \E f, z : Clocked(f, z)'
      BY <3>2
    <3> QED
      BY <1>1, <1>3, <3>3 DEF Timed
  <2> QED
    BY <2>1, <2>3 DEF Timed
<1>4. ASSUME NEW j \in Parts, SendPacket(j) PROVE Timed' /\ ended' \in BOOLEAN
  <2>1. /\ ~ended /\ j \in due .. NumParts /\ UnitOf(j) = UnitOf(due) /\ due' = j + 1
        /\ ended' = ended
    BY <1>4 DEF SendPacket
  <2>2. NumParts \in Int
    BY RtpAssumption DEF NumParts, UnitParts
  <2>3. j \in Int /\ due <= j /\ j <= NumParts
    BY <1>1, <2>1, <2>2
  <2>4. PICK pkt \in Packets(due, j) :
          \/ ReadRTP(pkt) /\ arrived' = arrived \o Run(due, j)
          \/ Lossy /\ UNCHANGED <<bufVars, recorded, arrived>>
    BY <1>4 DEF SendPacket
  <2>5. CASE ReadRTP(pkt)
    <3>1. \E first, cur : Clocked(first, cur)'
      BY <1>1, <2>1, <2>3, <2>5, ReadInTime
    <3> QED
      BY <1>1, <2>1, <3>1 DEF Timed
  <2>6. CASE UNCHANGED <<bufVars, recorded, arrived>>
    <3>1. UNCHANGED <<bufVars, recorded>>
      BY <2>6
    <3>2. due' \in Int /\ due <= due'
      BY <1>1, <2>1, <2>3
    <3> QED
      BY <1>3, <2>1, <3>1, <3>2
  <2> QED
    BY <2>4, <2>5, <2>6
<1>5. CASE UNCHANGED vars
  <2>1. UNCHANGED <<bufVars, recorded>> /\ due' = due /\ ended' = ended
    BY <1>5 DEF vars
  <2>2. due' \in Int /\ due <= due'
    BY <1>1, <2>1
  <2> QED
    BY <1>3, <2>1, <2>2
<1> QED
  BY <1>2, <1>4, <1>5 DEF Next

\* No record is older than the parts in it.
LEMMA TimedOrders ==
  ASSUME Timed
  PROVE  TimesOrdered
<1>1. recorded \in Records(Parts, Times)
  BY DEF Timed, Kept
<1>2. CASE Unread
  BY <1>2 DEF Unread, TimesOrdered
<1>3. CASE \E first, cur : Clocked(first, cur)
  <2>1. PICK first, cur : Clocked(first, cur)
    BY <1>3
  <2>2. first \in Int /\ 1 <= first /\ ptsBase = Clock(first) /\ InOrder(recorded, first)
    BY <2>1 DEF Clocked
  <2>3. ASSUME NEW i \in DOMAIN recorded, NEW o \in DOMAIN recorded[i].obus,
               NEW k \in DOMAIN recorded[i].obus[o]
        PROVE  recorded[i].pts >= Normalized(Timestamp(recorded[i].obus[o][k]), ptsBase)
    <3> DEFINE t == recorded[i].pts
               obus == recorded[i].obus
               P == PartsOf(first, first + t)
               p == obus[o][k]
               S == Seq(P)
    <3>1. t \in Int /\ t \in Times
      BY <1>1, RecordTimes
    <3>2. obus \in Seq(S)
      BY <2>2 DEF InOrder
    <3>3. o \in DOMAIN obus /\ k \in DOMAIN obus[o]
      OBVIOUS
    <3> HIDE DEF t, obus
    <3>4. obus[o] \in S
      <4> HIDE DEF S
      <4> QED
        BY <3>2, <3>3
    <3>5. p \in P
      <4> HIDE DEF P
      <4> QED
        BY <3>3, <3>4
    <3>6. p \in Parts /\ first <= UnitOf(p) /\ UnitOf(p) <= first + t
      BY <3>5 DEF PartsOf
    <3> HIDE DEF p
    <3>7. p \in Int /\ 1 <= p
      <4>1. NumParts \in Int
        BY RtpAssumption DEF NumParts, UnitParts
      <4> QED
        BY <3>6, <4>1 DEF Parts
    <3> DEFINE u == UnitOf(p)
    <3>8. u \in Int
      BY <3>7, UnitBounds
    <3>9. Timestamp(p) = Clock(u)
      BY DEF Timestamp, Clock
    <3>10. first <= u /\ u <= first + t
      BY <3>6
    <3> HIDE DEF u
    <3>11. ClockMod \in Int /\ t <= ClockMod - 1
      BY <3>1, RtpAssumption DEF Times
    <3>12. u - first < ClockMod
      BY <2>2, <3>1, <3>8, <3>10, <3>11
    <3>13. Normalized(Clock(u), Clock(first)) = u - first
      BY <2>2, <3>8, <3>10, <3>12, ClockDifference
    <3>14. t >= u - first
      BY <2>2, <3>1, <3>8, <3>10
    <3> QED
      BY <2>2, <3>9, <3>13, <3>14 DEF t, p, obus
  <2> QED
    BY <2>2, <2>3 DEF InOrder, TimesOrdered
<1> QED
  BY <1>2, <1>3 DEF Timed

\* While the RTP clock does not go all the way round in one stream, the time
\* of each record is later than that of the record before it and no earlier
\* than that of any part in it, whatever is lost and wherever the clock wraps.
THEOREM TimesStayOrdered == ASSUME MaxTU <= ClockMod PROVE Spec => []TimesOrdered
<1> DEFINE Inv == Timed /\ ended \in BOOLEAN
<1>1. Init => Inv
  BY TimedInit DEF Init
<1>2. Inv /\ [Next]_vars => Inv'
  BY TimedStep
<1>3. Inv => TimesOrdered
  BY TimedOrders
<1> HIDE DEF Inv
<1> QED
  BY <1>1, <1>2, <1>3, PTL DEF Spec

-----------------------------------------------------------------------------
(* Whole units. *)

\* The OBUs number b + 1 to c of the stream, as they were sent.
Obus(b, c) == [o \in 1 .. (c - b) |-> Run((b + o - 1) * NParts + 1, (b + o) * NParts)]

\* The reader has all from the end of OBU b to part e, and nothing else: the
\* OBUs to number c, and the parts of the one after it in the open fragment.
Reached(x, b, e) ==
  \E c \in Int : /\ b <= c /\ c * NParts <= e /\ e < (c + 1) * NParts
                 /\ x = [tu |-> Obus(b, c), frag |-> Run(c * NParts + 1, e),
                         open |-> c * NParts < e]

\* A product of OBUs is ordered as the OBUs are.
LEMMA ObusCompare ==
  ASSUME NEW a \in Int, NEW c \in Int, a * NParts < c * NParts
  PROVE  a < c
<1> DEFINE N == NParts
<1>1. N \in Int /\ 1 <= N
  BY RtpAssumption
<1>2. a * N < c * N
  OBVIOUS
<1> HIDE DEF N
<1>3. CASE c <= a
  <2>1. c * N <= a * N
    BY <1>1, <1>3
  <2> DEFINE x == a * N
             y == c * N
  <2>2. x \in Int /\ y \in Int /\ x < y /\ y <= x
    BY <1>1, <1>2, <2>1
  <2> HIDE DEF x, y
  <2> QED
    BY <2>2
<1> QED
  BY <1>3

\* Products of OBUs are numbers, one OBU apart.
LEMMA ObuProducts ==
  ASSUME NEW c \in Int
  PROVE  /\ c * NParts \in Int
         /\ (c + 1) * NParts = c * NParts + NParts
         /\ (c - 1) * NParts = c * NParts - NParts
         /\ NParts \in Int /\ 1 <= NParts
<1> DEFINE N == NParts
<1>1. N \in Int /\ 1 <= N
  BY RtpAssumption
<1> HIDE DEF N
<1>2. c * N \in Int /\ (c + 1) * N = c * N + N /\ (c - 1) * N = c * N - N
  BY <1>1
<1> QED
  BY <1>1, <1>2 DEF N

\* No parts at all.
LEMMA RunEmpty ==
  ASSUME NEW i \in Int
  PROVE  Run(i + 1, i) = <<>>
<1> DEFINE l == i + 1
<1>1. l \in Int /\ l - 1 <= i /\ Spans(Int, l, i) /\ i - l + 1 = 0
  BY DEF Spans
<1> HIDE DEF l
<1>2. Run(l, i) \in Seq(Int) /\ Len(Run(l, i)) = i - l + 1
  BY <1>1, RunTyped
<1>3. Run(l, i) = <<>>
  <2> DEFINE r == Run(l, i)
  <2>1. r \in Seq(Int) /\ Len(r) = 0
    BY <1>1, <1>2
  <2> HIDE DEF r
  <2>2. r = <<>>
    BY <2>1
  <2> QED
    BY <2>2 DEF r
<1> QED
  BY <1>3 DEF l

\* The OBUs b + 1 to c are a sequence of their parts.
LEMMA ObusTyped ==
  ASSUME NEW b \in Int, NEW c \in Int, b <= c
  PROVE  /\ Obus(b, c) \in Seq(Seq(Int))
         /\ Len(Obus(b, c)) = c - b
         /\ \A o \in 1 .. (c - b) :
              Obus(b, c)[o] = Run((b + o - 1) * NParts + 1, (b + o) * NParts)
<1> DEFINE n == c - b
           s == Obus(b, c)
<1>1. n \in Nat
  OBVIOUS
<1>2. s = [o \in 1 .. n |-> Run((b + o - 1) * NParts + 1, (b + o) * NParts)]
  BY DEF Obus
<1>3. ASSUME NEW o \in 1 .. n PROVE Run((b + o - 1) * NParts + 1, (b + o) * NParts) \in Seq(Int)
  <2> DEFINE m == b + o
             i == (m - 1) * NParts + 1
             j == m * NParts
  <2>1. m \in Int
    BY <1>1
  <2>2. i \in Int /\ j \in Int /\ i - 1 <= j
    <3> HIDE DEF m
    <3>1. (m - 1) * NParts = m * NParts - NParts /\ m * NParts \in Int
          /\ NParts \in Int /\ 1 <= NParts
      BY <2>1, ObuProducts
    <3> DEFINE x == m * NParts
               y == (m - 1) * NParts
    <3>2. y = x - NParts /\ x \in Int /\ NParts \in Int /\ 1 <= NParts
      BY <3>1
    <3> HIDE DEF x, y
    <3>3. y + 1 \in Int /\ x \in Int /\ (y + 1) - 1 <= x
      BY <3>2
    <3> QED
      BY <3>3 DEF x, y
  <2> HIDE DEF i, j
  <2>3. Spans(Int, i, j)
    BY DEF Spans
  <2>4. Run(i, j) \in Seq(Int)
    BY <2>2, <2>3, RunTyped
  <2> QED
    BY <2>4 DEF i, j, m
<1> HIDE DEF n, s
<1>4. s \in [1 .. n -> Seq(Int)]
  BY <1>2, <1>3
<1>5. s \in Seq(Seq(Int)) /\ Len(s) = n
  BY <1>1, <1>4
<1>6. \A o \in 1 .. n : s[o] = Run((b + o - 1) * NParts + 1, (b + o) * NParts)
  BY <1>2
<1> QED
  BY <1>5, <1>6 DEF n, s

\* None, and one more.
LEMMA ObusGrow ==
  ASSUME NEW b \in Int, NEW c \in Int, b <= c
  PROVE  /\ Obus(b, b) = <<>>
         /\ Append(Obus(b, c), Run(c * NParts + 1, (c + 1) * NParts)) = Obus(b, c + 1)
<1>1. Obus(b, b) = <<>>
  <2> DEFINE s == Obus(b, b)
  <2>1. s \in Seq(Seq(Int)) /\ Len(s) = b - b
    BY ObusTyped
  <2> HIDE DEF s
  <2>2. s = <<>>
    BY <2>1
  <2> QED
    BY <2>2 DEF s
<1> DEFINE s == Obus(b, c)
           d == c + 1
           t == Obus(b, d)
           n == c - b
           x == Run(c * NParts + 1, (c + 1) * NParts)
           M(o) == Run((b + o - 1) * NParts + 1, (b + o) * NParts)
<1>2. s \in Seq(Seq(Int)) /\ Len(s) = n /\ \A o \in 1 .. n : s[o] = M(o)
  BY ObusTyped
<1>3. t \in Seq(Seq(Int)) /\ Len(t) = n + 1 /\ \A o \in 1 .. (n + 1) : t[o] = M(o)
  <2>1. d \in Int /\ b <= d /\ d - b = n + 1
    OBVIOUS
  <2> HIDE DEF d
  <2>2. t \in Seq(Seq(Int)) /\ Len(t) = d - b /\ \A o \in 1 .. (d - b) : t[o] = M(o)
    BY <2>1, ObusTyped
  <2> QED
    BY <2>1, <2>2
<1>4. x = M(n + 1)
  <2>1. b + (n + 1) - 1 = c /\ b + (n + 1) = c + 1
    OBVIOUS
  <2> QED
    BY <2>1
<1>5. n \in Nat
  OBVIOUS
<1>6. x \in Seq(Int)
  <2>1. t[n + 1] = x
    BY <1>3, <1>4, <1>5
  <2> HIDE DEF t, n, x
  <2> QED
    BY <1>3, <1>5, <2>1
<1> HIDE DEF s, t, n, x, M, d
<1>7. Append(s, x) \in Seq(Seq(Int)) /\ Len(Append(s, x)) = n + 1
  BY <1>2, <1>5, <1>6
<1>8. ASSUME NEW o \in 1 .. (n + 1) PROVE Append(s, x)[o] = t[o]
  <2>1. t[o] = M(o)
    BY <1>3
  <2>2. CASE o = n + 1
    <3>1. Append(s, x)[o] = x
      BY <1>2, <1>6, <2>2
    <3> QED
      BY <1>4, <2>1, <2>2, <3>1
  <2>3. CASE o # n + 1
    <3>1. o \in 1 .. n
      BY <1>5, <2>3
    <3>2. Append(s, x)[o] = s[o]
      BY <1>2, <1>6, <3>1
    <3> QED
      BY <1>2, <2>1, <3>1, <3>2
  <2> QED
    BY <2>2, <2>3
<1>9. Append(s, x) = t
  BY <1>3, <1>7, <1>8, SeqEqual
<1> QED
  BY <1>1, <1>9 DEF s, x, t, d

\* The OBU that holds the next part is known from the part's number.
LEMMA ReachedAt ==
  ASSUME NEW x, NEW b \in Int, NEW e \in Int, Reached(x, b, e),
         NEW c \in Int, c * NParts <= e, e < (c + 1) * NParts
  PROVE  /\ b <= c
         /\ x = [tu |-> Obus(b, c), frag |-> Run(c * NParts + 1, e), open |-> c * NParts < e]
<1>1. PICK d \in Int : /\ b <= d /\ d * NParts <= e /\ e < (d + 1) * NParts
                       /\ x = [tu |-> Obus(b, d), frag |-> Run(d * NParts + 1, e),
                               open |-> d * NParts < e]
  BY DEF Reached
<1>2. d < c + 1
  <2> DEFINE m == c + 1
             p == d * NParts
             q == m * NParts
  <2>1. m \in Int /\ p \in Int /\ q \in Int /\ p <= e /\ e < q
    BY <1>1, ObuProducts
  <2>2. p < q
    <3> HIDE DEF p, q, m
    <3> QED
      BY <2>1
  <2> HIDE DEF m
  <2>3. d < m
    BY <2>1, <2>2, ObusCompare
  <2> QED
    BY <2>3 DEF m
<1>3. c < d + 1
  <2> DEFINE m == d + 1
             p == c * NParts
             q == m * NParts
  <2>1. m \in Int /\ p \in Int /\ q \in Int /\ p <= e /\ e < q
    BY <1>1, ObuProducts
  <2>2. p < q
    <3> HIDE DEF p, q, m
    <3> QED
      BY <2>1
  <2> HIDE DEF m
  <2>3. c < m
    BY <2>1, <2>2, ObusCompare
  <2> QED
    BY <2>3 DEF m
<1>4. d = c
  BY <1>1, <1>2, <1>3
<1> QED
  BY <1>1, <1>4

\* Between OBUs nothing is open; inside one the parts of it that were sent are.
LEMMA ReachedInside ==
  ASSUME NEW x, NEW b \in Int, NEW c \in Int, NEW e \in Int, Reached(x, b, e),
         c * NParts <= e, e < (c + 1) * NParts
  PROVE  /\ b <= c
         /\ x.tu = Obus(b, c) /\ x.frag = Run(c * NParts + 1, e)
         /\ x.open \in BOOLEAN /\ (x.open <=> e # c * NParts)
         /\ x = [tu |-> x.tu, frag |-> x.frag, open |-> x.open]
<1>1. /\ b <= c
      /\ x = [tu |-> Obus(b, c), frag |-> Run(c * NParts + 1, e), open |-> c * NParts < e]
  BY ReachedAt
<1> DEFINE p == c * NParts
           f == Run(p + 1, e)
           t == Obus(b, c)
<1>2. p \in Int /\ p <= e
  BY ObuProducts
<1>3. x = [tu |-> t, frag |-> f, open |-> p < e]
  BY <1>1
<1> HIDE DEF p, f, t
<1>4. x.tu = t /\ x.frag = f /\ (x.open <=> p < e) /\ x.open \in BOOLEAN
  <2> DEFINE o == p < e
  <2>1. o \in BOOLEAN /\ (o <=> p < e)
    OBVIOUS
  <2>2. x = [tu |-> t, frag |-> f, open |-> o]
    BY <1>3
  <2> HIDE DEF o
  <2>3. x.tu = t /\ x.frag = f /\ x.open = o
    BY <2>2
  <2> QED
    BY <2>1, <2>3
<1>5. (p < e) <=> e # p
  BY <1>2
<1>6. x.open \in BOOLEAN /\ (x.open <=> e # p)
  BY <1>4, <1>5
<1>7. x = [tu |-> x.tu, frag |-> x.frag, open |-> x.open]
  BY <1>3
<1> QED
  BY <1>1, <1>4, <1>6, <1>7 DEF p, f, t

\* Buffers with an open fragment, and without one.
Holding(tu, frag) == [tu |-> tu, frag |-> frag, open |-> TRUE]
Closed(tu) == [tu |-> tu, frag |-> <<>>, open |-> FALSE]

\* What is in open and in closed buffers.
LEMMA BufferFields ==
  ASSUME NEW t, NEW f
  PROVE  /\ Holding(t, f).tu = t /\ Holding(t, f).frag = f /\ Holding(t, f).open
         /\ Closed(t).tu = t /\ Closed(t).frag = <<>> /\ ~Closed(t).open
BY DEF Holding, Closed

\* Open and closed buffers after a change.
LEMMA BuffersChanged ==
  ASSUME NEW t, NEW f, NEW x
  PROVE  /\ [Holding(t, f) EXCEPT !.frag = x] = Holding(t, x)
         /\ [Closed(t) EXCEPT !.tu = x] = Closed(x)
         /\ CloseFragment(Holding(t, f)) = Closed(Append(t, f))
         /\ CloseFragment(Closed(t)) = Closed(t)
<1>1. [Holding(t, f) EXCEPT !.frag = x] = Holding(t, x)
  <2> DEFINE b == Holding(t, f)
             o == TRUE
  <2>1. b = [tu |-> t, frag |-> f, open |-> o]
    BY DEF Holding
  <2> HIDE DEF b, o
  <2>2. [b EXCEPT !.frag = x] = [tu |-> t, frag |-> x, open |-> o]
    BY <2>1, FieldsChanged
  <2> QED
    BY <2>2 DEF b, o, Holding
<1>2. [Closed(t) EXCEPT !.tu = x] = Closed(x)
  <2> DEFINE b == Closed(t)
             o == FALSE
             e == <<>>
  <2>1. b = [tu |-> t, frag |-> e, open |-> o]
    BY DEF Closed
  <2> HIDE DEF b, o, e
  <2>2. [b EXCEPT !.tu = x] = [tu |-> x, frag |-> e, open |-> o]
    BY <2>1, FieldsChanged
  <2> QED
    BY <2>2 DEF b, o, e, Closed
<1>3. CloseFragment(Holding(t, f)) = Closed(Append(t, f))
  <2> DEFINE b == Holding(t, f)
  <2>1. b.tu = t /\ b.frag = f /\ b.open
    BY BufferFields
  <2> HIDE DEF b
  <2>2. CloseFragment(b) = [tu |-> Append(t, f), frag |-> <<>>, open |-> FALSE]
    BY <2>1 DEF CloseFragment
  <2> QED
    BY <2>2 DEF b, Closed
<1>4. CloseFragment(Closed(t)) = Closed(t)
  BY BufferFields DEF CloseFragment
<1> QED
  BY <1>1, <1>2, <1>3, <1>4

\* What is reached inside OBU c + 1, and at its end.
LEMMA ReachedMade ==
  ASSUME NEW b \in Int, NEW c \in Int, b <= c, NEW e \in Int
  PROVE  /\ c * NParts < e /\ e < (c + 1) * NParts =>
              Reached(Holding(Obus(b, c), Run(c * NParts + 1, e)), b, e)
         /\ e = (c + 1) * NParts =>
              Reached(Closed(Append(Obus(b, c), Run(c * NParts + 1, e))), b, e)
         /\ Reached(Closed(Obus(b, c)), b, c * NParts)
<1>1. ASSUME NEW d \in Int, b <= d
      PROVE  Reached(Closed(Obus(b, d)), b, d * NParts)
  <2> DEFINE p == d * NParts
             q == (d + 1) * NParts
  <2>1. p \in Int /\ q = p + NParts /\ NParts \in Int /\ 1 <= NParts
    BY ObuProducts
  <2>2. p <= p /\ p < q /\ ~(p < p)
    <3> HIDE DEF p, q
    <3> QED
      BY <2>1
  <2>3. Run(p + 1, p) = <<>>
    <3> HIDE DEF p
    <3> QED
      BY <2>1, RunEmpty
  <2>4. (p < p) = FALSE
    BY <2>2
  <2>5. Closed(Obus(b, d)) = [tu |-> Obus(b, d), frag |-> Run(p + 1, p), open |-> p < p]
    BY <2>3, <2>4 DEF Closed
  <2> QED
    BY <1>1, <2>2, <2>5 DEF Reached
<1>2. ASSUME c * NParts < e, e < (c + 1) * NParts
      PROVE  Reached(Holding(Obus(b, c), Run(c * NParts + 1, e)), b, e)
  <2>1. c * NParts <= e
    <3> DEFINE p == c * NParts
    <3>1. p \in Int /\ p < e
      BY <1>2, ObuProducts
    <3> HIDE DEF p
    <3>2. p <= e
      BY <3>1
    <3> QED
      BY <3>2 DEF p
  <2>2. (c * NParts < e) = TRUE
    BY <1>2
  <2> QED
    BY <1>2, <2>1, <2>2 DEF Reached, Holding
<1>3. ASSUME e = (c + 1) * NParts
      PROVE  Reached(Closed(Append(Obus(b, c), Run(c * NParts + 1, e))), b, e)
  <2>1. Append(Obus(b, c), Run(c * NParts + 1, e)) = Obus(b, c + 1)
    BY <1>3, ObusGrow
  <2> DEFINE d == c + 1
  <2>2. d \in Int /\ b <= d /\ e = d * NParts
    BY <1>3
  <2> HIDE DEF d
  <2>3. Reached(Closed(Obus(b, d)), b, e)
    BY <1>1, <2>2
  <2> QED
    BY <2>1, <2>3 DEF d
<1> QED
  BY <1>1, <1>2, <1>3

GoesOn(pkt, k) == pkt.w > 0 /\ k = pkt.w /\ pkt.y

\* An element that continues the open fragment.
LEMMA FragmentJoined ==
  ASSUME NEW p \in Int, NEW m \in Int, NEW e \in Int, p <= m, m <= e,
         NEW t, NEW x, x = Holding(t, Run(p + 1, m)),
         NEW pkt, NEW k, k = 1, pkt.z, pkt.elems[k] = Run(m + 1, e)
  PROVE  TakeElement(pkt, x, k) =
           IF GoesOn(pkt, k)
           THEN Holding(t, Run(p + 1, e))
           ELSE Closed(Append(t, Run(p + 1, e)))
<1> DEFINE elem == pkt.elems[k]
           f == Run(p + 1, e)
           longer == [x EXCEPT !.frag = @ \o elem]
<1>1. Run(p + 1, m) \o Run(m + 1, e) = f
  <2> DEFINE l == p + 1
  <2>1. l \in Int /\ l - 1 <= m
    OBVIOUS
  <2> HIDE DEF l
  <2>2. Run(l, m) \o Run(m + 1, e) = Run(l, e)
    BY <2>1, RunsJoin
  <2> QED
    BY <2>2 DEF l
<1>2. x.frag = Run(p + 1, m) /\ x.open
  BY BufferFields
<1>3. longer = Holding(t, f)
  <2> DEFINE g == Run(p + 1, m)
  <2>1. longer = [x EXCEPT !.frag = f]
    BY <1>1, <1>2
  <2>2. x = Holding(t, g)
    OBVIOUS
  <2> HIDE DEF f, g
  <2>3. [x EXCEPT !.frag = f] = Holding(t, f)
    BY <2>2, BuffersChanged
  <2> QED
    BY <2>1, <2>3
<1>4. TakeElement(pkt, x, k) = IF GoesOn(pkt, k) THEN longer ELSE CloseFragment(longer)
  BY <1>2 DEF TakeElement, GoesOn
<1>5. CloseFragment(longer) = Closed(Append(t, f))
  <2> HIDE DEF longer, f
  <2> QED
    BY <1>3, BuffersChanged
<1> QED
  BY <1>3, <1>4, <1>5

\* An element while nothing is open.
LEMMA ElementBegun ==
  ASSUME NEW t, NEW x, x = Closed(t),
         NEW pkt, NEW k, NEW f, pkt.elems[k] = f
  PROVE  TakeElement(pkt, x, k) =
           IF GoesOn(pkt, k)
           THEN Holding(t, f)
           ELSE Closed(Append(t, f))
<1>1. x.tu = t /\ ~x.open
  BY BufferFields
<1>2. CloseFragment(x) = x
  BY BuffersChanged
<1> DEFINE y == Append(t, f)
<1>3. CASE GoesOn(pkt, k)
  <2>1. TakeElement(pkt, x, k) = [tu |-> t, frag |-> f, open |-> TRUE]
    BY <1>1, <1>2, <1>3 DEF TakeElement, GoesOn
  <2> QED
    BY <1>3, <2>1 DEF Holding
<1>4. CASE ~GoesOn(pkt, k)
  <2>1. TakeElement(pkt, x, k) = [x EXCEPT !.tu = y]
    BY <1>1, <1>2, <1>4 DEF TakeElement, GoesOn
  <2>2. [x EXCEPT !.tu = y] = Closed(y)
    <3> HIDE DEF y
    <3> QED
      BY BuffersChanged
  <2> QED
    BY <1>4, <2>1, <2>2
<1> QED
  BY <1>3, <1>4

\* An element of OBU c + 1 is put where it belongs: joined to the open fragment,
\* kept as one, or taken as an OBU.
LEMMA ElementTaken ==
  ASSUME NEW b \in Int, NEW c \in Int, NEW s \in Int, NEW e \in Int,
         c * NParts < s, s <= e, e <= (c + 1) * NParts,
         NEW x, Reached(x, b, s - 1),
         NEW pkt, NEW k, pkt.elems[k] = Run(s, e),
         s # c * NParts + 1 => k = 1 /\ pkt.z,
         GoesOn(pkt, k) <=> e # (c + 1) * NParts
  PROVE  Reached(TakeElement(pkt, x, k), b, e)
<1> DEFINE p == c * NParts
           q == (c + 1) * NParts
           t == Obus(b, c)
           m == s - 1
<1>1. p \in Int /\ q = p + NParts /\ NParts \in Int /\ 1 <= NParts
  BY ObuProducts
<1>2. m \in Int /\ p <= m /\ m < e /\ e <= q /\ m < q /\ p < e /\ s = m + 1
  <2> HIDE DEF p, q
  <2>1. p < s /\ s <= e /\ e <= q
    BY DEF p, q
  <2> QED
    BY <1>1, <2>1
<1>3. /\ b <= c
      /\ x.tu = t /\ x.frag = Run(p + 1, m)
      /\ x.open \in BOOLEAN /\ (x.open <=> m # p)
      /\ x = [tu |-> x.tu, frag |-> x.frag, open |-> x.open]
  <2> HIDE DEF m
  <2>1. Reached(x, b, m) /\ c * NParts <= m /\ m < (c + 1) * NParts
    BY <1>2 DEF m
  <2> QED
    BY <1>2, <2>1, ReachedInside
<1>4. /\ p < e /\ e < q =>
           Reached(Holding(t, Run(p + 1, e)), b, e)
      /\ e = q =>
           Reached(Closed(Append(t, Run(p + 1, e))), b, e)
  BY <1>3, ReachedMade
<1>5. e # q => p < e /\ e < q
  <2> HIDE DEF p, q
  <2> QED
    BY <1>1, <1>2
<1>6. TakeElement(pkt, x, k) =
        IF GoesOn(pkt, k)
        THEN Holding(t, Run(p + 1, e))
        ELSE Closed(Append(t, Run(p + 1, e)))
  <2>1. CASE m # p
    <3>1. k = 1 /\ pkt.z
      <4>1. s # p + 1
        <5> HIDE DEF p, m
        <5> QED
          BY <1>1, <1>2, <2>1
      <4> QED
        BY <4>1
    <3>2. x = Holding(t, Run(p + 1, m))
      <4>1. x.open = TRUE
        BY <1>3, <2>1
      <4> QED
        BY <1>3, <4>1 DEF Holding
    <3>3. p \in Int /\ m \in Int /\ p <= m /\ m <= e /\ pkt.elems[k] = Run(m + 1, e)
      <4>1. pkt.elems[k] = Run(m + 1, e)
        BY <1>2
      <4>2. m <= e
        BY <1>2
      <4> QED
        BY <1>1, <1>2, <4>1, <4>2
    <3> HIDE DEF p, m, t
    <3> QED
      BY <3>1, <3>2, <3>3, FragmentJoined
  <2>2. CASE m = p
    <3>1. x = Closed(t)
      <4>1. x.open = FALSE
        BY <1>3, <2>2
      <4>2. Run(p + 1, p) = <<>>
        <5> HIDE DEF p
        <5> QED
          BY <1>1, RunEmpty
      <4> QED
        BY <1>3, <2>2, <4>1, <4>2 DEF Closed
    <3> DEFINE f == Run(p + 1, e)
    <3>2. pkt.elems[k] = f
      BY <1>2, <2>2
    <3> HIDE DEF f, t
    <3>3. TakeElement(pkt, x, k) =
            IF GoesOn(pkt, k)
            THEN Holding(t, f)
            ELSE Closed(Append(t, f))
      BY <3>1, <3>2, ElementBegun
    <3> QED
      BY <3>3 DEF f
  <2> QED
    BY <2>1, <2>2
<1>7. CASE GoesOn(pkt, k)
  BY <1>4, <1>5, <1>6, <1>7
<1>8. CASE ~GoesOn(pkt, k)
  BY <1>4, <1>6, <1>8
<1> QED
  BY <1>7, <1>8

\* Element k is of the OBU after number c, whole but for the packet's ends.
Inside(i, j, k, c, s, e) ==
  /\ c * NParts < s /\ s <= e /\ e <= (c + 1) * NParts
  /\ s # c * NParts + 1 => k = 1 /\ s = i
  /\ e # (c + 1) * NParts => ObuOf(i) + k - 1 = ObuOf(j)
  /\ ObuOf(i) + k - 1 = ObuOf(j) => e = j

\* An element lies within its packet and within its OBU.
LEMMA ElementInside ==
  ASSUME NEW i \in Int, NEW j \in Int, 1 <= i, i <= j,
         NEW k \in 1 .. (ObuOf(j) - ObuOf(i) + 1)
  PROVE  /\ ElementEnd(i, j, k - 1) \in Int /\ ElementEnd(i, j, k) \in Int
         /\ Inside(i, j, k, ObuOf(i) + k - 2, ElementEnd(i, j, k - 1) + 1, ElementEnd(i, j, k))
<1> DEFINE a == ObuOf(i)
           z == ObuOf(j)
           c == a + k - 2
           d == c + 1
           p == c * NParts
           q == d * NParts
           s == ElementEnd(i, j, k - 1)
           e == ElementEnd(i, j, k)
<1>1. /\ a \in Int /\ z \in Int /\ 1 <= a /\ a <= z
      /\ (a - 1) * NParts < i /\ i <= a * NParts
      /\ (z - 1) * NParts < j /\ j <= z * NParts
  BY ObuBounds, ObuMonotone
<1>2. k \in Int /\ 1 <= k /\ c \in Int /\ d = a + k - 1 /\ d \in Int /\ a <= d /\ d <= z
  BY <1>1
<1>3. p \in Int /\ q = p + NParts /\ NParts \in Int /\ 1 <= NParts
  BY <1>2, ObuProducts
<1>4. e = IF d = z THEN j ELSE q
  BY <1>2 DEF ElementEnd
<1>5. s = IF d = a THEN i - 1 ELSE p
  <2>1. CASE k = 1
    <3>1. d = a /\ k - 1 = 0
      BY <1>1, <1>2, <2>1
    <3> QED
      BY <3>1 DEF ElementEnd
  <2>2. CASE k # 1
    <3>1. d # a /\ k - 1 # 0 /\ a + (k - 1) - 1 = c /\ c # z
      BY <1>1, <1>2, <2>2
    <3> DEFINE l == k - 1
               b == a + l - 1
    <3>2. l # 0 /\ b # z /\ b = c
      BY <3>1
    <3> HIDE DEF l, c, d
    <3>3. ElementEnd(i, j, l) = b * NParts
      BY <3>2 DEF ElementEnd
    <3> QED
      BY <3>1, <3>2, <3>3 DEF l
  <2> QED
    BY <2>1, <2>2
<1>6. d = a => p < i /\ i <= q
  <2>1. d = a => c = a - 1
    BY <1>1, <1>2
  <2> QED
    BY <1>1, <2>1
<1>7. d = z => p < j /\ j <= q
  <2>1. d = z => c = z - 1
    BY <1>1, <1>2
  <2> QED
    BY <1>1, <2>1
<1>8. d # z => q < j
  <2>1. d # z => d < z
    BY <1>1, <1>2
  <2> HIDE DEF d
  <2> QED
    BY <1>2, <2>1, ObuEnds
<1>9. d = a => k = 1
  BY <1>1, <1>2
<1> HIDE DEF a, z, c, d, p, q, s, e
<1>10. s \in Int /\ e \in Int
  BY <1>3, <1>4, <1>5
<1>11. p < s + 1 /\ s + 1 <= e /\ e <= q
  <2>1. p < s + 1
    BY <1>3, <1>5, <1>6
  <2>2. e <= q
    BY <1>3, <1>4, <1>7
  <2>3. s + 1 <= e
    <3>1. CASE d = a
      <4>1. s + 1 = i
        BY <1>5, <3>1
      <4>2. CASE d = z
        BY <1>4, <4>1, <4>2
      <4>3. CASE d # z
        BY <1>3, <1>4, <1>6, <3>1, <4>1, <4>3
      <4> QED
        BY <4>2, <4>3
    <3>2. CASE d # a
      <4>1. s = p
        BY <1>5, <3>2
      <4>2. CASE d = z
        BY <1>3, <1>4, <1>7, <4>1, <4>2
      <4>3. CASE d # z
        BY <1>3, <1>4, <4>1, <4>3
      <4> QED
        BY <4>2, <4>3
    <3> QED
      BY <3>1, <3>2
  <2> QED
    BY <2>1, <2>2, <2>3
<1>12. s + 1 # p + 1 => k = 1 /\ s + 1 = i
  BY <1>3, <1>5, <1>9, <1>10
<1>13. (e # q => d = z) /\ (d = z => e = j)
  BY <1>4
<1> QED
  BY <1>2, <1>10, <1>11, <1>12, <1>13 DEF Inside, a, z, c, d, p, q, s, e

\* A packet has an element for each OBU it touches.
LEMMA ElementsCounted ==
  ASSUME NEW i \in Int, NEW j \in Int, 1 <= i, i <= j
  PROVE  Elements(i, j) \in Seq(Seq(Int)) /\ Len(Elements(i, j)) = ObuOf(j) - ObuOf(i) + 1
<1> DEFINE s == Elements(i, j)
           n == ObuOf(j) - ObuOf(i) + 1
<1>1. n \in Nat
  BY ObuBounds, ObuMonotone
<1>2. s \in Seq(Seq(Int))
  BY ElementsFlat DEF Spans
<1>3. DOMAIN s = 1 .. n
  BY DEF Elements
<1> HIDE DEF s, n
<1>4. DOMAIN s = 1 .. Len(s) /\ Len(s) \in Nat
  BY <1>2
<1>5. Len(s) = n
  BY <1>1, <1>3, <1>4
<1> QED
  BY <1>2, <1>5 DEF s, n

\* A packet of no more than three OBUs tells the last of its elements.
LEMMA PacketCounted ==
  ASSUME ~Legacy, NEW i, NEW j, NEW n \in Int, n = Len(Elements(i, j)), n <= 3,
         NEW pkt \in Packets(i, j)
  PROVE  pkt.w = n /\ (pkt.z <=> ~StartsObu(i)) /\ (pkt.y <=> ~EndsObu(j))
<1> DEFINE E == Elements(i, j)
           W == (IF Len(E) <= 3 THEN {Len(E)} ELSE {})
                  \cup (IF Legacy \/ Len(E) > 3 THEN {0} ELSE {})
           N == IF i = 1 THEN {TRUE} ELSE IF StartsUnit(i) THEN BOOLEAN ELSE {FALSE}
           Z == ~StartsObu(i)
           Y == ~EndsObu(j)
           M == EndsUnit(j)
           T == Timestamp(i)
<1>1. Packets(i, j) = {[elems |-> E, z |-> Z, y |-> Y, w |-> w, n |-> l, marker |-> M,
                        timestamp |-> T] : w \in W, l \in N}
  BY DEF Packets
<1>2. \A w \in W : w = n
  <2>1. W = {n}
    BY DEF W
  <2> HIDE DEF W
  <2> QED
    BY <2>1
<1> HIDE DEF E, W, N, Z, Y, M, T
<1>3. PICK w \in W, l \in N :
        pkt = [elems |-> E, z |-> Z, y |-> Y, w |-> w, n |-> l, marker |-> M, timestamp |-> T]
  BY <1>1
<1>4. pkt.w = w /\ pkt.z = Z /\ pkt.y = Y
  BY <1>3
<1> QED
  BY <1>2, <1>4 DEF Z, Y

\* Where OBUs start and end.
LEMMA ObuStarts ==
  ASSUME NEW p \in Int, NEW c \in Int
  PROVE  /\ c * NParts < p /\ p <= (c + 1) * NParts =>
              (StartsObu(p) <=> p = c * NParts + 1)
         /\ c * NParts < p /\ p <= (c + 1) * NParts =>
              (EndsObu(p) <=> p = (c + 1) * NParts)
<1> DEFINE N == NParts
           l == c * N
           h == (c + 1) * N
<1>1. l \in Int /\ h = l + N /\ N \in Int /\ 1 <= N
  BY ObuProducts
<1>2. \A r \in Int : 0 <= r /\ r < N => (l + r) % N = r
  <2> HIDE DEF N
  <2>1. ASSUME NEW r \in Int, 0 <= r, r < N PROVE (c * N + r) % N = r
    BY <1>1, <2>1
  <2> QED
    BY <2>1
<1>3. h % N = 0
  <2> HIDE DEF N
  <2>1. ((c + 1) * N) % N = 0
    BY <1>1
  <2> QED
    BY <2>1
<1>4. ASSUME l < p, p <= h PROVE StartsObu(p) <=> p = l + 1
  <2> DEFINE r == p - l - 1
  <2>1. r \in Int /\ 0 <= r /\ r < N /\ p - 1 = l + r /\ (r = 0 <=> p = l + 1)
    <3> HIDE DEF l, h, N
    <3> QED
      BY <1>1, <1>4
  <2> HIDE DEF r, l, h, N
  <2>2. (p - 1) % N = r
    BY <1>2, <2>1
  <2> QED
    BY <2>1, <2>2 DEF StartsObu, N
<1>5. ASSUME l < p, p <= h PROVE EndsObu(p) <=> p = h
  <2>1. CASE p = h
    BY <1>3, <2>1 DEF EndsObu
  <2>2. CASE p # h
    <3> DEFINE r == p - l
    <3>1. r \in Int /\ 0 <= r /\ r < N /\ p = l + r /\ r # 0
      <4> HIDE DEF l, h, N
      <4> QED
        BY <1>1, <1>5, <2>2
    <3> HIDE DEF r, l, N
    <3>2. p % N = r
      BY <1>2, <3>1
    <3> QED
      BY <2>2, <3>1, <3>2 DEF EndsObu, N
  <2> QED
    BY <2>1, <2>2
<1> QED
  BY <1>4, <1>5

\* A packet read where the sender sends it takes the reader as far as it goes.
LEMMA PacketTaken ==
  ASSUME ~Legacy, NEW i \in Int, NEW j \in Int, 1 <= i, i <= j,
         ObuOf(j) - ObuOf(i) + 1 <= 3, NEW pkt \in Packets(i, j),
         NEW P, Spans(P, i, j), NEW x \in Tidy(P), NEW b \in Int, Reached(x, b, i - 1)
  PROVE  Reached(TakeElements(pkt, x), b, j)
<1> DEFINE a == ObuOf(i)
           z == ObuOf(j)
           n == z - a + 1
           End(k) == ElementEnd(i, j, k)
<1>1. a \in Int /\ z \in Int /\ 1 <= a /\ a <= z /\ n \in Nat /\ n \in Int /\ 1 <= n
  BY ObuBounds, ObuMonotone
<1>2. /\ pkt.elems = Elements(i, j) /\ Len(pkt.elems) = n
      /\ pkt.elems \in Seq(Seq(P))
  <2>1. pkt.elems = Elements(i, j)
    BY PacketFields
  <2>2. Elements(i, j) \in Seq(Seq(P))
    BY ElementsFlat
  <2>3. Len(Elements(i, j)) = n
    BY ElementsCounted
  <2> QED
    BY <2>1, <2>2, <2>3
<1>3. pkt.w = n /\ (pkt.z <=> ~StartsObu(i)) /\ (pkt.y <=> ~EndsObu(j))
  <2>1. n = Len(Elements(i, j)) /\ n <= 3
    BY <1>2
  <2> HIDE DEF n
  <2> QED
    BY <1>1, <2>1, PacketCounted
<1>4. PICK taken : /\ TakeElements(pkt, x) = taken[n]
                   /\ taken[0] = x
                   /\ \A k \in 1 .. n : taken[k] = TakeElement(pkt, taken[k - 1], k)
  <2>1. pkt.elems \in Seq(Seq(P)) /\ Len(pkt.elems) = n
    BY <1>2
  <2>2. PICK taken : /\ TakeElements(pkt, x) = taken[Len(pkt.elems)]
                     /\ taken[0] = x
                     /\ \A k \in 1 .. Len(pkt.elems) :
                          taken[k] = TakeElement(pkt, taken[k - 1], k)
    BY <2>1, TakenRuns
  <2> HIDE DEF n
  <2> QED
    BY <2>1, <2>2
<1> DEFINE T == {k \in 0 .. n : Reached(taken[k], b, End(k))}
<1>5. 0 \in T
  BY <1>1, <1>4 DEF ElementEnd
<1>6. ASSUME NEW l \in T, l < n PROVE l + 1 \in T
  <2> DEFINE k == l + 1
             c == a + k - 2
             s == End(k - 1) + 1
             e == End(k)
  <2>1. k \in 1 .. n /\ k \in Int /\ l = k - 1 /\ c \in Int
    BY <1>1, <1>6
  <2> HIDE DEF k
  <2>2. s \in Int /\ e \in Int /\ s - 1 = End(k - 1) /\ Inside(i, j, k, c, s, e)
    <3> DEFINE m == End(k - 1)
    <3> HIDE DEF T
    <3>1. m \in Int /\ e \in Int /\ Inside(i, j, k, c, m + 1, e)
      BY <2>1, ElementInside
    <3> HIDE DEF m, e
    <3>2. m + 1 \in Int /\ (m + 1) - 1 = m
      BY <3>1
    <3> QED
      BY <3>1, <3>2 DEF m
  <2>3. pkt.elems[k] = Run(s, e)
    <3> HIDE DEF T
    <3>1. Elements(i, j)[k] = Run(s, e)
      BY <2>1, ElementIs
    <3> QED
      BY <1>2, <3>1
  <2>4. Reached(taken[k - 1], b, s - 1)
    BY <2>1, <2>2
  <2>5. taken[k] = TakeElement(pkt, taken[k - 1], k)
    BY <1>4, <2>1
  <2> HIDE DEF n, c, s, e, T, End
  <2>6. c * NParts < s /\ s <= e /\ e <= (c + 1) * NParts
    BY <2>2 DEF Inside
  <2>7. s # c * NParts + 1 => k = 1 /\ pkt.z
    <3> SUFFICES ASSUME s # c * NParts + 1 PROVE k = 1 /\ pkt.z
      OBVIOUS
    <3>1. k = 1 /\ s = i
      BY <2>2 DEF Inside
    <3>2. s <= (c + 1) * NParts
      <4> DEFINE h == (c + 1) * NParts
      <4>1. h \in Int /\ s <= e /\ e <= h
        BY <2>1, <2>6, ObuProducts
      <4> HIDE DEF h
      <4>2. s <= h
        BY <2>2, <4>1
      <4> QED
        BY <4>2 DEF h
    <3>3. ~StartsObu(s)
      BY <2>1, <2>2, <2>6, <3>2, ObuStarts
    <3> QED
      BY <1>3, <3>1, <3>3
  <2>8. GoesOn(pkt, k) <=> e # (c + 1) * NParts
    <3>1. k = n <=> a + k - 1 = z
      BY <1>1, <2>1 DEF n
    <3>2. GoesOn(pkt, k) <=> k = n /\ ~EndsObu(j)
      <4>1. pkt.w = n /\ n > 0 /\ (pkt.y <=> ~EndsObu(j))
        BY <1>1, <1>3
      <4> QED
        BY <4>1 DEF GoesOn
    <3>3. (e # (c + 1) * NParts => k = n) /\ (k = n => e = j)
      BY <2>2, <3>1 DEF Inside
    <3>4. c * NParts < e
      <4> DEFINE h == c * NParts
      <4>1. h \in Int /\ h < s /\ s <= e
        BY <2>1, <2>6, ObuProducts
      <4> HIDE DEF h
      <4>2. h < e
        BY <2>2, <4>1
      <4> QED
        BY <4>2 DEF h
    <3>5. EndsObu(e) <=> e = (c + 1) * NParts
      BY <2>1, <2>2, <2>6, <3>4, ObuStarts
    <3> QED
      BY <3>2, <3>3, <3>5
  <2>9. Reached(TakeElement(pkt, taken[k - 1], k), b, e)
    <3> DEFINE y == taken[k - 1]
    <3>1. Reached(y, b, s - 1)
      BY <2>4
    <3> HIDE DEF y
    <3>2. Reached(TakeElement(pkt, y, k), b, e)
      BY <2>1, <2>2, <2>3, <2>6, <2>7, <2>8, <3>1, ElementTaken
    <3> QED
      BY <3>2 DEF y
  <2>10. k \in 0 .. n
    BY <1>1, <2>1
  <2> QED
    BY <2>5, <2>9, <2>10 DEF T, e, k
<1>7. n \in T
  <2>1. T \in SUBSET (0 .. n)
    OBVIOUS
  <2> HIDE DEF T, n
  <2>2. T = 0 .. n
    BY <1>1, <1>5, <1>6, <2>1, BoundedInduction
  <2> QED
    BY <1>1, <2>2
<1>8. End(n) = j
  BY <1>1 DEF ElementEnd
<1> QED
  BY <1>4, <1>7, <1>8

\* Units as OBUs.
LEMMA UnitProducts ==
  ASSUME NEW u \in Int
  PROVE  /\ u * UnitParts \in Int /\ u * NObus \in Int
         /\ (u - 1) * UnitParts = u * UnitParts - UnitParts
         /\ (u - 1) * NObus = u * NObus - NObus
         /\ UnitParts \in Int /\ 1 <= UnitParts /\ NObus \in Int /\ 1 <= NObus
         /\ (u * NObus) * NParts = u * UnitParts
<1> DEFINE N == NParts
           M == NObus
           U == UnitParts
<1>1. N \in Int /\ 1 <= N /\ M \in Int /\ 1 <= M /\ U = N * M
  BY RtpAssumption DEF UnitParts
<1>2. U \in Int /\ 1 <= U
  <2> HIDE DEF N, M, U
  <2> QED
    BY <1>1
<1> HIDE DEF N, M, U
<1>3. u * M \in Int /\ (u - 1) * M = u * M - M
  BY <1>1
<1>4. u * U \in Int /\ (u - 1) * U = u * U - U
  BY <1>2
<1>5. (u * M) * N = u * U
  BY <1>1
<1> QED
  BY <1>1, <1>2, <1>3, <1>4, <1>5 DEF N, M, U

\* The unit whose ends a part lies between is its own.
LEMMA UnitIs ==
  ASSUME NEW p \in Int, 1 <= p, NEW u \in Int,
         (u - 1) * UnitParts < p, p <= u * UnitParts
  PROVE  UnitOf(p) = u
<1> DEFINE v == UnitOf(p)
           w == v - 1
           t == u - 1
           au == u * UnitParts
           at == t * UnitParts
           av == v * UnitParts
           aw == w * UnitParts
<1>1. v \in Int /\ aw < p /\ p <= av
  BY UnitBounds
<1>2. w \in Int /\ t \in Int /\ at < p /\ p <= au
  BY <1>1
<1> HIDE DEF v
<1>3. au \in Int /\ at \in Int /\ av \in Int /\ aw \in Int
  <2> HIDE DEF w, t
  <2> QED
    BY <1>1, <1>2, UnitProducts
<1>4. at < av /\ aw < au
  <2> HIDE DEF au, at, av, aw, w, t
  <2> QED
    BY <1>1, <1>2, <1>3
<1>5. t < v /\ w < u
  <2> HIDE DEF w, t
  <2> QED
    BY <1>1, <1>2, <1>4, UnitsCompare
<1>6. v = u
  BY <1>1, <1>5
<1> QED
  BY <1>6 DEF v

\* The OBUs of a unit are a whole unit.
LEMMA UnitWhole ==
  ASSUME NEW u \in Int
  PROVE  /\ Obus((u - 1) * NObus, u * NObus) = Whole(u)
         /\ Whole(u) # <<>>
<1> DEFINE b == (u - 1) * NObus
           c == u * NObus
           t == u - 1
<1>1. /\ b \in Int /\ c = b + NObus /\ NObus \in Int /\ 1 <= NObus
      /\ b * NParts = t * UnitParts /\ t * UnitParts \in Int
  <2>1. t \in Int
    OBVIOUS
  <2> HIDE DEF t
  <2>2. t * NObus \in Int /\ (t * NObus) * NParts = t * UnitParts /\ t * UnitParts \in Int
    BY <2>1, UnitProducts
  <2>3. c = b + NObus /\ NObus \in Int /\ 1 <= NObus
    <3>1. c \in Int /\ b = c - NObus /\ NObus \in Int /\ 1 <= NObus
      BY UnitProducts
    <3> HIDE DEF b, c
    <3> QED
      BY <3>1
  <2> QED
    BY <2>2, <2>3 DEF t
<1>2. ASSUME NEW o \in 1 .. NObus
      PROVE  /\ (b + o - 1) * NParts = t * UnitParts + (o - 1) * NParts
             /\ (b + o) * NParts = t * UnitParts + o * NParts
  <2> DEFINE N == NParts
             a == t * UnitParts
  <2>1. N \in Int /\ b \in Int /\ o \in Int /\ b * N = a /\ a \in Int
    BY <1>1, RtpAssumption
  <2> HIDE DEF N, b, a
  <2>2. (b + o - 1) * N = b * N + (o - 1) * N /\ (b + o) * N = b * N + o * N
    BY <2>1
  <2>3. (b + o - 1) * N = a + (o - 1) * N /\ (b + o) * N = a + o * N
    BY <2>1, <2>2
  <2> QED
    BY <2>3 DEF N, a
<1>3. Obus(b, c) = [o \in 1 .. NObus |-> Run((b + o - 1) * NParts + 1, (b + o) * NParts)]
  <2>1. c - b = NObus
    <3> HIDE DEF b, c
    <3> QED
      BY <1>1
  <2> QED
    BY <2>1 DEF Obus
<1>4. Whole(u) = [o \in 1 .. NObus |->
                    Run(t * UnitParts + (o - 1) * NParts + 1, t * UnitParts + o * NParts)]
  BY DEF Whole
<1>5. Obus(b, c) = Whole(u)
  <2> HIDE DEF b, c, t
  <2> QED
    BY <1>2, <1>3, <1>4
<1>6. Obus(b, c) # <<>>
  <2>1. b <= c /\ c - b >= 1
    <3> HIDE DEF b, c
    <3> QED
      BY <1>1
  <2>2. c \in Int
    BY UnitProducts
  <2> DEFINE s == Obus(b, c)
  <2> HIDE DEF b, c
  <2>3. s \in Seq(Seq(Int)) /\ Len(s) = c - b
    BY <1>1, <2>1, <2>2, ObusTyped
  <2> HIDE DEF s
  <2>4. s # <<>>
    BY <2>1, <2>3
  <2> QED
    BY <2>4 DEF s
<1> QED
  BY <1>5, <1>6

\* A packet has elements of the OBUs of one unit.
LEMMA PacketObus ==
  ASSUME NEW i \in Int, NEW j \in Int, 1 <= i, i <= j, UnitOf(j) = UnitOf(i)
  PROVE  ObuOf(j) - ObuOf(i) + 1 <= NObus
<1> DEFINE u == UnitOf(i)
           b == (u - 1) * NObus
           c == u * NObus
           a == ObuOf(i)
           z == ObuOf(j)
<1>1. u \in Int /\ (u - 1) * UnitParts < i /\ j <= u * UnitParts
  BY UnitBounds
<1>2. a \in Int /\ z \in Int /\ i <= a * NParts /\ (z - 1) * NParts < j
  BY ObuBounds
<1> HIDE DEF u
<1>3. b * NParts = (u - 1) * UnitParts /\ c * NParts = u * UnitParts
  <2> DEFINE t == u - 1
  <2>1. t \in Int
    BY <1>1
  <2> HIDE DEF t
  <2>2. (t * NObus) * NParts = t * UnitParts
    BY <2>1, UnitProducts
  <2> QED
    BY <1>1, <2>2, UnitProducts DEF t
<1>4. b \in Int /\ c \in Int /\ c = b + NObus /\ NObus \in Int
  <2>1. c \in Int /\ b = c - NObus /\ NObus \in Int
    BY <1>1, UnitProducts
  <2> HIDE DEF b, c
  <2> QED
    BY <2>1
<1> HIDE DEF a, z, b, c
<1>5. b < a
  <2> DEFINE x == b * NParts
             y == a * NParts
  <2>1. x \in Int /\ y \in Int /\ x < i /\ i <= y
    BY <1>1, <1>2, <1>3, <1>4, ObuProducts
  <2>2. x < y
    <3> HIDE DEF x, y
    <3> QED
      BY <2>1
  <2> QED
    BY <1>2, <1>4, <2>2, ObusCompare
<1>6. z - 1 < c
  <2> DEFINE w == z - 1
             x == w * NParts
             y == c * NParts
  <2>1. w \in Int
    BY <1>2
  <2>2. x \in Int /\ y \in Int /\ x < j /\ j <= y
    <3>1. x < j /\ j <= y
      BY <1>1, <1>2, <1>3
    <3> HIDE DEF w
    <3>2. x \in Int /\ y \in Int
      BY <1>4, <2>1, ObuProducts
    <3> QED
      BY <3>1, <3>2
  <2>3. x < y
    <3> HIDE DEF x, y
    <3> QED
      BY <2>2
  <2> HIDE DEF w
  <2>4. w < c
    BY <1>4, <2>1, <2>3, ObusCompare
  <2> QED
    BY <2>4 DEF w
<1>7. z - a + 1 <= NObus
  BY <1>2, <1>4, <1>5, <1>6
<1> QED
  BY <1>7 DEF z, a

\* What a packet adds to the parts that arrived.
LEMMA ArrivedGrows ==
  ASSUME arrived \in Seq(Parts), NEW i \in Int, NEW j \in Int, i <= j,
         arrived' = arrived \o Run(i, j), NEW p \in Int
  PROVE  Arrived(p)' <=> Arrived(p) \/ (i <= p /\ p <= j)
<1> DEFINE r == Run(i, j)
           a == arrived
           n == j - i + 1
<1>1. r \in Seq(Int) /\ Len(r) = n /\ \A k \in 1 .. n : r[k] = i + k - 1
  <2>1. Spans(Int, i, j) /\ i - 1 <= j
    BY DEF Spans
  <2> QED
    BY <2>1, RunTyped
<1>2. a \in Seq(Int) /\ Parts \subseteq Int
  <2>1. Parts \subseteq Int
    BY DEF Parts
  <2> QED
    BY <2>1, SeqsGrow
<1>3. n \in Nat
  OBVIOUS
<1> HIDE DEF r
<1>4. /\ Len(a \o r) = Len(a) + Len(r)
      /\ \A k \in 1 .. (Len(a) + Len(r)) :
           (a \o r)[k] = IF k <= Len(a) THEN a[k] ELSE r[k - Len(a)]
      /\ DOMAIN (a \o r) = 1 .. (Len(a) + Len(r))
      /\ DOMAIN a = 1 .. Len(a) /\ Len(a) \in Nat
  <2>1. a \o r \in Seq(Int)
    BY <1>1, <1>2
  <2>2. /\ Len(a \o r) = Len(a) + Len(r)
        /\ \A k \in 1 .. (Len(a) + Len(r)) :
           (a \o r)[k] = IF k <= Len(a) THEN a[k] ELSE r[k - Len(a)]
    BY <1>1, <1>2, ConcatProperties
  <2> QED
    BY <1>2, <2>1, <2>2
<1> HIDE DEF n
<1>5. ASSUME Arrived(p)' PROVE Arrived(p) \/ (i <= p /\ p <= j)
  <2>1. PICK k \in DOMAIN (a \o r) : (a \o r)[k] = p
    BY <1>5 DEF Arrived, r
  <2>2. CASE k <= Len(a)
    <3>1. k \in DOMAIN a /\ a[k] = p
      BY <1>4, <2>1, <2>2
    <3> QED
      BY <3>1 DEF Arrived
  <2>3. CASE ~(k <= Len(a))
    <3> DEFINE l == k - Len(a)
    <3>1. r[l] = p /\ l \in 1 .. n
      <4>1. k \in 1 .. (Len(a) + Len(r)) /\ Len(r) = n
        BY <1>1, <1>4, <2>1
      <4>2. (a \o r)[k] = r[l]
        BY <1>4, <2>3, <4>1
      <4>3. l \in 1 .. n
        BY <1>3, <1>4, <2>3, <4>1
      <4> QED
        BY <2>1, <4>2, <4>3
    <3>2. p = i + l - 1
      <4>1. l \in 1 .. n /\ r[l] = p
        BY <3>1
      <4> HIDE DEF l
      <4> QED
        BY <1>1, <4>1
    <3>3. l \in Int /\ 1 <= l /\ l <= j - i + 1
      BY <1>3, <3>1 DEF n
    <3> HIDE DEF l
    <3> QED
      BY <3>2, <3>3
  <2> QED
    BY <2>2, <2>3
<1>6. ASSUME Arrived(p) PROVE Arrived(p)'
  <2>1. PICK k \in DOMAIN a : a[k] = p
    BY <1>6 DEF Arrived
  <2>2. k \in DOMAIN (a \o r) /\ (a \o r)[k] = p
    BY <1>1, <1>3, <1>4, <2>1
  <2> QED
    BY <2>2 DEF Arrived, r
<1>7. ASSUME i <= p, p <= j PROVE Arrived(p)'
  <2> DEFINE k == Len(a) + (p - i + 1)
  <2>1. k \in 1 .. (Len(a) + Len(r)) /\ ~(k <= Len(a)) /\ k - Len(a) = p - i + 1
        /\ p - i + 1 \in 1 .. n
    BY <1>1, <1>4, <1>7 DEF n
  <2>2. r[p - i + 1] = i + (p - i + 1) - 1
    <3> DEFINE l == p - i + 1
    <3>1. l \in 1 .. n
      BY <2>1
    <3> HIDE DEF l
    <3>2. r[l] = i + l - 1
      BY <1>1, <3>1
    <3> QED
      BY <3>2 DEF l
  <2> HIDE DEF k
  <2>3. (a \o r)[k] = p
    <3>1. (a \o r)[k] = r[k - Len(a)]
      BY <1>4, <2>1
    <3>2. r[k - Len(a)] = i + (p - i + 1) - 1
      BY <2>1, <2>2
    <3> QED
      BY <3>1, <3>2
  <2>4. k \in DOMAIN (a \o r)
    BY <1>4, <2>1
  <2> QED
    BY <2>3, <2>4 DEF Arrived, r
<1> QED
  BY <1>5, <1>6, <1>7

Extends(r, s) == \A i \in DOMAIN r : i \in DOMAIN s /\ s[i] = r[i]

\* recordTemporalUnit leaves the records before in their place.
LEMMA FlushedExtends ==
  ASSUME NEW P, NEW T, NEW recs \in Records(P, T), NEW tu \in Seq(Seq(P)), NEW time \in T
  PROVE  /\ Extends(recs, Flushed(recs, tu, time))
         /\ tu # <<>> => \E i \in DOMAIN Flushed(recs, tu, time) :
              Flushed(recs, tu, time)[i] = [obus |-> tu, pts |-> time]
<1> DEFINE R == [obus : Seq(Seq(P)), pts : T]
           x == [obus |-> tu, pts |-> time]
           f == Flushed(recs, tu, time)
<1>1. recs \in Seq(R) /\ x \in R
  BY DEF Records
<1>2. CASE tu = <<>>
  <2>1. f = recs
    BY <1>2 DEF Flushed
  <2> QED
    BY <1>2, <2>1 DEF Extends
<1>3. CASE tu # <<>>
  <2>1. f = Append(recs, x)
    BY <1>3 DEF Flushed
  <2> HIDE DEF f, x, R
  <2>2. /\ f \in Seq(R) /\ Len(f) = Len(recs) + 1 /\ Len(recs) \in Nat
        /\ DOMAIN f = 1 .. (Len(recs) + 1) /\ DOMAIN recs = 1 .. Len(recs)
    BY <1>1, <2>1
  <2>3. f[Len(recs) + 1] = x
    BY <1>1, <2>1
  <2>4. \A i \in 1 .. Len(recs) : f[i] = recs[i]
    BY <1>1, <2>1
  <2>5. Extends(recs, f)
    BY <2>2, <2>4 DEF Extends
  <2>6. \E i \in DOMAIN f : f[i] = x
    BY <2>2, <2>3
  <2> QED
    BY <2>5, <2>6 DEF f, x
<1> QED
  BY <1>2, <1>3

\* The parts of unit u to number e arrived, and the last part before it.
Intact(u, e) ==
  /\ u = 1 \/ Arrived((u - 1) * UnitParts)
  /\ \A p \in Int : (u - 1) * UnitParts < p /\ p <= e => Arrived(p)

\* Unit u is recorded as it was sent, under its own time.
AsSent(u, base) == [obus |-> Whole(u), pts |-> Normalized(Clock(u), base)]
UnitRecorded(u) == \E i \in DOMAIN recorded : recorded[i] = AsSent(u, ptsBase)

\* What the buffers are while unit u is being sent.
Following(u) == Intact(u, due - 1) => Reached(Buffer, (u - 1) * NObus, due - 1)

Assembled ==
  /\ Kept
  /\ \A p \in Int : Arrived(p) => p < due
  /\ ended \/ ptsBase # -1 \/ recorded = <<>>
  /\ \A u \in 1 .. MaxTU : Intact(u, u * UnitParts) => UnitRecorded(u)
  /\ ended \/ \A u \in Int : UnitOf(due) = u => Following(u)

\* Records that grow twice have grown.
LEMMA ExtendsFurther ==
  ASSUME NEW r, NEW s, NEW t, Extends(r, s), Extends(s, t)
  PROVE  Extends(r, t)
BY DEF Extends

\* Records stay where they are.
LEMMA ReadExtends ==
  ASSUME Kept, NEW j \in Int, due <= j, j <= NumParts, NEW pkt \in Packets(due, j),
         ReadRTP(pkt)
  PROVE  Extends(recorded, recorded')
<1> DEFINE b == Buffer
           taken == TakenOf(pkt)
           earlier == EarlierOf(pkt)
           now == NowOf(pkt)
           r == recorded
           s == recorded'
<1>1. b \in Tidy(Parts) /\ r \in Records(Parts, Times) /\ pts \in Times
  BY DEF Kept
<1>2. /\ earlier \in Records(Parts, Times) /\ taken \in Tidy(Parts) /\ now \in Times
      /\ EndsUnit(j) => s = Flushed(earlier, CloseFragment(taken).tu, now)
      /\ ~EndsUnit(j) => s = earlier
  BY ReadTyped
<1>3. Extends(r, earlier)
  <2> DEFINE tu == b.tu
  <2>1. tu \in Seq(Seq(Parts))
    <3> HIDE DEF b
    <3> QED
      BY <1>1, TidyParts
  <2>2. earlier = IF pkt.n THEN Flushed(r, tu, pts) ELSE r
    BY DEF EarlierOf, Earlier
  <2> HIDE DEF tu, earlier, r
  <2>3. CASE pkt.n
    <3>1. Extends(r, Flushed(r, tu, pts))
      BY <1>1, <2>1, FlushedExtends
    <3> QED
      BY <2>2, <2>3, <3>1
  <2>4. CASE ~pkt.n
    BY <2>2, <2>4 DEF Extends
  <2> QED
    BY <2>3, <2>4
<1>4. Extends(earlier, s)
  <2> DEFINE tu == CloseFragment(taken).tu
  <2> HIDE DEF taken, earlier, now, s
  <2>1. tu \in Seq(Seq(Parts))
    BY <1>2, CloseKeeps
  <2> HIDE DEF tu
  <2>2. CASE EndsUnit(j)
    <3>1. s = Flushed(earlier, tu, now)
      BY <1>2, <2>2 DEF tu
    <3>2. Extends(earlier, Flushed(earlier, tu, now))
      BY <1>2, <2>1, FlushedExtends
    <3> QED
      BY <3>1, <3>2
  <2>3. CASE ~EndsUnit(j)
    BY <1>2, <2>3 DEF Extends
  <2> QED
    BY <2>2, <2>3
<1> HIDE DEF r, s, earlier
<1>5. Extends(r, s)
  BY <1>3, <1>4, ExtendsFurther
<1> QED
  BY <1>5 DEF r, s

\* A packet of a unit that is intact takes the buffers as far as it goes.
LEMMA ReadFollows ==
  ASSUME ~Legacy, NObus <= 3, Assembled, ~ended, NEW j \in Int, due <= j, j <= NumParts,
         UnitOf(j) = UnitOf(due), NEW pkt \in Packets(due, j), ReadRTP(pkt),
         NEW u \in Int, u = UnitOf(due), Intact(u, due - 1)
  PROVE  Reached(TakenOf(pkt), (u - 1) * NObus, j)
<1> DEFINE b == (u - 1) * NObus
           i == due
           x == Buffer
           y == Started(pkt.n, x)
<1>1. i \in Int /\ 1 <= i /\ x \in Tidy(Parts) /\ y \in Tidy(Parts)
  BY ReadTyped DEF Assembled, Kept
<1>2. Reached(x, b, i - 1)
  BY DEF Assembled, Following
<1>3. b \in Int /\ b * NParts = (u - 1) * UnitParts
  <2> DEFINE t == u - 1
  <2>1. t \in Int
    OBVIOUS
  <2> HIDE DEF t
  <2>2. t * NObus \in Int /\ (t * NObus) * NParts = t * UnitParts
    BY <2>1, UnitProducts
  <2> QED
    BY <2>2 DEF t
<1>4. y = x
  <2>1. pkt.n \in BOOLEAN /\ (i # 1 /\ pkt.n => StartsUnit(i))
    BY PacketFields
  <2>2. x = [tu |-> x.tu, frag |-> x.frag, open |-> x.open]
    BY DEF Buffer
  <2>3. CASE ~pkt.n
    BY <2>2, <2>3 DEF Started
  <2>4. CASE pkt.n
    <3>1. StartsUnit(i)
      <4>1. UnitParts \in Int /\ 1 <= UnitParts
        BY <1>1, UnitBounds
      <4>2. StartsUnit(1)
        <5> DEFINE U == UnitParts
        <5> HIDE DEF U
        <5>1. 0 % U = 0
          BY <4>1 DEF U
        <5> QED
          BY <5>1 DEF StartsUnit, U
      <4> QED
        BY <2>1, <2>4, <4>2
    <3>2. i = b * NParts + 1
      BY <1>1, <1>3, <3>1, UnitBounds
    <3>3. x.tu = Obus(b, b)
      <4> DEFINE e == b * NParts
      <4>1. e \in Int /\ i - 1 = e /\ e <= e /\ e < (b + 1) * NParts
        <5>1. e \in Int /\ (b + 1) * NParts = e + NParts /\ NParts \in Int /\ 1 <= NParts
          BY <1>3, ObuProducts
        <5> HIDE DEF b, e
        <5> QED
          BY <3>2, <5>1 DEF e
      <4>2. Reached(x, b, e)
        BY <1>2, <4>1
      <4> HIDE DEF b, x, e
      <4>3. b * NParts <= e
        BY <4>1 DEF e
      <4> QED
        BY <1>3, <4>1, <4>2, <4>3, ReachedInside
    <3>4. x.tu = <<>>
      <4> HIDE DEF b
      <4> QED
        BY <1>3, <3>3, ObusGrow
    <3> QED
      BY <2>2, <2>4, <3>4 DEF Started
  <2> QED
    BY <2>1, <2>3, <2>4
<1>5. ObuOf(j) - ObuOf(i) + 1 <= 3
  <2>1. ObuOf(j) - ObuOf(i) + 1 <= NObus
    BY <1>1, PacketObus
  <2>2. ObuOf(j) \in Int /\ ObuOf(i) \in Int /\ NObus \in Int
    BY <1>1, ObuBounds, RtpAssumption
  <2> QED
    BY <2>1, <2>2
<1>6. Spans(Parts, i, j)
  BY <1>1, PartsSpanned
<1>7. TakenOf(pkt) = TakeElements(pkt, x)
  BY <1>4 DEF TakenOf
<1> HIDE DEF b, x, y
<1>8. Reached(TakeElements(pkt, x), b, j)
  BY <1>1, <1>2, <1>3, <1>5, <1>6, PacketTaken
<1> QED
  BY <1>7, <1>8 DEF b

\* The packet that ends an intact unit has the unit recorded.
LEMMA ReadRecords ==
  ASSUME ~Legacy, NObus <= 3, Assembled, ~ended, NEW j \in Int, due <= j, j <= NumParts,
         UnitOf(j) = UnitOf(due), NEW pkt \in Packets(due, j), ReadRTP(pkt),
         NEW u \in Int, u = UnitOf(due), Intact(u, due - 1), j = u * UnitParts, EndsUnit(j)
  PROVE  UnitRecorded(u)'
<1> DEFINE b == (u - 1) * NObus
           c == u * NObus
           taken == TakenOf(pkt)
           earlier == EarlierOf(pkt)
           now == NowOf(pkt)
           W == Whole(u)
<1>1. /\ earlier \in Records(Parts, Times) /\ taken \in Tidy(Parts) /\ now \in Times
      /\ ptsBase' = BaseOf(pkt)
      /\ recorded' = Flushed(earlier, CloseFragment(taken).tu, now)
  BY ReadTyped DEF Assembled
<1>2. Reached(taken, b, j)
  BY ReadFollows
<1>3. b \in Int /\ c \in Int /\ c * NParts = j
  <2>1. c \in Int /\ b = c - NObus /\ NObus \in Int /\ c * NParts = u * UnitParts
    BY UnitProducts
  <2> HIDE DEF b, c
  <2> QED
    BY <2>1
<1>4. taken.tu = Obus(b, c) /\ ~taken.open
  <2>1. c * NParts <= j /\ j < (c + 1) * NParts
    <3> DEFINE e == c * NParts
    <3>1. e \in Int /\ e = j /\ (c + 1) * NParts = e + NParts /\ NParts \in Int /\ 1 <= NParts
      BY <1>3, ObuProducts
    <3> HIDE DEF c, e
    <3>2. e <= j /\ j < (c + 1) * NParts
      BY <3>1
    <3> QED
      BY <3>2 DEF e
  <2> HIDE DEF b, c, taken
  <2> QED
    BY <1>2, <1>3, <2>1, ReachedInside
<1>5. CloseFragment(taken).tu = W /\ W # <<>>
  <2>1. CloseFragment(taken) = taken
    <3> HIDE DEF taken
    <3> QED
      BY <1>4 DEF CloseFragment
  <2> QED
    BY <1>4, <2>1, UnitWhole
<1>6. W \in Seq(Seq(Parts))
  <2> HIDE DEF taken, W
  <2>1. CloseFragment(taken).tu \in Seq(Seq(Parts))
    BY <1>1, CloseKeeps
  <2> QED
    BY <1>5, <2>1
<1>7. \E k \in DOMAIN recorded' : recorded'[k] = [obus |-> W, pts |-> now]
  <2>1. recorded' = Flushed(earlier, W, now)
    BY <1>1, <1>5
  <2> HIDE DEF earlier, W, now
  <2>2. \E k \in DOMAIN Flushed(earlier, W, now) :
          Flushed(earlier, W, now)[k] = [obus |-> W, pts |-> now]
    BY <1>1, <1>5, <1>6, FlushedExtends
  <2> QED
    BY <2>1, <2>2
<1>8. now = Normalized(Clock(u), BaseOf(pkt))
  <2>1. pkt.timestamp = Timestamp(due)
    BY PacketFields
  <2>2. Timestamp(due) = Clock(u)
    BY DEF Timestamp, Clock
  <2> QED
    BY <2>1, <2>2 DEF NowOf
<1>9. [obus |-> W, pts |-> now] = AsSent(u, ptsBase')
  BY <1>1, <1>8 DEF AsSent
<1>10. \E k \in DOMAIN recorded' : recorded'[k] = AsSent(u, ptsBase')
  BY <1>7, <1>9
<1>11. AsSent(u, ptsBase)' = AsSent(u, ptsBase')
  BY DEF AsSent, Whole, Normalized, Clock, UnitParts, Run
<1> QED
  BY <1>10, <1>11 DEF UnitRecorded

\* What arrived of a unit before this packet, and with it.
LEMMA IntactBefore ==
  ASSUME NEW u \in Int, NEW e \in Int, NEW i \in Int, NEW j \in Int,
         (u - 1) * UnitParts < i,
         \A p \in Int : Arrived(p)' => Arrived(p) \/ (i <= p /\ p <= j),
         Intact(u, e)'
  PROVE  \A d \in Int : d <= e /\ d < i => Intact(u, d)
<1> DEFINE f == (u - 1) * UnitParts
<1>1. f \in Int
  <2> DEFINE t == u - 1
  <2>1. t \in Int
    OBVIOUS
  <2> HIDE DEF t
  <2>2. t * UnitParts \in Int
    BY <2>1, UnitProducts
  <2> QED
    BY <2>2 DEF t
<1>2. f < i
  OBVIOUS
<1>3. (u = 1 \/ Arrived(f)') /\ (\A p \in Int : f < p /\ p <= e => Arrived(p)')
  <2>1. ((u - 1) * UnitParts)' = f
    BY DEF UnitParts
  <2> QED
    BY <2>1 DEF Intact, Arrived
<1> HIDE DEF f
<1>4. u = 1 \/ Arrived(f)
  BY <1>1, <1>2, <1>3
<1>5. ASSUME NEW d \in Int, d <= e, d < i, NEW p \in Int, f < p, p <= d PROVE Arrived(p)
  <2>1. p <= e /\ ~(i <= p)
    BY <1>5
  <2> QED
    BY <1>3, <1>5, <2>1
<1> QED
  BY <1>4, <1>5 DEF Intact, f

\* A record of a unit stays.
LEMMA RecordedStays ==
  ASSUME NEW u, UnitRecorded(u), Extends(recorded, recorded'), ptsBase' = ptsBase
  PROVE  UnitRecorded(u)'
<1>1. PICK k \in DOMAIN recorded : recorded[k] = AsSent(u, ptsBase)
  BY DEF UnitRecorded
<1>2. k \in DOMAIN recorded' /\ recorded'[k] = AsSent(u, ptsBase)
  BY <1>1 DEF Extends
<1>3. AsSent(u, ptsBase)' = AsSent(u, ptsBase)
  BY DEF AsSent, Whole, Normalized, Clock, UnitParts, Run
<1> QED
  BY <1>2, <1>3 DEF UnitRecorded

\* The unit of the part after number j.
LEMMA UnitAfter ==
  ASSUME NEW j \in Int, 1 <= j, NEW u \in Int, u = UnitOf(j)
  PROVE  /\ EndsUnit(j) <=> j = u * UnitParts
         /\ EndsUnit(j) => UnitOf(j + 1) = u + 1
         /\ ~EndsUnit(j) => UnitOf(j + 1) = u
<1> DEFINE U == UnitParts
           v == u + 1
           h == u * U
           l == (u - 1) * U
           g == v * U
           k == (v - 1) * U
           p == j + 1
<1>1. U \in Int /\ 1 <= U
  BY UnitBounds
<1>2. l < j /\ j <= h
  BY UnitBounds
<1>3. EndsUnit(j) => j = h
  BY UnitBounds
<1>4. h \in Int /\ l = h - U
  BY UnitProducts
<1>5. v \in Int /\ p \in Int /\ 1 <= p
  OBVIOUS
<1>6. k = h
  <2> DEFINE w == v - 1
  <2>1. w = u
    OBVIOUS
  <2>2. k = w * U
    OBVIOUS
  <2> HIDE DEF w, k, v, U
  <2> QED
    BY <2>1, <2>2
<1>7. g \in Int /\ k = g - U
  <2> HIDE DEF v
  <2> QED
    BY <1>5, UnitProducts
<1>8. j = h => EndsUnit(j)
  <2> HIDE DEF U
  <2>1. h % U = 0
    <3>1. \A c \in Int : (c * U) % U = 0
      BY <1>1
    <3> QED
      BY <3>1
  <2> HIDE DEF h
  <2> QED
    BY <2>1 DEF EndsUnit, U
<1> HIDE DEF U, h, l, g, k
<1>9. ASSUME EndsUnit(j) PROVE UnitOf(p) = v
  <2>1. k < p /\ p <= g
    BY <1>1, <1>3, <1>4, <1>6, <1>7, <1>9
  <2>2. (v - 1) * UnitParts < p /\ p <= v * UnitParts
    BY <2>1 DEF k, g, U
  <2> HIDE DEF v, p
  <2> QED
    BY <1>5, <2>2, UnitIs
<1>10. ASSUME ~EndsUnit(j) PROVE UnitOf(p) = u
  <2>1. l < p /\ p <= h
    BY <1>1, <1>2, <1>4, <1>8, <1>10
  <2>2. (u - 1) * UnitParts < p /\ p <= u * UnitParts
    BY <2>1 DEF l, h, U
  <2> HIDE DEF p
  <2> QED
    BY <1>5, <2>2, UnitIs
<1>11. EndsUnit(j) <=> j = h
  BY <1>3, <1>8
<1> QED
  BY <1>9, <1>10, <1>11 DEF h, U

\* The next packet finds the buffers as this one leaves them.
LEMMA FollowingNext ==
  ASSUME NEW j \in Int, due' = j + 1, NEW u \in Int
  PROVE  Following(u)' <=> (Intact(u, j)' => Reached(Buffer', (u - 1) * NObus, j))
<1>1. due' - 1 = j
  OBVIOUS
<1>2. Intact(u, due - 1)' <=> Intact(u, j)'
  BY <1>1 DEF Intact
<1>3. Reached(Buffer, (u - 1) * NObus, due - 1)' <=> Reached(Buffer', (u - 1) * NObus, j)
  BY <1>1 DEF Reached, Obus, Run
<1> QED
  BY <1>2, <1>3 DEF Following

\* A packet that is read keeps the units that are intact so.
LEMMA ReadAssembles ==
  ASSUME ~Legacy, NObus <= 3, Assembled, ~ended, NEW j \in Int, due <= j, j <= NumParts,
         UnitOf(j) = UnitOf(due), NEW pkt \in Packets(due, j), ReadRTP(pkt),
         arrived' = arrived \o Run(due, j), due' = j + 1, Kept'
  PROVE  Assembled'
<1> DEFINE i == due
<1>1. i \in Int /\ 1 <= i /\ arrived \in Seq(Parts) /\ i <= j /\ 1 <= j
  BY DEF Assembled, Kept
<1>2. \A p \in Int : Arrived(p)' <=> Arrived(p) \/ (i <= p /\ p <= j)
  BY <1>1, ArrivedGrows
<1>3. \A p \in Int : Arrived(p)' => p < due'
  <2>1. ASSUME NEW p \in Int, Arrived(p)' PROVE p < j + 1
    <3>1. Arrived(p) \/ (i <= p /\ p <= j)
      BY <1>2, <2>1
    <3>2. Arrived(p) => p < i
      BY DEF Assembled
    <3> QED
      BY <1>1, <3>1, <3>2
  <2> QED
    BY <2>1
<1>4. ptsBase' # -1 /\ ptsBase' = BaseOf(pkt)
  BY ReadTyped DEF Assembled
<1>5. PICK u \in Int : u = UnitOf(i) /\ u = UnitOf(j) /\ (u - 1) * UnitParts < i /\ j <= u * UnitParts
  BY <1>1, UnitBounds
<1>6. \A e \in Int : Intact(u, e)' /\ i - 1 <= e => Intact(u, i - 1)
  <2>1. ASSUME NEW e \in Int, Intact(u, e)', i - 1 <= e PROVE Intact(u, i - 1)
    <3>1. \A d \in Int : d <= e /\ d < i => Intact(u, d)
      BY <1>1, <1>2, <1>5, <2>1, IntactBefore
    <3>2. i - 1 \in Int /\ i - 1 < i
      BY <1>1
    <3> QED
      BY <2>1, <3>1, <3>2
  <2> QED
    BY <2>1
<1>7. ASSUME NEW v \in 1 .. MaxTU, Intact(v, v * UnitParts)' PROVE UnitRecorded(v)'
  <2> DEFINE h == v * UnitParts
             l == (v - 1) * UnitParts
  <2>1. v \in Int /\ 1 <= v /\ v <= MaxTU
    BY RtpAssumption
  <2>2. h \in Int /\ l = h - UnitParts /\ UnitParts \in Int /\ 1 <= UnitParts
    BY <2>1, UnitProducts
  <2>3. l < h /\ h <= h
    <3> HIDE DEF l, h
    <3> QED
      BY <2>2
  <2>4. Intact(v, h)'
    <3>1. (v * UnitParts)' = h
      BY DEF UnitParts
    <3> QED
      BY <1>7, <3>1 DEF Intact
  <2>5. Arrived(h)'
    <3>1. \A p \in Int : l < p /\ p <= h => Arrived(p)'
      <4>1. ((v - 1) * UnitParts)' = l
        BY DEF UnitParts
      <4> HIDE DEF h
      <4> QED
        BY <2>4, <4>1 DEF Intact, Arrived
    <3> QED
      BY <2>2, <2>3, <3>1
  <2>6. Arrived(h) \/ (i <= h /\ h <= j)
    <3> HIDE DEF h
    <3> QED
      BY <1>2, <2>2, <2>5
  <2>7. CASE Arrived(h)
    <3>1. h < i
      <4> HIDE DEF h
      <4> QED
        BY <2>2, <2>7 DEF Assembled
    <3>2. (v - 1) * UnitParts < i
      <4>1. l < i
        <5> HIDE DEF l, h
        <5> QED
          BY <1>1, <2>2, <3>1
      <4> QED
        BY <4>1
    <3>3. Intact(v, h)
      <4> HIDE DEF h
      <4>1. \A d \in Int : d <= h /\ d < i => Intact(v, d)
        BY <1>1, <1>2, <2>1, <2>2, <2>4, <3>2, IntactBefore
      <4> QED
        BY <2>2, <2>3, <3>1, <4>1
    <3>4. UnitRecorded(v)
      BY <3>3 DEF Assembled
    <3>5. recorded # <<>>
      BY <3>4 DEF UnitRecorded
    <3>6. ptsBase' = ptsBase
      BY <1>4, <3>5 DEF Assembled, BaseOf
    <3>7. Extends(recorded, recorded')
      BY ReadExtends DEF Assembled
    <3> QED
      BY <3>4, <3>6, <3>7, RecordedStays
  <2>8. CASE i <= h /\ h <= j
    <3>1. v = u
      <4>1. 1 <= h
        <5> HIDE DEF h
        <5> QED
          BY <1>1, <2>2, <2>8
      <4>2. UnitOf(h) = v
        <5> DEFINE p == h
        <5>1. p \in Int /\ 1 <= p /\ (v - 1) * UnitParts < p /\ p <= v * UnitParts
          BY <2>2, <2>3, <4>1
        <5> HIDE DEF p
        <5>2. UnitOf(p) = v
          BY <2>1, <5>1, UnitIs
        <5> QED
          BY <5>2 DEF p
      <4> HIDE DEF h
      <4>3. UnitOf(i) <= UnitOf(h) /\ UnitOf(h) <= UnitOf(j)
        BY <1>1, <2>2, <2>8, <4>1, UnitMonotone
      <4> QED
        BY <1>5, <2>1, <4>2, <4>3
    <3>2. j = h
      <4>1. j <= h
        BY <1>5, <3>1
      <4> HIDE DEF h
      <4> QED
        BY <2>2, <2>8, <4>1
    <3>3. j = u * UnitParts
      BY <3>1, <3>2
    <3>4. EndsUnit(j)
      BY <1>1, <1>5, <3>3, UnitAfter
    <3>5. Intact(u, i - 1)
      <4>1. Intact(u, h)'
        BY <2>4, <3>1
      <4>2. i - 1 <= h
        <5> HIDE DEF h
        <5> QED
          BY <1>1, <2>2, <2>8
      <4> HIDE DEF h
      <4> QED
        BY <1>6, <2>2, <4>1, <4>2
    <3>6. UnitRecorded(u)'
      BY <1>5, <3>3, <3>4, <3>5, ReadRecords
    <3> QED
      BY <3>1, <3>6
  <2> QED
    BY <2>6, <2>7, <2>8
<1>8. ASSUME NEW v \in Int, UnitOf(j + 1) = v, Intact(v, j)'
      PROVE  Reached(Buffer', (v - 1) * NObus, j)
  <2>1. CASE EndsUnit(j)
    <3> DEFINE b == u * NObus
               done == CloseFragment(TakenOf(pkt))
    <3>1. v = u + 1 /\ j = u * UnitParts
      BY <1>1, <1>5, <1>8, <2>1, UnitAfter
    <3>2. v - 1 = u
      BY <3>1
    <3>3. b \in Int /\ b * NParts = j
      BY <3>1, UnitProducts
    <3>4. Buffer' = Emptied(done) /\ TakenOf(pkt) \in Tidy(Parts)
      BY <2>1, ReadTyped DEF Assembled
    <3>5. Emptied(done) = Closed(<<>>)
      <4> DEFINE x == TakenOf(pkt)
      <4> HIDE DEF x
      <4>1. /\ recorded \in Records(Parts, Times) /\ pts \in Times /\ x \in Tidy(Parts)
        BY <3>4 DEF Assembled, Kept, x
      <4>2. Emptied(CloseFragment(x)) = [tu |-> <<>>, frag |-> <<>>, open |-> FALSE]
        BY <4>1, FlushKeeps
      <4> QED
        BY <4>2 DEF x, Closed
    <3>6. Reached(Closed(Obus(b, b)), b, b * NParts)
      <4>1. b <= b
        BY <3>3
      <4> HIDE DEF b
      <4> QED
        BY <3>3, <4>1, ReachedMade
    <3>7. Obus(b, b) = <<>>
      <4>1. b <= b
        BY <3>3
      <4> HIDE DEF b
      <4> QED
        BY <3>3, <4>1, ObusGrow
    <3> QED
      BY <3>2, <3>3, <3>4, <3>5, <3>6, <3>7
  <2>2. CASE ~EndsUnit(j)
    <3>1. v = u
      BY <1>1, <1>5, <1>8, <2>2, UnitAfter
    <3>2. Intact(u, i - 1)
      <4>1. i - 1 <= j /\ Intact(u, j)'
        BY <1>1, <1>8, <3>1
      <4> QED
        BY <1>6, <4>1
    <3>3. Reached(TakenOf(pkt), (u - 1) * NObus, j)
      BY <1>5, <3>2, ReadFollows
    <3>4. Buffer' = TakenOf(pkt)
      BY <2>2, ReadTyped DEF Assembled
    <3> QED
      BY <3>1, <3>3, <3>4
  <2> QED
    BY <2>1, <2>2
<1>9. \A v \in Int : UnitOf(j + 1) = v => Following(v)'
  BY <1>8, FollowingNext
<1>10. \A v \in Int : UnitOf(due)' = v => Following(v)'
  <2>1. UnitOf(due)' = UnitOf(j + 1)
    BY DEF UnitOf, UnitParts
  <2> QED
    BY <1>9, <2>1
<1> QED
  BY <1>3, <1>4, <1>7, <1>10 DEF Assembled

\* A packet that is lost leaves none of its unit intact, nor the unit after it.
LEMMA LossAssembles ==
  ASSUME Assembled, NEW j \in Int, due <= j, due' = j + 1, ended' = ended,
         UNCHANGED <<bufVars, recorded, arrived>>, Kept'
  PROVE  Assembled'
<1>1. due \in Int /\ 1 <= due /\ 1 <= j
  BY DEF Assembled, Kept
<1>2. /\ ptsBase' = ptsBase /\ recorded' = recorded /\ arrived' = arrived
      /\ \A p : Arrived(p)' <=> Arrived(p)
  BY DEF bufVars, Arrived
<1>3. \A p \in Int : Arrived(p) => p < due
  BY DEF Assembled
<1>4. \A p \in Int : Arrived(p)' => p < due'
  BY <1>1, <1>2, <1>3
<1>5. ~Arrived(j)
  BY <1>1, <1>3
<1>6. ASSUME NEW v \in 1 .. MaxTU, Intact(v, v * UnitParts)' PROVE UnitRecorded(v)'
  <2>1. Intact(v, v * UnitParts)
    BY <1>2, <1>6 DEF Intact, UnitParts, Arrived
  <2>2. UnitRecorded(v)
    BY <2>1 DEF Assembled
  <2>3. Extends(recorded, recorded')
    BY <1>2 DEF Extends
  <2> QED
    BY <1>2, <2>2, <2>3, RecordedStays
<1>7. ASSUME NEW v \in Int, UnitOf(j + 1) = v, Intact(v, j)' PROVE FALSE
  <2> DEFINE l == (v - 1) * UnitParts
  <2>1. (v = 1 \/ Arrived(l)) /\ (\A p \in Int : l < p /\ p <= j => Arrived(p))
    <3>1. ((v - 1) * UnitParts)' = l
      BY DEF UnitParts
    <3> QED
      BY <1>2, <1>7, <3>1 DEF Intact, Arrived
  <2>2. PICK u \in Int : u = UnitOf(j) /\ 1 <= u /\ (u - 1) * UnitParts < j
    BY <1>1, UnitBounds
  <2>3. CASE EndsUnit(j)
    <3>1. v = u + 1 /\ j = u * UnitParts
      BY <1>1, <1>7, <2>2, <2>3, UnitAfter
    <3>2. v - 1 = u /\ v # 1
      BY <2>2, <3>1
    <3>3. l = j
      BY <3>1, <3>2
    <3> QED
      BY <1>5, <2>1, <3>2, <3>3
  <2>4. CASE ~EndsUnit(j)
    <3>1. v = u
      BY <1>1, <1>7, <2>2, <2>4, UnitAfter
    <3>2. l < j /\ j <= j
      BY <2>2, <3>1
    <3> HIDE DEF l
    <3> QED
      BY <1>5, <2>1, <3>2
  <2> QED
    BY <2>3, <2>4
<1>8. \A v \in Int : UnitOf(j + 1) = v => Following(v)'
  BY <1>7, FollowingNext
<1>9. \A v \in Int : UnitOf(due)' = v => Following(v)'
  <2>1. UnitOf(due)' = UnitOf(j + 1)
    BY DEF UnitOf, UnitParts
  <2> QED
    BY <1>8, <2>1
<1>10. (ended \/ ptsBase # -1 \/ recorded = <<>>)'
  BY <1>2 DEF Assembled
<1> QED
  BY <1>4, <1>6, <1>9, <1>10 DEF Assembled

\* The track's end leaves the records where they are.
LEMMA ErrorAssembles ==
  ASSUME Assembled, ReadError, Kept'
  PROVE  Assembled'
<1> DEFINE tu == CloseFragment(Buffer).tu
<1>1. /\ recorded' = Flushed(recorded, tu, pts)
      /\ due' = due /\ ptsBase' = ptsBase /\ arrived' = arrived /\ ended' = TRUE
  BY DEF ReadError, Buffer
<1>2. \A p : Arrived(p)' <=> Arrived(p)
  BY <1>1 DEF Arrived
<1>3. \A p \in Int : Arrived(p)' => p < due'
  BY <1>1, <1>2 DEF Assembled
<1>4. Extends(recorded, recorded')
  <2> DEFINE b == Buffer
  <2>1. recorded \in Records(Parts, Times) /\ pts \in Times /\ b \in Tidy(Parts)
    BY DEF Assembled, Kept
  <2> HIDE DEF b
  <2>2. CloseFragment(b).tu \in Seq(Seq(Parts))
    BY <2>1, CloseKeeps
  <2>3. tu \in Seq(Seq(Parts))
    BY <2>2 DEF b
  <2> HIDE DEF tu
  <2> QED
    BY <1>1, <2>1, <2>3, FlushedExtends
<1>5. ASSUME NEW v \in 1 .. MaxTU, Intact(v, v * UnitParts)' PROVE UnitRecorded(v)'
  <2>1. Intact(v, v * UnitParts)
    BY <1>1, <1>5 DEF Intact, UnitParts, Arrived
  <2>2. UnitRecorded(v)
    BY <2>1 DEF Assembled
  <2> QED
    BY <1>1, <1>4, <2>2, RecordedStays
<1> QED
  BY <1>1, <1>3, <1>5 DEF Assembled

\* At the start no unit has begun.
LEMMA AssembledInit == Init => Assembled
<1> SUFFICES ASSUME Init PROVE Assembled
  OBVIOUS
<1>1. Kept
  BY KeptInit
<1>2. \A p : ~Arrived(p)
  <2>1. arrived = <<>>
    BY DEF Init
  <2> QED
    BY <2>1 DEF Arrived
<1>3. due = 1 /\ recorded = <<>>
  BY DEF Init
<1>4. ASSUME NEW v \in 1 .. MaxTU, Intact(v, v * UnitParts) PROVE FALSE
  <2> DEFINE h == v * UnitParts
             l == (v - 1) * UnitParts
  <2>1. v \in Int
    BY RtpAssumption
  <2>2. h \in Int /\ l = h - UnitParts /\ UnitParts \in Int /\ 1 <= UnitParts
    BY <2>1, UnitProducts
  <2>3. l < h /\ h <= h
    <3> HIDE DEF l, h
    <3> QED
      BY <2>2
  <2> QED
    BY <1>2, <1>4, <2>2, <2>3 DEF Intact
<1>5. ASSUME NEW u \in Int, UnitOf(due) = u PROVE Following(u)
  <2> DEFINE b == (u - 1) * NObus
             e == b * NParts
             t == u - 1
  <2>1. u = 1
    <3>1. UnitParts \in Int /\ 1 <= UnitParts
      BY <1>3, UnitBounds
    <3>2. (1 - 1) \div UnitParts = 0
      BY <3>1
    <3> QED
      BY <1>3, <1>5, <3>2 DEF UnitOf
  <2>2. b = 0
    <3>1. NObus \in Int
      BY RtpAssumption
    <3>2. t = 0
      BY <2>1
    <3> HIDE DEF t
    <3>3. t * NObus = 0
      BY <3>1, <3>2
    <3> QED
      BY <3>3 DEF t
  <2>3. e = 0
    <3>1. NParts \in Int
      BY RtpAssumption
    <3> HIDE DEF b
    <3> QED
      BY <2>2, <3>1
  <2> HIDE DEF b
  <2>4. Reached(Closed(Obus(b, b)), b, b * NParts)
    BY <2>2, ReachedMade
  <2>5. Obus(b, b) = <<>>
    BY <2>2, ObusGrow
  <2>6. Buffer = Closed(<<>>)
    BY DEF Init, Buffer, Closed
  <2>7. due - 1 = e
    BY <1>3, <2>3
  <2>8. Reached(Buffer, b, due - 1)
    BY <2>4, <2>5, <2>6, <2>7
  <2> QED
    BY <2>8 DEF Following, b
<1> QED
  BY <1>1, <1>2, <1>3, <1>4, <1>5 DEF Assembled

\* Every step assembles the units that arrive whole.
LEMMA AssembledStep ==
  ASSUME ~Legacy, NObus <= 3
  PROVE  Assembled /\ [Next]_vars => Assembled'
<1> SUFFICES ASSUME Assembled, [Next]_vars PROVE Assembled'
  OBVIOUS
<1>1. Kept /\ Kept' /\ due \in Int
  BY KeptStep DEF Assembled, Kept
<1>2. CASE ReadError
  BY <1>1, <1>2, ErrorAssembles
<1>3. ASSUME NEW j \in Parts, SendPacket(j) PROVE Assembled'
  <2>1. /\ ~ended /\ j \in due .. NumParts /\ UnitOf(j) = UnitOf(due) /\ due' = j + 1
        /\ ended' = ended
    BY <1>3 DEF SendPacket
  <2>2. NumParts \in Int
    BY RtpAssumption DEF NumParts, UnitParts
  <2>3. j \in Int /\ due <= j /\ j <= NumParts
    BY <1>1, <2>1, <2>2
  <2>4. PICK pkt \in Packets(due, j) :
          \/ ReadRTP(pkt) /\ arrived' = arrived \o Run(due, j)
          \/ Lossy /\ UNCHANGED <<bufVars, recorded, arrived>>
    BY <1>3 DEF SendPacket
  <2>5. CASE ReadRTP(pkt) /\ arrived' = arrived \o Run(due, j)
    BY <1>1, <2>1, <2>3, <2>5, ReadAssembles
  <2>6. CASE UNCHANGED <<bufVars, recorded, arrived>>
    BY <1>1, <2>1, <2>3, <2>6, LossAssembles
  <2> QED
    BY <2>4, <2>5, <2>6
<1>4. CASE UNCHANGED vars
  <2>1. /\ due' = due /\ ended' = ended /\ ptsBase' = ptsBase /\ recorded' = recorded
        /\ arrived' = arrived /\ Buffer' = Buffer
    BY <1>4 DEF vars, bufVars, Buffer
  <2>2. \A p : Arrived(p)' <=> Arrived(p)
    BY <2>1 DEF Arrived
  <2>3. \A p \in Int : Arrived(p)' => p < due'
    BY <2>1, <2>2 DEF Assembled
  <2>4. ASSUME NEW v \in 1 .. MaxTU, Intact(v, v * UnitParts)' PROVE UnitRecorded(v)'
    <3>1. Intact(v, v * UnitParts)
      BY <2>1, <2>4 DEF Intact, UnitParts, Arrived
    <3>2. UnitRecorded(v)
      BY <3>1 DEF Assembled
    <3>3. Extends(recorded, recorded')
      BY <2>1 DEF Extends
    <3> QED
      BY <2>1, <3>2, <3>3, RecordedStays
  <2>5. ASSUME ~ended, NEW u \in Int, UnitOf(due)' = u PROVE Following(u)'
    <3>1. UnitOf(due) = u
      BY <2>1, <2>5 DEF UnitOf, UnitParts
    <3>2. Following(u)
      BY <2>5, <3>1 DEF Assembled
    <3>3. Intact(u, due - 1)' <=> Intact(u, due - 1)
      BY <2>1 DEF Intact, UnitParts, Arrived
    <3>4. Reached(Buffer, (u - 1) * NObus, due - 1)' <=> Reached(Buffer, (u - 1) * NObus, due - 1)
      BY <2>1 DEF Reached, Obus, Run
    <3> QED
      BY <3>2, <3>3, <3>4 DEF Following
  <2>6. (ended \/ ptsBase # -1 \/ recorded = <<>>)'
    BY <2>1 DEF Assembled
  <2>7. (ended \/ \A u \in Int : UnitOf(due) = u => Following(u))'
    <3>1. CASE ended
      BY <2>1, <3>1
    <3>2. CASE ~ended
      BY <2>5, <3>2
    <3> QED
      BY <3>1, <3>2
  <2> QED
    BY <1>1, <2>3, <2>4, <2>6, <2>7 DEF Assembled
<1> QED
  BY <1>2, <1>3, <1>4 DEF Next

\* What arrived whole is recorded whole.
LEMMA AssembledWhole == Assembled => UnitsWhole
<1> SUFFICES ASSUME Assembled, NEW u \in 1 .. MaxTU,
                    \A p \in ((u - 1) * UnitParts + 1) ..
                             ((u - 1) * UnitParts + 1 + UnitParts - 1) : Arrived(p),
                    u = 1 \/ Arrived(((u - 1) * UnitParts + 1) - 1)
             PROVE  \E i \in DOMAIN recorded :
                      recorded[i] = [obus |-> Whole(u),
                                     pts  |-> Normalized(Timestamp((u - 1) * UnitParts + 1), ptsBase)]
  BY DEF UnitsWhole
<1> DEFINE l == (u - 1) * UnitParts
           h == u * UnitParts
           first == l + 1
<1>1. u \in Int /\ 1 <= u
  BY RtpAssumption
<1>2. h \in Int /\ l = h - UnitParts /\ UnitParts \in Int /\ 1 <= UnitParts
  BY <1>1, UnitProducts
<1>3. l \in Int /\ 0 <= l /\ first \in Int /\ first - 1 = l /\ first + UnitParts - 1 = h
      /\ 1 <= first /\ l < first /\ first <= h
  <2>1. 0 <= l
    <3> DEFINE t == u - 1
               U == UnitParts
    <3>1. t \in Int /\ 0 <= t /\ U \in Int /\ 1 <= U
      BY <1>1, <1>2
    <3> HIDE DEF t, U
    <3>2. 0 <= t * U
      BY <3>1
    <3> QED
      BY <3>2 DEF t, U
  <2> HIDE DEF l, h
  <2> QED
    BY <1>2, <2>1
<1>4. Intact(u, h)
  <2>1. \A p \in first .. (first + UnitParts - 1) : Arrived(p)
    OBVIOUS
  <2>2. u = 1 \/ Arrived(first - 1)
    OBVIOUS
  <2>3. ASSUME NEW p \in Int, l < p, p <= h PROVE Arrived(p)
    <3> HIDE DEF l, h
    <3>1. p \in first .. (first + UnitParts - 1)
      BY <1>2, <1>3, <2>3
    <3> QED
      BY <2>1, <3>1
  <2>4. u = 1 \/ Arrived(l)
    <3> HIDE DEF l, first
    <3> QED
      BY <1>3, <2>2
  <2> QED
    BY <2>3, <2>4 DEF Intact
<1>5. UnitRecorded(u)
  BY <1>4 DEF Assembled
<1>6. Timestamp(first) = Clock(u)
  <2>1. (u - 1) * UnitParts < first /\ first <= u * UnitParts
    BY <1>3
  <2> HIDE DEF first
  <2>2. UnitOf(first) = u
    BY <1>1, <1>3, <2>1, UnitIs
  <2> QED
    BY <2>2 DEF Timestamp, Clock
<1> QED
  BY <1>5, <1>6 DEF UnitRecorded, AsSent

\* When senders tell the number of elements, as they can for up to three OBUs
\* of a unit, a unit all of whose packets arrived, after the last packet of the
\* unit before, is recorded as it was sent and under its own time, whatever is
\* lost before and after it and however its OBUs were cut.
THEOREM UnitsStayWhole ==
  ASSUME ~Legacy, NObus <= 3
  PROVE  Spec => []UnitsWhole
<1>1. Init => Assembled
  BY AssembledInit
<1>2. Assembled /\ [Next]_vars => Assembled'
  BY AssembledStep
<1>3. Assembled => UnitsWhole
  BY AssembledWhole
<1> QED
  BY <1>1, <1>2, <1>3, PTL DEF Spec
=============================================================================
