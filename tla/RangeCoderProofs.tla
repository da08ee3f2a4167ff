-------------------------- MODULE RangeCoderProofs --------------------------
(***************************************************************************)
(* Theorems about RangeCoder, for any CDFs, any number of symbols, any     *)
(* adaptation and any sizes of the window and of the encoder's buffer:     *)
(*  - every value keeps a part of the range (ValuesStayCodable);           *)
(*  - what is decoded is what was coded (DecodesWhatWasCoded), and the     *)
(*    window stays inside the interval (WindowStaysInside);                *)
(*  - every variable keeps its type (RangeCoderTypes), and no register of  *)
(*    64 bits is ever too small for its number (RegistersStayWide).        *)
(*                                                                         *)
(* The round trip goes as follows.  The bytes written and low are a number *)
(* num (Writes); an operation takes a part of the interval num ..          *)
(* num + rng - 1, and Flush writes a number x of the last interval (Tile). *)
(* The intervals are nested: x lies in all of them (Marks, Inside), so     *)
(* before each value the cut that x lies below is the one that was coded.  *)
(* The decoder's window holds how far x is below the end of the interval,  *)
(* as exactly as the bytes taken so far can say it (Reader): it is on the  *)
(* same side of every cut as x (ReaderBounds), makes the same choice       *)
(* (BoolRead, SymbolRead) and goes on to the next interval (DecodedReads). *)
(***************************************************************************)
EXTENDS RangeCoder, NaturalsInduction, WellFoundedInduction, TLAPS

-----------------------------------------------------------------------------
(* Powers of two, and induction on them.                                    *)

\* Every set of numbers has a least one: the order is well founded.
LEMMA LeastNumber ==
  ASSUME NEW T \in SUBSET Nat, T # {}
  PROVE  \E n \in T : \A m \in T : n <= m
<1> DEFINE Less == {pair \in Nat \X Nat : pair[1] < pair[2]}
<1>1. IsWellFoundedOn(Less, Nat)
  BY NatLessThanWellFounded DEF OpToRel
<1>2. PICK x \in T : \A y \in T : <<y, x>> \notin Less
  BY <1>1, WFMin
<1>3. ASSUME NEW y \in T PROVE x <= y
  <2>1. <<y, x>> \in Nat \X Nat /\ <<y, x>>[1] = y /\ <<y, x>>[2] = x
    OBVIOUS
  <2>2. ~(y < x)
    BY <1>2, <2>1
  <2> QED
    BY <2>2
<1> QED
  BY <1>3

\* What holds of 0, and of n + 1 below a bound when of n, holds up to the bound.
LEMMA BoundedInduction ==
  ASSUME NEW n \in Nat, NEW T \in SUBSET (0 .. n), 0 \in T,
         \A i \in T : i < n => i + 1 \in T
  PROVE  T = 0 .. n
<1> SUFFICES ASSUME T # 0 .. n PROVE FALSE
  OBVIOUS
<1> DEFINE U == (0 .. n) \ T
<1>1. U # {} /\ U \in SUBSET Nat
  <2> DEFINE whole == 0 .. n
  <2>1. whole \in SUBSET Nat
    OBVIOUS
  <2>2. T \in SUBSET whole /\ T # whole /\ U = whole \ T
    OBVIOUS
  <2> HIDE DEF whole, U
  <2> QED
    BY <2>1, <2>2
<1>2. PICK k \in U : \A m \in U : k <= m
  <2> HIDE DEF U
  <2> QED
    BY <1>1, LeastNumber, Zenon
<1>3. k # 0 /\ k - 1 \in 0 .. n /\ k - 1 < n /\ ~(k <= k - 1)
  BY <1>2
<1>4. k - 1 \in T
  BY <1>2, <1>3
<1> QED
  BY <1>2, <1>3, <1>4


\* Its counterpart without a bound.
LEMMA NaturalInduction ==
  ASSUME NEW T \in SUBSET Nat, 0 \in T, \A i \in T : i + 1 \in T
  PROVE  T = Nat
<1> SUFFICES ASSUME T # Nat PROVE FALSE
  OBVIOUS
<1> DEFINE U == Nat \ T
<1>1. U # {} /\ U \in SUBSET Nat
  OBVIOUS
<1>2. PICK k \in U : \A m \in U : k <= m
  <2> HIDE DEF U
  <2> QED
    BY <1>1, LeastNumber, Zenon
<1>3. k \in Nat /\ k \notin T
  OBVIOUS
<1>4. k # 0 /\ k - 1 \in Nat /\ ~(k <= k - 1) /\ (k - 1) + 1 = k
  BY <1>3
<1>5. k - 1 \in T
  BY <1>2, <1>4
<1> QED
  BY <1>3, <1>4, <1>5

Stepper(n, S) == [1 .. n -> [S -> S]]
IsRun(f, b, step, n) == f[0] = b /\ \A i \in 1 .. n : f[i] = step[i][f[i - 1]]

\* A step at a time, from a start: the run of values exists.
LEMMA RunExists ==
  ASSUME NEW S, NEW b \in S, NEW n \in Nat, NEW step \in Stepper(n, S)
  PROVE  \E f \in [0 .. n -> S] : IsRun(f, b, step, n)
<1> DEFINE Walks(f, m) == f[0] = b /\ \A i \in 1 .. m : f[i] = step[i][f[i - 1]]
           T == {m \in 0 .. n : \E f \in [0 .. m -> S] : Walks(f, m)}
<1>1. 0 \in T
  <2> DEFINE f == [i \in 0 .. 0 |-> b]
  <2>1. f \in [0 .. 0 -> S]
    OBVIOUS
  <2>2. f[0] = b
    OBVIOUS
  <2>3. \A i \in 1 .. 0 : f[i] = step[i][f[i - 1]]
    OBVIOUS
  <2> HIDE DEF f
  <2>4. Walks(f, 0)
    BY <2>2, <2>3
  <2> QED
    BY <2>1, <2>4
<1>2. ASSUME NEW m \in T, m < n PROVE m + 1 \in T
  <2>1. PICK f \in [0 .. m -> S] : Walks(f, m)
    OBVIOUS
  <2>2. m \in Nat /\ m + 1 \in 1 .. n
    BY <1>2
  <2> DEFINE g == [i \in 0 .. m + 1 |-> IF i = m + 1 THEN step[m + 1][f[m]] ELSE f[i]]
  <2>3. g \in [0 .. m + 1 -> S]
    <3>1. step[m + 1][f[m]] \in S
      BY <2>2 DEF Stepper
    <3>2. ASSUME NEW i \in 0 .. m + 1, i # m + 1 PROVE f[i] \in S
      BY <2>2, <3>2
    <3> QED
      BY <3>1, <3>2
  <2>4. Walks(g, m + 1)
    <3>1. g[0] = b
      BY <2>1, <2>2
    <3>2. ASSUME NEW i \in 1 .. m + 1 PROVE g[i] = step[i][g[i - 1]]
      <4>1. CASE i = m + 1
        <5>1. g[i - 1] = f[m] /\ g[i] = step[m + 1][f[m]]
          BY <2>2, <4>1
        <5> QED
          BY <4>1, <5>1
      <4>2. CASE i # m + 1
        <5>1. i \in 1 .. m /\ i - 1 \in 0 .. m /\ i - 1 # m + 1 /\ i \in 0 .. m + 1 /\ i - 1 \in 0 .. m + 1
          BY <2>2, <4>2
        <5>2. g[i] = f[i] /\ g[i - 1] = f[i - 1]
          BY <4>2, <5>1
        <5> QED
          BY <2>1, <5>1, <5>2
      <4> QED
        BY <4>1, <4>2
    <3> HIDE DEF g
    <3> QED
      BY <3>1, <3>2
  <2>5. m + 1 \in 0 .. n
    BY <2>2
  <2> HIDE DEF g, Walks
  <2> QED
    BY <2>3, <2>4, <2>5
<1> HIDE DEF Walks
<1>3. T \in SUBSET (0 .. n)
  OBVIOUS
<1>4. n \in T
  <2> HIDE DEF T
  <2>1. T = 0 .. n
    BY <1>1, <1>2, <1>3, BoundedInduction
  <2> QED
    BY <2>1
<1> QED
  BY <1>4 DEF IsRun, Walks


-----------------------------------------------------------------------------
(* Powers of two. *)

Doubles(f, n) == f[0] = 1 /\ \A i \in 1 .. n : f[i] = 2 * f[i - 1]

\* Doubling n times can be done,
LEMMA DoublesExists ==
  ASSUME NEW n \in Nat
  PROVE  \E f \in [0 .. n -> Nat] : Doubles(f, n)
<1> DEFINE twice == [x \in Nat |-> 2 * x]
           step == [i \in 1 .. n |-> twice]
<1>1. step \in Stepper(n, Nat)
  <2>1. twice \in [Nat -> Nat]
    OBVIOUS
  <2> HIDE DEF twice
  <2> QED
    BY <2>1 DEF Stepper
<1>2. \A i \in 1 .. n : \A x \in Nat : step[i][x] = 2 * x
  OBVIOUS
<1> HIDE DEF step
<1>3. PICK f \in [0 .. n -> Nat] : IsRun(f, 1, step, n)
  BY <1>1, RunExists
<1>4. ASSUME NEW i \in 1 .. n PROVE f[i] = 2 * f[i - 1]
  <2>1. f[i] = step[i][f[i - 1]] /\ i - 1 \in 0 .. n
    BY <1>3 DEF IsRun
  <2>2. f[i - 1] \in Nat
    BY <2>1
  <2> QED
    BY <1>2, <2>1, <2>2
<1>5. f[0] = 1
  BY <1>3 DEF IsRun
<1> QED
  BY <1>4, <1>5 DEF Doubles

\* and in one way.
LEMMA DoublesUnique ==
  ASSUME NEW m \in Nat, NEW n \in Nat, m <= n,
         NEW f \in [0 .. m -> Nat], Doubles(f, m), NEW g \in [0 .. n -> Nat], Doubles(g, n)
  PROVE  f[m] = g[m]
<1> DEFINE T == {i \in 0 .. m : f[i] = g[i]}
<1>1. 0 \in T
  BY DEF Doubles
<1>2. ASSUME NEW i \in T, i < m PROVE i + 1 \in T
  <2>1. i + 1 \in 1 .. m /\ i + 1 \in 1 .. n /\ (i + 1) - 1 = i /\ i + 1 \in 0 .. m
    BY <1>2
  <2>2. f[i + 1] = 2 * f[i] /\ g[i + 1] = 2 * g[i]
    BY <2>1 DEF Doubles
  <2> QED
    BY <2>1, <2>2
<1>3. T \in SUBSET (0 .. m)
  OBVIOUS
<1> HIDE DEF T
<1>4. T = 0 .. m
  BY <1>1, <1>2, <1>3, BoundedInduction
<1>5. m \in T
  BY <1>4
<1> QED
  BY <1>5 DEF T

\* The recursive definition has a solution, and so Two is one.
LEMMA TwoDefined ==
  Two = [n \in Nat |-> IF n = 0 THEN 1 ELSE 2 * Two[n - 1]]
<1> DEFINE Body(f) == [n \in Nat |-> IF n = 0 THEN 1 ELSE 2 * f[n - 1]]
           Part(n) == CHOOSE f \in [0 .. n -> Nat] : Doubles(f, n)
           whole == [n \in Nat |-> Part(n)[n]]
<1>1. ASSUME NEW n \in Nat PROVE Part(n) \in [0 .. n -> Nat] /\ Doubles(Part(n), n)
  BY DoublesExists
<1>2. ASSUME NEW n \in Nat PROVE whole[n] = Part(n)[n]
  OBVIOUS
<1>3. DOMAIN whole = Nat
  OBVIOUS
<1>4. whole = [n \in DOMAIN whole |-> whole[n]]
  OBVIOUS
<1> HIDE DEF Part, whole
<1>5. ASSUME NEW n \in Nat PROVE whole[n] = IF n = 0 THEN 1 ELSE 2 * whole[n - 1]
  <2>1. CASE n = 0
    BY <1>1, <1>2, <2>1 DEF Doubles
  <2>2. CASE n # 0
    <3>1. n - 1 \in Nat /\ n \in 1 .. n /\ n - 1 <= n
      BY <2>2
    <3>2. Part(n)[n] = 2 * Part(n)[n - 1]
      BY <1>1, <3>1 DEF Doubles
    <3>3. Part(n - 1)[n - 1] = Part(n)[n - 1]
      BY <1>1, <3>1, DoublesUnique
    <3> QED
      BY <1>2, <2>2, <3>1, <3>2, <3>3
  <2> QED
    BY <2>1, <2>2
<1>6. whole = Body(whole)
  BY <1>3, <1>4, <1>5
<1>7. \E f : f = Body(f)
  BY <1>6
<1>8. Two = CHOOSE f : f = Body(f)
  BY DEF Two
<1> HIDE DEF Body
<1>9. Two = Body(Two)
  BY <1>7, <1>8
<1> QED
  BY <1>9 DEF Body

\* Two is what its definition says.
LEMMA TwoStep ==
  /\ Two[0] = 1
  /\ \A n \in Nat : Two[n + 1] = 2 * Two[n]
<1>1. Two[0] = 1
  BY TwoDefined
<1>2. ASSUME NEW n \in Nat PROVE Two[n + 1] = 2 * Two[n]
  <2>1. n + 1 \in Nat /\ n + 1 # 0 /\ (n + 1) - 1 = n
    OBVIOUS
  <2>2. Two[n + 1] = IF n + 1 = 0 THEN 1 ELSE 2 * Two[(n + 1) - 1]
    BY <2>1, TwoDefined
  <2> QED
    BY <2>1, <2>2
<1> QED
  BY <1>1, <1>2

\* A power of two is a positive number.
LEMMA TwoType ==
  ASSUME NEW n \in Nat
  PROVE  Two[n] \in Int /\ 0 < Two[n] /\ 1 <= Two[n]
<1> DEFINE T == {i \in Nat : Two[i] \in Int /\ 0 < Two[i]}
<1>1. 0 \in T
  BY TwoStep
<1>2. ASSUME NEW i \in T PROVE i + 1 \in T
  BY TwoStep
<1>3. T \in SUBSET Nat
  OBVIOUS
<1> HIDE DEF T
<1>4. T = Nat
  BY <1>1, <1>2, <1>3, NaturalInduction
<1>5. n \in T
  BY <1>4
<1> QED
  BY <1>5 DEF T

\* Shifting by a sum is shifting twice.
LEMMA TwoSum ==
  ASSUME NEW a \in Nat, NEW b \in Nat
  PROVE  Two[a + b] = Two[a] * Two[b]
<1> DEFINE T == {i \in Nat : Two[a + i] = Two[a] * Two[i]}
<1>1. 0 \in T
  <2>1. Two[a] \in Int
    BY TwoType
  <2>2. Two[a] * 1 = Two[a]
    BY <2>1
  <2> QED
    BY <2>2, TwoStep
<1>2. ASSUME NEW i \in T PROVE i + 1 \in T
  <2>1. i \in Nat /\ a + i \in Nat /\ a + (i + 1) = (a + i) + 1 /\ Two[a + i] = Two[a] * Two[i]
    OBVIOUS
  <2>2. Two[i + 1] = 2 * Two[i] /\ Two[a + (i + 1)] = 2 * Two[a + i]
    BY <2>1, TwoStep
  <2>3. Two[a] \in Int /\ Two[i] \in Int
    BY <2>1, TwoType
  <2> DEFINE x == Two[a]
             y == Two[i]
  <2>4. x * (2 * y) = 2 * (x * y)
    <3> HIDE DEF x, y
    <3> QED
      BY <2>3 DEF x, y
  <2> QED
    BY <2>1, <2>2, <2>4
<1>3. T \in SUBSET Nat
  OBVIOUS
<1> HIDE DEF T
<1>4. T = Nat
  BY <1>1, <1>2, <1>3, NaturalInduction
<1>5. b \in T
  BY <1>4
<1> QED
  BY <1>5 DEF T

\* Shifting by less, and then by the rest.
LEMMA TwoDifference ==
  ASSUME NEW a \in Nat, NEW b \in Nat, b <= a
  PROVE  a - b \in Nat /\ Two[a] = Two[a - b] * Two[b]
<1>1. a - b \in Nat /\ a = (a - b) + b
  OBVIOUS
<1> QED
  BY <1>1, TwoSum

\* Shifting by more gives more.
LEMMA TwoMonotone ==
  ASSUME NEW a \in Nat, NEW b \in Nat, b <= a
  PROVE  Two[b] <= Two[a]
<1>1. a - b \in Nat /\ Two[a] = Two[a - b] * Two[b]
  BY TwoDifference
<1> DEFINE x == Two[a - b]
           y == Two[b]
<1>2. x \in Int /\ 1 <= x /\ y \in Int /\ 0 < y
  BY <1>1, TwoType
<1> HIDE DEF x, y
<1>3. y <= x * y
  BY <1>2
<1> QED
  BY <1>1, <1>3 DEF x, y

\* The shifts that occur with a constant.
LEMMA PowersOfTwo ==
  /\ Two[0] = 1 /\ Two[1] = 2 /\ Two[2] = 4 /\ Two[3] = 8 /\ Two[4] = 16 /\ Two[5] = 32
  /\ Two[6] = 64 /\ Two[7] = 128 /\ Two[8] = 256 /\ Two[9] = 512 /\ Two[10] = 1024
  /\ Two[11] = 2048 /\ Two[12] = 4096 /\ Two[13] = 8192 /\ Two[14] = 16384 /\ Two[15] = 32768
<1>1. Two[0] = 1 /\ Two[1] = 2 /\ Two[2] = 4 /\ Two[3] = 8 /\ Two[4] = 16 /\ Two[5] = 32
  BY TwoStep, SMT
<1>2. Two[6] = 64 /\ Two[7] = 128 /\ Two[8] = 256 /\ Two[9] = 512 /\ Two[10] = 1024
  BY <1>1, TwoStep, SMT
<1>3. Two[11] = 2048 /\ Two[12] = 4096 /\ Two[13] = 8192 /\ Two[14] = 16384 /\ Two[15] = 32768
  BY <1>2, TwoStep, SMT
<1> QED
  BY <1>1, <1>2, <1>3

Ranges == {r \in Int : 32768 <= r /\ r < 65536}

-----------------------------------------------------------------------------
(* Cuts. *)

\* A probability is a number of 15 bits.
LEMMA Probabilities ==
  /\ \A x \in Prob : x \in Int /\ 0 <= x /\ x < 32768
  /\ \A x \in Int : 0 <= x /\ x < 32768 => x \in Prob
BY DEF Prob

\* The high bits of a range, which a cut multiplies.
LEMMA RangeHigh ==
  ASSUME NEW rng \in Ranges
  PROVE  /\ rng \in Int
         /\ 32768 <= rng
         /\ rng < 65536
         /\ rng \div 256 \in Int
         /\ 128 <= rng \div 256
         /\ rng \div 256 <= 255
         /\ 256 * (rng \div 256) <= rng
<1>1. rng \in Int /\ 32768 <= rng /\ rng < 65536
  BY DEF Ranges
<1>2. rng \div 256 \in Int
  BY <1>1
<1>3. 128 <= rng \div 256
  BY <1>1
<1>4. rng \div 256 <= 255
  BY <1>1
<1>5. 256 * (rng \div 256) <= rng
  BY <1>1
<1> QED
  BY <1>1, <1>2, <1>3, <1>4, <1>5

\* The high bits of a probability.
LEMMA ProbHigh ==
  ASSUME NEW f \in Prob
  PROVE  /\ f \div 64 \in Int
         /\ 0 <= f \div 64
         /\ f \div 64 <= 511
<1>1. f \div 64 \in Int
  BY DEF Prob
<1>2. 0 <= f \div 64
  BY DEF Prob
<1>3. f \div 64 <= 511
  BY DEF Prob
<1> QED
  BY <1>1, <1>2, <1>3

\* A greater probability has no smaller high bits.
LEMMA ProbHighMonotone ==
  ASSUME NEW f \in Prob, NEW g \in Prob, f <= g
  PROVE  f \div 64 <= g \div 64
BY DEF Prob

\* A product of high bits, halved, leaves what is reserved for the other values.
LEMMA HalfProduct ==
  ASSUME NEW a \in Int, 128 <= a, a <= 255, NEW b \in Int, 0 <= b, b <= 511
  PROVE  /\ (a * b) \div 2 \in Int
         /\ 0 <= (a * b) \div 2
         /\ ((a * b) \div 2) + 60 < 256 * a
<1> DEFINE ab == a * b
<1>1. ab \in Int /\ 0 <= ab /\ ab <= a * 511
  OBVIOUS
<1> HIDE DEF ab
<1>2. ab \div 2 \in Int
  BY <1>1
<1>3. 0 <= ab \div 2
  BY <1>1
<1>4. 2 * (ab \div 2) <= ab
  BY <1>1
<1> DEFINE half == ab \div 2
<1>5. half \in Int /\ 2 * half <= ab
  BY <1>2, <1>4
<1> HIDE DEF half
<1>6. half + 60 < 256 * a
  BY <1>1, <1>5
<1> QED
  BY <1>2, <1>3, <1>6 DEF ab, half

\* A cut is below the range: even the largest probability leaves room for what
\* is reserved for the other values.
LEMMA CutInside ==
  ASSUME NEW rng \in Ranges, NEW f \in Prob, NEW n \in 1 .. 15
  PROVE  /\ Cut(rng, f, n) \in Int
         /\ 4 <= Cut(rng, f, n)
         /\ Cut(rng, f, n) < rng
<1> DEFINE a == rng \div 256
           b == f \div 64
           half == (a * b) \div 2
<1>1. rng \in Int /\ a \in Int /\ 128 <= a /\ a <= 255 /\ 256 * a <= rng
  BY RangeHigh
<1>2. b \in Int /\ 0 <= b /\ b <= 511
  BY ProbHigh
<1>3. Cut(rng, f, n) = half + 4 * n
  BY DEF Cut
<1> HIDE DEF a, b
<1>4. half \in Int /\ 0 <= half /\ half + 60 < 256 * a
  BY <1>1, <1>2, HalfProduct
<1> HIDE DEF half
<1> QED
  BY <1>1, <1>3, <1>4

\* A less likely tail is cut further down, by at least what one value is kept.
LEMMA CutFalls ==
  ASSUME NEW rng \in Ranges, NEW f \in Prob, NEW g \in Prob, g <= f, NEW n \in 0 .. 14
  PROVE  Cut(rng, g, n) < Cut(rng, f, n + 1)
<1> DEFINE a == rng \div 256
           b == f \div 64
           d == g \div 64
           ab == a * b
           ad == a * d
<1>1. a \in Int /\ 128 <= a
  BY RangeHigh
<1>2. b \in Int /\ d \in Int /\ 0 <= d
  BY ProbHigh
<1>3. d <= b
  BY ProbHighMonotone
<1>4. Cut(rng, f, n + 1) = (ab \div 2) + 4 * (n + 1)
  BY DEF Cut
<1>5. Cut(rng, g, n) = (ad \div 2) + 4 * n
  BY DEF Cut
<1> HIDE DEF a, b, d
<1>6. ad \in Int /\ ab \in Int /\ ad <= ab
  BY <1>1, <1>2, <1>3
<1> HIDE DEF ab, ad
<1>7. ad \div 2 <= ab \div 2
  BY <1>6
<1>8. ad \div 2 \in Int /\ ab \div 2 \in Int
  BY <1>6
<1> DEFINE x == ab \div 2
           y == ad \div 2
<1>9. x \in Int /\ y \in Int /\ y <= x
  BY <1>7, <1>8
<1> HIDE DEF x, y
<1>10. y + 4 * n < x + 4 * (n + 1)
  BY <1>9
<1> QED
  BY <1>4, <1>5, <1>10 DEF x, y

\* The cut of the last value, whose place the adaptation counter takes, is 0.
LEMMA LastCut ==
  ASSUME NEW rng \in Ranges, NEW c \in 0 .. 32
  PROVE  Cut(rng, c, 0) = 0
<1>1. c \div 64 = 0
  OBVIOUS
<1> DEFINE a == rng \div 256
<1>2. a \in Int
  BY RangeHigh
<1>3. Cut(rng, c, 0) = ((a * (c \div 64)) \div 2) + 4 * 0
  BY DEF Cut
<1> HIDE DEF a
<1>4. a * 0 = 0
  BY <1>2
<1> QED
  BY <1>1, <1>3, <1>4

-----------------------------------------------------------------------------
(* The cuts of a CDF. *)

\* The entries of a CDF.
LEMMA FallingEntries ==
  ASSUME NEW cdf, Falling(cdf)
  PROVE  /\ Len(cdf.p) \in 1 .. 15
         /\ cdf.count \in 0 .. 32
         /\ cdf.p \in Seq(Prob)
         /\ \A i \in 1 .. Len(cdf.p) : cdf.p[i] \in Prob
         /\ \A i, j \in 1 .. Len(cdf.p) : i <= j => cdf.p[j] <= cdf.p[i]
<1>1. Len(cdf.p) \in 1 .. 15
  BY DEF Falling
<1>2. cdf.count \in 0 .. 32
  BY DEF Falling
<1>3. cdf.p \in Seq(Prob)
  BY DEF Falling
<1>4. \A i \in 1 .. Len(cdf.p) : cdf.p[i] \in Prob
  BY <1>3
<1>5. ASSUME NEW i \in 1 .. Len(cdf.p), NEW j \in 1 .. Len(cdf.p), i <= j
      PROVE  cdf.p[j] <= cdf.p[i]
  <2>1. NonIncreasing(cdf.p)
    BY DEF Falling
  <2> QED
    BY <1>5, <2>1 DEF NonIncreasing
<1> QED
  BY <1>1, <1>2, <1>3, <1>4, <1>5

\* A value with an entry of its own: its cut is inside the range.
LEMMA EntryCut ==
  ASSUME NEW rng \in Ranges, NEW cdf, Falling(cdf), NEW val \in Int, 0 <= val, val < Len(cdf.p)
  PROVE  /\ SymbolCut(rng, cdf, val) = Cut(rng, cdf.p[val + 1], Len(cdf.p) - val)
         /\ cdf.p[val + 1] \in Prob
         /\ SymbolCut(rng, cdf, val) \in Int
         /\ 4 <= SymbolCut(rng, cdf, val)
         /\ SymbolCut(rng, cdf, val) < rng
<1> DEFINE n == Len(cdf.p)
<1>1. n \in 1 .. 15 /\ val < n
  BY FallingEntries
<1>2. val + 1 \in 1 .. n /\ n - val \in 1 .. 15
  <2> HIDE DEF n
  <2> QED
    BY <1>1
<1>3. SymbolCut(rng, cdf, val) = Cut(rng, cdf.p[val + 1], Len(cdf.p) - val)
  BY DEF SymbolCut, Entry
<1>4. cdf.p[val + 1] \in Prob
  BY <1>2, FallingEntries
<1> QED
  BY <1>2, <1>3, <1>4, CutInside

\* The last value takes what is left, down to 0.
LEMMA FinalCut ==
  ASSUME NEW rng \in Ranges, NEW cdf, Falling(cdf)
  PROVE  SymbolCut(rng, cdf, Len(cdf.p)) = 0
<1>1. Len(cdf.p) \in Int /\ cdf.count \in 0 .. 32
  BY FallingEntries
<1>2. Entry(cdf, Len(cdf.p)) = cdf.count /\ Len(cdf.p) - Len(cdf.p) = 0
  BY <1>1 DEF Entry
<1>3. SymbolCut(rng, cdf, Len(cdf.p)) = Cut(rng, cdf.count, 0)
  BY <1>2 DEF SymbolCut
<1> QED
  BY <1>1, <1>3, LastCut

\* Where the part of the range that a value owns begins.
Above(rng, cdf, val) == IF val = 0 THEN rng ELSE SymbolCut(rng, cdf, val - 1)

\* The cuts of a falling CDF fall, from the range down to zero: every value
\* owns a part of the range, and no part is as large as 2^16.
LEMMA SymbolCutsFall ==
  ASSUME NEW rng \in Ranges, NEW cdf, Falling(cdf), NEW val \in Int, 0 <= val, val <= Len(cdf.p)
  PROVE  /\ SymbolCut(rng, cdf, val) \in Int
         /\ Above(rng, cdf, val) \in Int
         /\ 0 <= SymbolCut(rng, cdf, val)
         /\ SymbolCut(rng, cdf, val) < Above(rng, cdf, val)
         /\ Above(rng, cdf, val) <= rng
<1> DEFINE n == Len(cdf.p)
           cut == SymbolCut(rng, cdf, val)
           above == Above(rng, cdf, val)
<1>1. n \in 1 .. 15 /\ rng \in Int /\ 32768 <= rng
  BY FallingEntries, RangeHigh
<1>2. cut \in Int /\ 0 <= cut /\ cut < rng /\ (val = n => cut = 0)
  <2>1. CASE val = n
    <3>1. cut = 0
      BY <2>1, FinalCut
    <3>2. 0 < rng
      BY <1>1
    <3> HIDE DEF cut
    <3> QED
      BY <1>1, <3>1, <3>2
  <2>2. CASE val # n
    <3>1. val < n
      BY <1>1, <2>2
    <3>2. cut \in Int /\ 4 <= cut /\ cut < rng
      BY <3>1, EntryCut
    <3> HIDE DEF cut
    <3> QED
      BY <2>2, <3>2
  <2> QED
    BY <2>1, <2>2
<1>3. CASE val = 0
  <2>1. above = rng
    BY <1>3 DEF Above
  <2> HIDE DEF cut, above
  <2> QED
    BY <1>1, <1>2, <2>1 DEF cut, above
<1>4. CASE val # 0
  <2> DEFINE w == val - 1
  <2>1. w \in Int /\ 0 <= w /\ w < n /\ w + 1 = val /\ n - w = (n - val) + 1 /\ n - val \in 0 .. 14
    <3> HIDE DEF n
    <3>1. val <= n
      BY DEF n
    <3> QED
      BY <1>1, <1>4, <3>1
  <2>2. above = SymbolCut(rng, cdf, w)
    BY <1>4 DEF Above
  <2> HIDE DEF w
  <2>3. above \in Int /\ 4 <= above /\ above < rng
    BY <2>1, <2>2, EntryCut
  <2>4. above = Cut(rng, cdf.p[val], (n - val) + 1) /\ cdf.p[val] \in Prob
    BY <2>1, <2>2, EntryCut
  <2>5. cut < above
    <3>1. CASE val = n
      <4> HIDE DEF cut, above
      <4> QED
        BY <1>2, <2>3, <3>1
    <3>2. CASE val # n
      <4>1. val < n
        BY <1>1, <3>2
      <4>2. cut = Cut(rng, cdf.p[val + 1], n - val) /\ cdf.p[val + 1] \in Prob
        BY <4>1, EntryCut
      <4>3. val \in 1 .. n /\ val + 1 \in 1 .. n /\ val <= val + 1
        BY <1>1, <1>4, <4>1
      <4>4. cdf.p[val + 1] <= cdf.p[val]
        BY <4>3, FallingEntries
      <4> HIDE DEF cut, above, n
      <4> QED
        BY <2>1, <2>4, <4>2, <4>4, CutFalls
    <3> QED
      BY <3>1, <3>2
  <2> HIDE DEF cut, above
  <2> QED
    BY <1>1, <1>2, <2>3, <2>5 DEF cut, above
<1> QED
  BY <1>3, <1>4

-----------------------------------------------------------------------------
(* Adaptation. *)

Up(x, r) == x + ((32768 - x) \div r)
Down(x, r) == x - (x \div r)
Steps == {16, 32, 64, 128}

\* The adaptation rate is one of four shifts.
LEMMA RateStep ==
  ASSUME NEW cdf, Falling(cdf)
  PROVE  Two[Rate(cdf)] \in Steps
<1> DEFINE c == cdf.count
           half == c \div 16
           more == IF Len(cdf.p) > 2 THEN 1 ELSE 0
<1>1. c \in 0 .. 32
  BY FallingEntries
<1> HIDE DEF c
<1>2. half \in 0 .. 2
  BY <1>1
<1>3. more \in 0 .. 1
  OBVIOUS
<1>4. Rate(cdf) = 4 + half + more
  BY DEF Rate, c
<1> HIDE DEF half, more
<1>5. Rate(cdf) \in 4 .. 7
  BY <1>2, <1>3, <1>4
<1>6. Two[4] = 16 /\ Two[5] = 32 /\ Two[6] = 64 /\ Two[7] = 128
  BY PowersOfTwo
<1>7. \/ Rate(cdf) = 4 \/ Rate(cdf) = 5 \/ Rate(cdf) = 6 \/ Rate(cdf) = 7
  BY <1>5
<1> DEFINE r == Two[Rate(cdf)]
<1>8. r = 16 \/ r = 32 \/ r = 64 \/ r = 128
  <2>1. Rate(cdf) = 4 => r = 16
    BY <1>6
  <2>2. Rate(cdf) = 5 => r = 32
    BY <1>6
  <2>3. Rate(cdf) = 6 => r = 64
    BY <1>6
  <2>4. Rate(cdf) = 7 => r = 128
    BY <1>6
  <2> HIDE DEF r
  <2> QED
    BY <1>7, <2>1, <2>2, <2>3, <2>4
<1> HIDE DEF r
<1>9. r \in Steps
  BY <1>8 DEF Steps
<1> QED
  BY <1>9 DEF r

\* A step moves a probability towards its end and never past it.
LEMMA UpBounds ==
  ASSUME NEW x \in Prob, NEW r \in Steps
  PROVE  /\ Up(x, r) \in Prob
         /\ x <= Up(x, r)
<1> DEFINE y == 32768 - x
           s == y \div r
<1>1. y \in Int /\ 1 <= y /\ x \in Int /\ 0 <= x /\ x + y = 32768
  BY Probabilities
<1>2. Up(x, r) = x + s
  BY DEF Up
<1> HIDE DEF y
<1>3. s \in Int /\ 0 <= s /\ s < y
  <2>1. CASE r = 16
    BY <1>1, <2>1
  <2>2. CASE r = 32
    BY <1>1, <2>2
  <2>3. CASE r = 64
    BY <1>1, <2>3
  <2>4. CASE r = 128
    BY <1>1, <2>4
  <2> QED
    BY <2>1, <2>2, <2>3, <2>4 DEF Steps
<1> HIDE DEF s
<1> DEFINE z == x + s
<1>4. z \in Int /\ 0 <= z /\ z < 32768 /\ x <= z
  BY <1>1, <1>3
<1> HIDE DEF z
<1>5. z \in Prob
  BY <1>4, Probabilities
<1> QED
  BY <1>2, <1>4, <1>5 DEF z

\* An entry after the symbol stays a probability and moves down.
LEMMA DownBounds ==
  ASSUME NEW x \in Prob, NEW r \in Steps
  PROVE  /\ Down(x, r) \in Prob
         /\ Down(x, r) <= x
<1> DEFINE s == x \div r
<1>1. x \in Int /\ 0 <= x /\ x < 32768
  BY Probabilities
<1>2. Down(x, r) = x - s
  BY DEF Down
<1>3. s \in Int /\ 0 <= s /\ s <= x
  <2>1. CASE r = 16
    BY <1>1, <2>1
  <2>2. CASE r = 32
    BY <1>1, <2>2
  <2>3. CASE r = 64
    BY <1>1, <2>3
  <2>4. CASE r = 128
    BY <1>1, <2>4
  <2> QED
    BY <2>1, <2>2, <2>3, <2>4 DEF Steps
<1> HIDE DEF s
<1> DEFINE z == x - s
<1>4. z \in Int /\ 0 <= z /\ z < 32768 /\ z <= x
  BY <1>1, <1>3
<1> HIDE DEF z
<1>5. z \in Prob
  BY <1>4, Probabilities
<1> QED
  BY <1>2, <1>4, <1>5 DEF z

\* Two probabilities moved the same way keep their order.
LEMMA UpMonotone ==
  ASSUME NEW x \in Prob, NEW y \in Prob, y <= x, NEW r \in Steps
  PROVE  Up(y, r) <= Up(x, r)
<1>1. x \in Int /\ y \in Int
  BY Probabilities
<1>2. CASE r = 16
  BY <1>1, <1>2 DEF Up
<1>3. CASE r = 32
  BY <1>1, <1>3 DEF Up
<1>4. CASE r = 64
  BY <1>1, <1>4 DEF Up
<1>5. CASE r = 128
  BY <1>1, <1>5 DEF Up
<1> QED
  BY <1>2, <1>3, <1>4, <1>5 DEF Steps

\* Moving down keeps the order.
LEMMA DownMonotone ==
  ASSUME NEW x \in Prob, NEW y \in Prob, y <= x, NEW r \in Steps
  PROVE  Down(y, r) <= Down(x, r)
<1>1. x \in Int /\ y \in Int
  BY Probabilities
<1>2. CASE r = 16
  BY <1>1, <1>2 DEF Down
<1>3. CASE r = 32
  BY <1>1, <1>3 DEF Down
<1>4. CASE r = 64
  BY <1>1, <1>4 DEF Down
<1>5. CASE r = 128
  BY <1>1, <1>5 DEF Down
<1> QED
  BY <1>2, <1>3, <1>4, <1>5 DEF Steps

\* An adapted CDF still falls.
LEMMA AdaptedFalling ==
  ASSUME NEW cdf, Falling(cdf), NEW val \in Int
  PROVE  Falling(Adapted(cdf, val))
<1> DEFINE n == Len(cdf.p)
           p == cdf.p
           r == Two[Rate(cdf)]
           q == [i \in 1 .. n |-> IF i <= val THEN Up(p[i], r) ELSE Down(p[i], r)]
           c == IF cdf.count < 32 THEN cdf.count + 1 ELSE cdf.count
<1>1. n \in 1 .. 15 /\ cdf.count \in 0 .. 32
  BY FallingEntries
<1>2. \A i \in 1 .. n : p[i] \in Prob
  BY FallingEntries
<1>3. ASSUME NEW i \in 1 .. n, NEW j \in 1 .. n, i <= j PROVE p[j] <= p[i]
  BY <1>3, FallingEntries
<1>4. r \in Steps
  BY RateStep
<1>5. Adapted(cdf, val) = [p |-> q, count |-> c]
  BY DEF Adapted, Up, Down
<1>6. c \in 0 .. 32
  BY <1>1
<1> HIDE DEF n, p, r
<1>7. \A i \in 1 .. n : q[i] \in Prob
  BY <1>2, <1>4, UpBounds, DownBounds
<1>8. ASSUME NEW i \in 1 .. n, NEW j \in 1 .. n, i <= j PROVE q[j] <= q[i]
  <2>1. p[i] \in Prob /\ p[j] \in Prob /\ p[j] <= p[i]
    BY <1>2, <1>3, <1>8
  <2>2. CASE j <= val
    <3>1. i <= val
      BY <1>8, <2>2
    <3>2. q[i] = Up(p[i], r) /\ q[j] = Up(p[j], r)
      BY <2>2, <3>1
    <3> QED
      BY <1>4, <2>1, <3>2, UpMonotone
  <2>3. CASE ~(i <= val)
    <3>1. ~(j <= val)
      BY <1>8, <2>3
    <3>2. q[i] = Down(p[i], r) /\ q[j] = Down(p[j], r)
      BY <2>3, <3>1
    <3> QED
      BY <1>4, <2>1, <3>2, DownMonotone
  <2>4. CASE i <= val /\ ~(j <= val)
    <3>1. q[i] = Up(p[i], r) /\ q[j] = Down(p[j], r)
      BY <2>4
    <3>2. q[j] <= p[j] /\ p[i] <= q[i]
      BY <1>4, <2>1, <3>1, UpBounds, DownBounds
    <3> HIDE DEF q
    <3>3. q[i] \in Prob /\ q[j] \in Prob
      BY <1>7
    <3>4. \A x \in Prob : x \in Int
      BY Probabilities
    <3>5. q[i] \in Int /\ q[j] \in Int /\ p[i] \in Int /\ p[j] \in Int
      BY <2>1, <3>3, <3>4
    <3> QED
      BY <2>1, <3>2, <3>5
  <2> QED
    BY <2>2, <2>3, <2>4
<1>9. q \in Seq(Prob) /\ Len(q) = n
  <2>1. DOMAIN q = 1 .. n /\ n \in Nat
    BY <1>1
  <2>2. q \in [1 .. n -> Prob]
    BY <1>7
  <2> HIDE DEF q
  <2> QED
    BY <2>1, <2>2
<1> HIDE DEF q, c
<1>10. NonIncreasing(q)
  BY <1>8, <1>9 DEF NonIncreasing
<1>11. /\ Adapted(cdf, val) \in [p : Seq(Prob), count : 0 .. 32]
       /\ Adapted(cdf, val).p = q
  <2>1. q \in Seq(Prob)
    BY <1>9
  <2> DEFINE seqs == Seq(Prob)
  <2>2. q \in seqs
    BY <2>1
  <2> HIDE DEF seqs
  <2>3. [p |-> q, count |-> c] \in [p : seqs, count : 0 .. 32]
    BY <1>6, <2>2
  <2> QED
    BY <1>5, <2>3 DEF seqs
<1>12. Len(Adapted(cdf, val).p) \in 1 .. 15
  <2>1. Adapted(cdf, val).p = q
    BY <1>11
  <2>2. n \in 1 .. 15
    BY <1>1
  <2>3. Len(q) = n
    BY <1>9
  <2> QED
    BY <2>1, <2>2, <2>3
<1>13. NonIncreasing(Adapted(cdf, val).p)
  BY <1>10, <1>11
<1> QED
  BY <1>11, <1>12, <1>13 DEF Falling

-----------------------------------------------------------------------------
(* Normalization. *)

\* Some shift brings any range left after a symbol back to 16 bits.
LEMMA ShiftExists ==
  ASSUME NEW x \in Int, 1 <= x, x < 65536
  PROVE  \E d \in 0 .. 15 : 32768 <= x * Two[d] /\ x * Two[d] < 65536
<1> DEFINE Brings(d) == 32768 <= x * Two[d] /\ x * Two[d] < 65536
<1> HIDE DEF Brings
<1> SUFFICES \E d \in 0 .. 15 : Brings(d)
  BY DEF Brings
<1>1. ASSUME NEW d \in 0 .. 15, Brings(d)
      PROVE  \E k \in 0 .. 15 : Brings(k)
  BY <1>1
<1>2. CASE 32768 <= x /\ x < 65536
  <2>1. 32768 <= x * 1 /\ x * 1 < 65536
    BY <1>2
  <2> QED
    BY <1>1, <2>1, PowersOfTwo DEF Brings
<1>3. CASE 16384 <= x /\ x < 32768
  <2>1. 32768 <= x * 2 /\ x * 2 < 65536
    BY <1>3
  <2> QED
    BY <1>1, <2>1, PowersOfTwo DEF Brings
<1>4. CASE 8192 <= x /\ x < 16384
  <2>1. 32768 <= x * 4 /\ x * 4 < 65536
    BY <1>4
  <2> QED
    BY <1>1, <2>1, PowersOfTwo DEF Brings
<1>5. CASE 4096 <= x /\ x < 8192
  <2>1. 32768 <= x * 8 /\ x * 8 < 65536
    BY <1>5
  <2> QED
    BY <1>1, <2>1, PowersOfTwo DEF Brings
<1>6. CASE 2048 <= x /\ x < 4096
  <2>1. 32768 <= x * 16 /\ x * 16 < 65536
    BY <1>6
  <2> QED
    BY <1>1, <2>1, PowersOfTwo DEF Brings
<1>7. CASE 1024 <= x /\ x < 2048
  <2>1. 32768 <= x * 32 /\ x * 32 < 65536
    BY <1>7
  <2> QED
    BY <1>1, <2>1, PowersOfTwo DEF Brings
<1>8. CASE 512 <= x /\ x < 1024
  <2>1. 32768 <= x * 64 /\ x * 64 < 65536
    BY <1>8
  <2> QED
    BY <1>1, <2>1, PowersOfTwo DEF Brings
<1>9. CASE 256 <= x /\ x < 512
  <2>1. 32768 <= x * 128 /\ x * 128 < 65536
    BY <1>9
  <2> QED
    BY <1>1, <2>1, PowersOfTwo DEF Brings
<1>10. CASE 128 <= x /\ x < 256
  <2>1. 32768 <= x * 256 /\ x * 256 < 65536
    BY <1>10
  <2> QED
    BY <1>1, <2>1, PowersOfTwo DEF Brings
<1>11. CASE 64 <= x /\ x < 128
  <2>1. 32768 <= x * 512 /\ x * 512 < 65536
    BY <1>11
  <2> QED
    BY <1>1, <2>1, PowersOfTwo DEF Brings
<1>12. CASE 32 <= x /\ x < 64
  <2>1. 32768 <= x * 1024 /\ x * 1024 < 65536
    BY <1>12
  <2> QED
    BY <1>1, <2>1, PowersOfTwo DEF Brings
<1>13. CASE 16 <= x /\ x < 32
  <2>1. 32768 <= x * 2048 /\ x * 2048 < 65536
    BY <1>13
  <2> QED
    BY <1>1, <2>1, PowersOfTwo DEF Brings
<1>14. CASE 8 <= x /\ x < 16
  <2>1. 32768 <= x * 4096 /\ x * 4096 < 65536
    BY <1>14
  <2> QED
    BY <1>1, <2>1, PowersOfTwo DEF Brings
<1>15. CASE 4 <= x /\ x < 8
  <2>1. 32768 <= x * 8192 /\ x * 8192 < 65536
    BY <1>15
  <2> QED
    BY <1>1, <2>1, PowersOfTwo DEF Brings
<1>16. CASE 2 <= x /\ x < 4
  <2>1. 32768 <= x * 16384 /\ x * 16384 < 65536
    BY <1>16
  <2> QED
    BY <1>1, <2>1, PowersOfTwo DEF Brings
<1>17. CASE 1 <= x /\ x < 2
  <2>1. 32768 <= x * 32768 /\ x * 32768 < 65536
    BY <1>17
  <2> QED
    BY <1>1, <2>1, PowersOfTwo DEF Brings
<1>18. CASE 256 <= x
  BY <1>18, <1>2, <1>3, <1>4, <1>5, <1>6, <1>7, <1>8, <1>9
<1>19. CASE x < 256
  BY <1>19, <1>10, <1>11, <1>12, <1>13, <1>14, <1>15, <1>16, <1>17
<1> QED
  BY <1>18, <1>19

\* The shift that normalisation takes is that one.
LEMMA ShiftBrings ==
  ASSUME NEW x \in Int, 1 <= x, x < 65536
  PROVE  x * Two[Shift(x)] \in Ranges
<1> DEFINE Brings(d) == 32768 <= x * Two[d] /\ x * Two[d] < 65536
<1>1. \E d \in 0 .. 15 : Brings(d)
  BY ShiftExists
<1>2. Shift(x) = CHOOSE d \in 0 .. 15 : Brings(d)
  BY DEF Shift
<1> HIDE DEF Brings
<1>3. Shift(x) \in 0 .. 15 /\ Brings(Shift(x))
  BY <1>1, <1>2
<1>4. \A d \in 0 .. 15 : Two[d] \in Int
  BY PowersOfTwo
<1> DEFINE y == x * Two[Shift(x)]
<1>5. y \in Int
  BY <1>3, <1>4
<1>6. 32768 <= y /\ y < 65536
  BY <1>3 DEF Brings
<1> HIDE DEF y
<1>7. y \in Ranges
  BY <1>5, <1>6 DEF Ranges
<1> QED
  BY <1>7 DEF y

\* So a normalised encoder has a range of 16 bits.
LEMMA NormalizedRange ==
  ASSUME NEW e, NEW low, NEW x \in Int, 1 <= x, x < 65536
  PROVE  Normalize(e, low, x).rng \in Ranges
<1> DEFINE r == x * Two[Shift(x)]
<1>1. r \in Ranges
  BY ShiftBrings
<1>2. Normalize(e, low, x).rng = r
  BY DEF Normalize
<1> QED
  BY <1>1, <1>2

-----------------------------------------------------------------------------
(* The invariant: the encoder's range is normalized between two symbols, and  *)
(* its CDFs fall.                                                             *)

AllFalling(cdfs) ==
    /\ DOMAIN cdfs = DOMAIN Contexts
    /\ \A ctx \in DOMAIN Contexts : Falling(cdfs[ctx])

CodableInv == enc.rng \in Ranges /\ AllFalling(ecdf)

\* It holds at the start,
LEMMA CodableInit == Init => CodableInv
<1> SUFFICES ASSUME Init PROVE CodableInv
  OBVIOUS
<1>1. enc.rng = 32768
  BY DEF Init, NewEncoder
<1>2. ecdf = Contexts
  BY DEF Init
<1>3. AllFalling(ecdf)
  BY <1>2, ProbabilitiesAssumption DEF AllFalling
<1> QED
  BY <1>1, <1>3 DEF CodableInv, Ranges

\* after a bool,
LEMMA PutBoolRange ==
  ASSUME enc.rng \in Ranges, NEW val, NEW f \in Probs
  PROVE  EncodeBool(enc, val, f).rng \in Ranges
<1> DEFINE rng == enc.rng
           v == Cut(rng, f, 1)
<1>1. f \in Prob
  BY ProbabilitiesAssumption
<1>2. v \in Int /\ 4 <= v /\ v < rng
  BY <1>1, CutInside
<1>3. rng \in Int /\ rng < 65536
  BY RangeHigh
<1> HIDE DEF v, rng
<1>4. /\ 1 <= v /\ v < 65536
      /\ rng - v \in Int /\ 1 <= rng - v /\ rng - v < 65536
  BY <1>2, <1>3
<1>5. CASE val = 1
  <2>1. EncodeBool(enc, val, f) = Normalize(enc, enc.low + (rng - v), v)
    BY <1>5 DEF EncodeBool, v, rng
  <2> QED
    BY <1>2, <1>4, <2>1, NormalizedRange
<1>6. CASE val # 1
  <2>1. EncodeBool(enc, val, f) = Normalize(enc, enc.low, rng - v)
    BY <1>6 DEF EncodeBool, v, rng
  <2> QED
    BY <1>2, <1>4, <2>1, NormalizedRange
<1> QED
  BY <1>5, <1>6

\* after a symbol,
LEMMA PutSymbolRange ==
  ASSUME enc.rng \in Ranges, NEW cdf, Falling(cdf),
         NEW val \in 0 .. 15, val <= Len(cdf.p)
  PROVE  EncodeSymbol(enc, val, cdf).rng \in Ranges
<1> DEFINE rng == enc.rng
           u == Above(rng, cdf, val)
           v == SymbolCut(rng, cdf, val)
<1>1. u \in Int /\ v \in Int /\ 0 <= v /\ v < u /\ u <= rng
  <2>1. val \in Int /\ 0 <= val
    OBVIOUS
  <2> QED
    BY <2>1, SymbolCutsFall
<1>2. rng \in Int /\ rng < 65536
  BY RangeHigh
<1>3. EncodeSymbol(enc, val, cdf) = Normalize(enc, enc.low + (rng - u), u - v)
  BY DEF EncodeSymbol, Above
<1> HIDE DEF rng, u, v
<1>4. u - v \in Int /\ 1 <= u - v /\ u - v < 65536
  BY <1>1, <1>2
<1> QED
  BY <1>3, <1>4, NormalizedRange

\* and after every step;
LEMMA CodableNext ==
  ASSUME CodableInv, [Next]_vars
  PROVE  CodableInv'
<1> USE DEF CodableInv
<1>1. ASSUME NEW val \in 0 .. 1, NEW f \in Probs, PutBool(val, f) PROVE CodableInv'
  <2>1. enc'.rng \in Ranges
    BY <1>1, PutBoolRange DEF PutBool
  <2>2. ecdf' = ecdf
    BY <1>1 DEF PutBool
  <2> QED
    BY <2>1, <2>2 DEF AllFalling
<1>2. ASSUME NEW ctx \in DOMAIN Contexts, NEW val \in 0 .. 15, PutSymbol(val, ctx)
      PROVE  CodableInv'
  <2>1. Falling(ecdf[ctx]) /\ val <= Len(ecdf[ctx].p)
    BY <1>2 DEF PutSymbol, AllFalling
  <2>2. enc' = EncodeSymbol(enc, val, ecdf[ctx])
    BY <1>2 DEF PutSymbol
  <2>3. enc'.rng \in Ranges
    BY <2>1, <2>2, PutSymbolRange
  <2>4. ecdf' = [ecdf EXCEPT ![ctx] = Adapted(ecdf[ctx], val)]
    BY <1>2 DEF PutSymbol
  <2>5. Falling(Adapted(ecdf[ctx], val))
    <3>1. val \in Int
      OBVIOUS
    <3> QED
      BY <2>1, <3>1, AdaptedFalling
  <2>6. AllFalling(ecdf')
    BY <2>4, <2>5 DEF AllFalling
  <2> QED
    BY <2>3, <2>6 DEF AllFalling
<1>3. CASE FinishTile
  BY <1>3 DEF FinishTile, AllFalling
<1>4. CASE GetBool
  BY <1>4 DEF GetBool, AllFalling
<1>5. CASE GetSymbol
  BY <1>5 DEF GetSymbol, AllFalling
<1>6. CASE UNCHANGED vars
  BY <1>6 DEF vars, AllFalling
<1> QED
  BY <1>1, <1>2, <1>3, <1>4, <1>5, <1>6 DEF Next

\* and in it every value can be coded.
LEMMA CodableSafe == CodableInv => EveryValueCodable
<1> SUFFICES ASSUME CodableInv,
                    NEW ctx \in DOMAIN ecdf, NEW val \in 0 .. Len(ecdf[ctx].p)
             PROVE  SymbolCut(enc.rng, ecdf[ctx], val)
                      < (IF val = 0 THEN enc.rng ELSE SymbolCut(enc.rng, ecdf[ctx], val - 1))
  BY DEF EveryValueCodable
<1>1. Falling(ecdf[ctx]) /\ enc.rng \in Ranges
  BY DEF CodableInv, AllFalling
<1>2. val \in Int /\ 0 <= val /\ val <= Len(ecdf[ctx].p)
  <2>1. Len(ecdf[ctx].p) \in 1 .. 15
    BY <1>1, FallingEntries
  <2> QED
    BY <2>1
<1>3. SymbolCut(enc.rng, ecdf[ctx], val) < Above(enc.rng, ecdf[ctx], val)
  BY <1>1, <1>2, SymbolCutsFall
<1> QED
  BY <1>3 DEF Above

(* However many symbols a tile has, whatever CDFs it starts with and however  *)
(* they have adapted, each value of each context still owns a part of the     *)
(* encoder's 16-bit range (Cut's reserve of 4 per value, adapt's rates).      *)
THEOREM ValuesStayCodable == Spec => []EveryValueCodable
<1>1. Spec => []CodableInv
  BY CodableInit, CodableNext, PTL DEF Spec
<1> QED
  BY <1>1, CodableSafe, PTL

-----------------------------------------------------------------------------
(* Quotients. *)

\* Division with a remainder,
LEMMA Quotient ==
  ASSUME NEW x \in Int, NEW a \in Int, 0 < a
  PROVE  /\ x \div a \in Int
         /\ x % a \in Int
         /\ 0 <= x % a
         /\ x % a < a
         /\ x = a * (x \div a) + (x % a)
<1> DEFINE q == x \div a
           r == x % a
<1>1. q \in Int
  OBVIOUS
<1>2. r \in Int /\ 0 <= r /\ r < a
  OBVIOUS
<1>3. x = r + a * q
  OBVIOUS
<1> HIDE DEF q, r
<1>4. x = a * q + r
  BY <1>1, <1>2, <1>3
<1> QED
  BY <1>1, <1>2, <1>4 DEF q, r

\* whose quotient and remainder are unique.
LEMMA QuotientIs ==
  ASSUME NEW x \in Int, NEW a \in Int, 0 < a,
         NEW q \in Int, NEW r \in Int, 0 <= r, r < a, x = a * q + r
  PROVE  x \div a = q /\ x % a = r
<1>1. x \div a = q
  OBVIOUS
<1>2. x % a = r
  OBVIOUS
<1> QED
  BY <1>1, <1>2

\* Dropping a byte more.
LEMMA QuotientOfQuotient ==
  ASSUME NEW x \in Int, NEW a \in Int, 0 < a
  PROVE  (x \div a) \div 256 = x \div (256 * a)
<1> DEFINE q == x \div a
           r == x % a
           k == q \div 256
           m == q % 256
<1>1. q \in Int /\ r \in Int /\ 0 <= r /\ r < a /\ x = a * q + r
  BY Quotient
<1> HIDE DEF q, r
<1>2. k \in Int /\ m \in Int /\ 0 <= m /\ m <= 255 /\ q = 256 * k + m
  BY <1>1
<1> HIDE DEF k, m
<1> DEFINE s == a * m + r
           z == 256 * a
<1>3. a * m \in Int /\ 0 <= a * m /\ a * m <= a * 255
  BY <1>2
<1>4. s \in Int /\ 0 <= s /\ s < z /\ z \in Int /\ 0 < z
  <2> DEFINE y == a * m
  <2>1. y \in Int /\ 0 <= y /\ y <= a * 255
    BY <1>3
  <2> HIDE DEF y
  <2>2. y + r \in Int /\ 0 <= y + r /\ y + r < 256 * a
    BY <1>1, <2>1
  <2> QED
    BY <2>2 DEF y
<1>5. x = z * k + s
  <2>1. a * (256 * k + m) + r = 256 * a * k + (a * m + r)
    BY <1>1, <1>2
  <2> QED
    BY <1>1, <1>2, <2>1
<1> HIDE DEF s, z
<1>6. x \div z = k
  BY <1>2, <1>4, <1>5, QuotientIs
<1> QED
  BY <1>6 DEF k, q, z

\* A quotient compared with a number.
LEMMA QuotientBounds ==
  ASSUME NEW x \in Int, NEW a \in Int, 0 < a, NEW y \in Int
  PROVE  /\ y * a <= x => y <= x \div a
         /\ x < y * a => x \div a < y
<1> DEFINE q == x \div a
           r == x % a
<1>1. q \in Int /\ r \in Int /\ 0 <= r /\ r < a /\ x = a * q + r
  BY Quotient
<1> HIDE DEF q, r
<1>2. ASSUME y * a <= x PROVE y <= q
  <2> SUFFICES ASSUME q + 1 <= y PROVE FALSE
    BY <1>1
  <2>1. (q + 1) * a <= y * a
    BY <1>1
  <2>2. (q + 1) * a = a * q + a
    BY <1>1
  <2> DEFINE p == a * q
             ya == y * a
  <2>3. p \in Int /\ ya \in Int
    BY <1>1
  <2> HIDE DEF p, ya
  <2> QED
    BY <1>1, <1>2, <2>1, <2>2, <2>3 DEF p, ya
<1>3. ASSUME x < y * a PROVE q < y
  <2> SUFFICES ASSUME y <= q PROVE FALSE
    BY <1>1
  <2>1. y * a <= q * a /\ q * a = a * q
    BY <1>1
  <2> DEFINE p == a * q
             ya == y * a
  <2>2. p \in Int /\ ya \in Int
    BY <1>1
  <2> HIDE DEF p, ya
  <2> QED
    BY <1>1, <1>3, <2>1, <2>2 DEF p, ya
<1> QED
  BY <1>2, <1>3 DEF q

\* A product with a positive number keeps the order.
LEMMA ProductOrder ==
  ASSUME NEW x \in Int, NEW y \in Int, NEW a \in Int, 0 < a
  PROVE  /\ x * a \in Int
         /\ x <= y => x * a <= y * a
         /\ x < y => x * a < y * a
         /\ x * a < y * a => x < y
         /\ x * a = y * a => x = y
OBVIOUS

-----------------------------------------------------------------------------
(* A sequence of bytes as a number: v[j] is what its first j bytes say, and   *)
(* b[j] what one step of byte j is worth.                                     *)

Prefixes(bytes, v) ==
    /\ bytes \in Seq(Byte)
    /\ v \in [0 .. Len(bytes) -> Nat]
    /\ v[0] = 0
    /\ \A j \in 1 .. Len(bytes) : v[j] = 256 * v[j - 1] + bytes[j]

Units(b, n, last) ==
    /\ b \in [0 .. n -> Nat]
    /\ \A j \in 1 .. n : b[j - 1] = 256 * b[j]
    /\ b[n] = last

\* A function on 1 .. n with bytes for values is a sequence of bytes.
LEMMA ByteSequence ==
  ASSUME NEW n \in Nat, NEW f \in [1 .. n -> Byte]
  PROVE  f \in Seq(Byte) /\ Len(f) = n
<1> DEFINE B == Byte
<1>1. f \in [1 .. n -> B]
  OBVIOUS
<1> HIDE DEF B
<1> QED
  BY <1>1

\* The entries of a sequence of bytes.
LEMMA ByteEntries ==
  ASSUME NEW s \in Seq(Byte)
  PROVE  /\ Len(s) \in Nat
         /\ \A i \in 1 .. Len(s) : s[i] \in Int /\ 0 <= s[i] /\ s[i] <= 255
<1> DEFINE B == Byte
<1>1. s \in Seq(B)
  OBVIOUS
<1>2. \A x \in B : x \in Int /\ 0 <= x /\ x <= 255
  BY DEF Byte
<1> HIDE DEF B
<1>3. Len(s) \in Nat
  BY <1>1
<1>4. \A i \in 1 .. Len(s) : s[i] \in B
  BY <1>1
<1> QED
  BY <1>2, <1>3, <1>4

\* One sequence of bytes after another.
LEMMA ByteConcat ==
  ASSUME NEW s \in Seq(Byte), NEW t \in Seq(Byte)
  PROVE  /\ s \o t \in Seq(Byte)
         /\ Len(s \o t) = Len(s) + Len(t)
         /\ \A i \in 1 .. Len(s) : (s \o t)[i] = s[i]
         /\ \A i \in 1 .. Len(t) : (s \o t)[Len(s) + i] = t[i]
<1> DEFINE B == Byte
<1>1. s \in Seq(B) /\ t \in Seq(B)
  OBVIOUS
<1> HIDE DEF B
<1>2. s \o t \in Seq(B)
  BY <1>1
<1>3. Len(s \o t) = Len(s) + Len(t) /\ Len(s) \in Nat /\ Len(t) \in Nat
  BY <1>1
<1>4. \A i \in 1 .. Len(s) : (s \o t)[i] = s[i]
  BY <1>1, <1>3
<1>5. ASSUME NEW i \in 1 .. Len(t) PROVE (s \o t)[Len(s) + i] = t[i]
  <2>1. Len(s) + i \in 1 .. Len(s) + Len(t) /\ Len(s) + i > Len(s) /\ (Len(s) + i) - Len(s) = i
    BY <1>3
  <2> QED
    BY <1>1, <1>3, <2>1
<1> QED
  BY <1>2, <1>3, <1>4, <1>5 DEF B

\* The number that bytes stand for is a natural number.
LEMMA PrefixType ==
  ASSUME NEW bytes, NEW v, Prefixes(bytes, v)
  PROVE  Len(bytes) \in Nat /\ v[Len(bytes)] \in Nat /\ v[Len(bytes)] \in Int
<1>1. Len(bytes) \in Nat
  <2>1. bytes \in Seq(Byte)
    BY DEF Prefixes
  <2> QED
    BY <2>1, ByteEntries
<1>2. v \in [0 .. Len(bytes) -> Nat]
  BY DEF Prefixes
<1>3. v[Len(bytes)] \in Nat
  <2> DEFINE m == Len(bytes)
  <2> HIDE DEF m
  <2>1. m \in 0 .. m /\ v \in [0 .. m -> Nat]
    BY <1>1, <1>2 DEF m
  <2>2. v[m] \in Nat
    BY <2>1
  <2> QED
    BY <2>2 DEF m
<1> QED
  BY <1>1, <1>3

\* The last byte below 255 is there when one is.
LEMMA CarryPlace ==
  ASSUME NEW buf \in Seq(Byte), NEW i \in 1 .. Len(buf), buf[i] # 255
  PROVE  \E k \in 1 .. Len(buf) : buf[k] # 255 /\ \A j \in (k + 1) .. Len(buf) : buf[j] = 255
<1> DEFINE n == Len(buf)
           T == {m \in Nat : n - m \in 1 .. n /\ buf[n - m] # 255}
<1>1. n \in Nat
  BY ByteEntries
<1>2. n - i \in T
  <2>1. n - i \in Nat /\ n - (n - i) = i
    BY <1>1
  <2> QED
    BY <2>1
<1>3. T \in SUBSET Nat
  OBVIOUS
<1>4. PICK m \in T : \A x \in T : m <= x
  <2> HIDE DEF T
  <2>1. T # {}
    BY <1>2
  <2> QED
    BY <1>3, <2>1, LeastNumber
<1> DEFINE k == n - m
<1>5. k \in 1 .. n /\ buf[k] # 255 /\ m \in Nat /\ m = n - k
  BY <1>1
<1>6. ASSUME NEW j \in (k + 1) .. n PROVE buf[j] = 255
  <2> SUFFICES ASSUME buf[j] # 255 PROVE FALSE
    OBVIOUS
  <2> HIDE DEF n, k
  <2>1. n - j \in Nat /\ n - (n - j) = j /\ j \in 1 .. n /\ ~(m <= n - j)
    BY <1>1, <1>5
  <2>2. n - j \in T
    BY <2>1
  <2> HIDE DEF T
  <2> QED
    BY <1>4, <2>1, <2>2
<1> QED
  BY <1>5, <1>6

\* A carry into the bytes written is an increment of the number they are.
LEMMA CarryAdds ==
  ASSUME NEW buf, NEW v, Prefixes(buf, v), NEW i \in 1 .. Len(buf), buf[i] # 255
  PROVE  /\ Len(PropagateCarryBackward(buf)) = Len(buf)
         /\ \E w : Prefixes(PropagateCarryBackward(buf), w) /\ w[Len(buf)] = v[Len(buf)] + 1
<1> DEFINE n == Len(buf)
           Place(k) == buf[k] # 255 /\ \A j \in (k + 1) .. n : buf[j] = 255
           k == CHOOSE x \in 1 .. n : Place(x)
           new == [x \in 1 .. n |-> IF x < k THEN buf[x] ELSE IF x = k THEN buf[x] + 1 ELSE 0]
           w == [x \in 0 .. n |-> IF x < k THEN v[x] ELSE v[x] + 1]
<1>1. buf \in Seq(Byte)
  BY DEF Prefixes
<1>2. n \in Nat /\ \A x \in 1 .. n : buf[x] \in Int /\ 0 <= buf[x] /\ buf[x] <= 255
  BY <1>1, ByteEntries
<1>3. \E x \in 1 .. n : Place(x)
  BY <1>1, CarryPlace
<1>4. PropagateCarryBackward(buf) = new
  BY DEF PropagateCarryBackward
<1>5. k \in 1 .. n /\ Place(k)
  <2> HIDE DEF Place
  <2> QED
    BY <1>3
<1>6. buf[k] # 255 /\ \A j \in (k + 1) .. n : buf[j] = 255
  BY <1>5
<1> HIDE DEF k, Place
<1>7. new \in [1 .. n -> Byte]
  <2>1. ASSUME NEW x \in 1 .. n
        PROVE  (IF x < k THEN buf[x] ELSE IF x = k THEN buf[x] + 1 ELSE 0) \in Byte
    <3>1. buf[x] \in Int /\ 0 <= buf[x] /\ buf[x] <= 255 /\ x \in Int /\ k \in Int
      BY <1>2, <1>5
    <3>2. x = k => buf[x] # 255
      BY <1>6
    <3>3. ASSUME NEW y \in Int, 0 <= y, y <= 255, x = k => y # 255
          PROVE  (IF x < k THEN y ELSE IF x = k THEN y + 1 ELSE 0) \in 0 .. 255
      BY <3>1, <3>3
    <3> QED
      BY <3>1, <3>2, <3>3, ZenonT(60) DEF Byte
  <2> QED
    BY <2>1
<1>8. new \in Seq(Byte) /\ Len(new) = n
  BY <1>2, <1>7, ByteSequence
<1>9. \A x \in 0 .. n : v[x] \in Nat
  BY SMTT(60) DEF Prefixes
<1>10. w \in [0 .. n -> Nat]
  BY <1>9
<1>11. w[0] = 0
  BY <1>2, <1>5 DEF Prefixes
<1>12. ASSUME NEW j \in 1 .. n PROVE w[j] = 256 * w[j - 1] + new[j]
  <2>1. v[j] = 256 * v[j - 1] + buf[j] /\ j - 1 \in 0 .. n /\ j \in 0 .. n
    BY <1>2 DEF Prefixes
  <2>2. v[j] \in Int /\ v[j - 1] \in Int /\ buf[j] \in Int
    BY <1>2, <1>9, <2>1
  <2>3. CASE j < k
    <3>1. w[j] = v[j] /\ w[j - 1] = v[j - 1] /\ new[j] = buf[j]
      BY <1>5, <2>1, <2>3
    <3> QED
      BY <2>1, <3>1
  <2>4. CASE j = k
    <3>1. w[j] = v[j] + 1 /\ w[j - 1] = v[j - 1] /\ new[j] = buf[j] + 1
      BY <1>5, <2>1, <2>4
    <3> HIDE DEF w, new
    <3> QED
      BY <2>1, <2>2, <3>1, SMTT(60)
  <2>5. CASE k < j
    <3>1. w[j] = v[j] + 1 /\ w[j - 1] = v[j - 1] + 1 /\ new[j] = 0
      BY <1>5, <2>1, <2>5
    <3>2. buf[j] = 255
      BY <1>5, <1>6, <2>5
    <3> HIDE DEF w, new
    <3> QED
      BY <2>1, <2>2, <3>1, <3>2, SMTT(60)
  <2> QED
    BY <1>5, <2>3, <2>4, <2>5
<1>13. w[n] = v[n] + 1
  BY <1>2, <1>5
<1> HIDE DEF w, new, n
<1>14. Prefixes(new, w)
  BY <1>8, <1>10, <1>11, <1>12 DEF Prefixes
<1> QED
  BY <1>4, <1>8, <1>13, <1>14 DEF n

-----------------------------------------------------------------------------
(* Writing bytes out. *)

\* What the first i of n bytes of a number say.
High(x, n, i) == x \div Two[8 * (n - i)]

\* One byte more is a factor of 256,
LEMMA TwoByte ==
  ASSUME NEW n \in Nat
  PROVE  Two[n + 8] = 256 * Two[n]
<1>1. Two[n + 8] = Two[n] * Two[8]
  BY TwoSum
<1>2. Two[n] \in Int
  BY TwoType
<1> DEFINE x == Two[n]
<1>3. x * 256 = 256 * x
  <2> HIDE DEF x
  <2> QED
    BY <1>2 DEF x
<1> QED
  BY <1>1, <1>3, PowersOfTwo

\* whichever way it is counted.
LEMMA TwoEight ==
  ASSUME NEW i \in Nat
  PROVE  Two[8 * (i + 1)] = 256 * Two[8 * i]
<1>1. 8 * i \in Nat /\ 8 * (i + 1) = 8 * i + 8
  OBVIOUS
<1> QED
  BY <1>1, TwoByte

\* The high bytes of a number: each step adds one.
LEMMA HighSteps ==
  ASSUME NEW x \in Int, 0 <= x, NEW n \in Nat
  PROVE  /\ High(x, n, n) = x
         /\ High(x, n, 0) = x \div Two[8 * n]
         /\ \A i \in 0 .. n : High(x, n, i) \in Int /\ 0 <= High(x, n, i)
         /\ \A i \in 1 .. n :
               High(x, n, i) = 256 * High(x, n, i - 1) + (High(x, n, i) % 256)
<1>1. High(x, n, n) = x
  <2>1. 8 * (n - n) = 0
    OBVIOUS
  <2>2. x \div 1 = x
    OBVIOUS
  <2> QED
    BY <2>1, <2>2, TwoStep DEF High
<1>2. High(x, n, 0) = x \div Two[8 * n]
  <2>1. n - 0 = n
    OBVIOUS
  <2> QED
    BY <2>1 DEF High
<1>3. ASSUME NEW i \in 0 .. n PROVE High(x, n, i) \in Int /\ 0 <= High(x, n, i)
  <2> DEFINE a == Two[8 * (n - i)]
  <2>1. 8 * (n - i) \in Nat
    OBVIOUS
  <2>2. a \in Int /\ 0 < a
    BY <2>1, TwoType
  <2> HIDE DEF a
  <2>3. 0 * a = 0
    BY <2>2
  <2>4. x \div a \in Int /\ 0 <= x \div a
    BY <2>2, <2>3, Quotient, QuotientBounds
  <2> QED
    BY <2>4 DEF a, High
<1>4. ASSUME NEW i \in 1 .. n
      PROVE  High(x, n, i) = 256 * High(x, n, i - 1) + (High(x, n, i) % 256)
  <2> DEFINE a == Two[8 * (n - i)]
             h == High(x, n, i)
             g == High(x, n, i - 1)
  <2>1. n - i \in Nat /\ 8 * (n - i) \in Nat /\ n - (i - 1) = (n - i) + 1
    OBVIOUS
  <2>2. a \in Int /\ 0 < a
    BY <2>1, TwoType
  <2>3. Two[8 * (n - (i - 1))] = 256 * a
    BY <2>1, TwoEight
  <2>4. h = x \div a /\ g = x \div (256 * a)
    BY <2>3 DEF High
  <2> HIDE DEF a, h, g
  <2>5. g = h \div 256
    BY <2>2, <2>4, QuotientOfQuotient
  <2>6. h \in Int
    BY <1>3 DEF h
  <2>7. h = 256 * (h \div 256) + (h % 256)
    BY <2>6
  <2> QED
    BY <2>5, <2>7 DEF h, g
<1> QED
  BY <1>1, <1>2, <1>3, <1>4

\* In three parts, for use: their type,
LEMMA HighType ==
  ASSUME NEW x \in Int, 0 <= x, NEW n \in Nat, NEW i \in 0 .. n
  PROVE  High(x, n, i) \in Int /\ 0 <= High(x, n, i)
BY HighSteps

\* one step,
LEMMA HighStep ==
  ASSUME NEW x \in Int, 0 <= x, NEW n \in Nat, NEW i \in 1 .. n
  PROVE  High(x, n, i) = 256 * High(x, n, i - 1) + (High(x, n, i) % 256)
BY HighSteps

\* and the first and the last.
LEMMA HighEnds ==
  ASSUME NEW x \in Int, 0 <= x, NEW n \in Nat
  PROVE  High(x, n, n) = x /\ High(x, n, 0) = x \div Two[8 * n]
BY HighSteps

\* Bytes gives n bytes, the low bytes of those numbers.
LEMMA BytesAre ==
  ASSUME NEW x \in Int, 0 <= x, NEW n \in Nat
  PROVE  /\ Bytes(x, n) \in Seq(Byte)
         /\ Len(Bytes(x, n)) = n
         /\ \A i \in 1 .. n : Bytes(x, n)[i] = High(x, n, i) % 256
<1> DEFINE s == Bytes(x, n)
<1>1. \A i \in 1 .. n : s[i] = High(x, n, i) % 256
  BY DEF Bytes, High
<1>2. ASSUME NEW i \in 1 .. n PROVE s[i] \in Byte
  <2>1. High(x, n, i) \in Int
    BY HighSteps
  <2>2. High(x, n, i) % 256 \in 0 .. 255
    <3> DEFINE h == High(x, n, i)
    <3> HIDE DEF h
    <3>1. h \in Int
      BY <2>1 DEF h
    <3>2. h % 256 \in 0 .. 255
      BY <3>1
    <3> QED
      BY <3>2 DEF h
  <2> QED
    BY <1>1, <2>2 DEF Byte
<1>3. s = [i \in 1 .. n |-> s[i]]
  BY DEF Bytes
<1> HIDE DEF s
<1>4. s \in [1 .. n -> Byte]
  BY <1>2, <1>3
<1>5. s \in Seq(Byte) /\ Len(s) = n
  BY <1>4, ByteSequence
<1> QED
  BY <1>1, <1>5 DEF s

\* One of them.
LEMMA ByteIs ==
  ASSUME NEW x \in Int, 0 <= x, NEW n \in Nat, NEW i \in 1 .. n
  PROVE  Bytes(x, n)[i] = High(x, n, i) % 256
BY BytesAre

\* Bytes that are all 255 are those of one less than a power.
LEMMA AllOnes ==
  ASSUME NEW x \in Int, 0 <= x, NEW n \in Nat,
         \A i \in 1 .. n : Bytes(x, n)[i] = 255
  PROVE  x + 1 = Two[8 * n] * ((x \div Two[8 * n]) + 1)
<1> DEFINE z == High(x, n, 0)
           T == {i \in 0 .. n : High(x, n, i) + 1 = Two[8 * i] * (z + 1)}
<1>1. z \in Int /\ z = x \div Two[8 * n]
  <2>1. 0 \in 0 .. n
    OBVIOUS
  <2> QED
    BY <2>1, HighType, HighEnds
<1>2. 0 \in T
  <2>1. 8 * 0 = 0
    OBVIOUS
  <2>2. z + 1 = 1 * (z + 1)
    <3> HIDE DEF z
    <3> QED
      BY <1>1
  <2> QED
    BY <2>1, <2>2, TwoStep
<1>3. ASSUME NEW i \in T, i < n PROVE i + 1 \in T
  <2> DEFINE h == High(x, n, i)
             g == High(x, n, i + 1)
             a == Two[8 * i]
  <2>1. i \in Nat /\ i + 1 \in 1 .. n /\ (i + 1) - 1 = i /\ i \in 0 .. n /\ i + 1 \in 0 .. n
    BY <1>3
  <2>2. h + 1 = a * (z + 1)
    OBVIOUS
  <2>3. g = 256 * h + (g % 256)
    BY <2>1, HighStep
  <2>4. g % 256 = 255
    BY <2>1, ByteIs
  <2>5. Two[8 * (i + 1)] = 256 * a
    BY <2>1, TwoEight
  <2>6. h \in Int /\ g \in Int /\ a \in Int
    <3>1. 8 * i \in Nat
      BY <2>1
    <3>2. a \in Int
      BY <3>1, TwoType
    <3>3. h \in Int
      BY <2>1, HighType
    <3>4. g \in Int
      BY <2>1, HighType
    <3> QED
      BY <3>2, <3>3, <3>4
  <2> HIDE DEF h, g, a, z
  <2>7. g = 256 * h + 255
    BY <2>3, <2>4
  <2>8. g + 1 = 256 * (h + 1)
    BY <2>6, <2>7
  <2>9. 256 * (a * (z + 1)) = (256 * a) * (z + 1)
    BY <1>1, <2>6
  <2>10. g + 1 = Two[8 * (i + 1)] * (z + 1)
    BY <2>2, <2>5, <2>8, <2>9
  <2> QED
    BY <2>1, <2>10 DEF g
<1>4. T \in SUBSET (0 .. n)
  OBVIOUS
<1> HIDE DEF T
<1>5. T = 0 .. n
  BY <1>2, <1>3, <1>4, BoundedInduction
<1>6. n \in T
  BY <1>5
<1>7. High(x, n, n) + 1 = Two[8 * n] * (z + 1)
  BY <1>6 DEF T
<1> QED
  BY <1>1, <1>7, HighEnds

\* bytes say sum in their first m.
Reads(bytes, w, m, sum) == Prefixes(bytes, w) /\ w[m] = sum

EmitsAs(buf, v, n, out) ==
    /\ Len(EmitBytes(buf, out, n)) = Len(buf) + n
    /\ \E w : Reads(EmitBytes(buf, out, n), w, Len(buf) + n, v[Len(buf)] * Two[8 * n] + out)
    /\ (\A i \in 1 .. Len(buf) + n : EmitBytes(buf, out, n)[i] = 255) =>
          \/ out + 1 = 2 * Two[8 * n]
          \/ out + 1 = Two[8 * n] /\ \A i \in 1 .. Len(buf) : buf[i] = 255

\* The bytes written and the carry into those before: what is written reads as
\* the number that was put behind the number there was.
LEMMA EmitsNumber ==
  ASSUME NEW buf, NEW v, Prefixes(buf, v), NEW n \in Nat, 1 <= n,
         NEW out \in Int, 0 <= out, out < 2 * Two[8 * n],
         out < Two[8 * n] \/ \E i \in 1 .. Len(buf) : buf[i] # 255
  PROVE  EmitsAs(buf, v, n, out)
<1> DEFINE L == Len(buf)
           p == Two[8 * n]
           z == High(out, n, 0)
           base == IF out >= p THEN PropagateCarryBackward(buf) ELSE buf
           bs == Bytes(out, n)
           new == EmitBytes(buf, out, n)
<1>1. buf \in Seq(Byte) /\ L \in Nat
  BY ByteEntries DEF Prefixes
<1>2. p \in Int /\ 0 < p
  <2>1. 8 * n \in Nat
    OBVIOUS
  <2> QED
    BY <2>1, TwoType
<1>3. z = out \div p /\ z \in Int
  <2>1. 0 \in 0 .. n
    OBVIOUS
  <2> QED
    BY <2>1, HighType, HighEnds
<1>4. (out < p => z = 0) /\ (out >= p => z = 1)
  <2> HIDE DEF p, z
  <2>1. 0 * p = 0 /\ 1 * p = p /\ 2 * p \in Int
    BY <1>2
  <2>2. 0 <= z
    BY <1>2, <1>3, <2>1, QuotientBounds
  <2>3. out < 2 * p => z < 2
    BY <1>2, <1>3, QuotientBounds
  <2>4. out < p => z < 1
    BY <1>2, <1>3, <2>1, QuotientBounds
  <2>5. p <= out => 1 <= z
    BY <1>2, <1>3, <2>1, QuotientBounds
  <2>6. out < 2 * p
    BY DEF p
  <2> QED
    BY <1>2, <1>3, <2>2, <2>3, <2>4, <2>5, <2>6
<1>5. new = base \o bs
  BY DEF EmitBytes
<1>6. Len(base) = L /\ \E u : Prefixes(base, u) /\ u[L] = v[L] + z
  <2>1. CASE out < p
    <3>1. ~(out >= p)
      <4> HIDE DEF p
      <4> QED
        BY <1>2, <2>1
    <3>2. base = buf
      BY <3>1
    <3>3. v[L] \in Int
      BY <1>1 DEF Prefixes
    <3>4. v[L] + z = v[L]
      <4> DEFINE y == v[L]
      <4> HIDE DEF y, z
      <4>1. y + 0 = y
        BY <3>3 DEF y
      <4> QED
        BY <1>4, <2>1, <4>1 DEF y
    <3> QED
      BY <3>2, <3>4
  <2>2. CASE out >= p
    <3>1. PICK i \in 1 .. L : buf[i] # 255
      <4>1. ~(out < p)
        <5> HIDE DEF p
        <5> QED
          BY <1>2, <2>2
      <4> QED
        BY <4>1
    <3>2. /\ Len(PropagateCarryBackward(buf)) = L
          /\ \E u : Prefixes(PropagateCarryBackward(buf), u) /\ u[L] = v[L] + 1
      BY <3>1, CarryAdds
    <3> HIDE DEF z
    <3> QED
      BY <1>4, <2>2, <3>2
  <2> QED
    <3> HIDE DEF p
    <3> QED
      BY <1>2, <2>1, <2>2
<1>7. PICK u : Prefixes(base, u) /\ u[L] = v[L] + z
  BY <1>6
<1>8. base \in Seq(Byte) /\ bs \in Seq(Byte) /\ Len(bs) = n
  BY <1>7, BytesAre DEF Prefixes
<1> DEFINE w == [x \in 0 .. L + n |->
                   IF x <= L THEN u[x] ELSE v[L] * Two[8 * (x - L)] + High(out, n, x - L)]
<1>9. /\ new \in Seq(Byte)
      /\ Len(new) = L + n
      /\ \A i \in 1 .. L : new[i] = base[i]
      /\ \A i \in 1 .. n : new[L + i] = bs[i]
  <2> HIDE DEF new, base, bs, L
  <2>1. /\ base \o bs \in Seq(Byte)
        /\ Len(base \o bs) = Len(base) + Len(bs)
        /\ \A i \in 1 .. Len(base) : (base \o bs)[i] = base[i]
        /\ \A i \in 1 .. Len(bs) : (base \o bs)[Len(base) + i] = bs[i]
    BY <1>8, ByteConcat, ZenonT(60)
  <2>2. Len(base) = L /\ Len(bs) = n
    BY <1>6, <1>8
  <2> DEFINE s == base \o bs
  <2>3. /\ s \in Seq(Byte)
        /\ Len(s) = L + n
        /\ \A i \in 1 .. L : s[i] = base[i]
        /\ \A i \in 1 .. n : s[L + i] = bs[i]
    BY <2>1, <2>2, Zenon
  <2> HIDE DEF s
  <2>4. new = s
    BY <1>5 DEF s
  <2> QED
    BY <2>3, <2>4
<1>10. v[L] \in Nat
  BY <1>1 DEF Prefixes
<1>11. ASSUME NEW i \in 0 .. n
       PROVE  /\ w[L + i] = v[L] * Two[8 * i] + High(out, n, i)
              /\ w[L + i] \in Nat
  <2>0. 8 * i \in Nat
    OBVIOUS
  <2>1. Two[8 * i] \in Int /\ 0 < Two[8 * i] /\ High(out, n, i) \in Int /\ 0 <= High(out, n, i)
    <3>1. Two[8 * i] \in Int /\ 0 < Two[8 * i]
      BY <2>0, TwoType
    <3>2. High(out, n, i) \in Int /\ 0 <= High(out, n, i)
      BY HighType
    <3> QED
      BY <3>1, <3>2
  <2>2. v[L] * Two[8 * i] + High(out, n, i) \in Nat
    <3> DEFINE y == v[L]
               t == Two[8 * i]
               h == High(out, n, i)
    <3>1. y \in Nat /\ t \in Int /\ 0 < t /\ h \in Int /\ 0 <= h
      BY <1>10, <2>1
    <3> HIDE DEF y, t, h
    <3>2. 0 <= y * t /\ y * t \in Int
      BY <3>1
    <3>3. y * t + h \in Nat
      BY <3>1, <3>2
    <3> QED
      BY <3>3 DEF y, t, h
  <2>3. L + i \in 0 .. L + n /\ (L + i) - L = i
    <3> HIDE DEF L
    <3> QED
      BY <1>1
  <2>4. CASE i = 0
    <3>1. w[L + i] = u[L]
      <4>1. L + 0 = L /\ L <= L
        BY <1>1
      <4> QED
        BY <2>3, <2>4, <4>1
    <3>2. v[L] * Two[8 * 0] = v[L]
      <4>1. 8 * 0 = 0
        OBVIOUS
      <4>2. v[L] * 1 = v[L]
        BY <1>10
      <4> QED
        BY <4>1, <4>2, TwoStep
    <3> HIDE DEF w
    <3> QED
      BY <1>7, <2>2, <2>4, <3>1, <3>2
  <2>5. CASE i # 0
    <3>1. ~(L + i <= L)
      <4> HIDE DEF L
      <4> QED
        BY <1>1, <2>5
    <3>2. w[L + i] = v[L] * Two[8 * i] + High(out, n, i)
      BY <2>3, <3>1
    <3> QED
      BY <2>2, <3>2
  <2> QED
    BY <2>4, <2>5
<1>12. ASSUME NEW x \in 0 .. L PROVE w[x] = u[x] /\ w[x] \in Nat
  <2>1. x \in 0 .. L + n /\ x <= L
    <3> HIDE DEF L
    <3> QED
      BY <1>1
  <2>2. w[x] = u[x]
    BY <2>1
  <2>3. u[x] \in Nat
    <3> HIDE DEF base, L
    <3>1. u \in [0 .. L -> Nat]
      BY <1>6, <1>7 DEF Prefixes
    <3> QED
      BY <3>1
  <2> QED
    BY <2>2, <2>3
<1>13. w \in [0 .. L + n -> Nat]
  <2>1. ASSUME NEW x \in 0 .. L + n PROVE w[x] \in Nat
    <3>1. CASE x <= L
      <4>1. x \in 0 .. L
        <5> HIDE DEF L
        <5> QED
          BY <1>1, <3>1
      <4> QED
        BY <1>12, <4>1
    <3>2. CASE L < x
      <4>1. x - L \in 0 .. n /\ L + (x - L) = x
        <5> HIDE DEF L
        <5> QED
          BY <1>1, <3>2
      <4> HIDE DEF w
      <4> QED
        BY <1>11, <4>1
    <3> QED
      <4> HIDE DEF L, w
      <4> QED
        BY <1>1, <3>1, <3>2
  <2>2. w = [x \in 0 .. L + n |-> w[x]]
    OBVIOUS
  <2> HIDE DEF w
  <2> QED
    BY <2>1, <2>2
<1>14. w[0] = 0
  <2>1. 0 \in 0 .. L
    BY <1>1
  <2> HIDE DEF w
  <2> QED
    BY <1>7, <1>12, <2>1 DEF Prefixes
<1> HIDE DEF w
<1>15. ASSUME NEW x \in 1 .. L + n PROVE w[x] = 256 * w[x - 1] + new[x]
  <2>1. CASE x <= L
    <3>1. x \in 1 .. L /\ x \in 0 .. L /\ x - 1 \in 0 .. L
      <4> HIDE DEF L
      <4> QED
        BY <1>1, <2>1
    <3>2. u[x] = 256 * u[x - 1] + base[x]
      BY <1>6, <1>7, <3>1 DEF Prefixes
    <3> HIDE DEF new, base, L
    <3> QED
      BY <1>9, <1>12, <3>1, <3>2
  <2>2. CASE L < x
    <3> DEFINE i == x - L
               h == High(out, n, i)
               g == High(out, n, i - 1)
               t == Two[8 * (i - 1)]
               y == v[L]
    <3>1. i \in 1 .. n /\ i \in 0 .. n /\ i - 1 \in 0 .. n /\ L + i = x /\ L + (i - 1) = x - 1
          /\ i - 1 \in Nat /\ (i - 1) + 1 = i /\ 8 * (i - 1) \in Nat
      <4> HIDE DEF L
      <4> QED
        BY <1>1, <2>2
    <3>2. new[x] = h % 256
      <4>1. new[x] = bs[i] /\ bs[i] = h % 256
        <5> HIDE DEF new, L, i, base
        <5>1. Bytes(out, n)[i] = High(out, n, i) % 256
          BY <3>1, ByteIs
        <5> QED
          BY <1>9, <3>1, <5>1, SMTT(60)
      <4> QED
        BY <4>1
    <3>3. h = 256 * g + (h % 256)
      <4> HIDE DEF i
      <4> QED
        BY <3>1, HighStep
    <3>4. h \in Int /\ g \in Int /\ t \in Int
      <4> HIDE DEF i
      <4> QED
        BY <3>1, HighType, TwoType
    <3>5. Two[8 * i] = 256 * t
      <4> HIDE DEF i
      <4> QED
        BY <3>1, TwoEight, ZenonT(60)
    <3>6. w[x] = y * (256 * t) + h /\ w[x - 1] = y * t + g
      <4> HIDE DEF i, L
      <4>1. w[L + i] = v[L] * Two[8 * i] + High(out, n, i)
        BY <1>11, <3>1
      <4>2. w[L + (i - 1)] = v[L] * Two[8 * (i - 1)] + High(out, n, i - 1)
        BY <1>11, <3>1
      <4> QED
        BY <3>1, <3>5, <4>1, <4>2
    <3>7. y \in Int
      BY <1>10
    <3> HIDE DEF h, g, t, y, i, new, L
    <3>8. y * (256 * t) = 256 * (y * t)
      BY <3>4, <3>7
    <3> DEFINE yt == y * t
               m == h % 256
    <3>9. yt \in Int /\ m \in Int
      BY <3>4, <3>7
    <3> HIDE DEF yt, m
    <3>10. 256 * yt + (256 * g + m) = 256 * (yt + g) + m
      BY <3>4, <3>9
    <3> QED
      BY <3>2, <3>3, <3>6, <3>8, <3>10 DEF yt, m
  <2> QED
    <3> HIDE DEF L, new
    <3> QED
      BY <1>1, <2>1, <2>2
<1>16. w[L + n] = v[L] * p + out
  <2>1. n \in 0 .. n
    OBVIOUS
  <2>2. High(out, n, n) = out
    BY HighEnds
  <2> QED
    BY <1>11, <2>1, <2>2
<1>17. Prefixes(new, w)
  <2> HIDE DEF new, L
  <2> QED
    BY <1>9, <1>13, <1>14, <1>15 DEF Prefixes
<1>18. ASSUME \A i \in 1 .. L + n : new[i] = 255
       PROVE  out + 1 = 2 * p \/ (out + 1 = p /\ \A i \in 1 .. L : buf[i] = 255)
  <2>1. ASSUME NEW i \in 1 .. n PROVE bs[i] = 255
    <3>1. L + i \in 1 .. L + n
      <4> HIDE DEF L
      <4> QED
        BY <1>1
    <3> HIDE DEF L, new, bs, base
    <3> QED
      BY <1>9, <1>18, <3>1
  <2>2. out + 1 = p * (z + 1)
    BY <1>3, <2>1, AllOnes
  <2>3. CASE out >= p
    <3> HIDE DEF p, z
    <3>1. out + 1 = p * (1 + 1)
      BY <1>4, <2>2, <2>3
    <3> QED
      BY <1>2, <3>1
  <2>4. CASE out < p
    <3>1. base = buf
      <4>1. ~(out >= p)
        <5> HIDE DEF p
        <5> QED
          BY <1>2, <2>4
      <4> QED
        BY <4>1
    <3>2. ASSUME NEW i \in 1 .. L PROVE buf[i] = 255
      <4>1. i \in 1 .. L + n
        <5> HIDE DEF L
        <5> QED
          BY <1>1
      <4> HIDE DEF L, new, base
      <4> QED
        BY <1>9, <1>18, <3>1, <4>1
    <3>3. out + 1 = p
      <4> HIDE DEF p, z
      <4>1. out + 1 = p * (0 + 1)
        BY <1>4, <2>2, <2>4
      <4> QED
        BY <1>2, <4>1
    <3> QED
      BY <3>2, <3>3
  <2> QED
    <3> HIDE DEF p
    <3> QED
      BY <1>2, <2>3, <2>4
<1> HIDE DEF new, L, p
<1>19. \E x : Prefixes(new, x) /\ x[L + n] = v[L] * p + out
  BY <1>16, <1>17
<1>20. \E x : Reads(new, x, L + n, v[L] * p + out)
  BY <1>19 DEF Reads
<1> QED
  BY <1>9, <1>18, <1>20 DEF new, L, p, EmitsAs

-----------------------------------------------------------------------------
(* The encoder's state, and the number it stands for.                         *)

\* The interval may reach past what is pending by one bit; past the last byte
\* written only where a carry has a place.
Coder(e) ==
    /\ e.low \in Nat
    /\ e.rng \in Ranges
    /\ e.cnt \in Int /\ -9 <= e.cnt /\ e.cnt <= 39
    /\ e.low + e.rng <= Two[e.cnt + 25]
    /\ \/ e.low + e.rng <= Two[e.cnt + 24]
       \/ \E i \in 1 .. Len(e.buf) : e.buf[i] # 255

\* Units that add up to top.
Spans(b, n, last, top) == Units(b, n, last) /\ b[0] = top

\* num is where the interval begins and top the length of all there is, in
\* steps of the last bit of low.
Writes(e, num, top) ==
    /\ Coder(e)
    /\ \E v : /\ Prefixes(e.buf, v)
              /\ num = v[Len(e.buf)] * Two[e.cnt + 24] + e.low
    /\ \E b : Spans(b, Len(e.buf), Two[e.cnt + 24], top)

\* What the shift of a range does.
LEMMA ShiftIs ==
  ASSUME NEW x \in Int, 1 <= x, x < 65536
  PROVE  /\ Shift(x) \in Int /\ 0 <= Shift(x) /\ Shift(x) <= 15
         /\ x * Two[Shift(x)] \in Ranges
         /\ x < Two[16 - Shift(x)]
<1> DEFINE Brings(d) == 32768 <= x * Two[d] /\ x * Two[d] < 65536
           s == Shift(x)
<1>1. \E d \in 0 .. 15 : Brings(d)
  BY ShiftExists
<1>2. s = CHOOSE d \in 0 .. 15 : Brings(d)
  BY DEF Shift
<1>3. s \in 0 .. 15 /\ Brings(s)
  <2> HIDE DEF Brings, s
  <2> QED
    BY <1>1, <1>2
<1> HIDE DEF s
<1>4. s \in Nat /\ 16 - s \in Nat /\ (16 - s) + s = 16
  BY <1>3
<1> DEFINE t == Two[s]
           y == Two[16 - s]
<1>5. t \in Int /\ 0 < t /\ y \in Int
  BY <1>4, TwoType
<1>6. y * t = 65536
  <2>1. Two[(16 - s) + s] = y * t
    BY <1>4, TwoSum
  <2>2. Two[15 + 1] = 2 * Two[15]
    BY TwoStep
  <2>3. 15 + 1 = 16 /\ 2 * 32768 = 65536
    BY SMT
  <2>4. Two[16] = 65536
    BY <2>2, <2>3, PowersOfTwo
  <2> QED
    BY <1>4, <2>1, <2>4
<1>7. x * t < y * t
  BY <1>3, <1>6
<1>8. x < y
  <2> HIDE DEF t, y
  <2> QED
    BY <1>5, <1>7, ProductOrder
<1>9. x * t \in Ranges
  BY ShiftBrings DEF s
<1> QED
  BY <1>3, <1>8, <1>9 DEF s

\* The unit of the first byte grows by what is shifted.
LEMMA UnitsExtend ==
  ASSUME NEW n \in Nat, NEW L \in Nat, NEW c \in Nat, NEW d \in Nat,
         NEW b, Units(b, L, Two[c + 8 * n])
  PROVE  \E x : Spans(x, L + n, Two[c + d], Two[d] * b[0])
<1> DEFINE x == [j \in 0 .. L + n |->
                   IF j <= L THEN Two[d] * b[j] ELSE Two[c + d + 8 * (n - (j - L))]]
           t == Two[d]
<1>1. t \in Int /\ 0 < t
  BY TwoType
<1>2. \A j \in 0 .. L : b[j] \in Nat
  BY DEF Units
<1>3. ASSUME NEW j \in 0 .. L
      PROVE  /\ x[j] = t * b[j]
             /\ x[j] \in Nat
  <2>1. j \in 0 .. L + n /\ j <= L
    OBVIOUS
  <2>2. x[j] = t * b[j]
    BY <2>1
  <2>3. b[j] \in Nat
    BY <1>2
  <2> DEFINE y == b[j]
  <2>4. t * y \in Nat
    <3>1. y \in Nat
      BY <2>3
    <3> HIDE DEF t, y
    <3>2. t * y \in Int /\ 0 <= t * y
      BY <1>1, <3>1
    <3> QED
      BY <3>2
  <2> QED
    BY <2>2, <2>4
<1>4. ASSUME NEW i \in 0 .. n
      PROVE  /\ x[L + i] = Two[c + d + 8 * (n - i)]
             /\ x[L + i] \in Nat
  <2>1. c + d + 8 * (n - i) \in Nat /\ L + i \in 0 .. L + n /\ (L + i) - L = i
    OBVIOUS
  <2>2. Two[c + d + 8 * (n - i)] \in Nat
    BY <2>1, TwoType
  <2>3. CASE i = 0
    <3>1. L \in 0 .. L /\ L + i = L
      BY <2>3
    <3>2. x[L] = t * b[L]
      BY <1>3, <3>1
    <3>3. b[L] = Two[c + 8 * n]
      BY DEF Units
    <3>4. c + 8 * n \in Nat /\ d + (c + 8 * n) = c + d + 8 * (n - i)
      BY <2>3
    <3>5. Two[d + (c + 8 * n)] = Two[d] * Two[c + 8 * n]
      BY <3>4, TwoSum
    <3> HIDE DEF x
    <3> QED
      BY <2>2, <3>1, <3>2, <3>3, <3>4, <3>5
  <2>4. CASE i # 0
    <3>1. ~(L + i <= L)
      BY <2>4
    <3>2. x[L + i] = Two[c + d + 8 * (n - i)]
      BY <2>1, <3>1
    <3> QED
      BY <2>2, <3>2
  <2> QED
    BY <2>3, <2>4
<1>5. x \in [0 .. L + n -> Nat]
  <2>1. ASSUME NEW j \in 0 .. L + n PROVE x[j] \in Nat
    <3>1. CASE j <= L
      <4>1. j \in 0 .. L
        BY <3>1
      <4> HIDE DEF x
      <4> QED
        BY <1>3, <4>1
    <3>2. CASE L < j
      <4>1. j - L \in 0 .. n /\ L + (j - L) = j
        BY <3>2
      <4> HIDE DEF x
      <4> QED
        BY <1>4, <4>1
    <3> HIDE DEF x
    <3> QED
      BY <3>1, <3>2
  <2>2. x = [j \in 0 .. L + n |-> x[j]]
    OBVIOUS
  <2> HIDE DEF x
  <2> QED
    BY <2>1, <2>2
<1> HIDE DEF x
<1>6. ASSUME NEW j \in 1 .. L + n PROVE x[j - 1] = 256 * x[j]
  <2>1. CASE j <= L
    <3>1. j \in 1 .. L /\ j \in 0 .. L /\ j - 1 \in 0 .. L
      BY <2>1
    <3>2. b[j - 1] = 256 * b[j] /\ b[j] \in Nat
      BY <1>2, <3>1 DEF Units
    <3>3. x[j] = t * b[j] /\ x[j - 1] = t * b[j - 1]
      BY <1>3, <3>1
    <3> DEFINE y == b[j]
    <3>4. t * (256 * y) = 256 * (t * y)
      <4>1. y \in Int
        BY <3>2
      <4> HIDE DEF t, y
      <4> QED
        BY <1>1, <4>1
    <3> QED
      BY <3>2, <3>3, <3>4
  <2>2. CASE L < j
    <3> DEFINE i == j - L
               e == c + d + 8 * (n - i)
    <3>1. i \in 0 .. n /\ i - 1 \in 0 .. n /\ L + i = j /\ L + (i - 1) = j - 1
          /\ e \in Nat /\ c + d + 8 * (n - (i - 1)) = e + 8
      BY <2>2
    <3>2. x[j] = Two[e] /\ x[j - 1] = Two[e + 8]
      <4>1. x[L + i] = Two[c + d + 8 * (n - i)]
        <5> HIDE DEF i
        <5> QED
          BY <1>4, <3>1
      <4>2. x[L + (i - 1)] = Two[c + d + 8 * (n - (i - 1))]
        <5> HIDE DEF i
        <5> QED
          BY <1>4, <3>1
      <4> QED
        BY <3>1, <4>1, <4>2
    <3> HIDE DEF e, i
    <3> QED
      BY <3>1, <3>2, TwoByte
  <2> QED
    BY <2>1, <2>2
<1>7. x[L + n] = Two[c + d]
  <2>1. n \in 0 .. n /\ c + d + 8 * (n - n) = c + d
    OBVIOUS
  <2> QED
    BY <1>4, <2>1
<1>8. x[0] = t * b[0]
  <2>1. 0 \in 0 .. L
    OBVIOUS
  <2> QED
    BY <1>3, <2>1
<1>9. Units(x, L + n, Two[c + d])
  BY <1>5, <1>6, <1>7 DEF Units
<1>10. Spans(x, L + n, Two[c + d], Two[d] * b[0])
  BY <1>8, <1>9 DEF Spans
<1> QED
  BY <1>10



\* What a shift by t does to a number of two digits.
LEMMA ShiftProduct ==
  ASSUME NEW t \in Int, NEW x \in Int, NEW p \in Int, NEW y \in Int
  PROVE  t * (x * p + y) = x * (p * t) + y * t
OBVIOUS

Keeps(L, b, C, d, low, own, room) ==
    /\ low * Two[d] + own * Two[d] <= Two[C + d + 1]
    /\ low * Two[d] + own * Two[d] <= Two[C + d] \/ room
    /\ \E x : Spans(x, L, Two[C + d], Two[d] * b[0])

\* A symbol after which nothing is written: what is pending moves up.
LEMMA Kept ==
  ASSUME NEW L \in Nat, NEW b, NEW C \in Nat, NEW d \in Nat, Units(b, L, Two[C]),
         NEW low \in Int, NEW own \in Int, NEW room \in BOOLEAN,
         low + own <= Two[C + 1], low + own <= Two[C] \/ room
  PROVE  Keeps(L, b, C, d, low, own, room)
<1> DEFINE t == Two[d]
           p == Two[C]
           hi == Two[C + 1]
           end == low + own
<1>1. /\ t \in Int /\ 0 < t
      /\ p \in Int /\ hi \in Int
      /\ Two[C + d] = p * t
      /\ Two[C + d + 1] = hi * t
  <2>1. C + 1 \in Nat /\ (C + 1) + d = C + d + 1
    OBVIOUS
  <2> QED
    BY <2>1, TwoType, TwoSum
<1>2. end \in Int /\ end <= hi /\ (end <= p \/ room)
  OBVIOUS
<1>3. low * t + own * t = end * t
  BY <1>1
<1>4. PICK x : Spans(x, L + 0, Two[C + d], Two[d] * b[0])
  <2>1. 0 \in Nat /\ C + 8 * 0 = C
    OBVIOUS
  <2>2. Units(b, L, Two[C + 8 * 0])
    BY <2>1
  <2> QED
    BY <2>1, <2>2, UnitsExtend, Zenon
<1>5. L + 0 = L
  OBVIOUS
<1> HIDE DEF t, p, hi, end
<1>6. end * t <= hi * t /\ (end <= p => end * t <= p * t)
  BY <1>1, <1>2, ProductOrder
<1> QED
  BY <1>1, <1>2, <1>3, <1>4, <1>5, <1>6 DEF t, Keeps

\* What is written out fits in its bytes, but for a carry,
LEMMA EmittedEnds ==
  ASSUME NEW q \in Int, 0 < q, NEW P \in Int, 0 < P, NEW low \in Int, 0 <= low,
         NEW own \in Int, 1 <= own, low + own <= 2 * (P * q)
  PROVE  /\ 0 <= low \div q
         /\ low \div q < 2 * P
         /\ low + own <= P * q => low \div q < P
<1> DEFINE y == P * q
<1>1. y \in Int /\ (2 * P) * q = 2 * y /\ 0 * q = 0 /\ low + own <= 2 * y
  OBVIOUS
<1> HIDE DEF y
<1>2. low < 2 * y /\ (low + own <= y => low < y)
  BY <1>1
<1>3. 0 <= low \div q
  BY <1>1, QuotientBounds
<1>4. low \div q < 2 * P
  <2>1. low < (2 * P) * q /\ 2 * P \in Int
    BY <1>1, <1>2
  <2> QED
    BY <2>1, QuotientBounds
<1>5. low + own <= y => low \div q < P
  BY <1>2, QuotientBounds DEF y
<1> QED
  BY <1>3, <1>4, <1>5 DEF y

\* what stays fits in the bits that stay,
LEMMA EmittedSums ==
  ASSUME NEW q \in Int, 0 < q, NEW t \in Int, 0 < t, NEW rem \in Int, rem < q,
         NEW own \in Int, own <= q
  PROVE  /\ rem * t + own * t <= 2 * (q * t)
         /\ rem + own <= q => rem * t + own * t <= q * t
<1> DEFINE sum == rem + own
<1>1. sum \in Int /\ sum <= 2 * q /\ rem * t + own * t = sum * t
  OBVIOUS
<1>2. 2 * q \in Int /\ (2 * q) * t = 2 * (q * t)
  OBVIOUS
<1> HIDE DEF sum
<1>3. sum * t <= (2 * q) * t /\ (sum <= q => sum * t <= q * t)
  BY <1>1, <1>2, ProductOrder
<1> QED
  BY <1>1, <1>2, <1>3 DEF sum

\* and together they are the number there was.
LEMMA EmittedNumber ==
  ASSUME NEW q \in Int, NEW P \in Int, NEW t \in Int, NEW y \in Int,
         NEW out \in Int, NEW rem \in Int
  PROVE  t * (y * (P * q) + (q * out + rem)) = (y * P + out) * (q * t) + rem * t
<1> DEFINE z == y * P + out
<1>1. y * (P * q) + (q * out + rem) = z * q + rem /\ z \in Int
  OBVIOUS
<1> HIDE DEF z
<1>2. t * (z * q + rem) = z * (q * t) + rem * t
  BY <1>1, ShiftProduct
<1> QED
  BY <1>1, <1>2 DEF z

\* What the powers are that meet when n bytes are written.
Products(c, n, d) ==
    /\ Two[c] \in Int /\ 0 < Two[c]
    /\ Two[8 * n] \in Int /\ 0 < Two[8 * n]
    /\ Two[d] \in Int /\ 0 < Two[d]
    /\ Two[c + 8 * n] = Two[8 * n] * Two[c]
    /\ Two[c + 8 * n + 1] = 2 * (Two[8 * n] * Two[c])
    /\ Two[c + d] = Two[c] * Two[d]
    /\ Two[c + d + 1] = 2 * (Two[c] * Two[d])

\* Shifts of sums, as products.
LEMMA TwoProducts ==
  ASSUME NEW c \in Nat, NEW n \in Nat, NEW d \in Nat
  PROVE  Products(c, n, d)
<1>1. 8 * n \in Nat /\ c + 8 * n \in Nat /\ c + d \in Nat /\ c + 8 * n = 8 * n + c
  OBVIOUS
<1>2. Two[c] \in Int /\ 0 < Two[c] /\ Two[8 * n] \in Int /\ 0 < Two[8 * n]
      /\ Two[d] \in Int /\ 0 < Two[d]
  BY <1>1, TwoType
<1>3. Two[8 * n + c] = Two[8 * n] * Two[c]
  BY <1>1, TwoSum
<1>4. Two[c + d] = Two[c] * Two[d]
  BY TwoSum
<1>5. Two[c + 8 * n + 1] = 2 * Two[c + 8 * n] /\ Two[c + d + 1] = 2 * Two[c + d]
  BY <1>1, TwoStep
<1> QED
  BY <1>1, <1>2, <1>3, <1>4, <1>5 DEF Products

EmitsAll(buf, v, n, c, d, b, low, own) ==
    LET new == EmitBytes(buf, low \div Two[c], n)
        rest == (low % Two[c]) * Two[d]
    IN /\ Len(new) = Len(buf) + n
       /\ rest \in Nat
       /\ rest + own * Two[d] <= Two[c + d + 1]
       /\ rest + own * Two[d] <= Two[c + d] \/ \E i \in 1 .. Len(new) : new[i] # 255
       /\ \E w : Reads(new, w, Len(new), v[Len(buf)] * Two[8 * n] + (low \div Two[c]))
       /\ \E x : Spans(x, Len(new), Two[c + d], Two[d] * b[0])
       /\ Two[d] * (v[Len(buf)] * Two[c + 8 * n] + low)
            = (v[Len(buf)] * Two[8 * n] + (low \div Two[c])) * Two[c + d] + rest

EmitsFrom(buf, v, n, c, d, b, low, own) ==
    /\ n \in Nat /\ 1 <= n /\ c \in Nat /\ d \in Nat
    /\ Prefixes(buf, v) /\ Units(b, Len(buf), Two[c + 8 * n])
    /\ low \in Int /\ 0 <= low
    /\ own \in Int /\ 1 <= own /\ own <= Two[c]
    /\ low + own <= Two[c + 8 * n + 1]
    /\ low + own <= Two[c + 8 * n] \/ \E i \in 1 .. Len(buf) : buf[i] # 255

\* A symbol after which n bytes are written.
LEMMA Emitted ==
  ASSUME NEW buf, NEW v, NEW n, NEW c, NEW d, NEW b, NEW low, NEW own,
         EmitsFrom(buf, v, n, c, d, b, low, own)
  PROVE  EmitsAll(buf, v, n, c, d, b, low, own)
<1> DEFINE L == Len(buf)
           q == Two[c]
           P == Two[8 * n]
           t == Two[d]
           out == low \div q
           rem == low % q
           Room == \E i \in 1 .. L : buf[i] # 255
           new == EmitBytes(buf, out, n)
<1> USE DEF EmitsFrom
<1>1. L \in Nat /\ v[L] \in Int
  BY PrefixType
<1>2. /\ q \in Int /\ 0 < q /\ P \in Int /\ 0 < P /\ t \in Int /\ 0 < t
      /\ Two[c + 8 * n] = P * q
      /\ Two[c + 8 * n + 1] = 2 * (P * q)
      /\ Two[c + d] = q * t
      /\ Two[c + d + 1] = 2 * (q * t)
  <2>1. Products(c, n, d)
    BY TwoProducts, Zenon
  <2> QED
    BY <2>1 DEF Products
<1>3. own <= q /\ low + own <= 2 * (P * q) /\ (low + own <= P * q \/ Room)
  <2>1. own <= q /\ low + own <= Two[c + 8 * n + 1] /\ (low + own <= Two[c + 8 * n] \/ Room)
    OBVIOUS
  <2> HIDE DEF q, P, Room
  <2> QED
    BY <1>2, <2>1
<1>4. \E x : Spans(x, L + n, Two[c + d], t * b[0])
  BY <1>1, UnitsExtend, Zenon
<1>5. ASSUME out < P \/ Room, out \in Int, 0 <= out, out < 2 * P
      PROVE  /\ Len(new) = L + n
             /\ \E w : Reads(new, w, L + n, v[L] * P + out)
             /\ (\A i \in 1 .. L + n : new[i] = 255) =>
                   \/ out + 1 = 2 * P
                   \/ out + 1 = P /\ \A i \in 1 .. L : buf[i] = 255
  <2> HIDE DEF out
  <2>1. EmitsAs(buf, v, n, out)
    BY <1>5, EmitsNumber
  <2> QED
    BY <2>1 DEF EmitsAs
<1>0. low \in Int /\ 0 <= low /\ own \in Int /\ 1 <= own
  OBVIOUS
<1> HIDE DEF q, P, t, L, EmitsFrom
<1>6. /\ out \in Int /\ rem \in Int /\ 0 <= rem /\ rem < q
      /\ low = q * out + rem
  BY <1>2, <1>0, Quotient
<1>7. 0 <= out /\ out < 2 * P /\ (low + own <= P * q => out < P)
  BY <1>2, <1>3, <1>0, EmittedEnds
<1> HIDE DEF out, rem, new
<1>8. /\ Len(new) = L + n
      /\ \E w : Reads(new, w, L + n, v[L] * P + out)
      /\ (\A i \in 1 .. L + n : new[i] = 255) =>
            \/ out + 1 = 2 * P
            \/ out + 1 = P /\ \A i \in 1 .. L : buf[i] = 255
  <2>1. out < P \/ Room
    BY <1>3, <1>7
  <2> QED
    BY <1>5, <1>6, <1>7, <2>1
<1>9. rem + own <= q \/ \E i \in 1 .. L + n : new[i] # 255
  <2> SUFFICES ASSUME \A i \in 1 .. L + n : new[i] = 255 PROVE rem + own <= q
    OBVIOUS
  <2>1. q * out + rem + own <= 2 * (P * q) /\ (q * out + rem + own <= P * q \/ Room)
    <3> DEFINE y == P * q
               z == q * out
    <3>1. y \in Int /\ z \in Int /\ low = z + rem /\ low + own <= 2 * y /\ (low + own <= y \/ Room)
      BY <1>2, <1>3, <1>6, <1>0
    <3> HIDE DEF y, z, Room
    <3>2. z + rem + own <= 2 * y /\ (z + rem + own <= y \/ Room)
      BY <1>6, <1>0, <3>1
    <3> QED
      BY <3>2 DEF y, z
  <2>2. CASE out + 1 = 2 * P
    <3>1. 2 * (P * q) = q * out + q
      <4>1. 2 * (P * q) = (2 * P) * q /\ (out + 1) * q = q * out + q
        BY <1>2, <1>6
      <4> QED
        BY <2>2, <4>1
    <3>2. q * out + rem + own <= q * out + q
      BY <2>1, <3>1
    <3> DEFINE y == q * out
    <3>3. y \in Int
      BY <1>2, <1>6
    <3> HIDE DEF y
    <3>4. y + rem + own <= y + q
      BY <3>2 DEF y
    <3> QED
      BY <1>2, <1>6, <1>0, <3>3, <3>4
  <2>3. CASE out + 1 = P /\ \A i \in 1 .. L : buf[i] = 255
    <3>1. P * q = q * out + q
      <4>1. (out + 1) * q = q * out + q
        BY <1>2, <1>6
      <4> QED
        BY <2>3, <4>1
    <3>2. q * out + rem + own <= P * q
      BY <2>1, <2>3
    <3>3. q * out + rem + own <= q * out + q
      BY <3>1, <3>2
    <3> DEFINE y == q * out
    <3>4. y \in Int
      BY <1>2, <1>6
    <3> HIDE DEF y
    <3>5. y + rem + own <= y + q
      BY <3>3 DEF y
    <3> QED
      BY <1>2, <1>6, <1>0, <3>4, <3>5
  <2> QED
    BY <1>8, <2>2, <2>3
<1>10. rem * t \in Nat
  <2>1. rem * t \in Int /\ 0 <= rem * t
    BY <1>2, <1>6
  <2> QED
    BY <2>1
<1>11. rem * t + own * t <= 2 * (q * t) /\ (rem + own <= q => rem * t + own * t <= q * t)
  BY <1>2, <1>3, <1>6, <1>0, EmittedSums
<1>12. t * (v[L] * (P * q) + low) = (v[L] * P + out) * (q * t) + rem * t
  <2> DEFINE y == v[L]
  <2>1. y \in Int
    BY <1>1
  <2> HIDE DEF y
  <2>2. t * (y * (P * q) + (q * out + rem)) = (y * P + out) * (q * t) + rem * t
    BY <1>2, <1>6, <2>1, EmittedNumber
  <2> QED
    BY <1>6, <2>2 DEF y
<1> DEFINE rest == rem * t
<1>13. /\ rest \in Nat
       /\ rest + own * t <= Two[c + d + 1]
       /\ rest + own * t <= Two[c + d] \/ \E i \in 1 .. Len(new) : new[i] # 255
  BY <1>2, <1>8, <1>9, <1>10, <1>11
<1>14. /\ Len(new) = L + n
       /\ \E w : Reads(new, w, Len(new), v[L] * P + out)
       /\ \E x : Spans(x, Len(new), Two[c + d], t * b[0])
       /\ t * (v[L] * Two[c + 8 * n] + low) = (v[L] * P + out) * Two[c + d] + rest
  BY <1>2, <1>4, <1>8, <1>12
<1> HIDE DEF rest
<1> QED
  BY <1>13, <1>14 DEF rest, new, out, rem, q, P, t, L, EmitsAll


-----------------------------------------------------------------------------
(* Normalize. *)

\* A power and its bytes: what is pending splits into n bytes and what stays.
LEMMA Pending ==
  ASSUME NEW s \in Int, 0 <= s, s <= 54, NEW d \in Int, 0 <= d, d <= 15, s - d <= 39
  PROVE  LET n == (s \div 8) + 1
             c == (s - d) + 24 - 8 * n
         IN /\ n \in Nat /\ 1 <= n
            /\ c \in Nat /\ 16 - d <= c
            /\ c + 8 * n = (s - d) + 24
            /\ c + d - 24 \in Int /\ -9 <= c + d - 24 /\ c + d - 24 <= 39
<1> DEFINE k == s \div 8
<1>1. k \in Int /\ 0 <= k /\ 8 * k <= s /\ s < 8 * k + 8
  OBVIOUS
<1> HIDE DEF k
<1>2. /\ k + 1 \in Nat /\ 1 <= k + 1
      /\ (s - d) + 24 - 8 * (k + 1) \in Int
      /\ 16 - d <= (s - d) + 24 - 8 * (k + 1)
      /\ 0 <= (s - d) + 24 - 8 * (k + 1)
      /\ (s - d) + 24 - 8 * (k + 1) + d - 24 <= 39
  BY <1>1
<1>3. \A c \in Int : 0 <= c => c \in Nat
  OBVIOUS
<1>4. ASSUME NEW c \in Int, c = (s - d) + 24 - 8 * (k + 1)
      PROVE  /\ c + 8 * (k + 1) = (s - d) + 24
             /\ c + d - 24 \in Int /\ -9 <= c + d - 24
  BY <1>1, <1>4
<1> QED
  BY <1>2, <1>3, <1>4 DEF k

\* The parts of a coder's state.
LEMMA CoderParts ==
  ASSUME NEW e, Coder(e)
  PROVE  /\ e.low \in Int /\ 0 <= e.low
         /\ e.rng \in Int /\ 32768 <= e.rng /\ e.rng < 65536
         /\ e.cnt \in Int /\ -9 <= e.cnt /\ e.cnt <= 39
         /\ e.cnt + 24 \in Nat
         /\ e.cnt + 25 = (e.cnt + 24) + 1
         /\ e.low + e.rng <= Two[e.cnt + 25]
         /\ \/ e.low + e.rng <= Two[e.cnt + 24]
            \/ \E i \in 1 .. Len(e.buf) : e.buf[i] # 255
<1>1. e.low \in Int /\ 0 <= e.low
  BY DEF Coder
<1>2. e.rng \in Int /\ 32768 <= e.rng /\ e.rng < 65536
  BY DEF Coder, Ranges
<1>3. e.cnt \in Int /\ -9 <= e.cnt /\ e.cnt <= 39
  BY DEF Coder
<1>4. e.cnt + 24 \in Nat /\ e.cnt + 25 = (e.cnt + 24) + 1
  BY <1>3
<1> QED
  BY <1>1, <1>2, <1>3, <1>4 DEF Coder


\* What a shift does to the number and to the interval behind it.
LEMMA ShiftSum ==
  ASSUME NEW y \in Int, NEW p \in Int, NEW low \in Int, NEW skip \in Int, NEW num,
         num = y * p + low
  PROVE  num + skip = y * p + (low + skip)
<1> DEFINE z == y * p
<1>1. z \in Int
  OBVIOUS
<1> HIDE DEF z
<1>2. num = z + low
  BY DEF z
<1>3. num + skip = z + (low + skip) /\ num \in Int
  BY <1>1, <1>2
<1> QED
  BY <1>3 DEF z

\* What every symbol does before anything is written.
LEMMA Narrows ==
  ASSUME NEW e, Coder(e), NEW skip \in Int, 0 <= skip,
         NEW own \in Int, 1 <= own, skip + own <= e.rng
  PROVE  /\ e.low + skip \in Int /\ 0 <= e.low + skip
         /\ (e.low + skip) + own <= Two[(e.cnt + 24) + 1]
         /\ \/ (e.low + skip) + own <= Two[e.cnt + 24]
            \/ \E i \in 1 .. Len(e.buf) : e.buf[i] # 255
         /\ own < 65536
<1> DEFINE low == e.low
           rng == e.rng
           p == Two[e.cnt + 24]
           hi == Two[(e.cnt + 24) + 1]
           Room == \E i \in 1 .. Len(e.buf) : e.buf[i] # 255
<1>1. low \in Int /\ 0 <= low /\ rng \in Int /\ rng < 65536 /\ skip + own <= rng
  BY CoderParts
<1>2. p \in Int /\ hi \in Int
  <2>1. e.cnt + 24 \in Nat
    BY CoderParts
  <2>2. (e.cnt + 24) + 1 \in Nat
    BY <2>1
  <2> QED
    BY <2>1, <2>2, TwoType
<1>3. low + rng <= hi /\ (low + rng <= p \/ Room)
  BY CoderParts, SMTT(60)
<1> HIDE DEF low, rng, p, hi, Room
<1>4. /\ low + skip \in Int /\ 0 <= low + skip
      /\ (low + skip) + own <= hi
      /\ (low + skip) + own <= p \/ Room
      /\ own < 65536
  BY <1>1, <1>2, <1>3
<1> QED
  BY <1>4 DEF low, p, hi, Room

\* Normalising shifts the number that is written: when no byte goes out,
LEMMA NormalizeKeeps ==
  ASSUME NEW e, NEW num, NEW top, Writes(e, num, top),
         NEW skip \in Int, 0 <= skip, NEW own \in Int, 1 <= own, skip + own <= e.rng,
         e.cnt + Shift(own) < FlushAt
  PROVE  Writes(Normalize(e, e.low + skip, own),
                Two[Shift(own)] * (num + skip), Two[Shift(own)] * top)
<1> DEFINE d == Shift(own)
           C == e.cnt + 24
           low == e.low + skip
           L == Len(e.buf)
           t == Two[d]
           p == Two[C]
           new == Normalize(e, low, own)
           Room == \E i \in 1 .. L : e.buf[i] # 255
<1>1. Coder(e) /\ \E b : Spans(b, L, p, top)
  BY DEF Writes
<1>2. PICK v : Prefixes(e.buf, v) /\ num = v[L] * p + e.low
  BY DEF Writes
<1>3. PICK b : Spans(b, L, p, top)
  BY <1>1
<1>4. e.cnt \in Int /\ -9 <= e.cnt /\ e.cnt <= 39 /\ C \in Nat /\ e.low \in Int
  BY <1>1, CoderParts
<1>5. /\ low \in Int /\ 0 <= low
      /\ low + own <= Two[C + 1]
      /\ low + own <= p \/ Room
      /\ own < 65536
  BY <1>1, Narrows
<1>6. d \in Int /\ 0 <= d /\ d <= 15 /\ own * t \in Ranges
  BY <1>5, ShiftIs
<1>7. e.cnt + d < FlushAt /\ FlushAt \in Int /\ FlushAt <= 40
  BY SizesAssumption
<1>8. new = [buf |-> e.buf, low |-> low * t, rng |-> own * t, cnt |-> e.cnt + d]
  <2>1. ~(e.cnt + d >= FlushAt)
    <3> HIDE DEF d
    <3> QED
      BY <1>4, <1>6, <1>7
  <2> QED
    BY <2>1 DEF Normalize
<1> HIDE DEF d
<1>9. d \in Nat /\ t \in Int /\ 0 < t /\ p \in Int
  BY <1>4, <1>6, TwoType
<1>10. /\ low * t + own * t <= Two[C + d + 1]
       /\ low * t + own * t <= Two[C + d] \/ Room
       /\ \E x : Spans(x, L, Two[C + d], t * b[0])
  <2>1. L \in Nat /\ Units(b, L, Two[C]) /\ Room \in BOOLEAN
    BY <1>2, <1>3, PrefixType DEF Spans
  <2> HIDE DEF C, L, low, Room
  <2>2. Keeps(L, b, C, d, low, own, Room)
    BY <1>4, <1>5, <1>9, <2>1, Kept
  <2> QED
    BY <2>2 DEF Keeps
<1>11. b[0] = top
  BY <1>3 DEF Spans
<1>12. /\ C + d = new.cnt + 24 /\ C + d + 1 = new.cnt + 25
       /\ new.cnt \in Int /\ -9 <= new.cnt /\ new.cnt <= 39
  <2>1. new.cnt = e.cnt + d
    BY <1>8
  <2> HIDE DEF new
  <2> QED
    BY <1>4, <1>6, <1>7, <2>1
<1>13. low * t \in Nat
  <2> HIDE DEF low, t
  <2>1. low * t \in Int /\ 0 <= low * t
    BY <1>5, <1>9
  <2> QED
    BY <2>1
<1>14. new.buf = e.buf /\ new.low = low * t /\ new.rng = own * t
  BY <1>8
<1>15. t * (num + skip) = v[L] * Two[C + d] + low * t
  <2> DEFINE y == v[L]
  <2>1. y \in Int
    BY <1>2, PrefixType
  <2>2. num + skip = y * p + low
    <3>1. num = y * p + e.low
      BY <1>2
    <3> HIDE DEF y, p
    <3> QED
      BY <1>4, <1>9, <2>1, <3>1, ShiftSum
  <2>3. Two[C + d] = p * t
    BY <1>4, <1>9, TwoSum
  <2> HIDE DEF y, p, low, t
  <2>4. t * (y * p + low) = y * (p * t) + low * t
    BY <1>5, <1>9, <2>1, ShiftProduct
  <2> QED
    BY <2>2, <2>3, <2>4 DEF y
<1> HIDE DEF new, low, t, C, p
<1>16. Coder(new)
  BY <1>6, <1>10, <1>12, <1>13, <1>14 DEF Coder, Room, L
<1>17. Prefixes(new.buf, v) /\ t * (num + skip) = v[Len(new.buf)] * Two[new.cnt + 24] + new.low
  BY <1>2, <1>12, <1>14, <1>15 DEF L
<1>18. \E x : Spans(x, Len(new.buf), Two[new.cnt + 24], t * top)
  BY <1>10, <1>11, <1>12, <1>14 DEF L
<1>19. Writes(new, t * (num + skip), t * top)
  BY <1>16, <1>17, <1>18 DEF Writes
<1> QED
  BY <1>19 DEF new, t, d, low

\* and when bytes go out.
LEMMA NormalizeEmits ==
  ASSUME NEW e, NEW num, NEW top, Writes(e, num, top),
         NEW skip \in Int, 0 <= skip, NEW own \in Int, 1 <= own, skip + own <= e.rng,
         e.cnt + Shift(own) >= FlushAt
  PROVE  Writes(Normalize(e, e.low + skip, own),
                Two[Shift(own)] * (num + skip), Two[Shift(own)] * top)
<1> DEFINE d == Shift(own)
           s == e.cnt + d
           n == (s \div 8) + 1
           c == e.cnt + 24 - 8 * n
           low == e.low + skip
           L == Len(e.buf)
           t == Two[d]
           new == Normalize(e, low, own)
           buf == EmitBytes(e.buf, low \div Two[c], n)
           rest == (low % Two[c]) * t
<1>1. Coder(e) /\ \E b : Spans(b, L, Two[e.cnt + 24], top)
  BY DEF Writes
<1>2. PICK v : Prefixes(e.buf, v) /\ num = v[L] * Two[e.cnt + 24] + e.low
  BY DEF Writes
<1>3. PICK b : Spans(b, L, Two[e.cnt + 24], top)
  BY <1>1
<1>4. e.cnt \in Int /\ -9 <= e.cnt /\ e.cnt <= 39 /\ e.cnt + 24 \in Nat /\ e.low \in Int
  BY <1>1, CoderParts
<1>5. /\ low \in Int /\ 0 <= low
      /\ low + own <= Two[(e.cnt + 24) + 1]
      /\ low + own <= Two[e.cnt + 24] \/ \E i \in 1 .. L : e.buf[i] # 255
      /\ own < 65536
  BY <1>1, Narrows
<1>6. d \in Int /\ 0 <= d /\ d <= 15 /\ own * t \in Ranges /\ own < Two[16 - d]
  BY <1>5, ShiftIs
<1>7. s >= FlushAt /\ FlushAt \in Int /\ 0 <= FlushAt
  BY SizesAssumption
<1>8. new = [buf |-> buf, low |-> rest, rng |-> own * t, cnt |-> c + d - 24]
  BY <1>7 DEF Normalize
<1> HIDE DEF d
<1>9. d \in Nat /\ t \in Int /\ 0 < t
  BY <1>6, TwoType
<1>10. /\ n \in Nat /\ 1 <= n
       /\ c \in Nat /\ 16 - d <= c
       /\ c + 8 * n = e.cnt + 24
       /\ c + d - 24 \in Int /\ -9 <= c + d - 24 /\ c + d - 24 <= 39
  <2>1. s \in Int /\ 0 <= s /\ s <= 54 /\ s - d <= 39 /\ s - d = e.cnt
    <3>1. s \in Int /\ s <= 54 /\ s - d <= 39 /\ s - d = e.cnt
      BY <1>4, <1>6
    <3> HIDE DEF s
    <3> QED
      BY <1>7, <3>1
  <2> HIDE DEF s
  <2> QED
    BY <1>6, <2>1, Pending
<1> HIDE DEF s, n, c, low
<1>11. own <= Two[c]
  <2>1. 16 - d \in Nat
    BY <1>6
  <2>2. Two[16 - d] <= Two[c]
    BY <1>10, <2>1, TwoMonotone
  <2> DEFINE x == Two[16 - d]
             y == Two[c]
  <2>3. x \in Int /\ y \in Int /\ own < x /\ x <= y
    BY <1>6, <1>10, <2>1, <2>2, TwoType
  <2> HIDE DEF x, y
  <2> QED
    BY <2>3 DEF y
<1>12. b[0] = top /\ Units(b, L, Two[c + 8 * n])
  BY <1>3, <1>10 DEF Spans
<1>13. /\ rest \in Nat
       /\ rest + own * t <= Two[c + d + 1]
       /\ rest + own * t <= Two[c + d] \/ \E i \in 1 .. Len(buf) : buf[i] # 255
       /\ \E w : Reads(buf, w, Len(buf), v[L] * Two[8 * n] + (low \div Two[c]))
       /\ \E x : Spans(x, Len(buf), Two[c + d], t * b[0])
       /\ t * (v[L] * Two[c + 8 * n] + low)
             = (v[L] * Two[8 * n] + (low \div Two[c])) * Two[c + d] + rest
  <2>1. /\ low + own <= Two[c + 8 * n + 1]
        /\ low + own <= Two[c + 8 * n] \/ \E i \in 1 .. Len(e.buf) : e.buf[i] # 255
    BY <1>5, <1>10, SMTT(60)
  <2>2. EmitsFrom(e.buf, v, n, c, d, b, low, own)
    BY <1>2, <1>5, <1>9, <1>10, <1>11, <1>12, <2>1 DEF EmitsFrom
  <2>3. EmitsAll(e.buf, v, n, c, d, b, low, own)
    BY <2>2, Emitted
  <2> QED
    BY <2>3 DEF EmitsAll
<1>14. PICK w : Reads(buf, w, Len(buf), v[L] * Two[8 * n] + (low \div Two[c]))
  BY <1>13
<1>15. /\ c + d = new.cnt + 24 /\ c + d + 1 = new.cnt + 25
       /\ new.cnt \in Int /\ -9 <= new.cnt /\ new.cnt <= 39
  <2>1. new.cnt = c + d - 24
    BY <1>8
  <2> HIDE DEF new
  <2> QED
    BY <1>9, <1>10, <2>1
<1>16. new.buf = buf /\ new.low = rest /\ new.rng = own * t
  BY <1>8
<1>17. num + skip = v[L] * Two[c + 8 * n] + low
  <2> DEFINE y == v[L]
             p == Two[c + 8 * n]
  <2>1. y \in Int
    BY <1>2, PrefixType
  <2>2. p \in Int
    BY <1>4, <1>10, TwoType
  <2>3. num = y * p + e.low
    BY <1>2, <1>10
  <2> HIDE DEF y, p
  <2>4. num + skip = y * p + (e.low + skip)
    BY <1>4, <2>1, <2>2, <2>3, ShiftSum
  <2> QED
    BY <2>4 DEF y, p, low
<1> HIDE DEF new, t, buf, rest
<1>18. Coder(new)
  BY <1>6, <1>13, <1>15, <1>16, ZenonT(60) DEF Coder
<1>19. Prefixes(new.buf, w) /\ t * (num + skip) = w[Len(new.buf)] * Two[new.cnt + 24] + new.low
  BY <1>13, <1>14, <1>15, <1>16, <1>17, SMTT(60) DEF Reads
<1>20. \E x : Spans(x, Len(new.buf), Two[new.cnt + 24], t * top)
  BY <1>12, <1>13, <1>15, <1>16
<1>21. Writes(new, t * (num + skip), t * top)
  BY <1>18, <1>19, <1>20 DEF Writes
<1> QED
  BY <1>21 DEF new, t, d, low

\* After a symbol the state is a coder's again, and it stands for the number it
\* should: nothing of low is lost on its way into the bytes.
LEMMA NormalizeWrites ==
  ASSUME NEW e, NEW num, NEW top, Writes(e, num, top),
         NEW skip \in Int, 0 <= skip, NEW own \in Int, 1 <= own, skip + own <= e.rng
  PROVE  /\ Writes(Normalize(e, e.low + skip, own),
                   Two[Shift(own)] * (num + skip), Two[Shift(own)] * top)
         /\ Normalize(e, e.low + skip, own).rng = own * Two[Shift(own)]
<1>1. Normalize(e, e.low + skip, own).rng = own * Two[Shift(own)]
  BY DEF Normalize
<1>2. e.cnt + Shift(own) \in Int
  <2>1. Coder(e)
    BY DEF Writes
  <2>2. e.cnt \in Int /\ own < 65536
    BY <2>1, CoderParts, Narrows, SMTT(60)
  <2>3. Shift(own) \in Int
    BY <2>2, ShiftIs
  <2> QED
    BY <2>2, <2>3
<1>3. FlushAt \in Int
  BY SizesAssumption
<1>4. CASE e.cnt + Shift(own) < FlushAt
  BY <1>1, <1>4, NormalizeKeeps
<1>5. CASE e.cnt + Shift(own) >= FlushAt
  BY <1>1, <1>5, NormalizeEmits
<1> QED
  BY <1>2, <1>3, <1>4, <1>5

-----------------------------------------------------------------------------
(* Flush. *)

\* The bytes say x, in steps that add up to top, and end at bit j of x.
Tile(bytes, v, b, x, top) ==
    /\ Prefixes(bytes, v)
    /\ \E j \in 7 .. 14 : Spans(b, Len(bytes), Two[j], top) /\ x = v[Len(bytes)] * Two[j]

\* The end that Flush picks is in the interval: the next odd multiple of 2^14.
LEMMA FlushEnd ==
  ASSUME NEW low \in Int, 0 <= low
  PROVE  LET q == (low + 16383) \div 16384
             o == IF q % 2 = 1 THEN q ELSE q + 1
         IN /\ o \in Int /\ 0 <= o
            /\ low <= 16384 * o
            /\ 16384 * o < low + 32768
<1> DEFINE q == (low + 16383) \div 16384
           o == IF q % 2 = 1 THEN q ELSE q + 1
<1>1. q \in Int /\ 0 <= q /\ low <= 16384 * q /\ 16384 * q <= low + 16383
  BY SMT
<1> HIDE DEF q
<1>2. o = q \/ o = q + 1
  OBVIOUS
<1> HIDE DEF o
<1>3. o \in Int /\ 0 <= o /\ low <= 16384 * o /\ 16384 * o < low + 32768
  BY <1>1, <1>2, SMT
<1> QED
  BY <1>3 DEF o, q

\* A multiple of 2^14 is one of any power below.
LEMMA WholeSteps ==
  ASSUME NEW o \in Int, NEW c \in Int, 0 <= c, c <= 14
  PROVE  (16384 * o) % Two[c] = 0
<1> DEFINE a == Two[c]
           y == Two[14 - c]
           m == o * y
<1>1. c \in Nat /\ 14 \in Nat /\ 14 - c \in Nat
  OBVIOUS
<1>2. a \in Int /\ 0 < a /\ y \in Int
  BY <1>1, TwoType
<1>3. Two[14] = y * a
  BY <1>1, TwoDifference
<1>4. y * a = 16384
  BY <1>3, PowersOfTwo
<1> HIDE DEF a, y
<1>5. m \in Int /\ m * a = o * (y * a)
  BY <1>2
<1> HIDE DEF m
<1>6. 16384 * o = o * 16384 /\ m * a = a * m
  BY <1>2, <1>5, SMT
<1>7. 16384 * o = a * m + 0
  BY <1>2, <1>4, <1>5, <1>6, SMT
<1> DEFINE z == 16384 * o
<1>8. z \in Int /\ z = a * m + 0
  BY <1>7, SMT
<1> HIDE DEF z
<1>9. z % a = 0
  BY <1>2, <1>5, <1>8, QuotientIs
<1> QED
  BY <1>9 DEF z, a

\* The tile that Flush writes says a number of the last interval.
LEMMA FlushReads ==
  ASSUME NEW e, NEW num, NEW top, Writes(e, num, top)
  PROVE  /\ Len(Flush(e)) \in Nat /\ 1 <= Len(Flush(e))
         /\ num \in Int
         /\ \E x \in Int : /\ num <= x
                           /\ x + 1 <= num + e.rng
                           /\ \E v, b : Tile(Flush(e), v, b, x, top)
<1> DEFINE q == (e.low + 16383) \div 16384
           o == IF q % 2 = 1 THEN q ELSE q + 1
           end == 16384 * o
           n == (e.cnt + 17) \div 8
           c == e.cnt + 24 - 8 * n
           L == Len(e.buf)
           new == Flush(e)
<1>1. Coder(e) /\ \E b : Spans(b, L, Two[e.cnt + 24], top)
  BY DEF Writes
<1>2. PICK v : Prefixes(e.buf, v) /\ num = v[L] * Two[e.cnt + 24] + e.low
  BY DEF Writes
<1>3. PICK b : Spans(b, L, Two[e.cnt + 24], top)
  BY <1>1
<1>4. /\ e.cnt \in Int /\ -9 <= e.cnt /\ e.cnt <= 39 /\ e.cnt + 24 \in Nat
      /\ e.low \in Int /\ 0 <= e.low
      /\ e.rng \in Int /\ 32768 <= e.rng
  BY <1>1, CoderParts
<1>5. /\ e.low + e.rng <= Two[(e.cnt + 24) + 1]
      /\ \/ e.low + e.rng <= Two[e.cnt + 24]
         \/ \E i \in 1 .. L : e.buf[i] # 255
  BY <1>1, CoderParts
<1>6. new = EmitBytes(e.buf, end \div Two[c], n)
  <2> DEFINE m == IF e.cnt + 10 <= 0 THEN 0 ELSE (e.cnt + 17) \div 8
  <2>1. m = n /\ n # 0
    <3> DEFINE k == e.cnt
    <3>1. k \in Int /\ -9 <= k /\ ~(k + 10 <= 0)
      BY <1>4
    <3>2. n = (k + 17) \div 8 /\ m = n
      BY <3>1
    <3> HIDE DEF k
    <3>3. (k + 17) \div 8 # 0
      BY <3>1
    <3> HIDE DEF n, m
    <3> QED
      BY <3>2, <3>3
  <2>2. new = IF m = 0 THEN e.buf ELSE EmitBytes(e.buf, end \div Two[e.cnt + 24 - 8 * m], m)
    BY DEF Flush
  <2> HIDE DEF m, n, end, new
  <2> QED
    BY <2>1, <2>2
<1>7. o \in Int /\ 0 <= o /\ e.low <= end /\ end < e.low + 32768
  BY <1>4, FlushEnd
<1> HIDE DEF q, o
<1>8. end \in Int /\ 0 <= end /\ end + 1 <= e.low + e.rng
  <2>1. end \in Int
    BY <1>7, SMT
  <2> HIDE DEF end
  <2> QED
    BY <1>4, <1>7, <2>1, SMT
<1>9. /\ n \in Int /\ 1 <= n
      /\ c \in Int /\ 7 <= c /\ c <= 14
      /\ c + 8 * n = e.cnt + 24
  <2> DEFINE k == e.cnt
  <2>1. k \in Int /\ -9 <= k /\ k <= 39
    BY <1>4
  <2> HIDE DEF k
  <2>2. n = (k + 17) \div 8
    BY DEF k
  <2> HIDE DEF n
  <2>3. n \in Int /\ 8 * n <= k + 17 /\ k + 17 < 8 * n + 8
    BY <2>1, <2>2
  <2>4. n \in Int /\ 1 <= n /\ k + 24 - 8 * n \in Int
        /\ 7 <= k + 24 - 8 * n /\ k + 24 - 8 * n <= 14
    BY <2>1, <2>3
  <2>5. k + 24 - 8 * n + 8 * n = k + 24
    BY <2>1, <2>3
  <2> QED
    BY <2>4, <2>5 DEF k
<1>10. c \in Nat /\ n \in Nat /\ 0 \in Nat
  BY <1>9
<1>11. end % Two[c] = 0
  BY <1>7, <1>9, WholeSteps
<1> HIDE DEF end, n, c
<1>12. Two[c] \in Int /\ 1 <= Two[c]
  BY <1>10, TwoType
<1>13. /\ end + 1 <= Two[c + 8 * n + 1]
       /\ end + 1 <= Two[c + 8 * n] \/ \E i \in 1 .. L : e.buf[i] # 255
  <2> DEFINE hi == Two[(e.cnt + 24) + 1]
             p == Two[e.cnt + 24]
             Room == \E i \in 1 .. L : e.buf[i] # 255
             lim == e.low + e.rng
  <2>1. hi \in Int /\ p \in Int
    <3>1. (e.cnt + 24) + 1 \in Nat
      BY <1>4
    <3> QED
      BY <1>4, <3>1, TwoType
  <2>2. lim \in Int /\ lim <= hi /\ (lim <= p \/ Room) /\ end + 1 <= lim
    BY <1>4, <1>5, <1>8, SMTT(60)
  <2> HIDE DEF hi, p, Room, lim
  <2>3. end + 1 <= hi /\ (end + 1 <= p \/ Room)
    BY <1>8, <2>1, <2>2
  <2> QED
    BY <1>9, <2>3 DEF hi, p, Room
<1>14. Units(b, L, Two[c + 8 * n]) /\ b[0] = top
  BY <1>3, <1>9 DEF Spans
<1>15. EmitsAll(e.buf, v, n, c, 0, b, end, 1)
  <2>1. EmitsFrom(e.buf, v, n, c, 0, b, end, 1)
    BY <1>2, <1>8, <1>9, <1>10, <1>12, <1>13, <1>14 DEF EmitsFrom
  <2> QED
    BY <2>1, Emitted
<1> DEFINE y == v[L]
           w == y * Two[8 * n] + (end \div Two[c])
           x == w * Two[c]
<1>16. /\ Len(new) = L + n
       /\ \E z : Reads(new, z, Len(new), w)
       /\ \E z : Spans(z, Len(new), Two[c + 0], Two[0] * b[0])
       /\ Two[0] * (y * Two[c + 8 * n] + end) = w * Two[c + 0] + (end % Two[c]) * Two[0]
  BY <1>6, <1>15 DEF EmitsAll
<1>17. y \in Nat /\ y \in Int /\ L \in Nat
  BY <1>2, PrefixType
<1>18. Two[8 * n] \in Int /\ end \div Two[c] \in Int /\ Two[c + 8 * n] \in Int
  <2>1. 8 * n \in Nat /\ c + 8 * n \in Nat
    BY <1>10
  <2>2. 0 < Two[c]
    BY <1>12
  <2> QED
    BY <1>8, <1>12, <2>1, <2>2, TwoType, Quotient
<1>19. w \in Int /\ x \in Int
  <2>1. w \in Int
    <3> HIDE DEF y
    <3> QED
      BY <1>17, <1>18
  <2> HIDE DEF w
  <2> QED
    BY <1>12, <2>1
<1>20. x = y * Two[c + 8 * n] + end
  <2>1. c + 0 = c /\ Two[0] = 1
    BY <1>10, TwoStep
  <2> DEFINE k == y * Two[c + 8 * n] + end
  <2>2. k \in Int
    <3> HIDE DEF y
    <3> QED
      BY <1>8, <1>17, <1>18
  <2>3. 1 * k = x + 0 * 1
    BY <1>11, <1>16, <2>1
  <2> HIDE DEF k, x
  <2>4. k = x
    BY <1>19, <2>2, <2>3
  <2> QED
    BY <2>4 DEF k
<1>21. num \in Int /\ num <= x /\ x + 1 <= num + e.rng
  <2> DEFINE k == y * Two[c + 8 * n]
             low == e.low
             rng == e.rng
  <2>1. k \in Int
    <3> HIDE DEF y
    <3> QED
      BY <1>17, <1>18
  <2>2. num = k + low
    BY <1>2, <1>9
  <2>3. x = k + end
    BY <1>20
  <2>4. low \in Int /\ rng \in Int /\ low <= end /\ end + 1 <= low + rng
    BY <1>4, <1>7, <1>8 DEF end
  <2> HIDE DEF k, low, rng, x
  <2>5. num \in Int /\ num <= x /\ x + 1 <= num + rng
    BY <1>8, <2>1, <2>2, <2>3, <2>4
  <2> QED
    BY <2>5 DEF rng
<1>22. \E z : Prefixes(new, z) /\ x = z[Len(new)] * Two[c]
  BY <1>16 DEF Reads
<1>23. \E z : Spans(z, Len(new), Two[c], top)
  <2>1. c + 0 = c /\ Two[0] = 1
    BY <1>10, TwoStep
  <2>2. b[0] \in Int
    <3>1. 0 \in 0 .. L
      BY <1>17
    <3>2. b \in [0 .. L -> Nat]
      BY <1>14 DEF Units
    <3>3. b[0] \in Nat
      BY <3>1, <3>2
    <3> QED
      BY <3>3
  <2>3. 1 * b[0] = top
    BY <1>14, <2>2
  <2> QED
    BY <1>16, <2>1, <2>3
<1>24. c \in 7 .. 14
  BY <1>9
<1> HIDE DEF new, x
<1>25. \E z, bs : Tile(new, z, bs, x, top)
  BY <1>22, <1>23, <1>24 DEF Tile
<1>26. Len(new) \in Nat /\ 1 <= Len(new)
  BY <1>9, <1>10, <1>16, <1>17
<1> QED
  BY <1>19, <1>21, <1>25, <1>26 DEF new

-----------------------------------------------------------------------------
(* The intervals: each operation takes a part of the one before.              *)

\* What an operation leaves of the range above its part, and what it takes.
Skips(op, rng, cdfs) ==
    IF op.kind = "bool" THEN IF op.val = 1 THEN rng - Cut(rng, op.with, 1) ELSE 0
                        ELSE rng - Above(rng, cdfs[op.with], op.val)
Owns(op, rng, cdfs) ==
    IF op.kind = "bool" THEN IF op.val = 1 THEN Cut(rng, op.with, 1) ELSE rng - Cut(rng, op.with, 1)
                        ELSE Above(rng, cdfs[op.with], op.val) - SymbolCut(rng, cdfs[op.with], op.val)
After(op, cdfs) ==
    IF op.kind = "bool" THEN cdfs
    ELSE [cdfs EXCEPT ![op.with] = Adapted(cdfs[op.with], op.val)]

Codes(op, cdfs) ==
    \/ op.kind = "bool" /\ op.with \in Probs /\ op.val \in 0 .. 1
    \/ /\ op.kind = "symbol" /\ op.with \in DOMAIN Contexts
       /\ op.val \in 0 .. 15 /\ op.val <= Len(cdfs[op.with].p)

\* The part an operation takes is in the range and is not empty.
LEMMA OperationParts ==
  ASSUME NEW op, NEW rng \in Ranges, NEW cdfs, AllFalling(cdfs), Codes(op, cdfs)
  PROVE  /\ Skips(op, rng, cdfs) \in Int /\ 0 <= Skips(op, rng, cdfs)
         /\ Owns(op, rng, cdfs) \in Int /\ 1 <= Owns(op, rng, cdfs)
         /\ Skips(op, rng, cdfs) + Owns(op, rng, cdfs) <= rng
         /\ AllFalling(After(op, cdfs))
<1>1. rng \in Int /\ 32768 <= rng
  BY RangeHigh
<1>2. CASE op.kind = "bool"
  <2>1. op.with \in Probs /\ op.val \in 0 .. 1
    BY <1>2 DEF Codes
  <2> DEFINE v == Cut(rng, op.with, 1)
  <2>2. v \in Int /\ 4 <= v /\ v < rng
    <3>1. op.with \in Prob
      BY <2>1, ProbabilitiesAssumption
    <3> QED
      BY <3>1, CutInside
  <2>3. /\ Skips(op, rng, cdfs) = IF op.val = 1 THEN rng - v ELSE 0
        /\ Owns(op, rng, cdfs) = IF op.val = 1 THEN v ELSE rng - v
        /\ After(op, cdfs) = cdfs
    BY <1>2 DEF Skips, Owns, After
  <2> HIDE DEF v
  <2>4. CASE op.val = 1
    <3>1. Skips(op, rng, cdfs) = rng - v /\ Owns(op, rng, cdfs) = v
      BY <2>3, <2>4
    <3>2. rng - v \in Int /\ 0 <= rng - v /\ 1 <= v /\ (rng - v) + v <= rng
      BY <1>1, <2>2
    <3> QED
      BY <2>2, <2>3, <3>1, <3>2
  <2>5. CASE op.val # 1
    <3>1. Skips(op, rng, cdfs) = 0 /\ Owns(op, rng, cdfs) = rng - v
      BY <2>3, <2>5
    <3>2. rng - v \in Int /\ 1 <= rng - v /\ 0 + (rng - v) <= rng
      BY <1>1, <2>2
    <3> QED
      BY <2>3, <3>1, <3>2
  <2> QED
    BY <2>4, <2>5
<1>3. CASE op.kind # "bool"
  <2>1. op.with \in DOMAIN Contexts /\ op.val \in 0 .. 15 /\ op.val <= Len(cdfs[op.with].p)
    BY <1>3 DEF Codes
  <2> DEFINE cdf == cdfs[op.with]
             u == Above(rng, cdf, op.val)
             cut == SymbolCut(rng, cdf, op.val)
  <2>2. Falling(cdf) /\ op.val \in Int /\ 0 <= op.val
    <3>1. Falling(cdf)
      BY <2>1, Zenon DEF AllFalling
    <3>2. op.val \in Int /\ 0 <= op.val
      <4>1. \A x \in 0 .. 15 : x \in Int /\ 0 <= x
        OBVIOUS
      <4> QED
        BY <2>1, <4>1, Zenon
    <3> QED
      BY <3>1, <3>2
  <2>3. u \in Int /\ cut \in Int /\ 0 <= cut /\ cut < u /\ u <= rng
    BY <2>1, <2>2, SymbolCutsFall
  <2>4. /\ Skips(op, rng, cdfs) = rng - u
        /\ Owns(op, rng, cdfs) = u - cut
        /\ After(op, cdfs) = [cdfs EXCEPT ![op.with] = Adapted(cdf, op.val)]
    BY <1>3 DEF Skips, Owns, After
  <2>5. Falling(Adapted(cdf, op.val))
    BY <2>2, AdaptedFalling
  <2>6. AllFalling(After(op, cdfs))
    BY <2>4, <2>5 DEF AllFalling
  <2> HIDE DEF u, cut
  <2>7. /\ rng - u \in Int /\ 0 <= rng - u
        /\ u - cut \in Int /\ 1 <= u - cut
        /\ (rng - u) + (u - cut) <= rng
    BY <1>1, <2>3
  <2> QED
    BY <2>4, <2>6, <2>7
<1> QED
  BY <1>2, <1>3

\* A mark: the range and the CDFs between two operations, where the interval
\* begins in the number that is written, and what a step of the range is there.
Mark(rng, cdfs, lo, un) == [rng |-> rng, cdfs |-> cdfs, lo |-> lo, un |-> un]

Marked(m) ==
    /\ m.rng \in Ranges /\ AllFalling(m.cdfs)
    /\ m.lo \in Int /\ m.un \in Int /\ 1 <= m.un

\* n is the mark that op leads to from m.
Follows(op, m, n) ==
    /\ Codes(op, m.cdfs)
    /\ n.rng = Owns(op, m.rng, m.cdfs) * Two[Shift(Owns(op, m.rng, m.cdfs))]
    /\ n.cdfs = After(op, m.cdfs)
    /\ m.un = n.un * Two[Shift(Owns(op, m.rng, m.cdfs))]
    /\ n.lo = m.lo + Skips(op, m.rng, m.cdfs) * m.un

\* The interval of a mark holds the numbers from a to z.
Holds(m, a, z) == m.lo <= a /\ z <= m.lo + m.rng * m.un

Scaled(m, t) == Mark(m.rng, m.cdfs, m.lo * t, m.un * t)

\* Finer steps change nothing but the numbers.
LEMMA ScaledMark ==
  ASSUME NEW m, Marked(m), NEW t \in Int, 1 <= t
  PROVE  Marked(Scaled(m, t))
<1>1. /\ Scaled(m, t).rng = m.rng /\ Scaled(m, t).cdfs = m.cdfs
      /\ Scaled(m, t).lo = m.lo * t /\ Scaled(m, t).un = m.un * t
  BY DEF Scaled, Mark
<1> DEFINE l == m.lo
           u == m.un
<1>2. l \in Int /\ u \in Int /\ 1 <= u
  BY DEF Marked
<1> HIDE DEF l, u
<1>3. l * t \in Int /\ u * t \in Int /\ 1 <= u * t
  BY <1>2
<1> QED
  BY <1>1, <1>3 DEF Marked, l, u

\* The numbers in the interval scale with it,
LEMMA ScaledHolds ==
  ASSUME NEW m, Marked(m), NEW t \in Int, 1 <= t,
         NEW a \in Int, NEW z \in Int, Holds(m, a, z)
  PROVE  Holds(Scaled(m, t), a * t, z * t)
<1>1. /\ Scaled(m, t).rng = m.rng
      /\ Scaled(m, t).lo = m.lo * t /\ Scaled(m, t).un = m.un * t
  BY DEF Scaled, Mark
<1> DEFINE l == m.lo
           u == m.un
           r == m.rng
           e == l + r * u
<1>2. l \in Int /\ u \in Int /\ r \in Int /\ l <= a /\ z <= e
  BY RangeHigh DEF Marked, Holds
<1> HIDE DEF l, u, r
<1>3. e \in Int /\ e * t = l * t + r * (u * t)
  BY <1>2
<1> HIDE DEF e
<1>4. l * t <= a * t /\ z * t <= e * t
  BY <1>2, <1>3, ProductOrder
<1>5. l * t <= a * t /\ z * t <= l * t + r * (u * t)
  BY <1>3, <1>4
<1> QED
  BY <1>1, <1>5 DEF Holds, l, u, r

\* and so does the step from one mark to the next.
LEMMA ScaledFollows ==
  ASSUME NEW op, NEW m, Marked(m), NEW n, Marked(n), NEW t \in Int, 1 <= t, Follows(op, m, n)
  PROVE  Follows(op, Scaled(m, t), Scaled(n, t))
<1> DEFINE own == Owns(op, m.rng, m.cdfs)
           skip == Skips(op, m.rng, m.cdfs)
           p == Two[Shift(own)]
           s == Scaled(m, t)
           q == Scaled(n, t)
           l == m.lo
           u == m.un
           k == n.lo
           w == n.un
<1>1. /\ s.rng = m.rng /\ s.cdfs = m.cdfs /\ s.lo = l * t /\ s.un = u * t
      /\ q.rng = n.rng /\ q.cdfs = n.cdfs /\ q.lo = k * t /\ q.un = w * t
  BY DEF Scaled, Mark
<1>2. /\ Codes(op, m.cdfs) /\ n.rng = own * p /\ n.cdfs = After(op, m.cdfs)
      /\ u = w * p /\ k = l + skip * u
  BY DEF Follows
<1>3. /\ l \in Int /\ u \in Int /\ k \in Int /\ w \in Int
      /\ m.rng \in Ranges /\ AllFalling(m.cdfs) /\ m.rng \in Int /\ m.rng < 65536
  BY RangeHigh DEF Marked
<1>4. own \in Int /\ 1 <= own /\ skip \in Int /\ 0 <= skip /\ skip + own <= m.rng
  BY <1>2, <1>3, OperationParts
<1>5. p \in Int
  <2>1. own < 65536
    <3> DEFINE r == m.rng
    <3>1. r \in Int /\ r < 65536 /\ skip + own <= r
      BY <1>3, <1>4
    <3> HIDE DEF own, skip, r
    <3> QED
      BY <1>4, <3>1
  <2>2. Shift(own) \in Nat
    <3>1. Shift(own) \in Int /\ 0 <= Shift(own)
      BY <1>4, <2>1, ShiftIs
    <3> QED
      BY <3>1
  <2> QED
    BY <2>2, TwoType
<1> HIDE DEF own, skip, p, l, u, k, w
<1>6. u * t = (w * t) * p
  <2>1. (w * p) * t = (w * t) * p
    BY <1>3, <1>5
  <2> QED
    BY <1>2, <2>1
<1>7. k * t = l * t + skip * (u * t)
  <2>1. (l + skip * u) * t = l * t + skip * (u * t)
    BY <1>3, <1>4
  <2> QED
    BY <1>2, <2>1
<1> HIDE DEF s, q
<1> QED
  BY <1>1, <1>2, <1>6, <1>7 DEF Follows, own, skip, p, s, q

\* The mark after an operation, in steps of its own, and how much finer they are.
Finer(op, m) == Two[Shift(Owns(op, m.rng, m.cdfs))]
NextMark(op, m) ==
    Mark(Owns(op, m.rng, m.cdfs) * Finer(op, m), After(op, m.cdfs),
         (m.lo + Skips(op, m.rng, m.cdfs)) * Finer(op, m), 1)

\* The next mark follows, and its interval is inside the one before.
LEMMA FollowingMark ==
  ASSUME NEW op, NEW m, Marked(m), Codes(op, m.cdfs), m.un = 1
  PROVE  /\ Marked(NextMark(op, m))
         /\ Follows(op, Scaled(m, Finer(op, m)), NextMark(op, m))
         /\ Finer(op, m) \in Int /\ 1 <= Finer(op, m)
         /\ m.lo * Finer(op, m) <= NextMark(op, m).lo
         /\ NextMark(op, m).un = 1
         /\ NextMark(op, m).lo + NextMark(op, m).rng <= (m.lo + m.rng) * Finer(op, m)
<1> DEFINE own == Owns(op, m.rng, m.cdfs)
           skip == Skips(op, m.rng, m.cdfs)
           t == Two[Shift(own)]
           lo == (m.lo + skip) * t
           n == Mark(own * t, After(op, m.cdfs), lo, 1)
           s == Scaled(m, t)
           l == m.lo
           r == m.rng
<1>1. r \in Ranges /\ AllFalling(m.cdfs) /\ l \in Int /\ r \in Int /\ r < 65536
  BY RangeHigh DEF Marked
<1>2. own \in Int /\ 1 <= own /\ skip \in Int /\ 0 <= skip /\ skip + own <= r
      /\ AllFalling(After(op, m.cdfs))
  BY <1>1, OperationParts
<1>3. own < 65536
  <2> HIDE DEF own, skip, r
  <2> QED
    BY <1>1, <1>2
<1>4. own * t \in Ranges /\ Shift(own) \in Int /\ 0 <= Shift(own)
  BY <1>2, <1>3, ShiftIs
<1>5. t \in Int /\ 1 <= t
  <2>1. Shift(own) \in Nat
    BY <1>4
  <2> QED
    BY <2>1, TwoType
<1>6. /\ s.rng = m.rng /\ s.cdfs = m.cdfs /\ s.lo = l * t /\ s.un = m.un * t
      /\ n.rng = own * t /\ n.cdfs = After(op, m.cdfs) /\ n.lo = lo /\ n.un = 1
  BY DEF Scaled, Mark
<1>7. s.un = t
  <2>1. 1 * t = t
    BY <1>5
  <2> QED
    BY <1>6, <2>1
<1>8. /\ lo \in Int /\ lo = l * t + skip * t
      /\ 1 * t = t
      /\ l * t <= lo
      /\ lo + own * t <= (l + r) * t
  <2> HIDE DEF own, skip, t, l, r
  <2>1. (l + skip) * t \in Int /\ (l + skip) * t = l * t + skip * t /\ 1 * t = t
    BY <1>1, <1>2, <1>5
  <2>2. l * t <= (l + skip) * t
    BY <1>1, <1>2, <1>5, ProductOrder
  <2>3. (l + (skip + own)) * t <= (l + r) * t
    BY <1>1, <1>2, <1>5, ProductOrder
  <2>4. (l + (skip + own)) * t = (l + skip) * t + own * t
    BY <1>1, <1>2, <1>5
  <2> QED
    BY <2>1, <2>2, <2>3, <2>4 DEF l
<1> HIDE DEF n, s
<1>9. Marked(n)
  <2>1. 1 \in Int /\ 1 <= 1
    OBVIOUS
  <2> QED
    BY <1>2, <1>4, <1>6, <1>8, <2>1 DEF Marked
<1>10. Follows(op, s, n)
  BY <1>6, <1>7, <1>8 DEF Follows
<1>11. /\ Marked(n)
       /\ Follows(op, s, n)
       /\ m.lo * t <= n.lo
       /\ n.un = 1
       /\ n.lo + n.rng <= (m.lo + m.rng) * t
  BY <1>6, <1>8, <1>9, <1>10
<1> QED
  BY <1>5, <1>11 DEF n, s, NextMark, Finer

-----------------------------------------------------------------------------
(* The marks of a list of operations.                                         *)

\* The range that both ends begin with.
Full == 32768

Marks(h, list) ==
    /\ h[0].rng = Full /\ h[0].cdfs = Contexts /\ h[0].lo = 0
    /\ \A i \in 0 .. Len(list) : Marked(h[i])
    /\ \A i \in 1 .. Len(list) : Follows(list[i], h[i - 1], h[i])

Inside(h, n, a, z) == \A i \in 0 .. n : Holds(h[i], a, z)

\* One operation more: all marks are seen in its finer steps.
LEMMA AppendMark ==
  ASSUME NEW S, NEW list \in Seq(S), NEW op \in S, NEW h, Marks(h, list),
         NEW m, m = h[Len(list)], m.un = 1, Codes(op, m.cdfs),
         Inside(h, Len(list), m.lo, m.lo + m.rng)
  PROVE  \E g : /\ Marks(g, Append(list, op))
                /\ g[Len(list) + 1] = NextMark(op, m)
                /\ g[0].un = h[0].un * Finer(op, m)
                /\ Inside(g, Len(list) + 1, NextMark(op, m).lo,
                          NextMark(op, m).lo + NextMark(op, m).rng)
<1> DEFINE n == Len(list)
           t == Finer(op, m)
           new == NextMark(op, m)
           more == Append(list, op)
           g == [i \in 0 .. n + 1 |-> IF i = n + 1 THEN new ELSE Scaled(h[i], t)]
<1>1. n \in Nat
  OBVIOUS
<1>2. \A i \in 0 .. n : Marked(h[i])
  BY DEF Marks
<1>3. Marked(m)
  <2> HIDE DEF n
  <2>1. n \in 0 .. n
    BY <1>1
  <2> QED
    BY <1>2, <2>1 DEF n
<1>4. /\ Marked(new) /\ Follows(op, Scaled(m, t), new) /\ t \in Int /\ 1 <= t
      /\ m.lo * t <= new.lo
      /\ new.un = 1
      /\ new.lo + new.rng <= (m.lo + m.rng) * t
  BY <1>3, FollowingMark
<1> HIDE DEF t, new
<1>5. Len(more) = n + 1 /\ more[n + 1] = op
  OBVIOUS
<1>6. ASSUME NEW i \in 1 .. n PROVE more[i] = list[i]
  OBVIOUS
<1> HIDE DEF n, more
<1>7. g[n + 1] = new
  BY <1>1
<1>8. ASSUME NEW i \in 0 .. n PROVE g[i] = Scaled(h[i], t)
  BY <1>1
<1> HIDE DEF g
<1>9. ASSUME NEW i \in 0 .. n PROVE Marked(g[i])
  BY <1>2, <1>4, <1>8, ScaledMark
<1>10. \A i \in 0 .. n + 1 : Marked(g[i])
  <2>1. ASSUME NEW i \in 0 .. n + 1 PROVE i \in 0 .. n \/ i = n + 1
    BY <1>1
  <2> QED
    BY <1>4, <1>7, <1>9, <2>1
<1>11. ASSUME NEW i \in 1 .. n PROVE Follows(more[i], g[i - 1], g[i])
  <2>1. i - 1 \in 0 .. n /\ i \in 0 .. n
    BY <1>1
  <2>2. Follows(list[i], h[i - 1], h[i])
    BY DEF Marks, n
  <2>3. Follows(list[i], Scaled(h[i - 1], t), Scaled(h[i], t))
    BY <1>2, <1>4, <2>1, <2>2, ScaledFollows
  <2> QED
    BY <1>6, <1>8, <2>1, <2>3
<1>12. Follows(more[n + 1], g[n], g[n + 1])
  <2>1. n \in 0 .. n
    BY <1>1
  <2>2. g[n] = Scaled(m, t)
    BY <1>8, <2>1 DEF n
  <2> QED
    BY <1>4, <1>5, <1>7, <2>2
<1>13. \A i \in 1 .. n + 1 : Follows(more[i], g[i - 1], g[i])
  <2>1. ASSUME NEW i \in 1 .. n + 1 PROVE i \in 1 .. n \/ (i = n + 1 /\ i - 1 = n)
    BY <1>1
  <2> QED
    BY <1>11, <1>12, <2>1
<1>14. /\ g[0].rng = Full /\ g[0].cdfs = Contexts /\ g[0].lo = 0
       /\ g[0].un = h[0].un * t
  <2>1. 0 \in 0 .. n
    BY <1>1
  <2>2. g[0] = Scaled(h[0], t)
    BY <1>8, <2>1
  <2>3. h[0].rng = Full /\ h[0].cdfs = Contexts /\ h[0].lo = 0
    BY DEF Marks
  <2>4. 0 * t = 0
    BY <1>4
  <2> QED
    BY <2>2, <2>3, <2>4 DEF Scaled, Mark
<1>15. Marks(g, more)
  BY <1>5, <1>10, <1>13, <1>14 DEF Marks
<1>16. ASSUME NEW i \in 0 .. n PROVE Holds(g[i], new.lo, new.lo + new.rng)
  <2> DEFINE a == m.lo * t
             z == (m.lo + m.rng) * t
             s == Scaled(h[i], t)
             na == new.lo
             nz == new.lo + new.rng
  <2>1. m.lo \in Int /\ m.rng \in Int
    BY <1>3, RangeHigh DEF Marked
  <2>2. Holds(s, a, z)
    <3>1. Holds(h[i], m.lo, m.lo + m.rng)
      BY DEF Inside, n
    <3>2. m.lo + m.rng \in Int
      BY <2>1
    <3> QED
      BY <1>2, <1>4, <2>1, <3>1, <3>2, ScaledHolds
  <2>3. s.lo <= a /\ z <= s.lo + s.rng * s.un
    BY <2>2 DEF Holds
  <2>4. s.lo \in Int /\ s.lo + s.rng * s.un \in Int
    <3>1. Marked(s)
      BY <1>2, <1>4, ScaledMark
    <3> HIDE DEF s
    <3>2. s.lo \in Int /\ s.rng \in Int /\ s.un \in Int
      BY <3>1, RangeHigh DEF Marked
    <3> DEFINE x == s.rng
               y == s.un
    <3>3. x * y \in Int
      <4>1. x \in Int /\ y \in Int
        BY <3>2
      <4> HIDE DEF x, y
      <4> QED
        BY <4>1
    <3> QED
      BY <3>2, <3>3
  <2>5. a \in Int /\ z \in Int /\ na \in Int /\ nz \in Int
    <3>1. new.lo \in Int /\ new.rng \in Int
      BY <1>4, RangeHigh DEF Marked
    <3> DEFINE l == m.lo
               r == m.rng
    <3>2. l * t \in Int /\ (l + r) * t \in Int
      <4>1. l \in Int /\ r \in Int
        BY <2>1
      <4> HIDE DEF l, r
      <4> QED
        BY <1>4, <4>1
    <3> QED
      BY <3>1, <3>2
  <2>6. a <= na /\ nz <= z
    BY <1>4
  <2> DEFINE sl == s.lo
             sz == s.lo + s.rng * s.un
  <2>7. sl \in Int /\ sz \in Int /\ sl <= a /\ z <= sz
    BY <2>3, <2>4
  <2> HIDE DEF a, z, na, nz, sl, sz
  <2>8. sl <= na /\ nz <= sz
    BY <2>5, <2>6, <2>7
  <2>9. Holds(s, new.lo, new.lo + new.rng)
    <3> HIDE DEF s
    <3> QED
      BY <2>8 DEF Holds, sl, sz, na, nz
  <2> QED
    BY <1>8, <2>9
<1>17. Holds(g[n + 1], new.lo, new.lo + new.rng)
  <2>1. new.lo \in Int /\ new.rng \in Int /\ new.un = 1
    BY <1>4, RangeHigh DEF Marked
  <2> DEFINE l == new.lo
             r == new.rng
  <2>2. l <= l /\ l + r <= l + r * 1
    BY <2>1
  <2> QED
    BY <1>7, <2>1, <2>2 DEF Holds
<1>18. Inside(g, n + 1, new.lo, new.lo + new.rng)
  <2>1. ASSUME NEW i \in 0 .. n + 1 PROVE i \in 0 .. n \/ i = n + 1
    BY <1>1
  <2> QED
    BY <1>16, <1>17, <2>1 DEF Inside
<1> QED
  BY <1>7, <1>14, <1>15, <1>18 DEF n, t, new, more

-----------------------------------------------------------------------------
(* Coding. *)

\* An operation as it is recorded.
Operation == [kind : {"bool", "symbol"}, with : Probs \cup DOMAIN Contexts, val : 0 .. 15]

\* The encoder stands for the interval of the last mark.
Encoding(h) ==
    LET m == h[Len(ops)]
    IN /\ Marks(h, ops)
       /\ m.rng = enc.rng /\ m.cdfs = ecdf /\ m.un = 1
       /\ Inside(h, Len(ops), m.lo, m.lo + m.rng)
       /\ Writes(enc, m.lo, Full * h[0].un)

CodingInv ==
    /\ ~Flushed
    /\ ops \in Seq(Operation) /\ got = <<>> /\ dcdf = Contexts
    /\ \E h : Encoding(h)

\* A new encoder has written nothing of a number that may be anything.
LEMMA NewEncoderWrites == Writes(NewEncoder, 0, Full)
<1> DEFINE e == NewEncoder
           v == [i \in 0 .. 0 |-> 0]
           b == [i \in 0 .. 0 |-> Full]
<1>1. e.buf = <<>> /\ e.low = 0 /\ e.rng = Full /\ e.cnt = -9
  BY SMT DEF NewEncoder, Full
<1>2. Two[15] = Full /\ Two[16] = 2 * Full
  <2>1. Two[15 + 1] = 2 * Two[15] /\ 15 + 1 = 16
    BY TwoStep, SMT
  <2> QED
    BY <2>1, PowersOfTwo, SMT DEF Full
<1>3. e.cnt + 24 = 15 /\ e.cnt + 25 = 16 /\ e.low + e.rng = Full
  BY <1>1, SMT DEF Full
<1>4. Coder(e)
  BY <1>1, <1>2, <1>3, SMT DEF Coder, Ranges, Full
<1>5. Len(<<>>) = 0 /\ <<>> \in Seq(Byte)
  OBVIOUS
<1>6. Prefixes(<<>>, v) /\ v[0] = 0
  BY <1>5 DEF Prefixes
<1>7. Spans(b, 0, Full, Full)
  <2>1. b[0] = Full /\ b \in [0 .. 0 -> Nat]
    BY SMT DEF Full
  <2>2. \A j \in 1 .. 0 : b[j - 1] = 256 * b[j]
    OBVIOUS
  <2> HIDE DEF b
  <2> QED
    BY <2>1, <2>2, Zenon DEF Spans, Units
<1>8. 0 = 0 * Full + 0
  BY SMT DEF Full
<1> HIDE DEF e, v, b
<1>9. Prefixes(e.buf, v) /\ 0 = v[Len(e.buf)] * Two[e.cnt + 24] + e.low
  BY <1>1, <1>2, <1>3, <1>5, <1>6, <1>8
<1>10. Spans(b, Len(e.buf), Two[e.cnt + 24], Full)
  BY <1>1, <1>2, <1>3, <1>5, <1>7
<1> QED
  BY <1>4, <1>9, <1>10 DEF e, Writes

\* So it is in the initial state.
LEMMA CodingInit == Init => CodingInv
<1> SUFFICES ASSUME Init PROVE CodingInv
  OBVIOUS
<1>1. /\ ops = <<>> /\ enc = NewEncoder /\ ecdf = Contexts /\ data = <<>>
      /\ dcdf = Contexts /\ got = <<>>
  BY DEF Init
<1> DEFINE m == Mark(Full, Contexts, 0, 1)
           h == [i \in 0 .. 0 |-> m]
<1>2. h[0] = m /\ m.rng = Full /\ m.cdfs = Contexts /\ m.lo = 0 /\ m.un = 1
  BY DEF Mark
<1>3. Len(ops) = 0
  BY <1>1
<1> HIDE DEF h, m
<1>4. Marked(m)
  <2>1. Full \in Ranges
    BY SMT DEF Ranges, Full
  <2>2. AllFalling(Contexts)
    BY ProbabilitiesAssumption DEF AllFalling
  <2>3. 0 \in Int /\ 1 \in Int /\ 1 <= 1
    OBVIOUS
  <2> QED
    BY <1>2, <2>1, <2>2, <2>3 DEF Marked
<1>5. \A i \in 0 .. 0 : i = 0
  OBVIOUS
<1>6. \A i \in 1 .. 0 : FALSE
  OBVIOUS
<1>7. Marks(h, ops)
  BY <1>2, <1>3, <1>4, <1>5, <1>6, Zenon DEF Marks
<1>8. Holds(m, 0, Full)
  <2>1. 0 <= 0 /\ Full <= 0 + Full * 1
    BY SMT DEF Full
  <2> QED
    BY <1>2, <2>1, Zenon DEF Holds
<1>9. 0 + Full = Full /\ Full * 1 = Full
  BY SMT DEF Full
<1>10. Inside(h, 0, 0, Full)
  BY <1>2, <1>5, <1>8, Zenon DEF Inside
<1>11. enc.rng = Full
  BY <1>1, SMT DEF NewEncoder, Full
<1>12. Writes(enc, 0, Full)
  BY <1>1, NewEncoderWrites, Zenon
<1>13. Encoding(h)
  BY <1>1, <1>2, <1>3, <1>7, <1>9, <1>10, <1>11, <1>12, Zenon DEF Encoding
<1>14. ops \in Seq(Operation)
  BY <1>1
<1>15. ~Flushed
  BY <1>1 DEF Flushed
<1> QED
  BY <1>1, <1>13, <1>14, <1>15, Zenon DEF CodingInv

\* What an operation does to the encoder.
Encoded(op, e, cdfs) ==
    Normalize(e, e.low + Skips(op, e.rng, cdfs), Owns(op, e.rng, cdfs))

\* Bools and symbols are coded in the same way: a part skipped, a part taken.
LEMMA PutIs ==
  ASSUME NEW e, Coder(e), NEW cdfs, AllFalling(cdfs)
  PROVE  /\ \A val \in 0 .. 1, f \in Probs :
              EncodeBool(e, val, f) = Encoded([kind |-> "bool", with |-> f, val |-> val], e, cdfs)
         /\ \A val \in 0 .. 15, ctx \in DOMAIN Contexts :
              EncodeSymbol(e, val, cdfs[ctx])
                = Encoded([kind |-> "symbol", with |-> ctx, val |-> val], e, cdfs)
<1>1. e.low \in Int /\ e.low + 0 = e.low
  <2>1. e.low \in Int
    BY CoderParts
  <2> QED
    BY <2>1
<1>2. ASSUME NEW val \in 0 .. 1, NEW f \in Probs
      PROVE  EncodeBool(e, val, f) = Encoded([kind |-> "bool", with |-> f, val |-> val], e, cdfs)
  <2> DEFINE op == [kind |-> "bool", with |-> f, val |-> val]
             v == Cut(e.rng, f, 1)
  <2>1. /\ Skips(op, e.rng, cdfs) = IF val = 1 THEN e.rng - v ELSE 0
        /\ Owns(op, e.rng, cdfs) = IF val = 1 THEN v ELSE e.rng - v
    BY DEF Skips, Owns
  <2>2. EncodeBool(e, val, f) = IF val = 1 THEN Normalize(e, e.low + (e.rng - v), v)
                                          ELSE Normalize(e, e.low, e.rng - v)
    BY DEF EncodeBool
  <2> HIDE DEF op, v
  <2>3. EncodeBool(e, val, f) = Encoded(op, e, cdfs)
    BY <1>1, <2>1, <2>2 DEF Encoded
  <2> QED
    BY <2>3 DEF op
<1>3. ASSUME NEW val \in 0 .. 15, NEW ctx \in DOMAIN Contexts
      PROVE  EncodeSymbol(e, val, cdfs[ctx])
                = Encoded([kind |-> "symbol", with |-> ctx, val |-> val], e, cdfs)
  <2> DEFINE op == [kind |-> "symbol", with |-> ctx, val |-> val]
             u == Above(e.rng, cdfs[ctx], val)
             cut == SymbolCut(e.rng, cdfs[ctx], val)
  <2>1. Skips(op, e.rng, cdfs) = e.rng - u /\ Owns(op, e.rng, cdfs) = u - cut
    BY DEF Skips, Owns
  <2>2. EncodeSymbol(e, val, cdfs[ctx]) = Normalize(e, e.low + (e.rng - u), u - cut)
    BY DEF EncodeSymbol, Above
  <2> HIDE DEF op, u, cut
  <2>3. EncodeSymbol(e, val, cdfs[ctx]) = Encoded(op, e, cdfs)
    BY <2>1, <2>2 DEF Encoded
  <2> QED
    BY <2>3 DEF op
<1> QED
  BY <1>2, <1>3

\* For a bool,
LEMMA PutBoolIs ==
  ASSUME NEW e, Coder(e), NEW cdfs, AllFalling(cdfs), NEW val \in 0 .. 1, NEW f \in Probs
  PROVE  EncodeBool(e, val, f) = Encoded([kind |-> "bool", with |-> f, val |-> val], e, cdfs)
BY PutIs

\* and for a symbol.
LEMMA PutSymbolIs ==
  ASSUME NEW e, Coder(e), NEW cdfs, AllFalling(cdfs),
         NEW val \in 0 .. 15, NEW ctx \in DOMAIN Contexts
  PROVE  EncodeSymbol(e, val, cdfs[ctx])
           = Encoded([kind |-> "symbol", with |-> ctx, val |-> val], e, cdfs)
BY PutIs

\* An operation put: the encoder stands for the interval of its mark.
LEMMA PutKeeps ==
  ASSUME CodingInv, NEW op \in Operation, Codes(op, ecdf),
         ops' = Append(ops, op), enc' = Encoded(op, enc, ecdf), ecdf' = After(op, ecdf),
         UNCHANGED <<data, got, dcdf>>
  PROVE  CodingInv'
<1>1. PICK h : Encoding(h)
  BY DEF CodingInv
<1> DEFINE n == Len(ops)
           m == h[n]
           t == Finer(op, m)
           new == NextMark(op, m)
<1>2. /\ Marks(h, ops) /\ m.rng = enc.rng /\ m.cdfs = ecdf /\ m.un = 1
      /\ Inside(h, n, m.lo, m.lo + m.rng)
      /\ Writes(enc, m.lo, Full * h[0].un)
  BY <1>1 DEF Encoding
<1>3. ops \in Seq(Operation) /\ n \in Nat
  BY DEF CodingInv
<1>4. Marked(m) /\ Marked(h[0])
  <2> HIDE DEF n
  <2>1. n \in 0 .. n /\ 0 \in 0 .. n
    BY <1>3
  <2> QED
    BY <1>2, <2>1, Zenon DEF Marks, n
<1> HIDE DEF m
<1>5. PICK g : /\ Marks(g, ops')
               /\ g[n + 1] = new
               /\ g[0].un = h[0].un * t
               /\ Inside(g, n + 1, new.lo, new.lo + new.rng)
  BY <1>2, <1>3, AppendMark DEF m
<1>6. Len(ops') = n + 1
  BY <1>3
<1> DEFINE own == Owns(op, enc.rng, ecdf)
           skip == Skips(op, enc.rng, ecdf)
<1>7. /\ t = Two[Shift(own)] /\ new.rng = own * t /\ new.cdfs = After(op, ecdf)
      /\ new.lo = (m.lo + skip) * t /\ new.un = 1
  BY <1>2 DEF Finer, NextMark, Mark
<1>8. own \in Int /\ 1 <= own /\ skip \in Int /\ 0 <= skip /\ skip + own <= enc.rng
  <2>1. enc.rng \in Ranges /\ AllFalling(ecdf)
    BY <1>2, <1>4 DEF Marked
  <2> QED
    BY <2>1, OperationParts
<1>9. /\ Writes(enc', Two[Shift(own)] * (m.lo + skip), Two[Shift(own)] * (Full * h[0].un))
      /\ enc'.rng = own * Two[Shift(own)]
  <2> HIDE DEF own, skip
  <2>1. enc' = Normalize(enc, enc.low + skip, own)
    BY DEF Encoded, own, skip
  <2> QED
    BY <1>2, <1>8, <2>1, NormalizeWrites
<1> HIDE DEF n, new, t, own, skip
<1>10. Two[Shift(own)] * (m.lo + skip) = new.lo
  <2> DEFINE l == m.lo
  <2>1. l \in Int /\ t \in Int
    BY <1>2, <1>4, FollowingMark DEF Marked, t
  <2>2. t * (l + skip) = (l + skip) * t
    <3> HIDE DEF l
    <3> QED
      BY <1>8, <2>1
  <2> QED
    BY <1>7, <2>2
<1>11. Two[Shift(own)] * (Full * h[0].un) = Full * g[0].un
  <2> DEFINE u == h[0].un
  <2>1. u \in Int /\ t \in Int
    BY <1>2, <1>4, FollowingMark DEF Marked, t
  <2>2. t * (Full * u) = Full * (u * t)
    <3> HIDE DEF u
    <3> QED
      BY <2>1, SMT DEF Full
  <2> QED
    BY <1>5, <1>7, <2>2
<1>12. Encoding(g)'
  BY <1>2, <1>5, <1>6, <1>7, <1>9, <1>10, <1>11 DEF Encoding
<1>13. ops' \in Seq(Operation)
  BY <1>3
<1>14. (~Flushed)' /\ got' = <<>> /\ dcdf' = Contexts
  BY DEF CodingInv, Flushed
<1> QED
  BY <1>12, <1>13, <1>14 DEF CodingInv

-----------------------------------------------------------------------------
(* What the decoder's window holds.                                           *)

\* What the first j bytes say is all there is to say of x in their steps.
Agrees(v, b, j, x) ==
    /\ v[j] \in Int /\ 0 <= v[j]
    /\ b[j] \in Int /\ 1 <= b[j]
    /\ v[j] * b[j] <= x
    /\ x + 1 <= (v[j] + 1) * b[j]

\* One byte less says less of x, but nothing else.
LEMMA ByteAgrees ==
  ASSUME NEW y \in Int, 0 <= y, NEW z \in Int, NEW p \in Int, 1 <= p,
         NEW byte \in Int, 0 <= byte, byte <= 255,
         z = 256 * y + byte, NEW x \in Int, z * p <= x, x + 1 <= (z + 1) * p
  PROVE  /\ 256 * p \in Int /\ 1 <= 256 * p
         /\ y * (256 * p) <= x
         /\ x + 1 <= (y + 1) * (256 * p)
<1>1. y * (256 * p) = (256 * y) * p /\ (y + 1) * (256 * p) = (256 * y + 256) * p
  OBVIOUS
<1>2. (256 * y) * p <= z * p /\ (z + 1) * p <= (256 * y + 256) * p
  <2>1. 256 * y \in Int /\ 256 * y + 256 \in Int /\ z + 1 \in Int
        /\ 256 * y <= z /\ z + 1 <= 256 * y + 256
    OBVIOUS
  <2> QED
    BY <2>1, ProductOrder
<1>3. (256 * y) * p \in Int /\ z * p \in Int /\ (z + 1) * p \in Int
      /\ (256 * y + 256) * p \in Int
  OBVIOUS
<1> DEFINE c1 == (256 * y) * p
           c2 == z * p
           c3 == (z + 1) * p
           c4 == (256 * y + 256) * p
<1>4. c1 \in Int /\ c2 \in Int /\ c3 \in Int /\ c4 \in Int /\ c1 <= c2 /\ c3 <= c4
      /\ c2 <= x /\ x + 1 <= c3
  BY <1>2, <1>3
<1> HIDE DEF c1, c2, c3, c4
<1>5. c1 <= x /\ x + 1 <= c4
  BY <1>4
<1> QED
  BY <1>1, <1>5 DEF c1, c4

\* So however many bytes are taken, they agree with x.
LEMMA TileAgrees ==
  ASSUME NEW bytes, NEW v, NEW b, NEW x, NEW top, Tile(bytes, v, b, x, top),
         NEW j \in 0 .. Len(bytes)
  PROVE  Agrees(v, b, j, x) /\ x \in Int
<1> DEFINE L == Len(bytes)
           T == {i \in 0 .. L : Agrees(v, b, L - i, x)}
<1>1. bytes \in Seq(Byte) /\ v \in [0 .. L -> Nat]
      /\ \A i \in 1 .. L : v[i] = 256 * v[i - 1] + bytes[i]
  BY DEF Tile, Prefixes
<1>2. L \in Nat /\ \A i \in 1 .. L : bytes[i] \in Int /\ 0 <= bytes[i] /\ bytes[i] <= 255
  BY <1>1, ByteEntries
<1>3. PICK e \in 7 .. 14 : Spans(b, L, Two[e], top) /\ x = v[L] * Two[e]
  BY DEF Tile
<1>4. \A i \in 1 .. L : b[i - 1] = 256 * b[i]
  BY <1>3 DEF Spans, Units
<1>5. b[L] = Two[e] /\ Two[e] \in Int /\ 1 <= Two[e]
  <2>1. e \in Nat
    OBVIOUS
  <2> QED
    BY <1>3, <2>1, TwoType DEF Spans, Units
<1> HIDE DEF L
<1>6. \A i \in 0 .. L : v[i] \in Int /\ 0 <= v[i]
  BY <1>1
<1>7. x \in Int /\ Agrees(v, b, L, x)
  <2> DEFINE y == v[L]
             p == Two[e]
  <2>1. y \in Int /\ 0 <= y
    <3>1. L \in 0 .. L
      BY <1>2
    <3> QED
      BY <1>6, <3>1
  <2>2. p \in Int /\ 1 <= p
    BY <1>5
  <2>3. x = y * p
    BY <1>3
  <2> HIDE DEF y, p
  <2>4. y * p \in Int /\ (y + 1) * p = y * p + p
    BY <2>1, <2>2
  <2> DEFINE z == y * p
  <2>5. z \in Int /\ z <= z /\ z + 1 <= z + p
    BY <2>2, <2>4
  <2> QED
    BY <1>5, <2>1, <2>2, <2>3, <2>4, <2>5 DEF Agrees, y, p
<1>8. 0 \in T
  <2>1. 0 \in 0 .. L /\ L - 0 = L
    BY <1>2
  <2> QED
    BY <1>7, <2>1
<1>9. ASSUME NEW i \in T, i < L PROVE i + 1 \in T
  <2> DEFINE k == L - i
  <2>1. /\ k \in 1 .. L /\ k - 1 \in 0 .. L /\ L - (i + 1) = k - 1 /\ i + 1 \in 0 .. L
        /\ Agrees(v, b, k, x)
    BY <1>2, <1>9
  <2> HIDE DEF k
  <2>2. v[k] = 256 * v[k - 1] + bytes[k] /\ b[k - 1] = 256 * b[k]
    BY <1>1, <1>4, <2>1
  <2> DEFINE y == v[k - 1]
             z == v[k]
             p == b[k]
             byte == bytes[k]
  <2>3. y \in Int /\ 0 <= y /\ z \in Int /\ p \in Int /\ 1 <= p
        /\ byte \in Int /\ 0 <= byte /\ byte <= 255
    BY <1>2, <1>6, <2>1 DEF Agrees
  <2>4. z = 256 * y + byte /\ z * p <= x /\ x + 1 <= (z + 1) * p
    BY <2>1, <2>2 DEF Agrees
  <2> HIDE DEF y, z, p, byte
  <2>5. /\ 256 * p \in Int /\ 1 <= 256 * p
        /\ y * (256 * p) <= x
        /\ x + 1 <= (y + 1) * (256 * p)
    BY <1>7, <2>3, <2>4, ByteAgrees
  <2>6. Agrees(v, b, k - 1, x)
    BY <2>2, <2>3, <2>5 DEF Agrees, y, p
  <2> QED
    BY <2>1, <2>6
<1>10. T \in SUBSET (0 .. L)
  OBVIOUS
<1> HIDE DEF T
<1>11. T = 0 .. L
  BY <1>2, <1>8, <1>9, <1>10, BoundedInduction
<1>12. L - j \in 0 .. L /\ L - (L - j) = j
  BY <1>2 DEF L
<1>13. L - j \in T
  BY <1>11, <1>12
<1> QED
  BY <1>7, <1>12, <1>13 DEF T

\* The window holds all that the bytes taken say of where x lies below the end
\* of the interval; beyond the last byte it is padded with ones.
Ahead(d, m, v, b, L) ==
    /\ d.pos \in 0 .. L
    /\ d.cnt \in 0 .. Window - 16
    /\ m.un = Two[d.cnt] * b[d.pos]
    /\ \E a, junk \in Int :
          /\ m.lo = a * b[d.pos]
          /\ 0 <= junk /\ junk < Two[Window - 16 - d.cnt]
          /\ d.pos < L => junk = 0
          /\ d.dif = (a + d.rng * Two[d.cnt] - v[d.pos] - 1) * Two[Window - 16 - d.cnt] + junk

\* All padding: what the window holds is right to less than its last bit.
Past(d, m, x, L) ==
    /\ d.pos = L
    /\ d.cnt \in Int /\ d.cnt < 0
    /\ \E g \in Int :
          /\ 0 < g /\ g <= Two[Window - 16]
          /\ d.dif * m.un = (m.lo + d.rng * m.un - x) * Two[Window - 16] - g

Reader(d, m, v, b, x, L) ==
    /\ d.rng = m.rng /\ d.dif \in Int
    /\ Ahead(d, m, v, b, L) \/ Past(d, m, x, L)

\* The window is wider than a range and as wide as what Flush leaves out.
LEMMA WindowBits ==
  /\ Window \in Int /\ 29 <= Window /\ Window <= 64
  /\ Window - 16 \in Nat
  /\ Two[Window - 16] \in Int /\ 1 <= Two[Window - 16]
<1>1. Window \in Int /\ 29 <= Window /\ Window <= 64
  BY SizesAssumption
<1>2. Window - 16 \in Nat
  BY <1>1
<1> QED
  BY <1>1, <1>2, TwoType

\* Where x is above or below a cut, so is the window: ahead of the last byte,
LEMMA AheadBounds ==
  ASSUME NEW p \in Int, 1 <= p, NEW T \in Int, 1 <= T, NEW K \in Int, 1 <= K,
         NEW a \in Int, NEW y \in Int, NEW rng \in Int, NEW s \in Int, NEW x \in Int,
         NEW junk \in Int, 0 <= junk, junk < K,
         y * p <= x, x + 1 <= (y + 1) * p
  PROVE  /\ a * p + s * (T * p) <= x => (a + rng * T - y - 1) * K + junk < (rng - s) * (T * K)
         /\ x + 1 <= a * p + s * (T * p) => (rng - s) * (T * K) <= (a + rng * T - y - 1) * K + junk
<1> DEFINE e == a + s * T
           r == (rng - s) * T
           f == a + rng * T - y - 1
<1>1. /\ e \in Int /\ r \in Int /\ f \in Int
      /\ a * p + s * (T * p) = e * p
      /\ (rng - s) * (T * K) = r * K
      /\ f = r + e - y - 1
  <2>1. e \in Int /\ r \in Int /\ f \in Int
    OBVIOUS
  <2>2. a * p + s * (T * p) = e * p
    OBVIOUS
  <2>3. (rng - s) * (T * K) = r * K
    OBVIOUS
  <2>4. f = r + e - y - 1
    <3>1. (rng - s) * T = rng * T - s * T
      OBVIOUS
    <3> DEFINE g == rng * T
               h == s * T
    <3>2. g \in Int /\ h \in Int /\ r = g - h
      BY <3>1
    <3> HIDE DEF g, h, r
    <3> QED
      BY <3>2 DEF g, h
  <2> QED
    BY <2>1, <2>2, <2>3, <2>4
<1> HIDE DEF e, r, f
<1> DEFINE ep == e * p
           yp == y * p
           y1 == (y + 1) * p
<1>2. ep \in Int /\ yp \in Int /\ y1 \in Int /\ yp <= x /\ x + 1 <= y1
  BY <1>1
<1> HIDE DEF ep, yp, y1
<1>3. ASSUME ep <= x PROVE f * K + junk < r * K
  <2>1. ep < y1
    BY <1>2, <1>3
  <2>2. e < y + 1
    BY <1>1, <2>1, ProductOrder DEF ep, y1
  <2>3. f + 1 <= r
    BY <1>1, <2>2
  <2>4. (f + 1) * K <= r * K
    BY <1>1, <2>3, ProductOrder
  <2> DEFINE fk == f * K
             rk == r * K
  <2>5. fk \in Int /\ rk \in Int /\ (f + 1) * K = fk + K
    BY <1>1
  <2> HIDE DEF fk, rk
  <2>6. fk + K <= rk
    BY <2>4, <2>5 DEF rk
  <2>7. fk + junk < rk
    BY <2>5, <2>6
  <2> QED
    BY <2>7 DEF fk, rk
<1>4. ASSUME x + 1 <= ep PROVE r * K <= f * K + junk
  <2>1. yp < ep
    BY <1>2, <1>4
  <2>2. y < e
    BY <1>1, <2>1, ProductOrder DEF ep, yp
  <2>3. r <= f
    BY <1>1, <2>2
  <2>4. r * K <= f * K
    BY <1>1, <2>3, ProductOrder
  <2> DEFINE fk == f * K
             rk == r * K
  <2>5. fk \in Int /\ rk \in Int /\ rk <= fk
    BY <1>1, <2>4
  <2> HIDE DEF fk, rk
  <2>6. rk <= fk + junk
    BY <2>5
  <2> QED
    BY <2>6 DEF fk, rk
<1> QED
  BY <1>1, <1>3, <1>4 DEF ep, f

\* and past it.
LEMMA PastBounds ==
  ASSUME NEW un \in Int, 1 <= un, NEW M \in Int, 1 <= M, NEW lo \in Int, NEW dif \in Int,
         NEW rng \in Int, NEW s \in Int, NEW x \in Int,
         NEW g \in Int, 0 < g, g <= M, dif * un = (lo + rng * un - x) * M - g
  PROVE  /\ lo + s * un <= x => dif < (rng - s) * M
         /\ x + 1 <= lo + s * un => (rng - s) * M <= dif
<1> DEFINE e == lo + s * un
           h == e - x
           r == (rng - s) * M
           z == lo + rng * un - x
<1>1. e \in Int /\ h \in Int /\ r \in Int /\ z \in Int
  OBVIOUS
<1>2. z = (rng - s) * un + h
  <2>1. (rng - s) * un = rng * un - s * un
    OBVIOUS
  <2> DEFINE ru == rng * un
             su == s * un
  <2>2. ru \in Int /\ su \in Int
    OBVIOUS
  <2> HIDE DEF ru, su
  <2> QED
    BY <2>1, <2>2 DEF ru, su
<1>3. z * M = r * un + h * M
  <2>1. ((rng - s) * un + h) * M = ((rng - s) * M) * un + h * M
    BY <1>1
  <2> QED
    BY <1>2, <2>1
<1> DEFINE du == dif * un
           zM == z * M
           rU == r * un
           hM == h * M
<1>4. du \in Int /\ zM \in Int /\ rU \in Int /\ hM \in Int /\ du = zM - g /\ zM = rU + hM
  BY <1>1, <1>3
<1> HIDE DEF z, r, du, zM, rU, hM
<1>5. ASSUME e <= x PROVE dif < r
  <2>1. h <= 0
    BY <1>1, <1>5
  <2>2. hM <= 0 * M /\ 0 * M = 0
    <3>1. 0 \in Int
      OBVIOUS
    <3> HIDE DEF h
    <3> QED
      BY <1>1, <2>1, <3>1, ProductOrder DEF hM
  <2>3. du < rU
    BY <1>4, <2>2
  <2> QED
    BY <1>1, <2>3, ProductOrder DEF du, rU
<1>6. ASSUME x + 1 <= e PROVE r <= dif
  <2>1. 1 <= h
    BY <1>1, <1>6
  <2>2. 1 * M <= hM /\ 1 * M = M
    <3>1. 1 \in Int
      OBVIOUS
    <3> HIDE DEF h
    <3> QED
      BY <1>1, <2>1, <3>1, ProductOrder DEF hM
  <2>3. rU <= du
    BY <1>4, <2>2
  <2> SUFFICES ASSUME dif < r PROVE FALSE
    BY <1>1
  <2>4. du < rU
    BY <1>1, ProductOrder DEF du, rU
  <2> QED
    BY <1>4, <2>3, <2>4
<1> QED
  BY <1>5, <1>6 DEF r, e

\* A reader's numbers.
LEMMA ReaderParts ==
  ASSUME NEW d, NEW m, Marked(m), NEW v, NEW b, NEW x, NEW L, Reader(d, m, v, b, x, L)
  PROVE  /\ d.rng \in Ranges /\ d.rng \in Int /\ 32768 <= d.rng /\ d.rng < 65536
         /\ d.dif \in Int /\ m.lo \in Int /\ m.un \in Int /\ 1 <= m.un
BY RangeHigh DEF Reader, Marked

\* An ahead reader's numbers, named.
Holding(d, m, v, b, L, p, T, K, a, junk) ==
    /\ d.pos \in 0 .. L
    /\ d.cnt \in Nat /\ Window - 16 - d.cnt \in Nat
    /\ p = b[d.pos] /\ T = Two[d.cnt] /\ K = Two[Window - 16 - d.cnt]
    /\ T \in Int /\ 1 <= T /\ K \in Int /\ 1 <= K
    /\ Two[Window - 16] = T * K
    /\ a \in Int /\ junk \in Int /\ 0 <= junk /\ junk < K
    /\ d.pos < L => junk = 0
    /\ m.un = T * p
    /\ m.lo = a * p
    /\ d.dif = (a + d.rng * T - v[d.pos] - 1) * K + junk

\* They exist.
LEMMA AheadHolds ==
  ASSUME NEW d, NEW m, NEW v, NEW b, NEW L, Ahead(d, m, v, b, L)
  PROVE  \E p, T, K, a, junk : Holding(d, m, v, b, L, p, T, K, a, junk)
<1> DEFINE c == d.cnt
           M == Window - 16
<1>1. c \in 0 .. M /\ M \in Nat
  BY WindowBits DEF Ahead
<1> HIDE DEF c, M
<1>2. c \in Nat /\ M - c \in Nat /\ c + (M - c) = M
  BY <1>1
<1>3. Two[M] = Two[c] * Two[M - c]
  <2>1. Two[c + (M - c)] = Two[c] * Two[M - c]
    BY <1>2, TwoSum
  <2> QED
    BY <1>2, <2>1
<1>4. /\ Two[c] \in Int /\ 1 <= Two[c]
      /\ Two[M - c] \in Int /\ 1 <= Two[M - c]
  BY <1>2, TwoType
<1>5. PICK a, junk \in Int :
          /\ m.lo = a * b[d.pos]
          /\ 0 <= junk /\ junk < Two[Window - 16 - d.cnt]
          /\ d.pos < L => junk = 0
          /\ d.dif = (a + d.rng * Two[d.cnt] - v[d.pos] - 1) * Two[Window - 16 - d.cnt] + junk
  BY DEF Ahead
<1>6. d.pos \in 0 .. L /\ m.un = Two[d.cnt] * b[d.pos]
  BY DEF Ahead
<1>7. Holding(d, m, v, b, L, b[d.pos], Two[c], Two[M - c], a, junk)
  BY <1>2, <1>3, <1>4, <1>5, <1>6, Zenon DEF Holding, c, M
<1> QED
  BY <1>7

\* What lies below a cut of the interval, and what above it, the reader sees so.
Cuts(d, m, x, s) ==
    /\ m.lo + s * m.un <= x => d.dif < (d.rng - s) * Two[Window - 16]
    /\ x + 1 <= m.lo + s * m.un => (d.rng - s) * Two[Window - 16] <= d.dif

\* For every reader, wherever it is.
LEMMA ReaderBounds ==
  ASSUME NEW d, NEW m, Marked(m), NEW bytes, NEW v, NEW b, NEW x, NEW top,
         Tile(bytes, v, b, x, top), Reader(d, m, v, b, x, Len(bytes)), NEW s \in Int
  PROVE  Cuts(d, m, x, s)
<1> DEFINE L == Len(bytes)
           M == Two[Window - 16]
<1>1. /\ d.rng \in Int /\ d.dif \in Int /\ m.lo \in Int /\ m.un \in Int /\ 1 <= m.un
  BY ReaderParts
<1>2. M \in Int /\ 1 <= M
  BY WindowBits
<1>3. L \in Nat
  BY PrefixType DEF Tile
<1>4. CASE Ahead(d, m, v, b, L)
  <2>1. PICK p, T, K, a, junk : Holding(d, m, v, b, L, p, T, K, a, junk)
    BY <1>4, AheadHolds
  <2> DEFINE y == v[d.pos]
             rng == d.rng
  <2>2. /\ y \in Int /\ p \in Int /\ 1 <= p
        /\ y * p <= x /\ x + 1 <= (y + 1) * p /\ x \in Int
    <3>1. d.pos \in 0 .. L /\ p = b[d.pos]
      BY <2>1 DEF Holding
    <3>2. Agrees(v, b, d.pos, x) /\ x \in Int
      BY <3>1, TileAgrees
    <3> QED
      BY <3>1, <3>2 DEF Agrees
  <2>3. /\ T \in Int /\ 1 <= T /\ K \in Int /\ 1 <= K /\ M = T * K
        /\ a \in Int /\ junk \in Int /\ 0 <= junk /\ junk < K
        /\ m.un = T * p /\ m.lo = a * p
        /\ d.dif = (a + rng * T - y - 1) * K + junk
    BY <2>1 DEF Holding
  <2>4. rng \in Int
    BY <1>1
  <2> HIDE DEF y, rng, M
  <2>5. /\ a * p + s * (T * p) <= x => (a + rng * T - y - 1) * K + junk < (rng - s) * (T * K)
        /\ x + 1 <= a * p + s * (T * p) => (rng - s) * (T * K) <= (a + rng * T - y - 1) * K + junk
    BY <2>2, <2>3, <2>4, AheadBounds
  <2>6. /\ m.lo + s * m.un <= x => d.dif < (rng - s) * M
        /\ x + 1 <= m.lo + s * m.un => (rng - s) * M <= d.dif
    BY <2>3, <2>5
  <2> QED
    BY <2>6 DEF Cuts, rng, M
<1>5. CASE Past(d, m, x, L)
  <2>1. PICK g \in Int :
          /\ 0 < g /\ g <= M
          /\ d.dif * m.un = (m.lo + d.rng * m.un - x) * M - g
    BY <1>5 DEF Past
  <2>2. x \in Int
    <3> HIDE DEF L
    <3>1. 0 \in 0 .. L
      BY <1>3
    <3> QED
      BY <3>1, TileAgrees DEF L
  <2> DEFINE dif == d.dif
             lo == m.lo
             un == m.un
             rng == d.rng
  <2>3. /\ dif \in Int /\ lo \in Int /\ un \in Int /\ 1 <= un /\ rng \in Int
        /\ dif * un = (lo + rng * un - x) * M - g
    BY <1>1, <2>1
  <2> HIDE DEF dif, lo, un, rng, M
  <2>4. /\ lo + s * un <= x => dif < (rng - s) * M
        /\ x + 1 <= lo + s * un => (rng - s) * M <= dif
    BY <1>2, <2>1, <2>2, <2>3, PastBounds
  <2> QED
    BY <2>4 DEF Cuts, M, dif, lo, un, rng
<1> QED
  BY <1>4, <1>5 DEF Reader

\* So the window is inside the interval, and at a cut it tells the side of x.
LEMMA ReaderInside ==
  ASSUME NEW d, NEW m, Marked(m), NEW bytes, NEW v, NEW b, NEW x, NEW top,
         Tile(bytes, v, b, x, top), Reader(d, m, v, b, x, Len(bytes)), Holds(m, x, x + 1)
  PROVE  d.dif < d.rng * Two[Window - 16]
<1>1. Cuts(d, m, x, 0)
  BY ReaderBounds
<1>2. m.lo <= x
  BY DEF Holds
<1> DEFINE lo == m.lo
           un == m.un
           rng == d.rng
<1>3. lo \in Int /\ un \in Int /\ rng \in Int
  BY ReaderParts
<1>4. lo + 0 * un = lo /\ rng - 0 = rng
  <2> HIDE DEF lo, un, rng
  <2> QED
    BY <1>3
<1> QED
  BY <1>1, <1>2, <1>4 DEF Cuts

\* The part of the interval that an operation took holds x: the window is there.
LEMMA ReaderTaken ==
  ASSUME NEW op, NEW m, Marked(m), NEW n, Marked(n), Follows(op, m, n), NEW d,
         NEW bytes, NEW v, NEW b, NEW x, NEW top, Tile(bytes, v, b, x, top),
         Reader(d, m, v, b, x, Len(bytes)), Holds(n, x, x + 1)
  PROVE  /\ d.dif < (d.rng - Skips(op, m.rng, m.cdfs)) * Two[Window - 16]
         /\ (d.rng - (Skips(op, m.rng, m.cdfs) + Owns(op, m.rng, m.cdfs))) * Two[Window - 16] <= d.dif
<1> DEFINE own == Owns(op, m.rng, m.cdfs)
           skip == Skips(op, m.rng, m.cdfs)
           p == Two[Shift(own)]
           lo == m.lo
           un == m.un
           w == n.un
           k == n.lo
           r == n.rng
<1>1. /\ Codes(op, m.cdfs) /\ r = own * p /\ un = w * p /\ k = lo + skip * un
  BY DEF Follows
<1>2. /\ lo \in Int /\ un \in Int /\ w \in Int /\ k \in Int
      /\ m.rng \in Ranges /\ AllFalling(m.cdfs) /\ m.rng \in Int /\ m.rng < 65536
  BY RangeHigh DEF Marked
<1>3. own \in Int /\ 1 <= own /\ skip \in Int /\ 0 <= skip /\ skip + own <= m.rng
  BY <1>1, <1>2, OperationParts
<1>4. p \in Int
  <2>1. own < 65536
    <3> DEFINE g == m.rng
    <3>1. g \in Int /\ g < 65536 /\ skip + own <= g
      BY <1>2, <1>3
    <3> HIDE DEF own, skip, g
    <3> QED
      BY <1>3, <3>1
  <2>2. Shift(own) \in Nat
    <3>1. Shift(own) \in Int /\ 0 <= Shift(own)
      BY <1>3, <2>1, ShiftIs
    <3> QED
      BY <3>1
  <2> QED
    BY <2>2, TwoType
<1>5. k <= x /\ x + 1 <= k + r * w
  BY DEF Holds
<1>6. skip + own \in Int
  <2> HIDE DEF skip, own
  <2> QED
    BY <1>3
<1>7. Cuts(d, m, x, skip) /\ Cuts(d, m, x, skip + own)
  BY <1>3, <1>6, ReaderBounds
<1>8. lo + skip * un <= x
  BY <1>1, <1>5
<1>9. x + 1 <= lo + (skip + own) * un
  <2> HIDE DEF own, skip, p, lo, un, w, k, r
  <2>1. (own * p) * w = own * (w * p)
    BY <1>2, <1>3, <1>4
  <2>2. r * w = own * un
    BY <1>1, <2>1
  <2>3. (skip + own) * un = skip * un + own * un
    BY <1>2, <1>3
  <2> DEFINE su == skip * un
             ou == own * un
  <2>4. su \in Int /\ ou \in Int
    BY <1>2, <1>3
  <2>5. k = lo + su /\ x + 1 <= k + ou /\ (skip + own) * un = su + ou
    BY <1>1, <1>5, <2>2, <2>3
  <2> HIDE DEF su, ou
  <2>6. k + ou = lo + (su + ou)
    BY <1>2, <2>4, <2>5
  <2> QED
    BY <2>5, <2>6
<1> QED
  BY <1>7, <1>8, <1>9 DEF Cuts

-----------------------------------------------------------------------------
(* The decoder's choice.                                                      *)

\* What an operation leaves of the range below its part.
Leaves(op, rng, cdfs) == rng - (Skips(op, rng, cdfs) + Owns(op, rng, cdfs))

\* The window is in the part that the operation took.
Taken(op, d, cdfs) ==
    /\ d.dif < (d.rng - Skips(op, d.rng, cdfs)) * Two[Window - 16]
    /\ Leaves(op, d.rng, cdfs) * Two[Window - 16] <= d.dif

\* The decoder with that part for its range, normalised.
Decoded(op, d, cdfs) ==
    CtxNorm(d, d.dif - Leaves(op, d.rng, cdfs) * Two[Window - 16], Owns(op, d.rng, cdfs))

\* Comparing the top bits with a cut is comparing the window with it.
LEMMA TopBounds ==
  ASSUME NEW d, d.dif \in Int, NEW y \in Int
  PROVE  /\ Top(d) \in Int
         /\ y * Two[Window - 16] <= d.dif => y <= Top(d)
         /\ d.dif < y * Two[Window - 16] => Top(d) < y
<1> DEFINE M == Two[Window - 16]
           x == d.dif
<1>1. M \in Int /\ 0 < M /\ x \in Int
  <2>1. \A i \in Int : 1 <= i => 0 < i
    OBVIOUS
  <2> QED
    BY <2>1, WindowBits
<1> HIDE DEF M, x
<1>2. x \div M \in Int
  BY <1>1, Quotient
<1>3. (y * M <= x => y <= x \div M) /\ (x < y * M => x \div M < y)
  BY <1>1, QuotientBounds
<1> QED
  BY <1>2, <1>3 DEF Top, M, x

\* In the part of a bool, the bool is read and that part becomes the range.
LEMMA BoolRead ==
  ASSUME NEW d, d.rng \in Ranges, d.dif \in Int, NEW cdfs, NEW op,
         op.kind = "bool", op.with \in Probs, op.val \in 0 .. 1, Taken(op, d, cdfs)
  PROVE  /\ BoolValue(d, op.with) = op.val
         /\ AfterBool(d, op.with) = Decoded(op, d, cdfs)
<1> DEFINE v == Cut(d.rng, op.with, 1)
           M == Two[Window - 16]
           rng == d.rng
           dif == d.dif
<1>1. rng \in Int /\ dif \in Int /\ M \in Int
  BY RangeHigh, WindowBits
<1>2. v \in Int
  <2>1. op.with \in Prob
    BY ProbabilitiesAssumption
  <2> QED
    BY <2>1, CutInside
<1>3. Top(d) \in Int /\ (v * M <= dif => v <= Top(d)) /\ (dif < v * M => Top(d) < v)
  BY <1>2, TopBounds
<1>4. /\ Skips(op, rng, cdfs) = IF op.val = 1 THEN rng - v ELSE 0
      /\ Owns(op, rng, cdfs) = IF op.val = 1 THEN v ELSE rng - v
  BY DEF Skips, Owns
<1>5. /\ dif < (rng - Skips(op, rng, cdfs)) * M
      /\ Leaves(op, rng, cdfs) * M <= dif
  BY DEF Taken
<1>6. /\ BoolValue(d, op.with) = IF Top(d) >= v THEN 0 ELSE 1
      /\ AfterBool(d, op.with) = IF BoolValue(d, op.with) = 1 THEN CtxNorm(d, dif, v)
                                 ELSE CtxNorm(d, dif - v * M, rng - v)
      /\ Decoded(op, d, cdfs) = CtxNorm(d, dif - Leaves(op, rng, cdfs) * M, Owns(op, rng, cdfs))
  BY DEF BoolValue, AfterBool, Decoded
<1> HIDE DEF v, M, rng, dif
<1>7. CASE op.val = 1
  <2>1. Skips(op, rng, cdfs) = rng - v /\ Owns(op, rng, cdfs) = v
    BY <1>4, <1>7
  <2>2. Leaves(op, rng, cdfs) = 0 /\ rng - Skips(op, rng, cdfs) = v
    <3>1. rng - ((rng - v) + v) = 0 /\ rng - (rng - v) = v
      BY <1>1, <1>2
    <3> QED
      BY <2>1, <3>1 DEF Leaves
  <2>3. dif < v * M
    BY <1>5, <2>2
  <2>4. ~(Top(d) >= v)
    BY <1>2, <1>3, <2>3
  <2>5. BoolValue(d, op.with) = 1
    BY <1>6, <2>4
  <2>6. dif - 0 * M = dif
    BY <1>1
  <2> QED
    BY <1>6, <1>7, <2>1, <2>2, <2>5, <2>6
<1>8. CASE op.val = 0
  <2>1. Skips(op, rng, cdfs) = 0 /\ Owns(op, rng, cdfs) = rng - v
    BY <1>4, <1>8
  <2>2. Leaves(op, rng, cdfs) = v
    <3>1. rng - (0 + (rng - v)) = v
      BY <1>1, <1>2
    <3> QED
      BY <2>1, <3>1 DEF Leaves
  <2>3. v * M <= dif
    BY <1>5, <2>2
  <2>4. Top(d) >= v
    BY <1>2, <1>3, <2>3
  <2>5. BoolValue(d, op.with) = 0
    BY <1>6, <2>4
  <2> QED
    BY <1>6, <1>8, <2>1, <2>2, <2>5
<1> QED
  BY <1>7, <1>8

\* A symbol's cut is never above the cut of an earlier one.
LEMMA CutsOrdered ==
  ASSUME NEW rng \in Ranges, NEW cdf, Falling(cdf), NEW z \in 0 .. Len(cdf.p), NEW w \in 0 .. z
  PROVE  SymbolCut(rng, cdf, z) <= SymbolCut(rng, cdf, w)
<1> DEFINE N == Len(cdf.p)
           c(i) == SymbolCut(rng, cdf, i)
           T == {i \in 0 .. z : c(z) <= c(z - i)}
<1>1. N \in Nat /\ z \in Int /\ 0 <= z /\ z <= N /\ z \in Nat
  <2>1. N \in 1 .. 15
    BY FallingEntries
  <2> HIDE DEF N
  <2> QED
    BY <2>1 DEF N
<1>2. \A i \in 0 .. N : /\ c(i) \in Int
                        /\ c(i) < Above(rng, cdf, i)
                        /\ i # 0 => Above(rng, cdf, i) = c(i - 1)
  <2> TAKE i \in 0 .. N
  <2>1. i \in Int /\ 0 <= i /\ i <= N
    <3> HIDE DEF N
    <3> QED
      BY <1>1
  <2>2. c(i) \in Int /\ c(i) < Above(rng, cdf, i)
    BY <2>1, SymbolCutsFall
  <2> QED
    BY <2>2 DEF Above
<1> HIDE DEF c, N
<1>3. 0 \in T
  <2>1. z - 0 = z /\ 0 \in 0 .. z /\ z \in 0 .. N
    BY <1>1
  <2>2. c(z) \in Int
    BY <1>2, <2>1
  <2>3. c(z) <= c(z)
    BY <2>2
  <2> QED
    BY <2>1, <2>3
<1>4. ASSUME NEW i \in T, i < z PROVE i + 1 \in T
  <2>1. /\ z - i \in 0 .. N /\ z - i # 0 /\ z - (i + 1) = (z - i) - 1
        /\ z - (i + 1) \in 0 .. N /\ z \in 0 .. N /\ i + 1 \in 0 .. z
    BY <1>1, <1>4
  <2>2. c(z) \in Int /\ c(z - i) \in Int /\ c(z - (i + 1)) \in Int
    BY <1>2, <2>1
  <2>3. c(z - i) < c(z - (i + 1))
    BY <1>2, <2>1
  <2>4. c(z) <= c(z - i)
    OBVIOUS
  <2>5. c(z) <= c(z - (i + 1))
    BY <2>2, <2>3, <2>4
  <2> QED
    BY <2>1, <2>5
<1>5. T \in SUBSET (0 .. z)
  OBVIOUS
<1> HIDE DEF T
<1>6. T = 0 .. z
  BY <1>1, <1>3, <1>4, <1>5, BoundedInduction
<1>7. z - w \in 0 .. z /\ z - (z - w) = w
  BY <1>1
<1>8. z - w \in T
  BY <1>6, <1>7
<1> QED
  BY <1>7, <1>8 DEF T, c

\* In the part of a symbol, the symbol is found and that part becomes the range.
LEMMA SymbolRead ==
  ASSUME NEW d, d.rng \in Ranges, d.dif \in Int, NEW cdfs, NEW op,
         op.kind = "symbol", Falling(cdfs[op.with]),
         op.val \in 0 .. Len(cdfs[op.with].p), Taken(op, d, cdfs)
  PROVE  /\ SymbolValue(d, cdfs[op.with]) = op.val
         /\ AfterSymbol(d, cdfs[op.with]) = Decoded(op, d, cdfs)
<1> DEFINE cdf == cdfs[op.with]
           val == op.val
           M == Two[Window - 16]
           rng == d.rng
           dif == d.dif
           c(i) == SymbolCut(rng, cdf, i)
           u == Above(rng, cdf, val)
           N == Len(cdf.p)
           t == Top(d)
<1>1. rng \in Int /\ dif \in Int /\ M \in Int
  BY RangeHigh, WindowBits
<1>2. N \in Int /\ 1 <= N /\ val \in Int /\ 0 <= val /\ val <= N /\ val \in 0 .. N
  <2>1. N \in 1 .. 15
    BY FallingEntries
  <2>2. val \in 0 .. N
    OBVIOUS
  <2> HIDE DEF N, val
  <2> QED
    BY <2>1, <2>2
<1>3. c(val) \in Int /\ u \in Int
  BY <1>2, SymbolCutsFall
<1>4. \A i \in 0 .. N : c(i) \in Int
  <2> TAKE i \in 0 .. N
  <2>1. i \in Int /\ 0 <= i /\ i <= N
    <3> HIDE DEF N
    <3> QED
      BY <1>2
  <2> QED
    BY <2>1, SymbolCutsFall
<1>5. /\ t \in Int
      /\ (c(val) * M <= dif => c(val) <= t)
      /\ (dif < u * M => t < u)
  BY <1>3, TopBounds
<1>6. Skips(op, rng, cdfs) = rng - u /\ Owns(op, rng, cdfs) = u - c(val)
  BY DEF Skips, Owns
<1>7. /\ dif < (rng - Skips(op, rng, cdfs)) * M
      /\ Leaves(op, rng, cdfs) * M <= dif
  BY DEF Taken
<1>8. rng - Skips(op, rng, cdfs) = u /\ Leaves(op, rng, cdfs) = c(val)
  <2> DEFINE k == c(val)
  <2>1. k \in Int
    BY <1>3
  <2> HIDE DEF rng, u, c, k
  <2>2. rng - (rng - u) = u /\ rng - ((rng - u) + (u - k)) = k
    BY <1>1, <1>3, <2>1
  <2> QED
    BY <1>6, <2>2 DEF Leaves, k
<1>9. c(val) <= t /\ t < u
  BY <1>5, <1>7, <1>8
<1>10. \A w \in 0 .. (val - 1) : t < c(w)
  <2> SUFFICES ASSUME NEW w \in 0 .. (val - 1) PROVE t < c(w)
    OBVIOUS
  <2>1. /\ val # 0 /\ val - 1 \in 0 .. N /\ w \in 0 .. (val - 1) /\ w \in 0 .. N
    <3> HIDE DEF N, val
    <3> QED
      BY <1>2
  <2>2. u = c(val - 1)
    BY <2>1 DEF Above
  <2>3. c(val - 1) <= c(w)
    BY <2>1, CutsOrdered
  <2>4. c(w) \in Int /\ u \in Int
    BY <1>3, <1>4, <2>1
  <2> DEFINE k == c(w)
  <2>5. k \in Int /\ u <= k
    BY <2>2, <2>3, <2>4
  <2> HIDE DEF k, u, t, c
  <2>6. t < k
    BY <1>3, <1>5, <1>9, <2>5
  <2> QED
    BY <2>6 DEF k
<1> DEFINE Chosen(k) == t >= c(k) /\ \A w \in 0 .. (k - 1) : t < c(w)
<1>11. SymbolValue(d, cdf) = CHOOSE k \in 0 .. N : Chosen(k)
  BY DEF SymbolValue
<1> HIDE DEF t, c, N, val, u
<1>12. Chosen(val)
  <2>1. t >= c(val)
    BY <1>3, <1>5, <1>9
  <2> QED
    BY <1>10, <2>1
<1>13. ASSUME NEW k \in 0 .. N, Chosen(k) PROVE k = val
  <2>1. k \in Int
    OBVIOUS
  <2>2. CASE k < val
    <3>1. k \in 0 .. (val - 1)
      BY <1>2, <2>2
    <3>2. t < c(k) /\ t >= c(k) /\ c(k) \in Int
      BY <1>4, <1>10, <1>13, <3>1
    <3> QED
      BY <1>5, <3>2
  <2>3. CASE val < k
    <3>1. val \in 0 .. (k - 1)
      BY <1>2, <2>3
    <3>2. t < c(val)
      BY <1>13, <3>1
    <3> QED
      BY <1>3, <1>5, <1>9, <3>2
  <2> QED
    BY <1>2, <2>1, <2>2, <2>3
<1> HIDE DEF Chosen
<1>14. (CHOOSE k \in 0 .. N : Chosen(k)) = val
  BY <1>2, <1>12, <1>13
<1>15. SymbolValue(d, cdf) = val
  BY <1>11, <1>14
<1>16. AfterSymbol(d, cdf) = CtxNorm(d, dif - c(val) * M, u - c(val))
  BY <1>15 DEF AfterSymbol, Above, c, u, val
<1>17. Decoded(op, d, cdfs) = CtxNorm(d, dif - c(val) * M, u - c(val))
  BY <1>6, <1>8 DEF Decoded
<1> QED
  BY <1>15, <1>16, <1>17 DEF val

-----------------------------------------------------------------------------
(* Refilling the window.                                                      *)

\* The smaller of two numbers.
LEMMA MinOfTwo ==
  ASSUME NEW a \in Int, NEW b \in Int
  PROVE  /\ Min({a, b}) = a \/ Min({a, b}) = b
         /\ Min({a, b}) <= a /\ Min({a, b}) <= b
<1>1. CASE a <= b
  <2>1. a \in {a, b} /\ \A y \in {a, b} : a <= y
    BY <1>1
  <2>2. \A x \in {a, b} : (\A y \in {a, b} : x <= y) => x = a
    BY <1>1
  <2>3. Min({a, b}) = a
    BY <2>1, <2>2, SMT DEF Min
  <2> QED
    BY <1>1, <2>3
<1>2. CASE b < a
  <2>1. b \in {a, b} /\ \A y \in {a, b} : b <= y
    BY <1>2
  <2>2. \A x \in {a, b} : (\A y \in {a, b} : x <= y) => x = b
    BY <1>2
  <2>3. Min({a, b}) = b
    BY <2>1, <2>2, SMT DEF Min
  <2> QED
    BY <1>2, <2>3
<1> QED
  BY <1>1, <1>2

\* One byte more.
LEMMA LoadStep ==
  ASSUME NEW S \in Int, NEW q \in Int, NEW y \in Int, NEW byte \in Int, NEW p \in Int,
         NEW junk \in Int
  PROVE  (S * (256 * q) - (256 * y + byte) - 1) * p + junk
           = ((S * q - y - 1) * (256 * p) + junk) + (255 - byte) * p
<1> DEFINE e == S * q
<1>1. e \in Int /\ S * (256 * q) = 256 * e
  OBVIOUS
<1> HIDE DEF e
<1>2. (256 * e - (256 * y + byte) - 1) = 256 * (e - y - 1) + (255 - byte)
  BY <1>1
<1>3. (256 * (e - y - 1) + (255 - byte)) * p = (e - y - 1) * (256 * p) + (255 - byte) * p
  BY <1>1
<1> DEFINE a == (e - y - 1) * (256 * p)
           b == (255 - byte) * p
<1>4. a \in Int /\ b \in Int
  BY <1>1
<1>5. (S * (256 * q) - (256 * y + byte) - 1) * p = a + b
  BY <1>1, <1>2, <1>3
<1> DEFINE c == (S * (256 * q) - (256 * y + byte) - 1) * p
<1>6. c = a + b
  BY <1>5
<1> HIDE DEF a, b, c
<1>7. c + junk = (a + junk) + b
  BY <1>4, <1>6
<1> QED
  BY <1>7 DEF a, b, c, e

\* A decoder that asks for a refill: t bits are missing.
Asks(d, bytes, v, t, S, junk) ==
    /\ d.pos \in 0 .. Len(bytes)
    /\ t \in 1 .. 15 /\ d.cnt = -t
    /\ S \in Int /\ junk \in Int /\ 0 <= junk /\ junk < Two[Window - 16 + t]
    /\ d.pos < Len(bytes) => junk = 0
    /\ d.dif = (S - v[d.pos] - 1) * Two[Window - 16 + t] + junk

Load(d, bytes, c0, k, f) ==
    [i \in 0 .. k |->
        IF i = 0 THEN d.dif ELSE f[i - 1] + (255 - bytes[d.pos + i]) * Two[c0 - 8 * (i - 1)]]

Word(d, v, E, S, junk, i) == (S * Two[8 * i] - v[d.pos + i] - 1) * Two[E - 8 * i] + junk

\* The window after i bytes: each byte adds its complement in its place.
LEMMA WordSteps ==
  ASSUME NEW bytes, NEW v, Prefixes(bytes, v), NEW d, NEW t, NEW S, NEW junk,
         Asks(d, bytes, v, t, S, junk), NEW k \in Nat, k <= Len(bytes) - d.pos,
         8 * k <= Window - 16 + t, NEW c0, c0 = Window - 24 + t
  PROVE  /\ \A i \in 0 .. k : Word(d, v, Window - 16 + t, S, junk, i) \in Int
         /\ Word(d, v, Window - 16 + t, S, junk, 0) = d.dif
         /\ \A i \in 1 .. k :
              Word(d, v, Window - 16 + t, S, junk, i)
                = Word(d, v, Window - 16 + t, S, junk, i - 1)
                    + (255 - bytes[d.pos + i]) * Two[c0 - 8 * (i - 1)]
<1> DEFINE E == Window - 16 + t
           L == Len(bytes)
           pos == d.pos
           w(i) == Word(d, v, E, S, junk, i)
<1>1. E \in Nat /\ pos \in Nat /\ L \in Nat /\ k <= L - pos /\ 8 * k <= E
      /\ S \in Int /\ junk \in Int /\ t \in Int
      /\ bytes \in Seq(Byte) /\ v \in [0 .. L -> Nat]
      /\ \A i \in 1 .. L : v[i] = 256 * v[i - 1] + bytes[i]
  <2>1. t \in 1 .. 15 /\ pos \in 0 .. L
    BY DEF Asks
  <2>2. L \in Nat
    BY PrefixType
  <2>3. E \in Nat /\ t \in Int
    BY <2>1, WindowBits
  <2>4. pos \in Nat
    BY <2>1
  <2> QED
    BY <2>2, <2>3, <2>4 DEF Asks, Prefixes
<1>2. d.dif = (S - v[pos] - 1) * Two[E] + junk
  BY DEF Asks
<1>3. c0 = E - 8
  BY <1>1, WindowBits
<1>4. \A i \in 1 .. L : bytes[i] \in Int
  BY <1>1, ByteEntries, ZenonT(60)
<1> HIDE DEF E, L, pos
<1>5. ASSUME NEW i \in 0 .. k PROVE w(i) \in Int
  <2> DEFINE q == Two[8 * i]
             y == v[pos + i]
             p == Two[E - 8 * i]
  <2>1. 8 * i \in Nat /\ E - 8 * i \in Nat /\ pos + i \in 0 .. L
    BY <1>1
  <2>2. q \in Int /\ p \in Int /\ y \in Int
    BY <1>1, <2>1, TwoType, SMTT(60)
  <2>3. w(i) = (S * q - y - 1) * p + junk
    BY DEF Word, pos
  <2> HIDE DEF q, y, p, w
  <2>4. (S * q - y - 1) * p + junk \in Int
    BY <1>1, <2>2
  <2> QED
    BY <2>3, <2>4
<1>6. w(0) = d.dif
  <2>1. 8 * 0 = 0 /\ E - 8 * 0 = E /\ pos + 0 = pos
    BY <1>1
  <2>2. Two[8 * 0] = 1 /\ Two[E - 8 * 0] = Two[E] /\ v[pos + 0] = v[pos]
    BY <2>1, TwoStep
  <2>3. w(0) = (S * Two[8 * 0] - v[pos + 0] - 1) * Two[E - 8 * 0] + junk
    BY DEF Word, pos
  <2>4. S * 1 = S
    BY <1>1
  <2> QED
    BY <1>2, <2>2, <2>3, <2>4
<1>7. ASSUME NEW i \in 1 .. k
      PROVE  w(i) = w(i - 1) + (255 - bytes[pos + i]) * Two[c0 - 8 * (i - 1)]
  <2> DEFINE n == E - 8 * i
             p == Two[n]
             q == Two[8 * (i - 1)]
             y == v[pos + i - 1]
             z == v[pos + i]
             byte == bytes[pos + i]
  <2>1. /\ n \in Nat /\ i - 1 \in Nat /\ 8 * (i - 1) \in Nat
        /\ c0 - 8 * (i - 1) = n /\ E - 8 * (i - 1) = n + 8
        /\ pos + i \in 1 .. L /\ pos + (i - 1) = pos + i - 1 /\ pos + i - 1 \in 0 .. L
        /\ (i - 1) + 1 = i
    <3>1. i \in Int /\ 1 <= i /\ i <= k /\ k \in Int
      OBVIOUS
    <3>2. E \in Int /\ pos \in Int /\ 0 <= pos /\ L \in Int /\ k <= L - pos /\ 8 * k <= E
      BY <1>1
    <3>3. n \in Nat /\ i - 1 \in Nat /\ 8 * (i - 1) \in Nat
      BY <3>1, <3>2
    <3>4. c0 - 8 * (i - 1) = n /\ E - 8 * (i - 1) = n + 8
      BY <1>3, <3>1, <3>2
    <3>5. pos + i \in 1 .. L /\ pos + i - 1 \in 0 .. L
      BY <3>1, <3>2
    <3>6. pos + (i - 1) = pos + i - 1 /\ (i - 1) + 1 = i
      BY <3>1, <3>2
    <3> QED
      BY <3>3, <3>4, <3>5, <3>6
  <2> HIDE DEF n
  <2>2. Two[E - 8 * (i - 1)] = 256 * p
    BY <2>1, TwoByte
  <2>3. Two[8 * i] = 256 * q
    <3>1. Two[8 * ((i - 1) + 1)] = 256 * Two[8 * (i - 1)]
      BY <2>1, TwoEight
    <3> QED
      BY <2>1, <3>1
  <2>4. z = 256 * y + byte
    BY <1>1, <2>1
  <2>5. p \in Int /\ q \in Int /\ y \in Int /\ byte \in Int
    <3>1. p \in Int /\ q \in Int
      BY <2>1, TwoType
    <3>2. y \in Int
      <4>1. \A j \in 0 .. L : v[j] \in Int
        BY <1>1
      <4> QED
        BY <2>1, <4>1
    <3> QED
      BY <1>4, <2>1, <3>1, <3>2
  <2>6. w(i) = (S * Two[8 * i] - z - 1) * p + junk
    BY DEF Word, pos, n
  <2>7. w(i - 1) = (S * q - y - 1) * Two[E - 8 * (i - 1)] + junk
    BY <2>1 DEF Word, pos
  <2> HIDE DEF p, q, y, z, byte, w
  <2>8. w(i) = (S * (256 * q) - (256 * y + byte) - 1) * p + junk
    BY <2>3, <2>4, <2>6
  <2>9. w(i - 1) = (S * q - y - 1) * (256 * p) + junk
    BY <2>2, <2>7
  <2>10. w(i) = w(i - 1) + (255 - byte) * p
    BY <1>1, <2>5, <2>8, <2>9, LoadStep
  <2> QED
    BY <2>1, <2>10 DEF byte, p
<1> QED
  BY <1>5, <1>6, <1>7 DEF E, pos

\* So that is what the loop over the bytes computes.
LEMMA LoadedWord ==
  ASSUME NEW bytes, NEW v, Prefixes(bytes, v), NEW d, NEW t, NEW S, NEW junk,
         Asks(d, bytes, v, t, S, junk), NEW k \in Nat, k <= Len(bytes) - d.pos,
         8 * k <= Window - 16 + t, NEW c0, c0 = Window - 24 + t
  PROVE  (CHOOSE f : f = Load(d, bytes, c0, k, f))[k] = Word(d, v, Window - 16 + t, S, junk, k)
<1>s. /\ Word(d, v, Window - 16 + t, S, junk, 0) = d.dif
      /\ \A i \in 1 .. k :
           Word(d, v, Window - 16 + t, S, junk, i)
             = Word(d, v, Window - 16 + t, S, junk, i - 1)
                 + (255 - bytes[d.pos + i]) * Two[c0 - 8 * (i - 1)]
  BY WordSteps, SMTT(60)
<1> DEFINE E == Window - 16 + t
           w(i) == Word(d, v, E, S, junk, i)
           add(i) == (255 - bytes[d.pos + i]) * Two[c0 - 8 * (i - 1)]
           f == [i \in 0 .. k |-> w(i)]
           g == CHOOSE x : x = Load(d, bytes, c0, k, x)
<1>1. w(0) = d.dif /\ \A i \in 1 .. k : w(i) = w(i - 1) + add(i)
  BY <1>s
<1> HIDE DEF w
<1>2. f = Load(d, bytes, c0, k, f)
  <2>1. ASSUME NEW i \in 0 .. k
        PROVE  f[i] = IF i = 0 THEN d.dif ELSE f[i - 1] + add(i)
    <3>1. CASE i = 0
      BY <1>1, <3>1
    <3>2. CASE i # 0
      <4>1. i \in 1 .. k /\ i - 1 \in 0 .. k
        BY <3>2
      <4> HIDE DEF add
      <4>2. f[i] = w(i) /\ f[i - 1] = w(i - 1)
        BY <4>1
      <4> QED
        BY <1>1, <3>2, <4>1, <4>2
    <3> QED
      BY <3>1, <3>2
  <2>2. f = [i \in 0 .. k |-> f[i]]
    OBVIOUS
  <2> HIDE DEF f
  <2> QED
    BY <2>1, <2>2, ZenonT(60) DEF Load
<1> HIDE DEF f
<1>3. g = Load(d, bytes, c0, k, g)
  BY <1>2
<1> HIDE DEF g
<1>4. \A i \in 0 .. k : g[i] = IF i = 0 THEN d.dif ELSE g[i - 1] + add(i)
  BY <1>3 DEF Load
<1> HIDE DEF add
<1> DEFINE T == {i \in 0 .. k : g[i] = w(i)}
<1>5. 0 \in T
  BY <1>1, <1>4
<1>6. ASSUME NEW i \in T, i < k PROVE i + 1 \in T
  <2>1. i + 1 \in 1 .. k /\ i + 1 \in 0 .. k /\ i + 1 # 0 /\ (i + 1) - 1 = i
    BY <1>6
  <2>2. g[i] = w(i)
    OBVIOUS
  <2>3. g[i + 1] = g[(i + 1) - 1] + add(i + 1)
    BY <1>4, <2>1
  <2>4. w(i + 1) = w((i + 1) - 1) + add(i + 1)
    BY <1>1, <2>1
  <2>5. g[i + 1] = w(i + 1)
    BY <2>1, <2>2, <2>3, <2>4
  <2> QED
    BY <2>1, <2>5
<1>7. T \in SUBSET (0 .. k)
  OBVIOUS
<1> HIDE DEF T
<1>8. T = 0 .. k
  BY <1>5, <1>6, <1>7, BoundedInduction
<1>9. k \in T
  BY <1>8
<1> QED
  BY <1>9 DEF T, w, g

\* A refilled window: full, or filled with ones beyond the last byte.
Refilled(r, d, v, L, k, t, S, left) ==
    /\ k \in Nat /\ d.pos + k \in 0 .. L
    /\ (Window - 16 + t) - 8 * k \in Nat
    /\ r.pos = d.pos + k /\ r.rng = d.rng /\ r.cnt = 8 * k - t
    /\ r.dif = (S * Two[8 * k] - v[d.pos + k] - 1) * Two[(Window - 16 + t) - 8 * k] + left
    /\ \/ (Window - 16 + t) - 8 * k <= 7 /\ left = 0
       \/ /\ d.pos + k = L /\ 8 <= (Window - 16 + t) - 8 * k
          /\ left = Two[(Window - 16 + t) - 8 * k] - 1

\* Filling the low bits with ones.
LEMMA OnesBelow ==
  ASSUME NEW q \in Int, NEW P \in Int, 0 < P, NEW junk \in Int, 0 <= junk, junk < P
  PROVE  ((q * P + junk) - ((q * P + junk) % P)) + (P - 1) = q * P + (P - 1)
<1> DEFINE x == q * P + junk
<1>1. x \in Int /\ x = P * q + junk
  OBVIOUS
<1> HIDE DEF x
<1>2. x % P = junk
  BY <1>1, QuotientIs
<1> DEFINE y == q * P
<1>3. y \in Int /\ x = y + junk
  BY DEF x
<1> HIDE DEF y
<1>4. (x - junk) + (P - 1) = y + (P - 1)
  BY <1>3
<1> QED
  BY <1>2, <1>4 DEF x, y

\* Refill takes as many bytes as have room, or all there are, and fills with ones.
LEMMA RefillIs ==
  ASSUME NEW bytes, NEW v, Prefixes(bytes, v), NEW d, NEW t, NEW S, NEW junk,
         Asks(d, bytes, v, t, S, junk)
  PROVE  \E k, left : Refilled(Refill(d, bytes), d, v, Len(bytes), k, t, S, left)
<1> DEFINE L == Len(bytes)
           pos == d.pos
           c0 == Window - d.cnt - 24
           room == IF c0 < 0 THEN 0 ELSE (c0 \div 8) + 1
           k == Min({room, L - pos})
           c == c0 - 8 * k
           E == Window - 16 + t
           word == Word(d, v, E, S, junk, k)
           r == Refill(d, bytes)
<1>1. /\ t \in Int /\ 1 <= t /\ t <= 15 /\ d.cnt = -t
      /\ pos \in Int /\ 0 <= pos /\ pos <= L /\ L \in Int /\ L \in Nat
      /\ S \in Int /\ junk \in Int /\ 0 <= junk /\ junk < Two[E]
      /\ pos < L => junk = 0
  <2>1. t \in 1 .. 15 /\ pos \in 0 .. L
    BY DEF Asks
  <2>2. L \in Nat
    BY PrefixType
  <2> HIDE DEF L, pos
  <2>3. t \in Int /\ 1 <= t /\ t <= 15 /\ pos \in Int /\ 0 <= pos /\ pos <= L /\ L \in Int
    BY <2>1, <2>2
  <2> QED
    BY <2>2, <2>3 DEF Asks, L, pos
<1>2. /\ c0 = Window - 24 + t /\ c0 \in Int /\ 0 <= c0
      /\ E = c0 + 8 /\ E \in Nat
  BY <1>1, WindowBits
<1>3. /\ room \in Int /\ 1 <= room /\ 8 * room <= E /\ E - 8 * room <= 7
  <2>1. room = (c0 \div 8) + 1
    BY <1>2
  <2> DEFINE q == c0 \div 8
             m == c0 % 8
  <2>2. q \in Int /\ m \in Int /\ 0 <= m /\ m < 8 /\ c0 = 8 * q + m
    BY <1>2, Quotient
  <2> HIDE DEF q, m, room, c0, E
  <2>3. 0 <= q
    BY <1>2, <2>2
  <2> QED
    BY <1>2, <2>1, <2>2, <2>3 DEF q
<1> HIDE DEF room, c0, E
<1>4. /\ k \in Nat /\ k <= L - pos /\ k <= room /\ 8 * k <= E
      /\ k = room \/ (k < room /\ k = L - pos)
  <2> HIDE DEF k
  <2>1. L - pos \in Int
    BY <1>1
  <2>2. (k = room \/ k = L - pos) /\ k <= room /\ k <= L - pos
    BY <1>3, <2>1, MinOfTwo DEF k
  <2> DEFINE rest == L - pos
  <2>3. rest \in Int /\ 0 <= rest
    BY <1>1
  <2> HIDE DEF rest
  <2>4. /\ k \in Nat /\ k <= rest /\ k <= room /\ 8 * k <= E
        /\ k = room \/ (k < room /\ k = rest)
    <3>1. (k = room \/ k = rest) /\ k <= room /\ k <= rest
      BY <2>2 DEF rest
    <3>2. k \in Int
      BY <1>3, <2>3, <3>1
    <3>3. k \in Nat
      BY <1>3, <2>3, <3>1, <3>2
    <3>4. E \in Int
      BY <1>2
    <3>5. 8 * k <= E
      BY <1>3, <3>1, <3>2, <3>4
    <3>6. k = room \/ k < room
      BY <1>3, <3>1, <3>2
    <3> QED
      BY <3>1, <3>3, <3>5, <3>6
  <2> QED
    BY <2>4 DEF rest
<1>5. (CHOOSE f : f = Load(d, bytes, c0, k, f))[k] = word
  <2> HIDE DEF k
  <2> QED
    BY <1>1, <1>2, <1>4, LoadedWord, SMTT(60) DEF E, L, pos
<1>6. r = [pos |-> pos + k,
           dif |-> IF k < room
                   THEN ((CHOOSE f : f = Load(d, bytes, c0, k, f))[k]
                         - ((CHOOSE f : f = Load(d, bytes, c0, k, f))[k] % Two[c + 8])) + (Two[c + 8] - 1)
                   ELSE (CHOOSE f : f = Load(d, bytes, c0, k, f))[k],
           rng |-> d.rng, cnt |-> Window - c - 24]
  BY DEF Refill, Load, room, c0
<1> HIDE DEF k, r
<1>7. /\ r.pos = pos + k /\ r.rng = d.rng /\ r.cnt = 8 * k - t
      /\ r.dif = IF k < room THEN (word - (word % Two[c + 8])) + (Two[c + 8] - 1) ELSE word
  <2>1. Window - c - 24 = 8 * k - t
    BY <1>1, <1>2, <1>4, WindowBits
  <2> HIDE DEF c, word
  <2> QED
    BY <1>5, <1>6, <2>1
<1>8. c + 8 = E - 8 * k /\ E - 8 * k \in Nat /\ pos + k \in 0 .. L
  <2> HIDE DEF L, pos
  <2>1. k \in Int /\ 0 <= k /\ k <= L - pos /\ 8 * k <= E /\ E \in Int
    BY <1>2, <1>4
  <2>2. c + 8 = E - 8 * k
    BY <1>2, <2>1
  <2>3. E - 8 * k \in Nat
    BY <2>1
  <2>4. pos + k \in 0 .. L
    BY <1>1, <2>1
  <2> QED
    BY <2>2, <2>3, <2>4
<1> DEFINE q == S * Two[8 * k] - v[pos + k] - 1
           P == Two[E - 8 * k]
<1>9. q \in Int /\ P \in Int /\ 0 < P
  <2>1. 8 * k \in Nat
    BY <1>4
  <2>2. Two[8 * k] \in Int
    BY <2>1, TwoType
  <2>3. v[pos + k] \in Int
    <3>1. v \in [0 .. L -> Nat]
      BY DEF Prefixes
    <3>2. v[pos + k] \in Nat
      BY <1>8, <3>1
    <3> QED
      BY <3>2
  <2> DEFINE z == v[pos + k]
             y == Two[8 * k]
  <2>4. z \in Int /\ y \in Int /\ q = S * y - z - 1
    BY <2>2, <2>3
  <2> HIDE DEF z, y, q
  <2>5. S * y - z - 1 \in Int
    BY <1>1, <2>4
  <2> QED
    BY <1>8, <2>4, <2>5, TwoType
<1>10. word = q * P + junk
  BY DEF Word, pos
<1> HIDE DEF q, word, L, pos
<1>11. CASE k = room
  <2>1. pos < L
    BY <1>1, <1>3, <1>4, <1>11
  <2>2. junk = 0 /\ ~(k < room)
    BY <1>1, <1>3, <1>11, <2>1
  <2>3. r.dif = q * P + 0
    BY <1>7, <1>10, <2>2
  <2>4. E - 8 * k <= 7
    BY <1>3, <1>11
  <2>5. Refilled(r, d, v, L, k, t, S, 0)
    BY <1>4, <1>7, <1>8, <2>3, <2>4, Zenon DEF Refilled, E, q, P, pos
  <2> QED
    BY <2>5 DEF r, L
<1>12. CASE k < room /\ k = L - pos
  <2>1. pos + k = L /\ 8 <= E - 8 * k
    BY <1>1, <1>2, <1>3, <1>4, <1>12
  <2>2. junk < P
    <3>1. CASE k = 0
      <4>1. E - 8 * k = E
        BY <1>2, <3>1
      <4> QED
        BY <1>1, <4>1
    <3>2. CASE k # 0
      <4>1. pos < L
        BY <1>1, <1>4, <1>12, <3>2
      <4> QED
        BY <1>1, <1>9, <4>1
    <3> QED
      BY <3>1, <3>2
  <2>3. r.dif = q * P + (P - 1)
    <3>1. r.dif = (word - (word % P)) + (P - 1)
      BY <1>7, <1>8, <1>12
    <3> HIDE DEF P
    <3>2. ((q * P + junk) - ((q * P + junk) % P)) + (P - 1) = q * P + (P - 1)
      BY <1>1, <1>9, <2>2, OnesBelow
    <3> QED
      BY <1>10, <3>1, <3>2
  <2>4. Refilled(r, d, v, L, k, t, S, P - 1)
    BY <1>4, <1>7, <1>8, <2>1, <2>3, Zenon DEF Refilled, E, q, P, pos
  <2> QED
    BY <2>4 DEF r, L
<1> QED
  BY <1>4, <1>11, <1>12

\* k bytes on, the unit is 8k bits smaller.
LEMMA UnitsSpan ==
  ASSUME NEW L \in Nat, NEW b, NEW last, Units(b, L, last), NEW pos \in 0 .. L, NEW k \in Nat,
         pos + k \in 0 .. L
  PROVE  b[pos] = Two[8 * k] * b[pos + k] /\ b[pos + k] \in Int /\ b[pos] \in Int
<1> DEFINE T == {i \in 0 .. k : b[pos] = Two[8 * i] * b[pos + i]}
<1>1. \A i \in 0 .. L : b[i] \in Int
  BY DEF Units
<1>2. \A i \in 1 .. L : b[i - 1] = 256 * b[i]
  BY DEF Units
<1>3. pos \in Int /\ 0 <= pos /\ k \in Int /\ 0 <= k /\ L \in Int /\ pos + k <= L
  OBVIOUS
<1>4. 0 \in T
  <2>1. 8 * 0 = 0 /\ pos + 0 = pos /\ 0 \in 0 .. k
    BY <1>3
  <2>2. Two[8 * 0] = 1 /\ b[pos + 0] = b[pos]
    BY <2>1, TwoStep
  <2>3. b[pos] = 1 * b[pos]
    <3>1. b[pos] \in Int
      BY <1>1
    <3> QED
      BY <3>1
  <2> QED
    BY <2>1, <2>2, <2>3
<1>5. ASSUME NEW i \in T, i < k PROVE i + 1 \in T
  <2>1. /\ i \in Nat /\ i + 1 \in 0 .. k /\ pos + i \in 0 .. L
        /\ pos + (i + 1) \in 1 .. L /\ (pos + (i + 1)) - 1 = pos + i
        /\ 8 * i \in Nat
    BY <1>3, <1>5
  <2> DEFINE p == Two[8 * i]
             e == b[pos + (i + 1)]
  <2>2. b[pos + i] = 256 * e
    BY <1>2, <2>1
  <2>3. Two[8 * (i + 1)] = 256 * p
    BY <2>1, TwoEight
  <2>4. p \in Int /\ e \in Int
    <3>1. pos + (i + 1) \in 0 .. L
      BY <2>1
    <3> QED
      BY <1>1, <2>1, <3>1, TwoType
  <2>5. b[pos] = p * (256 * e)
    BY <2>2
  <2> HIDE DEF p, e
  <2>6. p * (256 * e) = (256 * p) * e
    BY <2>4
  <2>7. b[pos] = Two[8 * (i + 1)] * e
    BY <2>3, <2>5, <2>6
  <2> QED
    BY <2>1, <2>7 DEF e
<1>6. T \in SUBSET (0 .. k)
  OBVIOUS
<1> HIDE DEF T
<1>7. T = 0 .. k
  BY <1>4, <1>5, <1>6, BoundedInduction
<1>8. k \in T
  BY <1>3, <1>7
<1> QED
  BY <1>1, <1>8 DEF T

\* The numbers of a window that is ahead again.
LEMMA AheadNumbers ==
  ASSUME NEW un \in Int, NEW p \in Int, NEW Q \in Int, NEW N \in Int, NEW T \in Int, 0 < T,
         Q = N * T, un * T = Q * p,
         NEW a \in Int, NEW y \in Int, NEW v \in Int, NEW rng, rng = y * T
  PROVE  /\ un = N * p
         /\ a * (Q * p) = (a * Q) * p
         /\ (a + y) * Q - v - 1 = a * Q + rng * N - v - 1
<1>1. un = N * p
  <2>1. (N * T) * p = (N * p) * T
    OBVIOUS
  <2>2. un * T = (N * p) * T
    BY <2>1
  <2>3. N * p \in Int
    OBVIOUS
  <2> DEFINE np == N * p
  <2> HIDE DEF np
  <2> QED
    BY <2>2, <2>3, ProductOrder DEF np
<1>2. a * (Q * p) = (a * Q) * p
  OBVIOUS
<1>3. (a + y) * Q = a * Q + y * Q
  OBVIOUS
<1>4. rng * N = y * Q
  <2>1. (y * T) * N = y * (N * T)
    OBVIOUS
  <2> QED
    BY <2>1
<1> DEFINE aQ == a * Q
           yQ == y * Q
<1>5. aQ \in Int /\ yQ \in Int /\ (a + y) * Q = aQ + yQ /\ rng * N = yQ
  BY <1>3, <1>4
<1> HIDE DEF aQ, yQ
<1>6. (a + y) * Q - v - 1 = aQ + rng * N - v - 1
  BY <1>5
<1> QED
  BY <1>1, <1>2, <1>6 DEF aQ

\* The numbers of a window that has just passed the last byte.
LEMMA PastNumbers ==
  ASSUME NEW un \in Int, NEW P \in Int, NEW Q \in Int, NEW M \in Int,
         NEW a \in Int, NEW y \in Int, NEW v \in Int, NEW p, p = un * P,
         NEW dif, dif = ((a + y) * Q - v - 1) * (M * P) + (M * P - 1)
  PROVE  dif * un = (a * (Q * p) + (y * (P * Q)) * un - v * p) * M - un
<1> DEFINE e == (a + y) * Q - v
           mp == M * P
<1>1. e \in Int /\ mp \in Int /\ (a + y) * Q - v - 1 = e - 1
  <2> DEFINE s == (a + y) * Q
  <2>1. s \in Int
    OBVIOUS
  <2> HIDE DEF s
  <2>2. s - v \in Int /\ s - v - 1 = (s - v) - 1
    BY <2>1
  <2> QED
    BY <2>2 DEF s
<1> HIDE DEF e, mp
<1>2. dif = e * mp - 1
  <2>1. (e - 1) * mp + (mp - 1) = e * mp - 1
    BY <1>1
  <2> QED
    BY <1>1, <2>1 DEF mp
<1>3. dif * un = (e * mp) * un - un
  <2> DEFINE z == e * mp
  <2>1. z \in Int /\ dif = z - 1
    BY <1>1, <1>2
  <2> HIDE DEF z
  <2>2. (z - 1) * un = z * un - un
    BY <2>1
  <2> QED
    BY <2>1, <2>2 DEF z
<1>4. (e * mp) * un = (e * p) * M
  BY <1>1 DEF mp
<1>5. a * (Q * p) + (y * (P * Q)) * un - v * p = e * p
  <2>1. (y * (P * Q)) * un = (y * Q) * p
    OBVIOUS
  <2>2. a * (Q * p) = (a * Q) * p
    OBVIOUS
  <2>3. e = a * Q + y * Q - v
    BY DEF e
  <2> DEFINE f == a * Q
             g == y * Q
             ug == un * P
  <2>4. f \in Int /\ g \in Int /\ p \in Int /\ e = f + g - v
    BY <2>3
  <2> HIDE DEF f, g
  <2>5. (f + g - v) * p = f * p + g * p - v * p
    BY <2>4
  <2> QED
    BY <2>1, <2>2, <2>4, <2>5 DEF f, g
<1> QED
  BY <1>3, <1>4, <1>5

\* A decoder that asks for a refill, in the interval of a mark.
Starved(d, m, bytes, v, b, t, S, junk, a, y) ==
    /\ Asks(d, bytes, v, t, S, junk)
    /\ a \in Int /\ y \in Int /\ S = a + y
    /\ d.rng = m.rng /\ d.rng = y * Two[t]
    /\ m.lo = a * b[d.pos] /\ m.un * Two[t] = b[d.pos]

\* A refilled decoder reads on: ahead of the last byte or past it.
LEMMA RefillReads ==
  ASSUME NEW bytes, NEW v, NEW b, NEW x, NEW top, Tile(bytes, v, b, x, top),
         NEW m, Marked(m), NEW d, NEW t, NEW S, NEW junk, NEW a, NEW y,
         Starved(d, m, bytes, v, b, t, S, junk, a, y)
  PROVE  Reader(Refill(d, bytes), m, v, b, x, Len(bytes))
<1> DEFINE r == Refill(d, bytes)
           L == Len(bytes)
           un == m.un
           lo == m.lo
           rng == d.rng
<1>1. Prefixes(bytes, v) /\ L \in Nat
  BY PrefixType DEF Tile
<1>2. PICK k, left : Refilled(r, d, v, L, k, t, S, left)
  BY <1>1, RefillIs DEF Starved
<1> HIDE DEF r
<1>3. PICK j \in 7 .. 14 : Spans(b, L, Two[j], top) /\ x = v[L] * Two[j]
  BY DEF Tile
<1>4. Units(b, L, Two[j])
  BY <1>3 DEF Spans
<1> DEFINE e == (Window - 16 + t) - 8 * k
           pos == d.pos + k
           p == b[pos]
           Q == Two[8 * k]
           K == Two[e]
           T == Two[t]
           z == v[pos]
<1>5. /\ k \in Nat /\ pos \in 0 .. L /\ e \in Nat
      /\ r.pos = pos /\ r.rng = rng /\ r.cnt = 8 * k - t
      /\ r.dif = (S * Q - z - 1) * K + left
      /\ \/ e <= 7 /\ left = 0
         \/ pos = L /\ 8 <= e /\ left = K - 1
  BY <1>2 DEF Refilled
<1>6. /\ d.pos \in 0 .. L /\ t \in 1 .. 15 /\ S = a + y /\ a \in Int /\ y \in Int
      /\ rng = m.rng /\ rng = y * T /\ lo = a * b[d.pos] /\ un * T = b[d.pos]
  BY DEF Starved, Asks
<1>7. un \in Int /\ 1 <= un /\ lo \in Int
  BY DEF Marked
<1>8. b[d.pos] = Q * p /\ p \in Int
  <2> HIDE DEF L
  <2> QED
    BY <1>1, <1>4, <1>5, <1>6, UnitsSpan
<1>9. /\ Q \in Int /\ 1 <= Q /\ 0 < Q /\ K \in Int /\ 1 <= K /\ 0 < K
      /\ T \in Int /\ 0 < T /\ z \in Int
  <2>1. t \in Nat /\ 8 * k \in Nat
    BY <1>5, <1>6
  <2>2. z \in Int
    <3>1. v \in [0 .. L -> Nat]
      BY <1>1 DEF Prefixes
    <3>2. z \in Nat
      BY <1>5, <3>1
    <3> QED
      BY <3>2
  <2> QED
    BY <1>5, <2>1, <2>2, TwoType
<1>10. lo = a * (Q * p) /\ un * T = Q * p
  BY <1>6, <1>8
<1> HIDE DEF un, lo, rng, Q, K, T, z, p, pos, L
<1>11. r.dif \in Int
  <2>1. left \in Int
    BY <1>5, <1>9
  <2>2. S \in Int
    BY <1>6
  <2>3. (S * Q - z - 1) * K + left \in Int
    BY <1>9, <2>1, <2>2
  <2> QED
    BY <1>5, <2>3
<1>12. t \in Int /\ 1 <= t /\ t <= 15 /\ k \in Int /\ 0 <= k
  BY <1>5, <1>6
<1>13. ASSUME 8 * k >= t PROVE Reader(r, m, v, b, x, L)
  <2> DEFINE n == 8 * k - t
             N == Two[n]
  <2>1. /\ n \in Nat /\ 8 * k = n + t /\ t \in Nat
        /\ n \in 0 .. Window - 16 /\ (Window - 16) - n = e
    BY <1>5, <1>12, <1>13, WindowBits
  <2> HIDE DEF n, e
  <2>2. Q = N * T /\ N \in Int
    BY <2>1, TwoSum, TwoType DEF Q, T
  <2> HIDE DEF N
  <2>3. /\ un = N * p
        /\ a * (Q * p) = (a * Q) * p
        /\ (a + y) * Q - z - 1 = a * Q + rng * N - z - 1
    BY <1>6, <1>7, <1>8, <1>9, <1>10, <2>2, AheadNumbers
  <2>4. 0 <= left /\ left < K /\ left \in Int
    BY <1>5, <1>9
  <2>5. pos < L => left = 0
    <3>1. L \in Int /\ (pos = L => ~(pos < L))
      BY <1>1
    <3> QED
      BY <1>5, <3>1
  <2>6. a * Q \in Int
    BY <1>6, <1>9
  <2>7. r.dif = ((a * Q) + rng * N - z - 1) * K + left
    BY <1>5, <1>6, <2>3
  <2>8. m.lo = (a * Q) * p /\ m.un = N * p
    BY <1>10, <2>3 DEF lo, un
  <2>9. Ahead(r, m, v, b, L)
    <3>1. r.pos \in 0 .. L /\ r.cnt \in 0 .. Window - 16 /\ r.cnt = n
      BY <1>5, <2>1 DEF n
    <3>2. m.un = Two[r.cnt] * b[r.pos] /\ m.lo = (a * Q) * b[r.pos]
      BY <1>5, <2>8, <3>1 DEF N, p
    <3>3. Two[Window - 16 - r.cnt] = K
      BY <2>1, <3>1 DEF K
    <3>4. r.dif = ((a * Q) + r.rng * Two[r.cnt] - v[r.pos] - 1) * Two[Window - 16 - r.cnt] + left
      BY <1>5, <2>7, <3>1, <3>3 DEF N, z
    <3>5. r.pos < L => left = 0
      BY <1>5, <2>5
    <3>6. left < Two[Window - 16 - r.cnt]
      BY <2>4, <3>3
    <3> DEFINE aQ == a * Q
    <3>7. aQ \in Int /\ m.lo = aQ * b[r.pos]
          /\ r.dif = (aQ + r.rng * Two[r.cnt] - v[r.pos] - 1) * Two[Window - 16 - r.cnt] + left
      BY <2>6, <3>2, <3>4
    <3> HIDE DEF aQ
    <3> QED
      BY <2>4, <3>1, <3>2, <3>5, <3>6, <3>7 DEF Ahead
  <2> QED
    BY <1>5, <1>6, <1>11, <2>9 DEF Reader, rng
<1>14. ASSUME 8 * k < t PROVE Reader(r, m, v, b, x, L)
  <2> DEFINE u == t - 8 * k
             P == Two[u]
             M == Two[Window - 16]
  <2>1. /\ u \in Nat /\ u - 1 \in Nat /\ u = (u - 1) + 1 /\ t = u + 8 * k /\ 8 * k \in Nat
        /\ e = (Window - 16) + u /\ 8 <= e
    BY <1>5, <1>12, <1>14, WindowBits
  <2>2. pos = L /\ left = K - 1
    <3>1. e \in Int /\ ~(e <= 7)
      BY <2>1, <1>5
    <3> QED
      BY <1>5, <3>1
  <2>3. 8 * k - t \in Int /\ 8 * k - t < 0
    BY <1>12, <1>14
  <2> HIDE DEF u, e
  <2>4. T = P * Q
    BY <2>1, TwoSum DEF T, Q
  <2>5. K = M * P
    BY <2>1, WindowBits, TwoSum DEF K
  <2>6. P \in Int /\ M \in Int /\ 2 <= P /\ 1 <= M
    <3>1. Two[u] = 2 * Two[u - 1] /\ Two[u - 1] \in Int /\ 1 <= Two[u - 1]
      BY <2>1, TwoStep, TwoType
    <3>2. 2 <= P /\ P \in Int
      BY <3>1
    <3> QED
      BY <3>2, WindowBits
  <2>7. p = Two[j]
    BY <1>4, <2>2 DEF Units, p
  <2>8. un <= M
    <3>1. j \in Nat /\ 14 \in Nat /\ j <= 14 /\ 13 \in Nat /\ 13 <= Window - 16 /\ Window - 16 \in Nat
      BY WindowBits
    <3>2. Two[j] <= Two[14] /\ Two[13] <= M
      BY <3>1, TwoMonotone
    <3>3. Two[14] = 2 * Two[13] /\ Two[13] \in Int
      BY PowersOfTwo
    <3>4. un * P = p
      <4>1. (un * P) * Q = p * Q
        <5>1. un * (P * Q) = (un * P) * Q /\ Q * p = p * Q
          BY <1>7, <1>8, <1>9, <2>6
        <5> QED
          BY <1>10, <2>4, <5>1
      <4>2. un * P \in Int
        BY <1>7, <2>6
      <4> QED
        BY <1>8, <1>9, <4>1, <4>2, ProductOrder
    <3>5. 2 * un <= un * P
      <4>1. 2 * un <= P * un /\ P * un = un * P
        <5>1. 2 \in Int /\ 0 < un
          BY <1>7
        <5>2. 2 * un <= P * un
          BY <1>7, <2>6, <5>1, ProductOrder
        <5> QED
          BY <1>7, <2>6, <5>2
      <4> QED
        BY <4>1
    <3> HIDE DEF M, P
    <3>6. 2 * un <= p /\ p <= 2 * Two[13]
      BY <2>7, <3>2, <3>3, <3>4, <3>5
    <3> QED
      BY <1>7, <1>8, <2>6, <3>2, <3>3, <3>6
  <2>9. un * P = p
    <3>1. un * (P * Q) = (un * P) * Q /\ Q * p = p * Q
      BY <1>7, <1>8, <1>9, <2>6
    <3>2. (un * P) * Q = p * Q
      BY <1>10, <2>4, <3>1
    <3>3. un * P \in Int
      BY <1>7, <2>6
    <3> QED
      BY <1>8, <1>9, <3>2, <3>3, ProductOrder
  <2>10. r.dif = ((a + y) * Q - z - 1) * (M * P) + (M * P - 1)
    BY <1>5, <1>6, <2>2, <2>5
  <2>11. r.dif * un = (a * (Q * p) + (y * (P * Q)) * un - z * p) * M - un
    <3> HIDE DEF M, P
    <3> QED
      BY <1>6, <1>7, <1>9, <2>6, <2>9, <2>10, PastNumbers
  <2>12. x = z * p
    BY <1>3, <2>2, <2>7 DEF z
  <2>13. r.dif * un = (lo + rng * un - x) * M - un
    BY <1>6, <1>10, <2>4, <2>11, <2>12
  <2>14. Past(r, m, x, L)
    <3>1. 0 < un
      BY <1>7
    <3> QED
      BY <1>5, <1>7, <2>2, <2>3, <2>8, <2>13, <3>1 DEF Past, un, lo, rng
  <2> QED
    BY <1>5, <1>6, <1>11, <2>14 DEF Reader, rng
<1>15. Reader(r, m, v, b, x, L)
  BY <1>12, <1>13, <1>14
<1> QED
  BY <1>15 DEF r, L

-----------------------------------------------------------------------------
(* Normalising the decoder.                                                   *)

\* The numbers of a window that is ahead, after the cut and the shift,
LEMMA StepNumbers ==
  ASSUME NEW T \in Int, NEW K \in Int, NEW p \in Int, NEW a \in Int, NEW junk \in Int,
         NEW rng \in Int, NEW skip \in Int, NEW own \in Int, NEW y \in Int, NEW q \in Int
  PROVE  /\ (((a + rng * T - y - 1) * K + junk) - (rng - (skip + own)) * (T * K)) * q
              = (((a + skip * T) + own * T) - y - 1) * (K * q) + junk * q
         /\ a * p + skip * (T * p) = (a + skip * T) * p
<1>1. a * p + skip * (T * p) = (a + skip * T) * p
  OBVIOUS
<1> DEFINE rT == rng * T
           sT == skip * T
           oT == own * T
           e == a + rT - y - 1
           f == (rng - (skip + own)) * T
           g == ((a + sT) + oT) - y - 1
<1>2. f = rT - (sT + oT)
  OBVIOUS
<1>3. rT \in Int /\ sT \in Int /\ oT \in Int
  OBVIOUS
<1>4. (rng - (skip + own)) * (T * K) = f * K
  OBVIOUS
<1> HIDE DEF rT, sT, oT, f
<1>5. e \in Int /\ f \in Int /\ g \in Int /\ e - f = g
  BY <1>2, <1>3
<1> HIDE DEF e, g
<1>6. ((e * K + junk) - f * K) * q = g * (K * q) + junk * q
  <2>1. (e * K + junk) - f * K = (e - f) * K + junk
    <3> DEFINE eK == e * K
               fK == f * K
    <3>1. eK \in Int /\ fK \in Int /\ (e - f) * K = eK - fK
      BY <1>5
    <3> HIDE DEF eK, fK
    <3>2. (eK + junk) - fK = (eK - fK) + junk
      BY <3>1
    <3> QED
      BY <3>1, <3>2 DEF eK, fK
  <2>2. (g * K + junk) * q = g * (K * q) + junk * q
    BY <1>5
  <2> QED
    BY <1>5, <2>1, <2>2
<1> QED
  BY <1>1, <1>4, <1>6 DEF e, g, rT, sT, oT

\* and of one that is past the last byte.
LEMMA PastStep ==
  ASSUME NEW un \in Int, NEW q \in Int, NEW w \in Int, un = w * q, NEW M \in Int, NEW lo \in Int,
         NEW rng \in Int, NEW skip \in Int, NEW own \in Int, NEW x \in Int, NEW g \in Int,
         NEW dif \in Int, dif * un = (lo + rng * un - x) * M - g
  PROVE  ((dif - (rng - (skip + own)) * M) * q) * w
           = ((lo + skip * un) + (own * q) * w - x) * M - g
<1> DEFINE r == rng - (skip + own)
           z == lo + rng * un - x
           e == (lo + skip * un) + own * un - x
           du == dif * un
<1>1. r \in Int /\ z \in Int /\ e \in Int /\ du \in Int
  OBVIOUS
<1>2. (own * q) * w = own * un
  OBVIOUS
<1>3. ((dif - r * M) * q) * w = du - (r * un) * M
  <2>1. ((dif - r * M) * q) * w = (dif - r * M) * un
    <3> DEFINE k == dif - r * M
    <3>1. k \in Int
      BY <1>1
    <3> HIDE DEF k
    <3>2. (k * q) * w = k * (w * q)
      BY <3>1
    <3> QED
      BY <3>2 DEF k
  <2> HIDE DEF r
  <2>2. (dif - r * M) * un = dif * un - (r * un) * M
    BY <1>1
  <2> QED
    BY <2>1, <2>2
<1>4. z - r * un = e
  <2>1. r * un = rng * un - (skip * un + own * un)
    OBVIOUS
  <2> DEFINE a == rng * un
             b == skip * un
             c == own * un
  <2>2. a \in Int /\ b \in Int /\ c \in Int
    OBVIOUS
  <2> HIDE DEF a, b, c
  <2>3. (lo + a - x) - (a - (b + c)) = (lo + b) + c - x
    BY <2>2
  <2> HIDE DEF r
  <2> QED
    BY <2>1, <2>3 DEF a, b, c
<1>5. du = z * M - g
  OBVIOUS
<1> HIDE DEF r, z, e, du
<1>6. z * M - (r * un) * M = e * M
  <2>1. (z - r * un) * M = z * M - (r * un) * M
    BY <1>1
  <2> QED
    BY <1>4, <2>1
<1> DEFINE zM == z * M
           rM == (r * un) * M
           eM == e * M
<1>7. zM \in Int /\ rM \in Int /\ eM \in Int /\ zM - rM = eM /\ du = zM - g
  BY <1>1, <1>5, <1>6
<1> HIDE DEF zM, rM, eM
<1>8. du - rM = eM - g
  BY <1>7
<1> QED
  BY <1>2, <1>3, <1>8 DEF rM, eM, e, r

\* The numbers of an operation.
LEMMA FollowsParts ==
  ASSUME NEW op, NEW m, Marked(m), NEW n, Marked(n), Follows(op, m, n),
         NEW own, own = Owns(op, m.rng, m.cdfs), NEW skip, skip = Skips(op, m.rng, m.cdfs),
         NEW s, s = Shift(own)
  PROVE  /\ own \in Int /\ 1 <= own /\ own < 65536 /\ skip \in Int /\ 0 <= skip
         /\ skip + own <= m.rng
         /\ s \in Nat /\ s <= 15 /\ Two[s] \in Int /\ 1 <= Two[s]
         /\ n.rng = own * Two[s] /\ n.cdfs = After(op, m.cdfs)
         /\ m.un = n.un * Two[s] /\ n.lo = m.lo + skip * m.un
         /\ m.un \in Int /\ 1 <= m.un /\ n.un \in Int /\ 1 <= n.un
         /\ m.lo \in Int /\ n.lo \in Int
<1>1. /\ m.un \in Int /\ 1 <= m.un /\ n.un \in Int /\ 1 <= n.un
      /\ m.lo \in Int /\ n.lo \in Int
      /\ m.rng \in Ranges /\ AllFalling(m.cdfs) /\ m.rng \in Int /\ m.rng < 65536
  BY RangeHigh DEF Marked
<1>2. Codes(op, m.cdfs)
  BY DEF Follows
<1>3. own \in Int /\ 1 <= own /\ skip \in Int /\ 0 <= skip /\ skip + own <= m.rng
  BY <1>1, <1>2, OperationParts
<1>4. own < 65536
  <2> DEFINE g == m.rng
  <2>1. g \in Int /\ g < 65536 /\ skip + own <= g
    BY <1>1, <1>3
  <2> HIDE DEF g
  <2> QED
    BY <1>3, <2>1
<1>5. s \in Nat /\ s <= 15
  <2>1. s \in Int /\ 0 <= s /\ s <= 15
    BY <1>3, <1>4, ShiftIs
  <2> QED
    BY <2>1
<1>6. Two[s] \in Int /\ 1 <= Two[s]
  BY <1>5, TwoType
<1>7. /\ n.rng = own * Two[s] /\ n.cdfs = After(op, m.cdfs)
      /\ m.un = n.un * Two[s] /\ n.lo = m.lo + skip * m.un
  BY DEF Follows
<1> QED
  BY <1>1, <1>3, <1>4, <1>5, <1>6, <1>7

\* A decoder that goes on with the part of an operation reads at the next mark.
LEMMA DecodedReads ==
  ASSUME NEW v, NEW b, NEW x, NEW top, Tile(data, v, b, x, top),
         NEW op, NEW m, Marked(m), NEW n, Marked(n), Follows(op, m, n), NEW d,
         Reader(d, m, v, b, x, Len(data))
  PROVE  Reader(Decoded(op, d, m.cdfs), n, v, b, x, Len(data))
<1> DEFINE own == Owns(op, m.rng, m.cdfs)
           skip == Skips(op, m.rng, m.cdfs)
           s == Shift(own)
           q == Two[s]
           M == Two[Window - 16]
           L == Len(data)
           rng == d.rng
           rest == rng - (skip + own)
           D == d.dif - rest * M
           next == [pos |-> d.pos, dif |-> D * q, rng |-> own * q, cnt |-> d.cnt - s]
           r == Decoded(op, d, m.cdfs)
           un == m.un
           lo == m.lo
           w == n.un
<1>1. /\ own \in Int /\ 1 <= own /\ skip \in Int /\ 0 <= skip
      /\ s \in Nat /\ s <= 15 /\ q \in Int /\ 1 <= q /\ 0 < q
      /\ un \in Int /\ 1 <= un /\ w \in Int /\ 1 <= w /\ lo \in Int
  <2>1. \A i \in Int : 1 <= i => 0 < i
    OBVIOUS
  <2> QED
    BY <2>1, FollowsParts, SMTT(60)
<1>11. n.rng = own * q /\ un = w * q /\ n.lo = lo + skip * un
  BY FollowsParts
<1>2. rng = m.rng /\ rng \in Int /\ d.dif \in Int
  BY ReaderParts DEF Reader
<1>3. M \in Int /\ 1 <= M
  BY WindowBits
<1>4. r = IF 0 <= d.cnt /\ d.cnt < s THEN Refill(next, data) ELSE next
  BY <1>2 DEF Decoded, CtxNorm, Leaves
<1>5. /\ next.pos = d.pos /\ next.dif = D * q /\ next.rng = own * q /\ next.cnt = d.cnt - s
  OBVIOUS
<1> HIDE DEF next, r
<1>6. next.dif \in Int
  <2> HIDE DEF own, skip, q, M, rng
  <2>1. rest \in Int
    <3>1. own \in Int /\ skip \in Int /\ rng \in Int
      BY <1>1, <1>2
    <3> QED
      BY <3>1
  <2> HIDE DEF rest
  <2>2. D \in Int
    BY <1>2, <1>3, <2>1
  <2> HIDE DEF D
  <2> QED
    BY <1>1, <1>5, <2>2
<1>7. L \in Nat
  BY PrefixType DEF Tile
<1>8. ASSUME Past(d, m, x, L) PROVE Reader(r, n, v, b, x, L)
  <2>1. PICK g \in Int :
          /\ 0 < g /\ g <= M
          /\ d.dif * un = (lo + rng * un - x) * M - g
    BY <1>8 DEF Past
  <2>2. d.pos = L /\ d.cnt \in Int /\ d.cnt < 0
    BY <1>8 DEF Past
  <2>3. x \in Int
    <3> HIDE DEF L
    <3>1. 0 \in 0 .. L
      BY <1>7
    <3> QED
      BY <3>1, TileAgrees DEF L
  <2> DEFINE dif == d.dif
  <2>4. dif \in Int /\ D = dif - rest * M
    BY <1>2
  <2>5. ((dif - (rng - (skip + own)) * M) * q) * w
           = ((lo + skip * un) + (own * q) * w - x) * M - g
    <3>1. dif * un = (lo + rng * un - x) * M - g
      BY <2>1
    <3>2. dif \in Int
      BY <2>4
    <3>3. /\ un \in Int /\ q \in Int /\ w \in Int /\ M \in Int /\ lo \in Int /\ rng \in Int
          /\ skip \in Int /\ own \in Int
      BY <1>1, <1>2, <1>3
    <3>4. un = w * q
      BY <1>11
    <3> HIDE DEF own, skip, q, M, rng, un, lo, w, dif
    <3> QED
      BY <2>3, <3>1, <3>2, <3>3, <3>4, PastStep
  <2>6. next.dif * n.un = (n.lo + next.rng * n.un - x) * M - g
    BY <1>1, <1>11, <1>5, <2>5
  <2>7. ~(0 <= d.cnt /\ d.cnt < s) /\ d.cnt - s \in Int /\ d.cnt - s < 0
    <3> HIDE DEF s
    <3>1. s \in Int /\ 0 <= s
      BY <1>1
    <3> QED
      BY <2>2, <3>1
  <2>8. r = next
    BY <1>4, <2>7
  <2>9. Past(next, n, x, L)
    BY <1>5, <2>1, <2>2, <2>6, <2>7 DEF Past
  <2> QED
    BY <1>1, <1>11, <1>5, <1>6, <2>8, <2>9 DEF Reader
<1>9. ASSUME Ahead(d, m, v, b, L) PROVE Reader(r, n, v, b, x, L)
  <2>1. PICK p, T, K, a, junk : Holding(d, m, v, b, L, p, T, K, a, junk)
    BY <1>9, AheadHolds
  <2> DEFINE c == d.cnt
             z == v[d.pos]
             A == a + skip * T
             Y == own * T
  <2>2. /\ d.pos \in 0 .. L /\ c \in Nat /\ Window - 16 - c \in Nat
        /\ p = b[d.pos] /\ T = Two[c] /\ K = Two[Window - 16 - c]
        /\ T \in Int /\ 1 <= T /\ 0 < T /\ K \in Int /\ 1 <= K
        /\ a \in Int /\ junk \in Int /\ 0 <= junk /\ junk < K
        /\ d.pos < L => junk = 0
    <3>1. \A i \in Int : 1 <= i => 0 < i
      OBVIOUS
    <3> QED
      BY <2>1, <3>1 DEF Holding
  <2>12. /\ M = T * K /\ un = T * p /\ lo = a * p
         /\ d.dif = (a + rng * T - z - 1) * K + junk
    BY <2>1 DEF Holding
  <2>3. p \in Int /\ z \in Int
    <3>1. Agrees(v, b, d.pos, x)
      BY <2>2, TileAgrees
    <3> QED
      BY <2>2, <3>1 DEF Agrees
  <2> HIDE DEF own, skip, s, q, rng, un, lo, w, c, z, M, L
  <2>13. /\ own \in Int /\ skip \in Int /\ rng \in Int /\ T \in Int /\ K \in Int /\ a \in Int
         /\ junk \in Int /\ q \in Int /\ w \in Int
    BY <1>1, <1>2, <2>2
  <2>4. A \in Int /\ Y \in Int
    BY <2>13
  <2>5. D * q = ((A + Y) - z - 1) * (K * q) + junk * q /\ n.lo = A * p
    <3>1. /\ (((a + rng * T - z - 1) * K + junk) - (rng - (skip + own)) * (T * K)) * q
               = (((a + skip * T) + own * T) - z - 1) * (K * q) + junk * q
          /\ a * p + skip * (T * p) = (a + skip * T) * p
      BY <2>3, <2>13, StepNumbers
    <3>2. D = ((a + rng * T - z - 1) * K + junk) - (rng - (skip + own)) * (T * K)
      BY <2>12
    <3>3. n.lo = a * p + skip * (T * p)
      BY <1>11, <2>12
    <3> HIDE DEF D
    <3> QED
      BY <3>1, <3>2, <3>3
  <2>6. /\ junk * q \in Int /\ 0 <= junk * q /\ junk * q < K * q
        /\ d.pos < L => junk * q = 0
    <3>1. 0 < q /\ 0 * q = 0 /\ 0 \in Int
      BY <1>1
    <3>2. junk * q \in Int /\ 0 * q <= junk * q /\ junk * q < K * q
      <4>1. junk \in Int /\ K \in Int /\ q \in Int /\ 0 <= junk /\ junk < K
        BY <1>1, <2>2, Zenon
      <4>2. 0 * q <= junk * q
        BY <3>1, <4>1, ProductOrder
      <4>3. junk * q \in Int /\ junk * q < K * q
        BY <3>1, <4>1, ProductOrder
      <4> QED
        BY <4>2, <4>3
    <3>3. d.pos < L => junk * q = 0
      <4>1. d.pos < L => junk = 0
        BY <2>2
      <4> QED
        BY <3>1, <4>1
    <3> QED
      BY <3>1, <3>2, <3>3
  <2> DEFINE J == junk * q
             KQ == K * q
  <2>7. J \in Int /\ 0 <= J /\ J < KQ /\ (d.pos < L => J = 0)
    BY <2>6
  <2>8. next.dif = ((A + Y) - z - 1) * KQ + J
    BY <1>5, <2>5
  <2> HIDE DEF A, Y, J, D
  <2>9. CASE s <= c
    <3> DEFINE k == c - s
               N == Two[k]
    <3>1. k \in Nat /\ c = k + s /\ (Window - 16) - k = (Window - 16 - c) + s
          /\ (Window - 16) - k \in Nat /\ k \in 0 .. Window - 16
      BY <1>1, <2>2, <2>9, WindowBits
    <3> HIDE DEF k
    <3>2. T = N * q /\ N \in Int
      BY <1>1, <2>2, <3>1, TwoSum, TwoType DEF q
    <3>3. KQ = Two[(Window - 16) - k]
      <4>1. Two[(Window - 16 - c) + s] = Two[Window - 16 - c] * Two[s]
        BY <1>1, <2>2, TwoSum
      <4> QED
        BY <2>2, <3>1, <4>1 DEF q
    <3> HIDE DEF N, KQ
    <3>4. w = N * p
      <4>1. w * q = (N * p) * q
        <5>1. (N * q) * p = (N * p) * q
          BY <1>1, <2>3, <3>2
        <5> QED
          BY <1>11, <2>12, <3>2, <5>1
      <4>2. N * p \in Int /\ 0 < q
        BY <1>1, <2>3, <3>2
      <4> DEFINE np == N * p
      <4> HIDE DEF np
      <4> QED
        BY <1>1, <4>1, <4>2, ProductOrder DEF np
    <3>5. Y = (own * q) * N
      <4>1. own * (N * q) = (own * q) * N
        BY <1>1, <3>2
      <4> QED
        BY <3>2, <4>1 DEF Y
    <3>6. ~(0 <= d.cnt /\ d.cnt < s)
      <4>1. c \in Int /\ s \in Int
        BY <1>1, <2>2
      <4> QED
        BY <2>9, <4>1 DEF c
    <3>7. r = next
      BY <1>4, <3>6
    <3>8. Ahead(next, n, v, b, L)
      <4>1. next.pos \in 0 .. L /\ next.cnt \in 0 .. Window - 16 /\ next.cnt = k /\ next.pos = d.pos
        BY <1>5, <2>2, <3>1 DEF k, c
      <4>2. n.un = Two[next.cnt] * b[next.pos] /\ n.lo = A * b[next.pos]
        BY <2>2, <2>5, <3>4, <4>1 DEF N, w
      <4>3. Two[Window - 16 - next.cnt] = KQ
        BY <3>3, <4>1
      <4>4. next.dif = (A + next.rng * Two[next.cnt] - v[next.pos] - 1) * Two[Window - 16 - next.cnt] + J
        <5>1. next.rng * Two[next.cnt] = Y /\ v[next.pos] = z
          BY <1>5, <3>5, <4>1 DEF N, z
        <5>2. (A + Y) - z - 1 = A + Y - z - 1
          BY <2>3, <2>4
        <5> QED
          BY <2>8, <4>3, <5>1, <5>2
      <4>5. (next.pos < L => J = 0) /\ J < Two[Window - 16 - next.cnt]
        BY <2>7, <4>1, <4>3
      <4> QED
        BY <2>4, <2>7, <4>1, <4>2, <4>4, <4>5 DEF Ahead
    <3> QED
      BY <1>11, <1>5, <1>6, <3>7, <3>8 DEF Reader
  <2>10. CASE c < s
    <3> DEFINE t == s - c
               N == Two[t]
    <3>1. /\ t \in Nat /\ t \in 1 .. 15 /\ s = t + c /\ Window - 16 + t = (Window - 16 - c) + s
          /\ c - s = -t
      BY <1>1, <2>2, <2>10, WindowBits
    <3> HIDE DEF t
    <3>2. q = N * T /\ N \in Int
      BY <2>2, <3>1, TwoSum, TwoType DEF q
    <3>3. KQ = Two[Window - 16 + t]
      <4>1. Two[(Window - 16 - c) + s] = Two[Window - 16 - c] * Two[s]
        BY <1>1, <2>2, TwoSum
      <4> QED
        BY <2>2, <3>1, <4>1 DEF q
    <3> HIDE DEF N, KQ
    <3>4. w * N = p
      <4>1. (w * N) * T = p * T
        <5>1. w * (N * T) = (w * N) * T /\ T * p = p * T
          <6>1. N \in Int
            BY <3>2
          <6> QED
            BY <2>3, <2>13, <6>1
        <5> QED
          BY <1>11, <2>12, <3>2, <5>1
      <4>2. w * N \in Int /\ 0 < T
        <5>1. N \in Int
          BY <3>2
        <5>2. w * N \in Int
          BY <2>13, <5>1
        <5> QED
          BY <2>2, <5>2
      <4> DEFINE wn == w * N
      <4>3. wn \in Int /\ T \in Int /\ 0 < T /\ p \in Int /\ wn * T = p * T
        BY <2>3, <2>13, <4>1, <4>2
      <4> HIDE DEF wn
      <4>4. wn = p
        BY <4>3, ProductOrder
      <4> QED
        BY <4>4 DEF wn
    <3>5. own * q = Y * N
      <4>1. own * (N * T) = (own * T) * N
        <5>1. N \in Int
          BY <3>2
        <5> QED
          BY <2>13, <5>1
      <4> QED
        BY <3>2, <4>1 DEF Y
    <3>6. 0 <= d.cnt /\ d.cnt < s
      <4>1. c \in Int /\ 0 <= c
        BY <2>2
      <4> QED
        BY <2>10, <4>1 DEF c
    <3>7. r = Refill(next, data)
      BY <1>4, <3>6
    <3>8. Asks(next, data, v, t, A + Y, J)
      <4>1. next.pos \in 0 .. L /\ next.cnt = -t /\ next.pos = d.pos
        BY <1>5, <2>2, <3>1 DEF c
      <4>2. next.dif = ((A + Y) - v[next.pos] - 1) * Two[Window - 16 + t] + J
        BY <2>8, <3>3, <4>1 DEF z
      <4>3. A + Y \in Int
        BY <2>4
      <4> QED
        BY <2>7, <3>1, <3>3, <4>1, <4>2, <4>3 DEF Asks, L
    <3>9. Starved(next, n, data, v, b, t, A + Y, J, A, Y)
      <4>1. next.rng = n.rng /\ next.rng = Y * Two[t]
        BY <1>11, <1>5, <3>5 DEF N
      <4>2. n.lo = A * b[next.pos] /\ n.un * Two[t] = b[next.pos]
        BY <1>5, <2>2, <2>5, <3>4 DEF N, w
      <4> QED
        BY <2>4, <3>8, <4>1, <4>2 DEF Starved
    <3> QED
      BY <3>7, <3>9, RefillReads DEF L
  <2>11. c \in Int /\ s \in Int
    BY <1>1, <2>2
  <2> QED
    BY <2>9, <2>10, <2>11
<1>10. Ahead(d, m, v, b, L) \/ Past(d, m, x, L)
  BY DEF Reader
<1> QED
  BY <1>8, <1>9, <1>10 DEF r, L

-----------------------------------------------------------------------------
(* Decoding.                                                                  *)

\* The decoder stands at the mark after the values it has read, and the tile's
\* number x lies in the interval of every mark.
Reading(h, v, b, x) ==
    /\ Marks(h, ops) /\ h[Len(ops)].cdfs = ecdf
    /\ Tile(data, v, b, x, Full * h[0].un)
    /\ Inside(h, Len(ops), x, x + 1)
    /\ dcdf = h[Len(got)].cdfs
    /\ Reader(dec, h[Len(got)], v, b, x, Len(data))

DecodingInv ==
    /\ Flushed
    /\ ops \in Seq(Operation) /\ got \in Seq(Int) /\ Len(got) <= Len(ops)
    /\ \A i \in 1 .. Len(got) : got[i] = ops[i].val
    /\ \E h, v, b, x : Reading(h, v, b, x)

\* The reader of a new tile.
LEMMA NewDecoderReads ==
  ASSUME NEW bytes, NEW v, NEW b, NEW x, NEW m, Marked(m), m.rng = Full, m.lo = 0,
         Tile(bytes, v, b, x, Full * m.un)
  PROVE  Reader(NewDecoder(bytes), m, v, b, x, Len(bytes))
<1> DEFINE d == [pos |-> 0, dif |-> 0, rng |-> 32768, cnt |-> -15]
           L == Len(bytes)
           E == Window - 16 + 15
<1>1. d.pos = 0 /\ d.dif = 0 /\ d.rng = Full /\ d.cnt = -15
  BY SMT DEF Full
<1>2. NewDecoder(bytes) = Refill(d, bytes)
  BY DEF NewDecoder
<1> HIDE DEF d
<1>3. L \in Nat /\ v[0] = 0
  BY PrefixType DEF Tile, Prefixes
<1>4. E \in Nat /\ Two[E] \in Int /\ 1 <= Two[E]
  <2>1. E \in Nat
    BY WindowBits
  <2> HIDE DEF E
  <2> QED
    BY <2>1, TwoType
<1>5. b[0] = Full * m.un
  BY DEF Tile, Spans
<1>6. m.un \in Int
  BY DEF Marked
<1>7. Two[15] = Full
  BY PowersOfTwo, SMT DEF Full
<1> DEFINE un == m.un
           top == b[0]
<1>8. un * Full = top /\ 1 * Full = Full /\ 0 * top = 0
  <2>1. un \in Int /\ top = Full * un
    BY <1>5, <1>6
  <2> HIDE DEF un, top
  <2> QED
    BY <2>1, SMT DEF Full
<1>9. Asks(d, bytes, v, 15, 1, 0)
  <2>1. 0 \in 0 .. L /\ 15 \in 1 .. 15 /\ 1 \in Int /\ 0 \in Int /\ 0 <= 0
    BY <1>3
  <2>2. 0 < Two[E]
    BY <1>4
  <2>3. 0 = (1 - v[0] - 1) * Two[E] + 0
    <3> DEFINE e == Two[E]
    <3>1. e \in Int /\ v[0] = 0
      BY <1>3, <1>4
    <3> HIDE DEF e
    <3>2. 1 - v[0] - 1 = 0
      BY <3>1
    <3>3. 0 * e + 0 = 0
      BY <3>1
    <3> QED
      BY <3>2, <3>3 DEF e
  <2> QED
    BY <1>1, <2>1, <2>2, <2>3 DEF Asks
<1>10. Starved(d, m, bytes, v, b, 15, 1, 0, 0, 1)
  <2>1. 0 \in Int /\ 1 \in Int /\ 1 = 0 + 1
    OBVIOUS
  <2>2. d.rng = m.rng /\ d.rng = 1 * Two[15] /\ m.lo = 0 * b[d.pos] /\ m.un * Two[15] = b[d.pos]
    BY <1>1, <1>7, <1>8
  <2> QED
    BY <1>9, <2>1, <2>2, Zenon DEF Starved
<1>11. Reader(Refill(d, bytes), m, v, b, x, L)
  BY <1>10, RefillReads
<1> QED
  BY <1>2, <1>11

\* The tile's number in the last interval is in all of them.
LEMMA InsideNarrows ==
  ASSUME NEW h, NEW n \in Nat, \A i \in 0 .. n : Marked(h[i]),
         NEW a \in Int, NEW z \in Int, Inside(h, n, a, z), NEW x \in Int, a <= x, x + 1 <= z
  PROVE  Inside(h, n, x, x + 1)
<1> SUFFICES ASSUME NEW i \in 0 .. n PROVE Holds(h[i], x, x + 1)
  BY DEF Inside
<1> DEFINE lo == h[i].lo
           rng == h[i].rng
           un == h[i].un
           hi == lo + rng * un
<1>1. lo \in Int /\ rng \in Int /\ un \in Int
  <2>1. Marked(h[i])
    OBVIOUS
  <2> QED
    BY <2>1, RangeHigh DEF Marked
<1>2. lo <= a /\ z <= hi
  BY DEF Inside, Holds
<1> HIDE DEF lo, rng, un
<1>3. hi \in Int
  BY <1>1
<1> HIDE DEF hi
<1>4. lo <= x /\ x + 1 <= hi
  BY <1>1, <1>2, <1>3
<1> QED
  BY <1>4 DEF Holds, lo, hi, rng, un

\* Flush and the decoder's Init: the tile is read from its first mark.
LEMMA FinishReads ==
  ASSUME CodingInv, FinishTile
  PROVE  DecodingInv'
<1>1. PICK h : Encoding(h)
  BY DEF CodingInv
<1> DEFINE n == Len(ops)
           m == h[n]
<1>2. /\ Marks(h, ops) /\ m.rng = enc.rng /\ m.cdfs = ecdf /\ m.un = 1
      /\ Inside(h, n, m.lo, m.lo + m.rng)
      /\ Writes(enc, m.lo, Full * h[0].un)
  BY <1>1 DEF Encoding
<1>3. ops \in Seq(Operation) /\ n \in Nat /\ got = <<>> /\ dcdf = Contexts
  BY DEF CodingInv
<1>4. \A i \in 0 .. n : Marked(h[i])
  BY <1>2 DEF Marks
<1>5. Marked(m) /\ Marked(h[0]) /\ h[0].rng = Full /\ h[0].cdfs = Contexts /\ h[0].lo = 0
  <2> HIDE DEF n
  <2>1. n \in 0 .. n /\ 0 \in 0 .. n
    BY <1>3
  <2> QED
    BY <1>2, <1>4, <2>1 DEF Marks, n
<1> HIDE DEF m, n
<1>6. /\ data' = Flush(enc) /\ dec' = NewDecoder(data')
      /\ ops' = ops /\ ecdf' = ecdf /\ dcdf' = dcdf /\ got' = got
  BY DEF FinishTile
<1>7. /\ Len(Flush(enc)) \in Nat /\ 1 <= Len(Flush(enc))
      /\ m.lo \in Int
      /\ \E x \in Int : /\ m.lo <= x
                        /\ x + 1 <= m.lo + enc.rng
                        /\ \E v, b : Tile(Flush(enc), v, b, x, Full * h[0].un)
  BY <1>2, FlushReads
<1>8. PICK x \in Int : /\ m.lo <= x
                       /\ x + 1 <= m.lo + enc.rng
                       /\ \E v, b : Tile(Flush(enc), v, b, x, Full * h[0].un)
  BY <1>7
<1>9. PICK v, b : Tile(data', v, b, x, Full * h[0].un)
  BY <1>6, <1>8
<1>10. Inside(h, n, x, x + 1)
  <2> DEFINE a == m.lo
             z == m.lo + m.rng
  <2>1. a \in Int /\ z \in Int /\ a <= x /\ x + 1 <= z
    <3>1. m.rng \in Int /\ m.lo \in Int
      BY <1>5, RangeHigh DEF Marked
    <3> QED
      BY <1>2, <1>8, <3>1
  <2>2. Inside(h, n, a, z)
    BY <1>2
  <2> HIDE DEF a, z
  <2> QED
    BY <1>3, <1>4, <2>1, <2>2, InsideNarrows
<1>11. Reader(dec', h[0], v, b, x, Len(data'))
  BY <1>5, <1>6, <1>9, NewDecoderReads
<1>12. Len(got') = 0 /\ Len(ops') = n
  BY <1>3, <1>6 DEF n
<1>13. Reading(h, v, b, x)'
  <2>1. h[Len(ops')].cdfs = ecdf'
    BY <1>2, <1>6, <1>12 DEF m
  <2>2. dcdf' = h[Len(got')].cdfs
    BY <1>3, <1>5, <1>6, <1>12
  <2>3. Reader(dec', h[Len(got')], v, b, x, Len(data'))
    BY <1>11, <1>12
  <2>4. Inside(h, Len(ops'), x, x + 1) /\ Marks(h, ops')
    BY <1>2, <1>6, <1>10, <1>12
  <2> QED
    BY <1>9, <2>1, <2>2, <2>3, <2>4 DEF Reading
<1>14. Flushed'
  <2>1. Len(data') # Len(<<>>)
    <3>1. Len(<<>>) = 0
      OBVIOUS
    <3> DEFINE z == Len(data')
    <3>2. z \in Nat /\ 1 <= z
      BY <1>6, <1>7
    <3> HIDE DEF z
    <3>3. z # 0
      BY <3>2
    <3> QED
      BY <3>1, <3>3 DEF z
  <2>2. data' # <<>>
    BY <2>1
  <2> QED
    BY <2>2 DEF Flushed
<1>15. got' \in Seq(Int) /\ Len(got') <= Len(ops') /\ ops' \in Seq(Operation)
       /\ \A i \in 1 .. Len(got') : got'[i] = ops'[i].val
  <2>1. got' \in Seq(Int)
    BY <1>3, <1>6
  <2>2. 0 <= n /\ \A i \in 1 .. 0 : FALSE
    BY <1>3
  <2> QED
    BY <1>3, <1>6, <1>12, <2>1, <2>2
<1> QED
  BY <1>13, <1>14, <1>15 DEF DecodingInv

\* The marks before and after the operation that is asked for.
Between(op, m, n, v, b, x) ==
    /\ Marked(m) /\ Marked(n) /\ Follows(op, m, n)
    /\ m.cdfs = dcdf
    /\ Reader(dec, m, v, b, x, Len(data))
    /\ Holds(n, x, x + 1)

\* They are there while values are left to read.
LEMMA AskedBetween ==
  ASSUME NEW h, NEW v, NEW b, NEW x, Reading(h, v, b, x),
         ops \in Seq(Operation), got \in Seq(Int), Len(got) < Len(ops)
  PROVE  Between(Asked, h[Len(got)], h[Len(got) + 1], v, b, x)
<1> DEFINE n == Len(ops)
           g == Len(got)
<1>1. n \in Nat /\ g \in Nat /\ g < n
  OBVIOUS
<1>2. Marks(h, ops) /\ Inside(h, n, x, x + 1)
      /\ dcdf = h[g].cdfs /\ Reader(dec, h[g], v, b, x, Len(data))
  BY DEF Reading
<1>3. Asked = ops[g + 1]
  BY DEF Asked
<1>4. /\ \A i \in 0 .. n : Marked(h[i])
      /\ \A i \in 1 .. n : Follows(ops[i], h[i - 1], h[i])
      /\ \A i \in 0 .. n : Holds(h[i], x, x + 1)
  BY <1>2 DEF Marks, Inside
<1> HIDE DEF n, g
<1>5. g \in 0 .. n /\ g + 1 \in 0 .. n /\ g + 1 \in 1 .. n /\ (g + 1) - 1 = g
  BY <1>1
<1>6. /\ Marked(h[g]) /\ Marked(h[g + 1]) /\ Follows(ops[g + 1], h[g], h[g + 1])
      /\ Holds(h[g + 1], x, x + 1)
  BY <1>4, <1>5
<1> QED
  BY <1>2, <1>3, <1>6 DEF Between, g

\* What the decoder needs for its choice.
LEMMA AskedTaken ==
  ASSUME DecodingInv, Len(got) < Len(ops)
  PROVE  /\ Codes(Asked, dcdf) /\ AllFalling(dcdf)
         /\ dec.rng \in Ranges /\ dec.dif \in Int
         /\ Taken(Asked, dec, dcdf)
<1>1. PICK h, v, b, x : Reading(h, v, b, x)
  BY DEF DecodingInv
<1>2. ops \in Seq(Operation) /\ got \in Seq(Int)
  BY DEF DecodingInv
<1> DEFINE m == h[Len(got)]
           n == h[Len(got) + 1]
<1>3. Between(Asked, m, n, v, b, x)
  BY <1>1, <1>2, AskedBetween
<1> HIDE DEF m, n
<1>4. /\ Marked(m) /\ Marked(n) /\ Follows(Asked, m, n) /\ m.cdfs = dcdf
      /\ Reader(dec, m, v, b, x, Len(data)) /\ Holds(n, x, x + 1)
  BY <1>3 DEF Between
<1>5. Tile(data, v, b, x, Full * h[0].un)
  BY <1>1 DEF Reading
<1>6. Codes(Asked, dcdf) /\ AllFalling(dcdf)
  BY <1>4 DEF Follows, Marked
<1>7. dec.rng = m.rng /\ dec.dif \in Int /\ dec.rng \in Ranges
  BY <1>4 DEF Reader, Marked
<1>8. /\ dec.dif < (dec.rng - Skips(Asked, m.rng, m.cdfs)) * Two[Window - 16]
      /\ (dec.rng - (Skips(Asked, m.rng, m.cdfs) + Owns(Asked, m.rng, m.cdfs))) * Two[Window - 16]
            <= dec.dif
  BY <1>4, <1>5, ReaderTaken
<1>9. Taken(Asked, dec, dcdf)
  BY <1>4, <1>7, <1>8 DEF Taken, Leaves
<1> QED
  BY <1>6, <1>7, <1>9

\* A value read: the decoder stands at the next mark.
LEMMA GetKeeps ==
  ASSUME DecodingInv, Len(got) < Len(ops),
         got' = Append(got, Asked.val), dec' = Decoded(Asked, dec, dcdf),
         dcdf' = After(Asked, dcdf), UNCHANGED <<ops, enc, ecdf, data>>
  PROVE  DecodingInv'
<1>1. PICK h, v, b, x : Reading(h, v, b, x)
  BY DEF DecodingInv
<1>2. /\ ops \in Seq(Operation) /\ got \in Seq(Int) /\ Flushed
      /\ \A i \in 1 .. Len(got) : got[i] = ops[i].val
  BY DEF DecodingInv
<1> DEFINE g == Len(got)
           m == h[g]
           n == h[g + 1]
           op == Asked
<1>3. Between(op, m, n, v, b, x)
  BY <1>1, <1>2, AskedBetween
<1>4. g \in Nat /\ Len(ops) \in Nat /\ g < Len(ops) /\ op = ops[g + 1]
  BY <1>2 DEF Asked
<1> HIDE DEF m, n, op
<1>5. /\ Marked(m) /\ Marked(n) /\ Follows(op, m, n) /\ m.cdfs = dcdf
      /\ Reader(dec, m, v, b, x, Len(data))
  BY <1>3 DEF Between
<1>6. Tile(data, v, b, x, Full * h[0].un)
  BY <1>1 DEF Reading
<1>7. Reader(Decoded(op, dec, dcdf), n, v, b, x, Len(data))
  BY <1>5, <1>6, DecodedReads
<1>8. After(op, dcdf) = n.cdfs
  BY <1>5 DEF Follows
<1>9. op.val \in Int
  <2>1. g + 1 \in 1 .. Len(ops)
    BY <1>4
  <2>2. op \in Operation
    BY <1>2, <1>4, <2>1
  <2>3. op.val \in 0 .. 15
    BY <2>2 DEF Operation
  <2>4. \A i \in 0 .. 15 : i \in Int
    OBVIOUS
  <2> QED
    BY <2>3, <2>4, Zenon
<1>10. /\ got' \in Seq(Int) /\ Len(got') = g + 1
       /\ \A i \in 1 .. g : got'[i] = got[i]
       /\ got'[g + 1] = op.val
  <2>1. got' = Append(got, op.val)
    BY DEF op
  <2> QED
    BY <1>2, <1>9, <2>1
<1> HIDE DEF g
<1>11. Reading(h, v, b, x)'
  <2>1. /\ Marks(h, ops) /\ h[Len(ops)].cdfs = ecdf /\ Inside(h, Len(ops), x, x + 1)
    BY <1>1 DEF Reading
  <2>2. dcdf' = h[Len(got')].cdfs /\ Reader(dec', h[Len(got')], v, b, x, Len(data'))
    BY <1>7, <1>8, <1>10 DEF n, op
  <2> QED
    BY <1>6, <2>1, <2>2 DEF Reading
<1>12. \A i \in 1 .. Len(got') : got'[i] = ops'[i].val
  <2> SUFFICES ASSUME NEW i \in 1 .. Len(got') PROVE got'[i] = ops[i].val
    OBVIOUS
  <2>1. i \in 1 .. g \/ i = g + 1
    BY <1>4, <1>10
  <2>2. CASE i \in 1 .. g
    BY <1>2, <1>10, <2>2 DEF g
  <2>3. CASE i = g + 1
    BY <1>4, <1>10, <2>3
  <2> QED
    BY <2>1, <2>2, <2>3
<1>13. Len(got') <= Len(ops') /\ Flushed' /\ ops' \in Seq(Operation)
  BY <1>2, <1>4, <1>10 DEF Flushed
<1> QED
  BY <1>10, <1>11, <1>12, <1>13 DEF DecodingInv

\* Reading a bool,
LEMMA GetBoolReads ==
  ASSUME DecodingInv, GetBool
  PROVE  DecodingInv'
<1>1. /\ Len(got) < Len(ops) /\ Asked.kind = "bool"
      /\ got' = Append(got, BoolValue(dec, Asked.with))
      /\ dec' = AfterBool(dec, Asked.with)
      /\ UNCHANGED <<ops, enc, ecdf, data, dcdf>>
  BY DEF GetBool
<1>2. /\ Codes(Asked, dcdf) /\ dec.rng \in Ranges /\ dec.dif \in Int
      /\ Taken(Asked, dec, dcdf)
  BY <1>1, AskedTaken
<1>3. Asked.with \in Probs /\ Asked.val \in 0 .. 1
  BY <1>1, <1>2 DEF Codes
<1>4. /\ BoolValue(dec, Asked.with) = Asked.val
      /\ AfterBool(dec, Asked.with) = Decoded(Asked, dec, dcdf)
  BY <1>1, <1>2, <1>3, BoolRead
<1>5. After(Asked, dcdf) = dcdf
  BY <1>1 DEF After
<1> QED
  BY <1>1, <1>4, <1>5, GetKeeps

\* and a symbol, adapting its CDF as the encoder did.
LEMMA GetSymbolReads ==
  ASSUME DecodingInv, GetSymbol
  PROVE  DecodingInv'
<1> DEFINE cdf == dcdf[Asked.with]
           val == SymbolValue(dec, cdf)
<1>1. /\ Len(got) < Len(ops) /\ Asked.kind = "symbol"
      /\ got' = Append(got, val)
      /\ dec' = AfterSymbol(dec, cdf)
      /\ dcdf' = [dcdf EXCEPT ![Asked.with] = Adapted(cdf, val)]
      /\ UNCHANGED <<ops, enc, ecdf, data>>
  BY DEF GetSymbol
<1>2. /\ Codes(Asked, dcdf) /\ AllFalling(dcdf) /\ dec.rng \in Ranges /\ dec.dif \in Int
      /\ Taken(Asked, dec, dcdf)
  BY <1>1, AskedTaken
<1>3. /\ Asked.with \in DOMAIN Contexts /\ Asked.val \in 0 .. 15
      /\ Asked.val <= Len(cdf.p)
  BY <1>1, <1>2 DEF Codes
<1>4. Falling(cdf)
  BY <1>2, <1>3, Zenon DEF AllFalling
<1>5. Asked.val \in 0 .. Len(cdf.p)
  <2> DEFINE N == Len(cdf.p)
             z == Asked.val
  <2>1. N \in 1 .. 15 /\ z \in 0 .. 15 /\ z <= N
    BY <1>3, <1>4, FallingEntries
  <2> HIDE DEF N, z
  <2>2. z \in 0 .. N
    BY <2>1
  <2> QED
    BY <2>2 DEF N, z
<1>6. val = Asked.val /\ AfterSymbol(dec, cdf) = Decoded(Asked, dec, dcdf)
  BY <1>1, <1>2, <1>4, <1>5, SymbolRead
<1>7. After(Asked, dcdf) = [dcdf EXCEPT ![Asked.with] = Adapted(cdf, Asked.val)]
  BY <1>1 DEF After
<1> HIDE DEF val
<1> QED
  BY <1>1, <1>6, <1>7, GetKeeps

-----------------------------------------------------------------------------
(* The round trip.                                                            *)

\* The tile is being written or being read.
CoderInv == CodingInv \/ DecodingInv

\* Writing a bool,
LEMMA PutBoolCodes ==
  ASSUME CodingInv, NEW val \in 0 .. 1, NEW f \in Probs, PutBool(val, f)
  PROVE  CodingInv'
<1> DEFINE op == [kind |-> "bool", with |-> f, val |-> val]
<1>1. /\ enc' = EncodeBool(enc, val, f) /\ ops' = Append(ops, op)
      /\ UNCHANGED <<ecdf, data, dec, dcdf, got>>
  BY DEF PutBool
<1>2. Coder(enc) /\ AllFalling(ecdf)
  <2>1. PICK h : Encoding(h)
    BY DEF CodingInv
  <2> DEFINE n == Len(ops)
  <2>2. n \in Nat
    BY DEF CodingInv
  <2>3. /\ \A i \in 0 .. n : Marked(h[i])
        /\ h[n].cdfs = ecdf /\ Coder(enc)
    BY <2>1 DEF Encoding, Marks, Writes
  <2> HIDE DEF n
  <2>4. n \in 0 .. n
    BY <2>2
  <2> QED
    BY <2>3, <2>4 DEF Marked
<1>3. op.kind = "bool" /\ op.with = f /\ op.val = val
  OBVIOUS
<1>4. op \in Operation
  <2>1. val \in 0 .. 15
    OBVIOUS
  <2> QED
    BY <2>1 DEF Operation
<1>5. enc' = Encoded(op, enc, ecdf)
  BY <1>1, <1>2, PutBoolIs
<1> HIDE DEF op
<1>6. Codes(op, ecdf)
  BY <1>3 DEF Codes
<1>7. After(op, ecdf) = ecdf
  BY <1>3 DEF After
<1> QED
  BY <1>1, <1>4, <1>5, <1>6, <1>7, PutKeeps

\* and a symbol.
LEMMA PutSymbolCodes ==
  ASSUME CodingInv, NEW ctx \in DOMAIN Contexts, NEW val \in 0 .. 15, PutSymbol(val, ctx)
  PROVE  CodingInv'
<1> DEFINE op == [kind |-> "symbol", with |-> ctx, val |-> val]
<1>1. /\ val <= Len(ecdf[ctx].p)
      /\ enc' = EncodeSymbol(enc, val, ecdf[ctx]) /\ ops' = Append(ops, op)
      /\ ecdf' = [ecdf EXCEPT ![ctx] = Adapted(ecdf[ctx], val)]
      /\ UNCHANGED <<data, dec, dcdf, got>>
  BY DEF PutSymbol
<1>2. Coder(enc) /\ AllFalling(ecdf)
  <2>1. PICK h : Encoding(h)
    BY DEF CodingInv
  <2> DEFINE n == Len(ops)
  <2>2. n \in Nat
    BY DEF CodingInv
  <2>3. /\ \A i \in 0 .. n : Marked(h[i])
        /\ h[n].cdfs = ecdf /\ Coder(enc)
    BY <2>1 DEF Encoding, Marks, Writes
  <2> HIDE DEF n
  <2>4. n \in 0 .. n
    BY <2>2
  <2> QED
    BY <2>3, <2>4 DEF Marked
<1>3. op.kind = "symbol" /\ op.with = ctx /\ op.val = val
  OBVIOUS
<1>4. op \in Operation
  BY DEF Operation
<1>5. enc' = Encoded(op, enc, ecdf)
  BY <1>1, <1>2, PutSymbolIs
<1> HIDE DEF op
<1>6. Codes(op, ecdf)
  BY <1>1, <1>3 DEF Codes
<1>7. After(op, ecdf) = ecdf'
  BY <1>1, <1>3 DEF After
<1> QED
  BY <1>1, <1>4, <1>5, <1>6, <1>7, PutKeeps

\* No step leaves the invariant,
LEMMA CoderNext ==
  ASSUME CoderInv, [Next]_vars
  PROVE  CoderInv'
<1>1. ASSUME NEW val \in 0 .. 1, NEW f \in Probs, PutBool(val, f) PROVE CoderInv'
  <2>1. CodingInv
    BY <1>1 DEF CoderInv, PutBool, DecodingInv
  <2> QED
    BY <1>1, <2>1, PutBoolCodes DEF CoderInv
<1>2. ASSUME NEW ctx \in DOMAIN Contexts, NEW val \in 0 .. 15, PutSymbol(val, ctx) PROVE CoderInv'
  <2>1. CodingInv
    BY <1>2 DEF CoderInv, PutSymbol, DecodingInv
  <2> QED
    BY <1>2, <2>1, PutSymbolCodes DEF CoderInv
<1>3. ASSUME FinishTile PROVE CoderInv'
  <2>1. CodingInv
    BY <1>3 DEF CoderInv, FinishTile, DecodingInv
  <2> QED
    BY <1>3, <2>1, FinishReads DEF CoderInv
<1>4. ASSUME GetBool PROVE CoderInv'
  <2>1. DecodingInv
    BY <1>4 DEF CoderInv, GetBool, CodingInv
  <2> QED
    BY <1>4, <2>1, GetBoolReads DEF CoderInv
<1>5. ASSUME GetSymbol PROVE CoderInv'
  <2>1. DecodingInv
    BY <1>5 DEF CoderInv, GetSymbol, CodingInv
  <2> QED
    BY <1>5, <2>1, GetSymbolReads DEF CoderInv
<1>6. CASE UNCHANGED vars
  <2>1. /\ ops' = ops /\ enc' = enc /\ ecdf' = ecdf /\ data' = data
        /\ dec' = dec /\ dcdf' = dcdf /\ got' = got
    BY <1>6 DEF vars
  <2>2. CASE CodingInv
    <3>1. PICK h : Encoding(h)
      BY <2>2 DEF CodingInv
    <3>2. Encoding(h)'
      BY <2>1, <3>1 DEF Encoding
    <3>3. CodingInv'
      BY <2>1, <2>2, <3>2 DEF CodingInv, Flushed
    <3> QED
      BY <3>3 DEF CoderInv
  <2>3. CASE DecodingInv
    <3>1. PICK h, v, b, x : Reading(h, v, b, x)
      BY <2>3 DEF DecodingInv
    <3>2. Reading(h, v, b, x)'
      BY <2>1, <3>1 DEF Reading
    <3>3. DecodingInv'
      BY <2>1, <2>3, <3>2 DEF DecodingInv, Flushed
    <3> QED
      BY <3>3 DEF CoderInv
  <2> QED
    BY <2>2, <2>3 DEF CoderInv
<1> QED
  BY <1>1, <1>2, <1>3, <1>4, <1>5, <1>6 DEF Next

\* in it what was read is what was coded,
LEMMA CoderReads == CoderInv => DecodedAsCoded
<1>1. ASSUME CodingInv PROVE DecodedAsCoded
  <2>1. DOMAIN got = {}
    BY <1>1 DEF CodingInv
  <2> QED
    BY <1>1, <2>1 DEF CodingInv, DecodedAsCoded
<1>2. ASSUME DecodingInv PROVE DecodedAsCoded
  <2>1. DOMAIN got = 1 .. Len(got)
    BY <1>2 DEF DecodingInv
  <2>2. Len(got) = Len(ops) => dcdf = ecdf
    BY <1>2 DEF DecodingInv, Reading
  <2> QED
    BY <1>2, <2>1, <2>2 DEF DecodingInv, DecodedAsCoded
<1> QED
  BY <1>1, <1>2 DEF CoderInv

\* and the window is inside the interval.
LEMMA CoderInside == CoderInv => WindowInside
<1>1. ASSUME CodingInv PROVE WindowInside
  BY <1>1 DEF CodingInv, WindowInside
<1>2. ASSUME DecodingInv PROVE WindowInside
  <2>1. PICK h, v, b, x : Reading(h, v, b, x)
    BY <1>2 DEF DecodingInv
  <2> DEFINE n == Len(ops)
             g == Len(got)
             m == h[g]
  <2>2. g \in 0 .. n
    <3>1. g \in Nat /\ n \in Nat /\ g <= n
      BY <1>2 DEF DecodingInv
    <3> HIDE DEF g, n
    <3> QED
      BY <3>1
  <2>3. Marked(m) /\ Holds(m, x, x + 1)
    BY <2>1, <2>2 DEF Reading, Marks, Inside
  <2>4. Tile(data, v, b, x, Full * h[0].un) /\ Reader(dec, m, v, b, x, Len(data))
    BY <2>1 DEF Reading
  <2> HIDE DEF m
  <2>5. dec.dif < dec.rng * Two[Window - 16]
    BY <2>3, <2>4, ReaderInside
  <2> QED
    BY <2>5 DEF WindowInside
<1> QED
  BY <1>1, <1>2 DEF CoderInv

\* What the decoder reads is what the encoder was asked to write, value for value,
\* and at the end both sides' CDFs have adapted alike (MSACEncoder and MSAC).
THEOREM DecodesWhatWasCoded == Spec => []DecodedAsCoded
<1>1. Init => CoderInv
  BY CodingInit DEF CoderInv
<1>2. CoderInv /\ [Next]_vars => CoderInv'
  BY CoderNext
<1>3. CoderInv => DecodedAsCoded
  BY CoderReads
<1> QED
  BY <1>1, <1>2, <1>3, PTL DEF Spec

\* The decoder's window stays inside the interval it decodes: no subtraction of a
\* cut borrows, and a value is always found (the loops of internal/bitstream/msac.go).
THEOREM WindowStaysInside == Spec => []WindowInside
<1>1. Init => CoderInv
  BY CodingInit DEF CoderInv
<1>2. CoderInv /\ [Next]_vars => CoderInv'
  BY CoderNext
<1>3. CoderInv => WindowInside
  BY CoderInside
<1> QED
  BY <1>1, <1>2, <1>3, PTL DEF Spec

-----------------------------------------------------------------------------
(* Types, and the width of the registers.                                     *)

\* The coder, with a bounded number of operations, and no byte to read before Flush.
TypedInv ==
    /\ CoderInv
    /\ Len(ops) <= MaxOps
    /\ Coder(enc) /\ enc.buf \in Seq(Byte)
    /\ ~Flushed => dec = NewDecoder(<<>>)

\* While it codes, the encoder is one.
LEMMA CodingTyped ==
  ASSUME CodingInv
  PROVE  Coder(enc) /\ enc.buf \in Seq(Byte)
<1>1. PICK h : Encoding(h)
  BY DEF CodingInv
<1>2. Writes(enc, h[Len(ops)].lo, Full * h[0].un)
  BY <1>1 DEF Encoding
<1> QED
  BY <1>2 DEF Writes, Prefixes

\* It holds at the start,
LEMMA TypedInit == Init => TypedInv
<1> SUFFICES ASSUME Init PROVE TypedInv
  OBVIOUS
<1>1. CodingInv
  BY CodingInit
<1>2. Len(ops) = 0 /\ dec = NewDecoder(<<>>)
  BY DEF Init
<1>3. 0 <= MaxOps
  BY SizesAssumption
<1> QED
  BY <1>1, <1>2, <1>3, CodingTyped DEF TypedInv, CoderInv

\* and after every step.
LEMMA TypedNext ==
  ASSUME TypedInv, [Next]_vars
  PROVE  TypedInv'
<1>1. CoderInv'
  BY CoderNext DEF TypedInv
<1>2. ASSUME CodingInv'
      PROVE  Coder(enc)' /\ (enc.buf \in Seq(Byte))'
  <2>1. PICK h : Encoding(h)'
    BY <1>2 DEF CodingInv
  <2>2. Writes(enc', h[Len(ops')].lo, Full * h[0].un)
    BY <2>1 DEF Encoding
  <2> QED
    BY <2>2 DEF Writes, Prefixes
<1>3. ops \in Seq(Operation) /\ MaxOps \in Nat
  BY SizesAssumption DEF TypedInv, CoderInv, CodingInv, DecodingInv
<1>4. ASSUME NEW op, ops' = Append(ops, op), Len(ops) < MaxOps, data' = data, dec' = dec, ~Flushed
      PROVE  TypedInv'
  <2>1. Len(ops') <= MaxOps
    BY <1>3, <1>4
  <2>2. (~Flushed)'
    BY <1>4 DEF Flushed
  <2>3. CodingInv'
    BY <1>1, <2>2 DEF CoderInv, DecodingInv
  <2>4. dec' = NewDecoder(<<>>)
    BY <1>4 DEF TypedInv
  <2> QED
    BY <1>1, <1>2, <2>1, <2>3, <2>4 DEF TypedInv
<1>5. ASSUME ops' = ops, enc' = enc, Flushed' \/ (dec' = dec /\ data' = data)
      PROVE  TypedInv'
  <2>1. Len(ops') <= MaxOps /\ Coder(enc)' /\ (enc.buf \in Seq(Byte))'
    BY <1>5 DEF TypedInv
  <2>2. (~Flushed)' => dec' = NewDecoder(<<>>)
    BY <1>5 DEF TypedInv, Flushed
  <2> QED
    BY <1>1, <2>1, <2>2 DEF TypedInv
<1>6. ASSUME NEW val \in 0 .. 1, NEW f \in Probs, PutBool(val, f) PROVE TypedInv'
  BY <1>4, <1>6 DEF PutBool
<1>7. ASSUME NEW ctx \in DOMAIN Contexts, NEW val \in 0 .. 15, PutSymbol(val, ctx) PROVE TypedInv'
  BY <1>4, <1>7 DEF PutSymbol
<1>8. ASSUME FinishTile PROVE TypedInv'
  <2>1. CodingInv
    BY <1>8 DEF TypedInv, CoderInv, FinishTile, DecodingInv
  <2>2. Flushed'
    BY <1>8, <2>1, FinishReads DEF DecodingInv
  <2> QED
    BY <1>5, <1>8, <2>2 DEF FinishTile
<1>9. ASSUME GetBool PROVE TypedInv'
  BY <1>5, <1>9 DEF GetBool, Flushed
<1>10. ASSUME GetSymbol PROVE TypedInv'
  BY <1>5, <1>10 DEF GetSymbol, Flushed
<1>11. CASE UNCHANGED vars
  BY <1>5, <1>11 DEF vars
<1> QED
  BY <1>6, <1>7, <1>8, <1>9, <1>10, <1>11 DEF Next

\* A decoder of no bytes has none of them.
LEMMA EmptyDecoder ==
  LET d == NewDecoder(<<>>) IN d.pos = 0 /\ d.rng = 32768
<1> DEFINE d == [pos |-> 0, dif |-> 0, rng |-> 32768, cnt |-> -15]
           v == [i \in 0 .. 0 |-> 0]
           E == Window - 16 + 15
<1>1. d.pos = 0 /\ d.dif = 0 /\ d.rng = 32768 /\ d.cnt = -15
  OBVIOUS
<1>2. NewDecoder(<<>>) = Refill(d, <<>>)
  BY DEF NewDecoder
<1> HIDE DEF d
<1>3. Len(<<>>) = 0 /\ <<>> \in Seq(Byte)
  OBVIOUS
<1>4. Prefixes(<<>>, v) /\ v[0] = 0
  BY <1>3 DEF Prefixes
<1> HIDE DEF v
<1>5. E \in Nat /\ Two[E] \in Int /\ 0 < Two[E]
  <2>1. E \in Nat
    BY WindowBits
  <2> HIDE DEF E
  <2> QED
    BY <2>1, TwoType
<1>6. Asks(d, <<>>, v, 15, 1, 0)
  <2>1. 0 \in 0 .. 0 /\ 15 \in 1 .. 15 /\ 1 \in Int /\ 0 \in Int /\ 0 <= 0
    OBVIOUS
  <2>2. 0 = (1 - v[0] - 1) * Two[E] + 0
    <3> DEFINE e == Two[E]
    <3>1. e \in Int /\ 1 - v[0] - 1 = 0
      BY <1>4, <1>5
    <3> HIDE DEF e
    <3>2. 0 * e + 0 = 0
      BY <3>1
    <3> QED
      BY <3>1, <3>2 DEF e
  <2> QED
    BY <1>1, <1>3, <1>5, <2>1, <2>2 DEF Asks
<1>7. PICK k, left : Refilled(Refill(d, <<>>), d, v, 0, k, 15, 1, left)
  BY <1>3, <1>4, <1>6, RefillIs
<1>8. /\ d.pos + k \in 0 .. 0 /\ Refill(d, <<>>).pos = d.pos + k
      /\ Refill(d, <<>>).rng = d.rng
  BY <1>7 DEF Refilled
<1>9. \A i \in 0 .. 0 : i = 0
  OBVIOUS
<1>10. Refill(d, <<>>).pos = 0 /\ Refill(d, <<>>).rng = 32768
  BY <1>1, <1>8, <1>9
<1> QED
  BY <1>2, <1>10

\* A range between two values has 16 bits.
LEMMA RangesAre ==
  ASSUME NEW r \in Ranges
  PROVE  r \in NormalRange
BY DEF Ranges, NormalRange

\* In the invariant every variable has its type.
LEMMA TypedTypes == TypedInv => TypeOK
<1> SUFFICES ASSUME TypedInv PROVE TypeOK
  OBVIOUS
<1> DEFINE B == 0 .. 255
           R == NormalRange
           C == -9 .. 39
           V == 0 .. 16
<1>1. CoderInv /\ Len(ops) <= MaxOps /\ Coder(enc) /\ enc.buf \in Seq(Byte)
      /\ (~Flushed => dec = NewDecoder(<<>>))
  BY DEF TypedInv
<1>2. ops \in Seq(Operation)
  BY <1>1 DEF CoderInv, CodingInv, DecodingInv
<1>3. \A i \in DOMAIN ops : CodedValue(ops[i])
  <2> SUFFICES ASSUME NEW i \in DOMAIN ops PROVE CodedValue(ops[i])
    OBVIOUS
  <2>1. ops[i] \in Operation
    BY <1>2
  <2> QED
    BY <2>1 DEF Operation, CodedValue
<1>r. \A r \in Ranges : r \in R
  BY RangesAre
<1>b. Seq(Byte) = Seq(B)
  BY DEF Byte
<1>4. enc.buf \in Seq(B) /\ enc.rng \in R /\ enc.cnt \in C
  <2>1. enc.rng \in Ranges
    BY <1>1 DEF Coder
  <2>2. enc.cnt \in C
    <3> DEFINE c == enc.cnt
    <3>1. c \in Int /\ -9 <= c /\ c <= 39
      BY <1>1 DEF Coder
    <3> HIDE DEF c
    <3>2. c \in -9 .. 39
      BY <3>1
    <3> QED
      BY <3>2 DEF c
  <2> QED
    <3> HIDE DEF B, R, C
    <3> QED
      BY <1>1, <1>b, <1>r, <2>1, <2>2
<1>5. ASSUME CodingInv
      PROVE  /\ data \in Seq(B) /\ dec.pos \in 0 .. Len(data) /\ dec.rng \in R
             /\ got \in Seq(V) /\ Len(got) <= Len(ops)
  <2>1. data = <<>> /\ got = <<>> /\ dec = NewDecoder(<<>>)
    BY <1>1, <1>5 DEF CodingInv, Flushed
  <2>2. dec.pos = 0 /\ dec.rng = 32768
    BY <2>1, EmptyDecoder
  <2>3. Len(<<>>) = 0 /\ <<>> \in Seq(B) /\ <<>> \in Seq(V)
    OBVIOUS
  <2>4. 0 <= Len(ops)
    BY <1>2
  <2>5. 0 \in 0 .. 0 /\ 32768 \in R
    BY DEF NormalRange
  <2>6. dec.rng \in R
    BY <2>2, <2>5
  <2> HIDE DEF B, R, V
  <2>7. dec.pos \in 0 .. Len(data)
    BY <2>1, <2>2, <2>3, <2>5
  <2> QED
    BY <2>1, <2>3, <2>4, <2>6, <2>7
<1>6. ASSUME DecodingInv
      PROVE  /\ data \in Seq(B) /\ dec.pos \in 0 .. Len(data) /\ dec.rng \in R
             /\ got \in Seq(V) /\ Len(got) <= Len(ops)
  <2>1. PICK h, v, b, x : Reading(h, v, b, x)
    BY <1>6 DEF DecodingInv
  <2> DEFINE g == Len(got)
             n == Len(ops)
  <2>2. g \in Nat /\ n \in Nat /\ g <= n /\ got \in Seq(Int)
        /\ \A i \in 1 .. g : got[i] = ops[i].val
    BY <1>6 DEF DecodingInv
  <2>3. data \in Seq(B) /\ Len(data) \in Nat
    BY <2>1 DEF Reading, Tile, Prefixes, Byte
  <2>4. Reader(dec, h[g], v, b, x, Len(data)) /\ \A i \in 0 .. n : Marked(h[i])
    BY <2>1 DEF Reading, Marks
  <2>5. dec.pos \in 0 .. Len(data)
    <3>1. Len(data) \in 0 .. Len(data)
      BY <2>3
    <3> QED
      BY <2>4, <3>1 DEF Reader, Ahead, Past
  <2> HIDE DEF g, n
  <2>6. dec.rng \in R
    <3>1. g \in 0 .. n
      BY <2>2
    <3>2. dec.rng \in Ranges
      BY <2>4, <3>1, ReaderParts
    <3> HIDE DEF R
    <3> QED
      BY <3>2, <1>r
  <2>7. got \in Seq(V)
    <3>1. ASSUME NEW i \in 1 .. g PROVE got[i] \in V
      <4>1. i \in DOMAIN ops
        BY <1>2, <2>2 DEF n
      <4>2. got[i] \in 0 .. 15
        BY <1>3, <2>2, <4>1 DEF CodedValue
      <4>3. \A j \in 0 .. 15 : j \in V
        OBVIOUS
      <4> HIDE DEF V
      <4> QED
        BY <4>2, <4>3, Zenon
    <3>2. got = [i \in 1 .. g |-> got[i]]
      BY <2>2 DEF g
    <3> HIDE DEF V
    <3>3. got \in [1 .. g -> V]
      BY <3>1, <3>2
    <3> QED
      BY <2>2, <3>3
  <2>8. Len(got) <= Len(ops)
    BY <2>2 DEF g, n
  <2> HIDE DEF B, R, V
  <2> QED
    BY <2>3, <2>5, <2>6, <2>7, <2>8
<1>7. /\ data \in Seq(B) /\ dec.pos \in 0 .. Len(data) /\ dec.rng \in R
      /\ got \in Seq(V) /\ Len(got) <= Len(ops)
  <2> HIDE DEF B, R, V
  <2> QED
    BY <1>1, <1>5, <1>6 DEF CoderInv
<1>8. B = Byte /\ R = NormalRange /\ C = PendingBits /\ V = ReadValue
  BY DEF Byte, PendingBits, ReadValue
<1> HIDE DEF B, R, C, V
<1> QED
  BY <1>1, <1>3, <1>4, <1>7, <1>8 DEF TypeOK

\* Whatever is coded and however far it is read, every variable of both coders keeps
\* its type: bytes are bytes, both ranges have 16 bits, the count of pending bits stays
\* between -9 and 39, the position is in the tile, and every value read has 4 bits.
THEOREM RangeCoderTypes == Spec => []TypeOK
<1>1. Init => TypedInv
  BY TypedInit
<1>2. TypedInv /\ [Next]_vars => TypedInv'
  BY TypedNext
<1>3. TypedInv => TypeOK
  BY TypedTypes
<1> QED
  BY <1>1, <1>2, <1>3, PTL DEF Spec

\* low in its 64 bits, and dif in the window.
RegistersFit ==
    /\ 0 <= enc.low /\ enc.low + enc.rng <= Two[64]
    /\ Flushed => 0 <= dec.dif /\ dec.dif < Two[Window]

\* In the invariant nothing is lost at the top of a register.
LEMMA TypedFits == TypedInv => RegistersFit
<1> SUFFICES ASSUME TypedInv PROVE RegistersFit
  OBVIOUS
<1>1. 0 <= enc.low /\ enc.low + enc.rng <= Two[64]
  <2> DEFINE c == enc.cnt
             s == enc.low + enc.rng
  <2>1. /\ enc.low \in Int /\ 0 <= enc.low /\ enc.rng \in Int
        /\ c \in Int /\ -9 <= c /\ c <= 39 /\ s <= Two[c + 25]
    BY CoderParts DEF TypedInv
  <2>2. s \in Int
    BY <2>1
  <2> HIDE DEF c, s
  <2>3. c + 25 \in Nat /\ 64 \in Nat /\ c + 25 <= 64
    BY <2>1
  <2>4. Two[c + 25] <= Two[64] /\ Two[c + 25] \in Int /\ Two[64] \in Int
    BY <2>3, TwoMonotone, TwoType
  <2>5. s <= Two[64]
    BY <2>1, <2>2, <2>4
  <2> QED
    BY <2>1, <2>5 DEF s
<1>2. ASSUME Flushed PROVE 0 <= dec.dif /\ dec.dif < Two[Window]
  <2>1. DecodingInv
    BY <1>2 DEF TypedInv, CoderInv, CodingInv
  <2>2. PICK h, v, b, x : Reading(h, v, b, x)
    BY <2>1 DEF DecodingInv
  <2> DEFINE n == Len(ops)
             g == Len(got)
             m == h[g]
             M == Two[Window - 16]
  <2>3. g \in 0 .. n
    <3>1. g \in Nat /\ n \in Nat /\ g <= n
      BY <2>1 DEF DecodingInv
    <3> HIDE DEF g, n
    <3> QED
      BY <3>1
  <2>4. Marked(m) /\ Holds(m, x, x + 1)
    BY <2>2, <2>3 DEF Reading, Marks, Inside
  <2>5. Tile(data, v, b, x, Full * h[0].un) /\ Reader(dec, m, v, b, x, Len(data))
    BY <2>2 DEF Reading
  <2> HIDE DEF m
  <2>6. dec.rng \in Int /\ dec.rng < 65536 /\ dec.dif \in Int /\ dec.rng = m.rng
    BY <2>4, <2>5, ReaderParts DEF Reader
  <2>7. Cuts(dec, m, x, dec.rng)
    BY <2>4, <2>5, <2>6, ReaderBounds
  <2>8. x + 1 <= m.lo + dec.rng * m.un
    BY <2>4, <2>6 DEF Holds
  <2>9. M \in Int /\ 1 <= M
    BY WindowBits
  <2> DEFINE rng == dec.rng
  <2>10. (rng - rng) * M <= dec.dif /\ dec.dif < rng * M
    BY <2>4, <2>5, <2>7, <2>8, ReaderInside DEF Cuts
  <2>11. Two[Window] = 65536 * M
    <3>1. Window - 16 \in Nat /\ 16 \in Nat /\ (Window - 16) + 16 = Window
      BY WindowBits
    <3>2. Two[(Window - 16) + 16] = Two[Window - 16] * Two[16]
      BY <3>1, TwoSum
    <3>3. Two[16] = 65536
      <4>1. Two[15 + 1] = 2 * Two[15] /\ 15 + 1 = 16
        BY TwoStep, SMT
      <4> QED
        BY <4>1, PowersOfTwo, SMT
    <3> HIDE DEF M
    <3>4. Two[Window] = Two[Window - 16] * 65536
      BY <3>1, <3>2, <3>3
    <3>5. Two[Window - 16] \in Int
      BY WindowBits
    <3> QED
      BY <3>4, <3>5 DEF M
  <2> DEFINE dif == dec.dif
  <2>12. dif \in Int /\ rng \in Int /\ rng < 65536 /\ (rng - rng) * M <= dif /\ dif < rng * M
    BY <2>6, <2>10
  <2> HIDE DEF M, rng, dif
  <2>13. (rng - rng) * M = 0
    <3>1. rng - rng = 0 /\ 0 * M = 0
      BY <2>9, <2>12
    <3> QED
      BY <3>1
  <2>14. rng * M < 65536 * M
    BY <2>9, <2>12, ProductOrder
  <2> DEFINE a == rng * M
             z == 65536 * M
  <2>15. a \in Int /\ z \in Int
    BY <2>9, <2>12
  <2> HIDE DEF a, z
  <2>16. 0 <= dif /\ dif < z
    BY <2>12, <2>13, <2>14, <2>15 DEF a, z
  <2> QED
    BY <2>11, <2>16 DEF dif, z
<1> QED
  BY <1>1, <1>2 DEF RegistersFit

\* The 64-bit registers are wide enough: the encoder's low and the end of its interval
\* never pass 2^64 (MSACEncoder), and the decoder's dif never passes its window (MSAC).
THEOREM RegistersStayWide == Spec => []RegistersFit
<1>1. Init => TypedInv
  BY TypedInit
<1>2. TypedInv /\ [Next]_vars => TypedInv'
  BY TypedNext
<1>3. TypedInv => RegistersFit
  BY TypedFits
<1> QED
  BY <1>1, <1>2, <1>3, PTL DEF Spec
=============================================================================
