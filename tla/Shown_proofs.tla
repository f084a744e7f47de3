---------------------------- MODULE Shown_proofs ----------------------------
(***************************************************************************)
(* Theorems about what is computed from the rows and what is listed of     *)
(* them, Algorithms and Listings, for all values of their constants, and   *)
(* about the workspace that composes them.                                 *)
(***************************************************************************)
EXTENDS MCWorkspace, FiniteSetTheorems, SequenceTheorems, WellFoundedInduction, TLAPS

-----------------------------------------------------------------------------
(***************************************************************************)
(* Recursive functions.  The library's induction takes a property as an    *)
(* operator, which no prover here can instantiate; a set of the numbers    *)
(* that have the property does as well.  What a recursive function of the  *)
(* model computes follows once a function that takes the same steps is     *)
(* known to exist: the one CHOOSE takes is then such a function.           *)
(***************************************************************************)

(* Every set of natural numbers has a least element.                       *)
LEMMA LeastNatural ==
  ASSUME NEW S \in SUBSET Nat, S # {}
  PROVE  \E x \in S : \A y \in S : x <= y
<1> DEFINE R == OpToRel(<, Nat)
<1>1. IsWellFoundedOn(R, Nat)
  BY NatLessThanWellFounded
<1>2. PICK x \in S : \A y \in S : ~(<<y, x>> \in R)
  <2> HIDE DEF R
  <2> QED
    BY <1>1, WFMin
<1>3. \A y \in S : ~(y < x)
  BY <1>2 DEF OpToRel
<1> QED
  BY <1>3

(* Induction up to a bound, for a property given as a set.                 *)
LEMMA BoundedInduction ==
  ASSUME NEW k \in Nat, NEW S, 0 \in S, \A n \in 1 .. k : n - 1 \in S => n \in S
  PROVE  \A n \in 0 .. k : n \in S
<1> SUFFICES ASSUME (0 .. k) \ S # {} PROVE FALSE
  OBVIOUS
<1>1. PICK n \in (0 .. k) \ S : \A m \in (0 .. k) \ S : n <= m
  <2> DEFINE Rest == (0 .. k) \ S
  <2>1. Rest \subseteq Nat /\ Rest # {}
    OBVIOUS
  <2> HIDE DEF Rest
  <2>2. \E n \in Rest : \A m \in Rest : n <= m
    BY <2>1, LeastNatural
  <2> QED
    BY <2>2 DEF Rest
<1>2. n \in 1 .. k /\ n - 1 \in 0 .. k /\ ~(n <= n - 1)
  BY <1>1
<1> QED
  BY <1>1, <1>2

(* A function given by a first value and a step from each value to the     *)
(* next one exists, and so does one each of whose values is found from     *)
(* those before it.                                                        *)
Steps(k, S) == [1 .. k -> [S -> S]]

Iterates(g, k, S, first, step) ==
  g \in [0 .. k -> S] /\ g[0] = first /\ \A n \in 1 .. k : g[n] = step[n][g[n - 1]]

Rules(k, S) == [1 .. k -> [UNION {[1 .. n -> S] : n \in 0 .. k} -> S]]

Follows(g, k, S, rule) ==
  g \in [1 .. k -> S] /\ \A n \in 1 .. k : g[n] = rule[n][[j \in 1 .. n - 1 |-> g[j]]]

LEMMA StepByStep ==
  ASSUME NEW k \in Nat, NEW S, NEW first \in S, NEW step \in Steps(k, S)
  PROVE  \E g : Iterates(g, k, S, first, step)
<1> USE DEF Steps
<1> DEFINE Upto(m, g) == g[0] = first /\ \A n \in 1 .. m : g[n] = step[n][g[n - 1]]
           Good == {m \in 0 .. k : \E g \in [0 .. m -> S] : Upto(m, g)}
<1>1. 0 \in Good
  <2> DEFINE g == [n \in 0 .. 0 |-> first]
  <2>1. g \in [0 .. 0 -> S] /\ Upto(0, g)
    OBVIOUS
  <2> HIDE DEF g
  <2> QED
    BY <2>1
<1>2. ASSUME NEW m \in 1 .. k, m - 1 \in Good PROVE m \in Good
  <2>1. PICK g \in [0 .. m - 1 -> S] : Upto(m - 1, g)
    BY <1>2
  <2> DEFINE h == [n \in 0 .. m |-> IF n = m THEN step[m][g[m - 1]] ELSE g[n]]
  <2>2. h \in [0 .. m -> S]
    <3>1. \A n \in 0 .. m : n # m => n \in 0 .. m - 1
      OBVIOUS
    <3>2. step[m][g[m - 1]] \in S
      OBVIOUS
    <3> QED
      BY <3>1, <3>2
  <2>3. h[0] = first
    BY <2>1
  <2>4. ASSUME NEW n \in 1 .. m PROVE h[n] = step[n][h[n - 1]]
    <3>1. n - 1 \in 0 .. m - 1 /\ h[n - 1] = g[n - 1]
      OBVIOUS
    <3>2. CASE n = m
      BY <3>1, <3>2
    <3>3. CASE n # m
      <4>1. n \in 1 .. m - 1 /\ h[n] = g[n]
        BY <3>3
      <4> QED
        BY <2>1, <3>1, <4>1
    <3> QED
      BY <3>2, <3>3
  <2> HIDE DEF h
  <2> QED
    BY <2>2, <2>3, <2>4
<1>3. k \in Good
  <2> HIDE DEF Good
  <2>1. \A n \in 0 .. k : n \in Good
    BY <1>1, <1>2, BoundedInduction
  <2> QED
    BY <2>1
<1> QED
  BY <1>3 DEF Iterates

LEMMA FromEarlier ==
  ASSUME NEW k \in Nat, NEW S, NEW rule \in Rules(k, S)
  PROVE  \E g : Follows(g, k, S, rule)
<1> USE DEF Rules
<1> DEFINE Upto(m, g) == \A n \in 1 .. m : g[n] = rule[n][[j \in 1 .. n - 1 |-> g[j]]]
           Good == {m \in 0 .. k : \E g \in [1 .. m -> S] : Upto(m, g)}
<1>1. 0 \in Good
  <2> DEFINE g == [n \in 1 .. 0 |-> CHOOSE s \in S : TRUE]
  <2>1. g \in [1 .. 0 -> S]
    OBVIOUS
  <2>2. \A n \in 1 .. 0 : g[n] = rule[n][[j \in 1 .. n - 1 |-> g[j]]]
    OBVIOUS
  <2> HIDE DEF g
  <2>3. \E f \in [1 .. 0 -> S] : Upto(0, f)
    BY <2>1, <2>2
  <2>4. 0 \in 0 .. k
    OBVIOUS
  <2> HIDE DEF Upto
  <2> QED
    BY <2>3, <2>4
<1>2. ASSUME NEW m \in 1 .. k, m - 1 \in Good PROVE m \in Good
  <2>1. PICK g \in [1 .. m - 1 -> S] : Upto(m - 1, g)
    BY <1>2
  <2> DEFINE new == rule[m][g]
             h == [n \in 1 .. m |-> IF n = m THEN new ELSE g[n]]
  <2>2. new \in S
    <3>1. g \in UNION {[1 .. n -> S] : n \in 0 .. k}
      <4>1. m - 1 \in 0 .. k
        OBVIOUS
      <4> QED
        BY <4>1
    <3>2. rule[m] \in [UNION {[1 .. n -> S] : n \in 0 .. k} -> S]
      OBVIOUS
    <3> QED
      BY <3>1, <3>2
  <2>3. h \in [1 .. m -> S]
    <3>1. \A n \in 1 .. m : n # m => n \in 1 .. m - 1
      OBVIOUS
    <3> QED
      BY <2>2, <3>1
  <2>4. ASSUME NEW n \in 1 .. m PROVE h[n] = rule[n][[j \in 1 .. n - 1 |-> h[j]]]
    <3>1. [j \in 1 .. n - 1 |-> h[j]] = [j \in 1 .. n - 1 |-> g[j]]
      OBVIOUS
    <3>2. CASE n = m
      <4>1. [j \in 1 .. n - 1 |-> g[j]] = g
        BY <3>2
      <4>2. h[n] = rule[n][g]
        BY <3>2
      <4> HIDE DEF h
      <4> QED
        BY <3>1, <4>1, <4>2
    <3>3. CASE n # m
      <4>1. n \in 1 .. m - 1 /\ h[n] = g[n]
        BY <3>3
      <4> QED
        BY <2>1, <3>1, <4>1
    <3> QED
      BY <3>2, <3>3
  <2> HIDE DEF h
  <2> QED
    BY <2>3, <2>4
<1>3. k \in Good
  <2> HIDE DEF Good
  <2>1. \A n \in 0 .. k : n \in Good
    BY <1>1, <1>2, BoundedInduction
  <2> QED
    BY <2>1
<1> QED
  BY <1>3 DEF Follows

(* A total is reached by adding one weight after the other.                *)
LEMMA TotalIs ==
  ASSUME NEW w \in Seq(Int)
  PROVE  \E sum \in [0 .. Len(w) -> Int] :
           /\ sum[0] = 0
           /\ \A n \in 1 .. Len(w) : sum[n] = sum[n - 1] + w[n]
           /\ Total(w) = sum[Len(w)]
<1> DEFINE k == Len(w)
           step == [n \in 1 .. k |-> [s \in Int |-> s + w[n]]]
           Sums(g) == g = [n \in 0 .. k |-> IF n = 0 THEN 0 ELSE g[n - 1] + w[n]]
           sum == CHOOSE g : Sums(g)
<1>1. k \in Nat /\ \A n \in 1 .. k : w[n] \in Int
  OBVIOUS
<1>2. PICK g \in [0 .. k -> Int] : g[0] = 0 /\ \A n \in 1 .. k : g[n] = step[n][g[n - 1]]
  <2> DEFINE Z == Int
             zero == 0
  <2>1. zero \in Z /\ step \in Steps(k, Z)
    BY <1>1 DEF Steps
  <2> HIDE DEF step, k, Z, zero
  <2>2. \E g : Iterates(g, k, Z, zero, step)
    BY <1>1, <2>1, StepByStep
  <2> QED
    BY <2>2 DEF Iterates, Z, zero
<1>3. Sums(g)
  <2> HIDE DEF k
  <2>1. ASSUME NEW n \in 1 .. k PROVE g[n] = g[n - 1] + w[n]
    <3>1. n - 1 \in 0 .. k /\ g[n - 1] \in Int
      BY <1>1
    <3> QED
      BY <1>2, <3>1
  <2> HIDE DEF step
  <2>2. \A n \in 0 .. k : g[n] = IF n = 0 THEN 0 ELSE g[n - 1] + w[n]
    BY <1>2, <2>1
  <2> QED
    BY <2>2
<1>4. Sums(sum)
  <2> HIDE DEF Sums
  <2> QED
    BY <1>3
<1>5. Total(w) = sum[k]
  BY DEF Total
<1> HIDE DEF k, step, sum
<1>6. \A n \in 1 .. k : n \in 0 .. k /\ n - 1 \in 0 .. k /\ n # 0
  BY <1>1
<1>7. sum[0] = 0 /\ \A n \in 1 .. k : sum[n] = sum[n - 1] + w[n]
  BY <1>1, <1>4, <1>6
<1>8. \A n \in 0 .. k : sum[n] \in Int
  <2> DEFINE Typed == {n \in 0 .. k : sum[n] \in Int}
  <2>1. 0 \in Typed
    BY <1>1, <1>7
  <2>2. ASSUME NEW n \in 1 .. k, n - 1 \in Typed PROVE n \in Typed
    <3>1. sum[n] = sum[n - 1] + w[n] /\ sum[n - 1] \in Int /\ w[n] \in Int
      BY <1>1, <1>7, <2>2
    <3> QED
      BY <1>6, <3>1
  <2> HIDE DEF Typed
  <2>3. \A n \in 0 .. k : n \in Typed
    BY <1>1, <2>1, <2>2, BoundedInduction
  <2> QED
    BY <2>3 DEF Typed
<1>9. sum \in [0 .. k -> Int]
  BY <1>4, <1>8
<1> QED
  BY <1>5, <1>7, <1>9 DEF k

(* A finite set that a relation orders strictly and totally is laid out in *)
(* that order by counting, for every element, those ahead of it.           *)
Orders(R, S) ==
  /\ \A x \in S : <<x, x>> \notin R
  /\ \A x, y, z \in S : <<x, y>> \in R /\ <<y, z>> \in R => <<x, z>> \in R
  /\ \A x, y \in S : x # y => <<x, y>> \in R \/ <<y, x>> \in R

Ahead(R, S, x) == {y \in S : <<y, x>> \in R}

Rank(R, S) == [x \in S |-> Cardinality(Ahead(R, S, x))]

Arranged(R, S) == [i \in 1 .. Cardinality(S) |-> CHOOSE x \in S : Cardinality(Ahead(R, S, x)) = i - 1]

LEMMA RankIs ==
  ASSUME NEW S, IsFiniteSet(S), NEW R, Orders(R, S)
  PROVE  /\ Cardinality(S) \in Nat
         /\ \A x \in S : Rank(R, S)[x] \in 0 .. Cardinality(S) - 1
         /\ \A x, y \in S : <<x, y>> \in R <=> Rank(R, S)[x] < Rank(R, S)[y]
         /\ \A x, y \in S : Rank(R, S)[x] = Rank(R, S)[y] => x = y
         /\ \A i \in 0 .. Cardinality(S) - 1 : \E x \in S : Rank(R, S)[x] = i
<1> DEFINE n == Cardinality(S)
           ahead(x) == Ahead(R, S, x)
           rank == Rank(R, S)
<1>1. n \in Nat
  BY FS_CardinalityType
<1>2. ASSUME NEW x \in S PROVE IsFiniteSet(ahead(x)) /\ rank[x] = Cardinality(ahead(x)) /\ rank[x] \in 0 .. n - 1
  <2>1. ahead(x) \subseteq S /\ ahead(x) # S
    BY DEF Ahead, Orders
  <2>2. rank[x] = Cardinality(ahead(x))
    BY DEF Rank
  <2>3. IsFiniteSet(ahead(x)) /\ Cardinality(ahead(x)) \in Nat /\ Cardinality(ahead(x)) <= n
        /\ Cardinality(ahead(x)) # n
    <3> HIDE DEF ahead
    <3> QED
      BY <2>1, FS_Subset, FS_CardinalityType
  <2> QED
    BY <1>1, <2>2, <2>3
<1>3. ASSUME NEW x \in S, NEW y \in S, <<x, y>> \in R PROVE rank[x] < rank[y]
  <2>1. ahead(x) \subseteq ahead(y) /\ x \in ahead(y) /\ x \notin ahead(x)
    BY <1>3 DEF Orders, Ahead
  <2>2. IsFiniteSet(ahead(y)) /\ IsFiniteSet(ahead(x))
    BY <1>2
  <2>3. Cardinality(ahead(x)) <= Cardinality(ahead(y)) /\ Cardinality(ahead(x)) # Cardinality(ahead(y))
    <3> HIDE DEF ahead
    <3> QED
      BY <2>1, <2>2, FS_Subset
  <2>4. /\ rank[x] = Cardinality(ahead(x)) /\ rank[y] = Cardinality(ahead(y))
        /\ rank[x] \in 0 .. n - 1 /\ rank[y] \in 0 .. n - 1
    BY <1>2
  <2> HIDE DEF rank, ahead, n
  <2> QED
    BY <1>1, <2>3, <2>4
<1>4. \A x, y \in S : rank[x] < rank[y] => <<x, y>> \in R
  <2> SUFFICES ASSUME NEW x \in S, NEW y \in S, rank[x] < rank[y], <<x, y>> \notin R PROVE FALSE
    OBVIOUS
  <2>1. x = y \/ rank[y] < rank[x]
    BY <1>3 DEF Orders
  <2>2. rank[x] \in 0 .. n - 1 /\ rank[y] \in 0 .. n - 1
    BY <1>2
  <2> HIDE DEF rank, n
  <2> QED
    BY <1>1, <2>1, <2>2
<1>5. \A x, y \in S : rank[x] = rank[y] => x = y
  <2> SUFFICES ASSUME NEW x \in S, NEW y \in S, rank[x] = rank[y], x # y PROVE FALSE
    OBVIOUS
  <2>1. rank[x] < rank[y] \/ rank[y] < rank[x]
    BY <1>3 DEF Orders
  <2>2. rank[x] \in 0 .. n - 1 /\ rank[y] \in 0 .. n - 1
    BY <1>2
  <2> HIDE DEF rank, n
  <2> QED
    BY <1>1, <2>1, <2>2
<1>6. \A i \in 0 .. n - 1 : \E x \in S : rank[x] = i
  <2> DEFINE taken == {rank[x] : x \in S}
  <2>1. taken \subseteq 0 .. n - 1
    BY <1>2
  <2>2. IsFiniteSet(0 .. n - 1) /\ Cardinality(0 .. n - 1) = n
    BY <1>1, FS_Interval
  <2>3. IsFiniteSet(taken) /\ Cardinality(taken) = n
    <3>1. rank \in [S -> taken] /\ \A t \in taken : \E x \in S : rank[x] = t
      BY DEF Rank
    <3> HIDE DEF rank, taken
    <3>2. rank \in Surjection(S, taken) /\ rank \in Injection(S, taken)
      BY <3>1, <1>5 DEF Injection, Surjection, IsInjective
    <3> QED
      BY <1>1, <3>2, FS_Surjection
  <2>4. taken = 0 .. n - 1
    <3> HIDE DEF taken
    <3> QED
      BY <2>1, <2>2, <2>3, FS_Subset
  <2> HIDE DEF rank
  <2> QED
    BY <2>4
<1> QED
  BY <1>1, <1>2, <1>3, <1>4, <1>5, <1>6

LEMMA ArrangedIs ==
  ASSUME NEW S, IsFiniteSet(S), NEW R, Orders(R, S)
  PROVE  LET n == Cardinality(S) IN
         /\ n \in Nat
         /\ Arranged(R, S) \in [1 .. n -> S]
         /\ \A i, j \in 1 .. n : i < j => <<Arranged(R, S)[i], Arranged(R, S)[j]>> \in R
         /\ \A x \in S : \E i \in 1 .. n : Arranged(R, S)[i] = x
<1> DEFINE n == Cardinality(S)
           rank == Rank(R, S)
           laid == Arranged(R, S)
<1>1. /\ n \in Nat /\ \A x \in S : rank[x] \in 0 .. n - 1
      /\ \A x, y \in S : <<x, y>> \in R <=> rank[x] < rank[y]
      /\ \A x, y \in S : rank[x] = rank[y] => x = y
      /\ \A i \in 0 .. n - 1 : \E x \in S : rank[x] = i
  BY RankIs
<1>2. ASSUME NEW i \in 1 .. n PROVE laid[i] \in S /\ rank[laid[i]] = i - 1
  <2>1. i - 1 \in 0 .. n - 1
    BY <1>1
  <2>2. \E x \in S : rank[x] = i - 1
    BY <1>1, <2>1
  <2>3. \A x \in S : rank[x] = Cardinality(Ahead(R, S, x))
    BY DEF Rank
  <2>4. laid[i] = CHOOSE x \in S : Cardinality(Ahead(R, S, x)) = i - 1
    BY DEF Arranged
  <2> HIDE DEF rank, laid
  <2>5. \E x \in S : Cardinality(Ahead(R, S, x)) = i - 1
    BY <2>2, <2>3
  <2>6. laid[i] \in S /\ Cardinality(Ahead(R, S, laid[i])) = i - 1
    BY <2>4, <2>5
  <2> QED
    BY <2>3, <2>6
<1>3. laid \in [1 .. n -> S]
  BY <1>2 DEF Arranged
<1>4. ASSUME NEW i \in 1 .. n, NEW j \in 1 .. n, i < j PROVE <<laid[i], laid[j]>> \in R
  <2>1. laid[i] \in S /\ laid[j] \in S /\ rank[laid[i]] < rank[laid[j]]
    BY <1>1, <1>2, <1>4
  <2> QED
    BY <1>1, <2>1
<1>5. ASSUME NEW x \in S PROVE \E i \in 1 .. n : laid[i] = x
  <2>1. rank[x] \in 0 .. n - 1
    BY <1>1
  <2> DEFINE i == rank[x] + 1
  <2> HIDE DEF rank, laid
  <2>2. i \in 1 .. n /\ i - 1 = rank[x]
    BY <1>1, <2>1
  <2>3. laid[i] \in S /\ rank[laid[i]] = rank[x]
    BY <2>2, <1>2
  <2>4. laid[i] = x
    BY <1>1, <2>3
  <2> QED
    BY <2>2, <2>4
<1> QED
  BY <1>1, <1>3, <1>4, <1>5

-----------------------------------------------------------------------------
(* Budget lines: rounding is symmetric.                                    *)
LEMMA RoundsAlike ==
  ASSUME NEW n \in Int, NEW d \in Nat \ {0}
  PROVE  /\ DivideHalfAwayFromZero(n, d) \in Int
         /\ DivideHalfAwayFromZero(-n, d) = -DivideHalfAwayFromZero(n, d)
<1> DEFINE half == d \div 2
           rounded == (Abs(n) + half) \div d
<1>1. half \in Nat /\ Abs(n) \in Nat /\ Abs(-n) = Abs(n)
  BY DEF Abs
<1>2. Abs(n) + half \in Nat
  <2> HIDE DEF half
  <2> QED
    BY <1>1
<1>3. rounded \in Int
  <2> HIDE DEF half
  <2> QED
    BY <1>2
<1>4. n = 0 => rounded = 0
  <2>1. half < d
    OBVIOUS
  <2> QED
    BY <1>1, <2>1 DEF Abs
<1>5. /\ DivideHalfAwayFromZero(n, d) = IF n < 0 THEN -rounded ELSE rounded
      /\ DivideHalfAwayFromZero(-n, d) = IF -n < 0 THEN -rounded ELSE rounded
  BY <1>1 DEF DivideHalfAwayFromZero
<1> HIDE DEF rounded
<1> QED
  BY <1>3, <1>4, <1>5

LEMMA PointsAlike ==
  ASSUME NEW amount \in Int, NEW bps \in Nat
  PROVE  /\ ApplyBasisPoints(amount, bps) \in Int
         /\ ApplyBasisPoints(-amount, bps) = -ApplyBasisPoints(amount, bps)
<1>1. amount * bps \in Int /\ (-amount) * bps = -(amount * bps)
  OBVIOUS
<1> QED
  BY <1>1, RoundsAlike DEF ApplyBasisPoints

(* The line that takes a charge back is its negative: every amount it      *)
(* rounds is the negative of the one the charge rounds.                    *)
LEMMA LineIsReversed ==
  ASSUME NEW line \in [rate : Int, quantity : Nat, duration : Nat, fringe : Nat, tax : Nat, markup : Nat]
  PROVE  CalculateBudgetLine([line EXCEPT !.rate = -@]) = -CalculateBudgetLine(line)
<1> DEFINE back == [line EXCEPT !.rate = -@]
           subtotal(l) == DivideHalfAwayFromZero(l.rate * l.quantity * l.duration, 1000000)
           taxable(l) == subtotal(l) + ApplyBasisPoints(subtotal(l), l.fringe)
<1>1. /\ back.rate = -line.rate /\ back.quantity = line.quantity /\ back.duration = line.duration
      /\ back.fringe = line.fringe /\ back.tax = line.tax /\ back.markup = line.markup
  OBVIOUS
<1>2. /\ line.rate \in Int /\ line.quantity \in Nat /\ line.duration \in Nat
      /\ line.fringe \in Nat /\ line.tax \in Nat /\ line.markup \in Nat
  OBVIOUS
<1>3. subtotal(line) \in Int /\ subtotal(back) = -subtotal(line)
  <2> DEFINE charge == line.rate * line.quantity * line.duration
  <2>1. charge \in Int /\ back.rate * back.quantity * back.duration = -charge
    <3>1. \A r \in Int, q \in Nat, t \in Nat : r * q * t \in Int /\ (-r) * q * t = -(r * q * t)
      OBVIOUS
    <3> HIDE DEF back
    <3> QED
      BY <1>1, <1>2, <3>1
  <2> HIDE DEF charge, back
  <2> QED
    BY <2>1, RoundsAlike DEF charge
<1> HIDE DEF subtotal, back
<1>4. taxable(line) \in Int /\ taxable(back) = -taxable(line)
  <2>1. \A l : taxable(l) = subtotal(l) + ApplyBasisPoints(subtotal(l), l.fringe)
    OBVIOUS
  <2>2. /\ ApplyBasisPoints(subtotal(line), line.fringe) \in Int
        /\ ApplyBasisPoints(-subtotal(line), line.fringe) = -ApplyBasisPoints(subtotal(line), line.fringe)
    BY <1>2, <1>3, PointsAlike
  <2>3. ApplyBasisPoints(subtotal(back), back.fringe) = -ApplyBasisPoints(subtotal(line), line.fringe)
    BY <1>1, <1>3, <2>2
  <2> HIDE DEF taxable
  <2> QED
    BY <1>3, <2>1, <2>2, <2>3
<1>5. \A l : CalculateBudgetLine(l) = taxable(l) + ApplyBasisPoints(taxable(l), l.tax)
                                      + ApplyBasisPoints(taxable(l), l.markup)
  BY DEF CalculateBudgetLine, subtotal
<1> HIDE DEF taxable
<1>6. /\ ApplyBasisPoints(taxable(line), line.tax) \in Int
      /\ ApplyBasisPoints(taxable(back), back.tax) = -ApplyBasisPoints(taxable(line), line.tax)
      /\ ApplyBasisPoints(taxable(line), line.markup) \in Int
      /\ ApplyBasisPoints(taxable(back), back.markup) = -ApplyBasisPoints(taxable(line), line.markup)
  BY <1>1, <1>2, <1>4, PointsAlike
<1>7. CalculateBudgetLine(back) = -CalculateBudgetLine(line)
  BY <1>4, <1>5, <1>6
<1> QED
  BY <1>7 DEF back

-----------------------------------------------------------------------------
(* Merges.                                                                 *)

(* Dropping what was there before keeps every value, once.                 *)
LEMMA FirstOnesAreAll ==
  ASSUME NEW T, NEW s \in Seq(T),
         NEW First, First = {i \in DOMAIN s : \A j \in 1 .. i - 1 : s[j] # s[i]}
  PROVE  /\ {s[i] : i \in First} = Range(s)
         /\ Len(s) = Cardinality({s[i] : i \in First}) + Cardinality(DOMAIN s \ First)
<1> DEFINE n == Len(s)
           value == [i \in First |-> s[i]]
           Values == {s[i] : i \in First}
<1>1. n \in Nat /\ DOMAIN s = 1 .. n /\ First \subseteq 1 .. n
  OBVIOUS
<1>2. ASSUME NEW i \in 1 .. n PROVE \E k \in First : s[k] = s[i]
  <2> DEFINE Same == {j \in 1 .. n : s[j] = s[i]}
  <2>1. Same \subseteq Nat /\ Same # {}
    BY <1>1
  <2>2. PICK k \in Same : \A j \in Same : k <= j
    <3> HIDE DEF Same
    <3> QED
      BY <2>1, LeastNatural
  <2>3. ASSUME NEW j \in 1 .. k - 1 PROVE s[j] # s[k]
    <3>1. j \in 1 .. n /\ ~(k <= j)
      BY <1>1, <2>2
    <3> QED
      BY <2>2, <3>1
  <2> QED
    BY <1>1, <2>2, <2>3
<1>3. Values = Range(s)
  BY <1>1, <1>2 DEF Range
<1>4. ASSUME NEW i \in First, NEW j \in First, s[i] = s[j] PROVE i = j
  <2>1. i \in 1 .. n /\ j \in 1 .. n /\ ~(i \in 1 .. j - 1) /\ ~(j \in 1 .. i - 1)
    BY <1>1, <1>4
  <2> QED
    BY <1>1, <2>1
<1>5. value \in Surjection(First, Values) /\ value \in Injection(First, Values)
  <2>1. value \in [First -> Values] /\ \A v \in Values : \E i \in First : value[i] = v
    OBVIOUS
  <2>2. \A i, j \in First : value[i] = value[j] => i = j
    BY <1>4
  <2> HIDE DEF value, Values
  <2> QED
    BY <2>1, <2>2 DEF Surjection, Injection, IsInjective
<1>6. IsFiniteSet(1 .. n) /\ Cardinality(1 .. n) = n
  BY <1>1, FS_Interval
<1>7. IsFiniteSet(First) /\ Cardinality((1 .. n) \ First) = n - Cardinality(First)
  <2> DEFINE All == 1 .. n
  <2>1. All \cap First = First /\ First \subseteq All
    BY <1>1
  <2>2. IsFiniteSet(All) /\ Cardinality(All) = n
    BY <1>6
  <2> HIDE DEF All
  <2>3. IsFiniteSet(First)
    BY <2>1, <2>2, FS_Subset
  <2>4. Cardinality(All \ First) = Cardinality(All) - Cardinality(All \cap First)
    BY <2>2, FS_Difference
  <2> QED
    BY <2>1, <2>2, <2>3, <2>4 DEF All
<1>8. Cardinality(Values) = Cardinality(First) /\ Cardinality(First) \in Nat
  <2> HIDE DEF value, Values
  <2> QED
    BY <1>5, <1>7, FS_Surjection, FS_CardinalityType
<1> HIDE DEF Values
<1>9. n = Cardinality(Values) + Cardinality((1 .. n) \ First)
  BY <1>1, <1>7, <1>8
<1> QED
  BY <1>1, <1>3, <1>9 DEF Values

(* What a merge answers: redirected references, each once, and a target    *)
(* that stays.                                                             *)
LEMMA MergeIsSound ==
  ASSUME NEW merge \in Merges,
         NEW result, result = ApplyElementMerge(merge, PreviewElementMerge(merge)), result # Refused
  PROVE  LET survivor(e) == IF e \in merge.sources THEN merge.target ELSE e IN
         /\ result.references =
              {[by |-> r.by, element |-> survivor(r.element)] : r \in Range(merge.references)}
         /\ Len(merge.references) = Cardinality(result.references) + result.removed
         /\ merge.target \notin result.archived
<1> DEFINE survivor(e) == IF e \in merge.sources THEN merge.target ELSE e
           old == merge.references
           moved == [i \in DOMAIN old |-> Redirected(merge, old[i])]
           first(i) == \A j \in 1 .. i - 1 : moved[j] # moved[i]
           First == {i \in DOMAIN moved : first(i)}
           kept == {moved[i] : i \in First}
           dropped == Cardinality({i \in DOMAIN moved : ~first(i)})
           archived == merge.archived \cup merge.sources
           preview == PreviewElementMerge(merge)
<1>1. /\ old \in Seq(Range(old))
      /\ \A i \in DOMAIN old : old[i] = [by |-> old[i].by, element |-> old[i].element]
  BY AlgorithmsAssumption DEF AlgorithmsAssumption
<1>2. preview # Refused /\ result = [references |-> preview.references, removed |-> preview.removed,
                                     archived |-> archived]
  <2>1. result = ApplyElementMerge(merge, preview)
    OBVIOUS
  <2> HIDE DEF preview
  <2> QED
    BY <2>1 DEF ApplyElementMerge
<1>3. merge.target \notin archived
  BY <1>2 DEF PreviewElementMerge
<1>4. preview = [references |-> kept, removed |-> dropped]
  BY <1>2 DEF PreviewElementMerge
<1>5. result.references = kept /\ result.removed = dropped /\ result.archived = archived
  <2> HIDE DEF kept, dropped, archived, preview
  <2> QED
    BY <1>2, <1>4
<1>6. ASSUME NEW i \in DOMAIN old
      PROVE  moved[i] = [by |-> old[i].by, element |-> survivor(old[i].element)]
  <2> DEFINE r == [by |-> old[i].by, element |-> old[i].element]
  <2>1. Redirected(merge, r) = [by |-> old[i].by, element |-> survivor(old[i].element)]
    BY DEF Redirected
  <2>2. old[i] = r
    BY <1>1
  <2> QED
    BY <2>1, <2>2
<1>7. /\ DOMAIN old = 1 .. Len(old) /\ Len(old) \in Nat /\ DOMAIN moved = 1 .. Len(old)
      /\ moved \in Seq(Range(moved)) /\ Len(moved) = Len(old)
  <2>1. DOMAIN old = 1 .. Len(old) /\ Len(old) \in Nat
    BY <1>1
  <2>2. DOMAIN moved = 1 .. Len(old) /\ moved \in [1 .. Len(old) -> Range(moved)]
    BY <2>1 DEF Range
  <2> HIDE DEF moved
  <2> QED
    BY <2>1, <2>2, SeqDef, LenProperties
<1>8. First = {i \in DOMAIN moved : \A j \in 1 .. i - 1 : moved[j] # moved[i]}
  OBVIOUS
<1>9. {i \in DOMAIN moved : ~first(i)} = DOMAIN moved \ First
  OBVIOUS
<1>10. kept = Range(moved) /\ Len(moved) = Cardinality(kept) + Cardinality(DOMAIN moved \ First)
  <2> HIDE DEF moved, First
  <2> QED
    BY <1>7, <1>8, FirstOnesAreAll
<1>11. Range(moved) = {[by |-> r.by, element |-> survivor(r.element)] : r \in Range(old)}
  <2> DEFINE to(r) == [by |-> r.by, element |-> survivor(r.element)]
  <2>1. Range(moved) = {moved[i] : i \in DOMAIN old} /\ Range(old) = {old[i] : i \in DOMAIN old}
    BY DEF Range
  <2>2. \A i \in DOMAIN old : moved[i] = to(old[i])
    BY <1>6
  <2> HIDE DEF moved, to, old
  <2>3. Range(moved) = {to(r) : r \in Range(old)}
    BY <2>1, <2>2
  <2> QED
    BY <2>3 DEF to
<1>12. Len(old) = Cardinality(kept) + dropped
  BY <1>7, <1>9, <1>10
<1> HIDE DEF moved, First, first, kept, dropped, archived
<1> QED
  BY <1>3, <1>5, <1>10, <1>11, <1>12

-----------------------------------------------------------------------------
(* Division.                                                               *)
LEMMA DivisionIs ==
  ASSUME NEW a \in Int, NEW d \in Nat \ {0}
  PROVE  /\ a \div d \in Int /\ a % d \in 0 .. d - 1 /\ a = d * (a \div d) + (a % d)
         /\ a \in Nat => a \div d \in Nat
OBVIOUS

(* They are the only quotient and remainder.                               *)
LEMMA QuotientIs ==
  ASSUME NEW a \in Int, NEW d \in Nat \ {0}, NEW q \in Int, NEW r \in 0 .. d - 1, a = d * q + r
  PROVE  a \div d = q /\ a % d = r
<1> DEFINE p == a \div d
           s == a % d
<1>1. p \in Int /\ s \in 0 .. d - 1 /\ a = d * p + s
  BY DivisionIs
<1> HIDE DEF p, s
<1>2. d * (p - q) = r - s
  BY <1>1
<1>3. p = q
  <2>1. p - q >= 1 => d * (p - q) >= d
    BY <1>1
  <2>2. p - q <= -1 => d * (p - q) <= -d
    BY <1>1
  <2>3. r - s < d /\ r - s > -d
    BY <1>1
  <2> QED
    BY <1>1, <1>2, <2>1, <2>2, <2>3
<1>4. r = s
  BY <1>1, <1>2, <1>3
<1> QED
  BY <1>3, <1>4 DEF p, s

-----------------------------------------------------------------------------
(* Totals.                                                                 *)
LEMMA RowIs ==
  ASSUME NEW T, NEW k \in Nat, NEW f \in [1 .. k -> T]
  PROVE  f \in Seq(T) /\ Len(f) = k /\ DOMAIN f = 1 .. k
BY SeqDef, LenProperties

(* Totals are linear and monotone.                                         *)
Added(k, w, u, v) == \A i \in 1 .. k : w[i] = u[i] + v[i]

Scaled(k, w, p, u) == \A i \in 1 .. k : w[i] = p * u[i]

(* Totals are sums: they add up, scale, grow with their rows, and count    *)
(* ones.                                                                   *)
LEMMA TotalsAdd ==
  ASSUME NEW k \in Nat, NEW u \in [1 .. k -> Int], NEW v \in [1 .. k -> Int],
         NEW w \in [1 .. k -> Int], Added(k, w, u, v)
  PROVE  /\ Total(u) \in Int /\ Total(v) \in Int /\ Total(w) \in Int
         /\ Total(w) = Total(u) + Total(v)
<1>1. /\ u \in Seq(Int) /\ Len(u) = k /\ v \in Seq(Int) /\ Len(v) = k
      /\ w \in Seq(Int) /\ Len(w) = k
  BY RowIs
<1>2. PICK a \in [0 .. k -> Int] : /\ a[0] = 0 /\ \A n \in 1 .. k : a[n] = a[n - 1] + u[n]
                                   /\ Total(u) = a[k]
  BY <1>1, TotalIs
<1>3. PICK b \in [0 .. k -> Int] : /\ b[0] = 0 /\ \A n \in 1 .. k : b[n] = b[n - 1] + v[n]
                                   /\ Total(v) = b[k]
  BY <1>1, TotalIs
<1>4. PICK c \in [0 .. k -> Int] : /\ c[0] = 0 /\ \A n \in 1 .. k : c[n] = c[n - 1] + w[n]
                                   /\ Total(w) = c[k]
  BY <1>1, TotalIs
<1> DEFINE Good == {n \in 0 .. k : c[n] = a[n] + b[n]}
<1>5. 0 \in Good
  BY <1>2, <1>3, <1>4
<1>6. ASSUME NEW n \in 1 .. k, n - 1 \in Good PROVE n \in Good
  <2>1. n \in 0 .. k /\ n - 1 \in 0 .. k
    OBVIOUS
  <2>2. /\ a[n] = a[n - 1] + u[n] /\ b[n] = b[n - 1] + v[n] /\ c[n] = c[n - 1] + w[n]
        /\ w[n] = u[n] + v[n] /\ c[n - 1] = a[n - 1] + b[n - 1]
    BY <1>2, <1>3, <1>4, <1>6 DEF Added
  <2>3. /\ a[n - 1] \in Int /\ b[n - 1] \in Int /\ c[n - 1] \in Int
        /\ u[n] \in Int /\ v[n] \in Int /\ w[n] \in Int
    BY <2>1
  <2> QED
    BY <2>1, <2>2, <2>3
<1> HIDE DEF Good
<1>7. \A n \in 0 .. k : n \in Good
  BY <1>5, <1>6, BoundedInduction
<1>8. k \in 0 .. k /\ k \in Good
  BY <1>7
<1> QED
  BY <1>2, <1>3, <1>4, <1>8 DEF Good

LEMMA TotalScales ==
  ASSUME NEW k \in Nat, NEW u \in [1 .. k -> Int], NEW w \in [1 .. k -> Int],
         NEW p \in Int, Scaled(k, w, p, u)
  PROVE  Total(u) \in Int /\ Total(w) \in Int /\ Total(w) = p * Total(u)
<1>1. u \in Seq(Int) /\ Len(u) = k /\ w \in Seq(Int) /\ Len(w) = k
  BY RowIs
<1>2. PICK a \in [0 .. k -> Int] : /\ a[0] = 0 /\ \A n \in 1 .. k : a[n] = a[n - 1] + u[n]
                                   /\ Total(u) = a[k]
  BY <1>1, TotalIs
<1>3. PICK c \in [0 .. k -> Int] : /\ c[0] = 0 /\ \A n \in 1 .. k : c[n] = c[n - 1] + w[n]
                                   /\ Total(w) = c[k]
  BY <1>1, TotalIs
<1> DEFINE Good == {n \in 0 .. k : c[n] = p * a[n]}
<1>4. 0 \in Good
  BY <1>2, <1>3
<1>5. ASSUME NEW n \in 1 .. k, n - 1 \in Good PROVE n \in Good
  <2>1. n \in 0 .. k /\ n - 1 \in 0 .. k
    OBVIOUS
  <2>2. /\ a[n] = a[n - 1] + u[n] /\ c[n] = c[n - 1] + w[n]
        /\ w[n] = p * u[n] /\ c[n - 1] = p * a[n - 1]
    BY <1>2, <1>3, <1>5 DEF Scaled
  <2>3. a[n - 1] \in Int /\ u[n] \in Int
    BY <2>1
  <2>4. p * (a[n - 1] + u[n]) = p * a[n - 1] + p * u[n]
    <3> DEFINE x == a[n - 1]
               y == u[n]
    <3>1. x \in Int /\ y \in Int
      BY <2>3
    <3> HIDE DEF x, y
    <3>2. p * (x + y) = p * x + p * y
      BY <3>1
    <3> QED
      BY <3>2 DEF x, y
  <2> QED
    BY <2>1, <2>2, <2>4
<1> HIDE DEF Good
<1>6. \A n \in 0 .. k : n \in Good
  BY <1>4, <1>5, BoundedInduction
<1>7. k \in 0 .. k /\ k \in Good
  BY <1>6
<1> QED
  BY <1>2, <1>3, <1>7 DEF Good

LEMMA NothingIsNothing ==
  ASSUME NEW k \in Nat, NEW v \in [1 .. k -> Int], \A i \in 1 .. k : v[i] = 0
  PROVE  Total(v) = 0
<1>1. Added(k, v, v, v)
  BY DEF Added
<1>2. Total(v) \in Int /\ Total(v) = Total(v) + Total(v)
  BY <1>1, TotalsAdd
<1> QED
  BY <1>2

LEMMA TotalsGrow ==
  ASSUME NEW k \in Nat, NEW u \in [1 .. k -> Int], NEW v \in [1 .. k -> Int],
         \A i \in 1 .. k : u[i] <= v[i]
  PROVE  /\ Total(u) \in Int /\ Total(v) \in Int /\ Total(u) <= Total(v)
         /\ (\E i \in 1 .. k : u[i] < v[i]) => Total(u) < Total(v)
<1>1. u \in Seq(Int) /\ Len(u) = k /\ v \in Seq(Int) /\ Len(v) = k
  BY RowIs
<1>2. PICK a \in [0 .. k -> Int] : /\ a[0] = 0 /\ \A n \in 1 .. k : a[n] = a[n - 1] + u[n]
                                   /\ Total(u) = a[k]
  BY <1>1, TotalIs
<1>3. PICK b \in [0 .. k -> Int] : /\ b[0] = 0 /\ \A n \in 1 .. k : b[n] = b[n - 1] + v[n]
                                   /\ Total(v) = b[k]
  BY <1>1, TotalIs
<1> DEFINE Good == {n \in 0 .. k : /\ a[n] <= b[n]
                                   /\ (\E i \in 1 .. n : u[i] < v[i]) => a[n] < b[n]}
<1>4. 0 \in Good
  BY <1>2, <1>3
<1>5. ASSUME NEW n \in 1 .. k, n - 1 \in Good PROVE n \in Good
  <2>1. n \in 0 .. k /\ n - 1 \in 0 .. k
    OBVIOUS
  <2>2. /\ a[n] = a[n - 1] + u[n] /\ b[n] = b[n - 1] + v[n] /\ u[n] <= v[n]
        /\ a[n - 1] <= b[n - 1]
        /\ (\E i \in 1 .. n - 1 : u[i] < v[i]) => a[n - 1] < b[n - 1]
    BY <1>2, <1>3, <1>5
  <2>3. /\ a[n - 1] \in Int /\ b[n - 1] \in Int /\ u[n] \in Int /\ v[n] \in Int
    BY <2>1
  <2>4. a[n] <= b[n]
    BY <2>2, <2>3
  <2>5. ASSUME NEW i \in 1 .. n, u[i] < v[i] PROVE a[n] < b[n]
    <3>1. i = n \/ i \in 1 .. n - 1
      OBVIOUS
    <3>2. a[n - 1] < b[n - 1] \/ u[n] < v[n]
      BY <2>2, <2>5, <3>1
    <3> QED
      BY <2>2, <2>3, <3>2
  <2> QED
    BY <2>1, <2>4, <2>5
<1> HIDE DEF Good
<1>6. \A n \in 0 .. k : n \in Good
  BY <1>4, <1>5, BoundedInduction
<1>7. k \in 0 .. k /\ k \in Good
  BY <1>6
<1> QED
  BY <1>2, <1>3, <1>7 DEF Good

(* Ones and zeros total to the number of ones.                             *)
LEMMA OnesAreCounted ==
  ASSUME NEW k \in Nat, NEW v \in [1 .. k -> 0 .. 1]
  PROVE  Total(v) = Cardinality({i \in 1 .. k : v[i] = 1})
<1>1. v \in [1 .. k -> Int] /\ v \in Seq(Int) /\ Len(v) = k
  <2>1. v \in [1 .. k -> Int]
    OBVIOUS
  <2> QED
    BY <2>1, RowIs
<1>2. PICK b \in [0 .. k -> Int] : /\ b[0] = 0 /\ \A n \in 1 .. k : b[n] = b[n - 1] + v[n]
                                   /\ Total(v) = b[k]
  BY <1>1, TotalIs
<1> DEFINE Ones(n) == {i \in 1 .. n : v[i] = 1}
           Good == {n \in 0 .. k : IsFiniteSet(Ones(n)) /\ b[n] = Cardinality(Ones(n))}
<1>3. 0 \in Good
  <2>1. Ones(0) = {}
    OBVIOUS
  <2> HIDE DEF Ones
  <2>2. IsFiniteSet(Ones(0)) /\ Cardinality(Ones(0)) = 0
    BY <2>1, FS_EmptySet
  <2>3. 0 \in 0 .. k /\ b[0] = 0
    BY <1>2
  <2> QED
    BY <2>2, <2>3
<1>4. ASSUME NEW n \in 1 .. k, n - 1 \in Good PROVE n \in Good
  <2>1. n \in 0 .. k /\ n - 1 \in 0 .. k /\ b[n] = b[n - 1] + v[n] /\ b[n - 1] \in Int /\ v[n] \in 0 .. 1
    BY <1>2
  <2>2. IsFiniteSet(Ones(n - 1)) /\ b[n - 1] = Cardinality(Ones(n - 1))
    BY <1>4
  <2>3. CASE v[n] = 1
    <3>1. Ones(n) = Ones(n - 1) \cup {n} /\ n \notin Ones(n - 1)
      BY <2>3
    <3> HIDE DEF Ones
    <3>2. IsFiniteSet(Ones(n)) /\ Cardinality(Ones(n)) = Cardinality(Ones(n - 1)) + 1
      BY <2>2, <3>1, FS_AddElement
    <3> QED
      BY <2>1, <2>2, <2>3, <3>2
  <2>4. CASE v[n] = 0
    <3>1. Ones(n) = Ones(n - 1)
      BY <2>4
    <3> HIDE DEF Ones
    <3> QED
      BY <2>1, <2>2, <2>4, <3>1
  <2> HIDE DEF Good
  <2> QED
    BY <2>1, <2>3, <2>4
<1> HIDE DEF Good
<1>5. \A n \in 0 .. k : n \in Good
  BY <1>3, <1>4, BoundedInduction
<1>6. k \in 0 .. k /\ k \in Good
  BY <1>5
<1> QED
  BY <1>2, <1>6 DEF Good

(* As many elements come first as places there are.                        *)
LEMMA FirstPlaces ==
  ASSUME NEW S, IsFiniteSet(S), NEW R, Orders(R, S), NEW m \in 0 .. Cardinality(S)
  PROVE  Cardinality({x \in S : Rank(R, S)[x] < m}) = m
<1> DEFINE n == Cardinality(S)
           rank == Rank(R, S)
           First == {x \in S : rank[x] < m}
           place == [x \in First |-> rank[x]]
           Places == 0 .. m - 1
<1>1. /\ n \in Nat /\ \A x \in S : rank[x] \in 0 .. n - 1
      /\ \A x, y \in S : rank[x] = rank[y] => x = y
      /\ \A i \in 0 .. n - 1 : \E x \in S : rank[x] = i
  BY RankIs
<1>2. m \in 0 .. n
  OBVIOUS
<1> HIDE DEF rank, n
<1>3. place \in [First -> Places] /\ \A i \in Places : \E x \in First : place[x] = i
  BY <1>1, <1>2
<1>4. \A x, y \in First : place[x] = place[y] => x = y
  BY <1>1
<1>5. IsFiniteSet(First) /\ First \subseteq S
  BY FS_Subset
<1>6. IsFiniteSet(Places) /\ Cardinality(Places) = m
  <2>1. m - 1 - 0 + 1 = m /\ (0 > m - 1 => m = 0) /\ 0 \in Int /\ m - 1 \in Int
    BY <1>1, <1>2
  <2> QED
    BY <2>1, FS_Interval
<1> HIDE DEF place, Places, First
<1>7. Cardinality(Places) = Cardinality(First)
  <2>1. place \in Surjection(First, Places) /\ place \in Injection(First, Places)
    BY <1>3, <1>4 DEF Surjection, Injection, IsInjective
  <2> QED
    BY <1>5, <2>1, FS_Surjection
<1> QED
  BY <1>6, <1>7 DEF First, rank

-----------------------------------------------------------------------------
(* Allocations.                                                            *)
LEMMA AllocationStands ==
  ASSUME NEW total \in Nat, NEW weights \in Seq(Nat), \E i \in DOMAIN weights : weights[i] > 0
  PROVE  AllocationIsExact(total, weights, AllocateMinorUnits(total, weights))
<1> DEFINE k         == Len(weights)
           whole     == Total(weights)
           value     == [i \in DOMAIN weights |-> (total * weights[i]) \div whole]
           remainder == [i \in DOMAIN weights |-> (total * weights[i]) % whole]
           ahead(i)  == {j \in DOMAIN weights : PriorityOrder(j, i, remainder)}
           remaining == total - Total(value)
           extra     == [i \in 1 .. k |-> IF Cardinality(ahead(i)) < remaining THEN 1 ELSE 0]
           shares    == AllocateMinorUnits(total, weights)
           positive  == [i \in 1 .. k |-> IF remainder[i] > 0 THEN 1 ELSE 0]
           Positive  == {i \in 1 .. k : positive[i] = 1}
           nothing   == [i \in 1 .. k |-> 0]
           Pairs     == {p \in (1 .. k) \X (1 .. k) : PriorityOrder(p[1], p[2], remainder)}
           rank      == Rank(Pairs, 1 .. k)
<1>1. /\ k \in Nat /\ DOMAIN weights = 1 .. k /\ \A i \in 1 .. k : weights[i] \in Nat
      /\ weights \in [1 .. k -> Int] /\ weights \in [1 .. k -> Nat]
  OBVIOUS
<1>2. nothing \in [1 .. k -> Int] /\ \A i \in 1 .. k : nothing[i] = 0
  OBVIOUS
<1>3. Total(nothing) = 0
  <2> HIDE DEF k, nothing
  <2> QED
    BY <1>1, <1>2, NothingIsNothing
<1>4. whole \in Nat \ {0}
  <2>1. \E i \in 1 .. k : nothing[i] < weights[i]
    BY <1>1, <1>2
  <2>2. \A i \in 1 .. k : nothing[i] <= weights[i]
    BY <1>1, <1>2
  <2> HIDE DEF k, nothing
  <2>3. Total(weights) \in Int /\ Total(nothing) < Total(weights)
    BY <1>1, <1>2, <2>1, <2>2, TotalsGrow
  <2> QED
    BY <1>3, <2>3
<1>5. shares = [i \in 1 .. k |-> value[i] + extra[i]]
  <2>1. shares = [i \in DOMAIN weights |-> value[i] + IF Cardinality(ahead(i)) < remaining THEN 1 ELSE 0]
    BY DEF AllocateMinorUnits
  <2> HIDE DEF ahead, remaining, value, shares
  <2> QED
    BY <1>1, <2>1
<1> HIDE DEF whole, k, nothing
<1>6. ASSUME NEW i \in 1 .. k
      PROVE  /\ value[i] \in Nat /\ remainder[i] \in 0 .. whole - 1
             /\ total * weights[i] = whole * value[i] + remainder[i]
  <2> DEFINE part == total * weights[i]
  <2>1. part \in Nat /\ value[i] = part \div whole /\ remainder[i] = part % whole
    BY <1>1
  <2> HIDE DEF part, value, remainder
  <2>2. /\ part \div whole \in Nat /\ part % whole \in 0 .. whole - 1
        /\ part = whole * (part \div whole) + (part % whole)
    BY <1>4, <2>1
  <2> QED
    BY <2>1, <2>2 DEF part
<1>7. value \in [1 .. k -> Int] /\ remainder \in [1 .. k -> Int]
  <2>1. DOMAIN value = 1 .. k /\ DOMAIN remainder = 1 .. k
    BY <1>1
  <2>2. value = [i \in 1 .. k |-> value[i]] /\ remainder = [i \in 1 .. k |-> remainder[i]]
    BY <1>1
  <2> HIDE DEF value, remainder
  <2> QED
    BY <1>4, <1>6, <2>1, <2>2
<1> HIDE DEF value, remainder, shares
<1>8. /\ Total(value) \in Int /\ Total(remainder) \in Int /\ remaining \in Int
      /\ Total(remainder) = remaining * whole
  <2> DEFINE due     == [i \in 1 .. k |-> total * weights[i]]
             floored == [i \in 1 .. k |-> whole * value[i]]
  <2>1. /\ due \in [1 .. k -> Int] /\ floored \in [1 .. k -> Int]
        /\ Scaled(k, due, total, weights) /\ Scaled(k, floored, whole, value)
    <3>1. \A i \in 1 .. k : total * weights[i] \in Int
      <4>1. \A i \in 1 .. k : weights[i] \in Int
        BY <1>1
      <4> QED
        BY <4>1
    <3>2. \A i \in 1 .. k : whole * value[i] \in Int
      BY <1>4, <1>6
    <3> QED
      BY <3>1, <3>2 DEF Scaled
  <2>2. Added(k, due, floored, remainder)
    BY <1>6 DEF Added
  <2> HIDE DEF due, floored
  <2>3. Total(due) = total * whole
    <3>1. total \in Int
      OBVIOUS
    <3>2. Total(due) = total * Total(weights)
      BY <1>1, <2>1, <3>1, TotalScales
    <3> QED
      BY <3>2 DEF whole
  <2>4. Total(value) \in Int /\ Total(floored) = whole * Total(value)
    <3>1. whole \in Int
      BY <1>4
    <3> QED
      BY <1>1, <1>7, <2>1, <3>1, TotalScales
  <2>5. Total(remainder) \in Int /\ Total(due) = Total(floored) + Total(remainder)
    BY <1>1, <1>7, <2>1, <2>2, TotalsAdd
  <2> DEFINE a == Total(value)
             b == Total(remainder)
  <2>6. a \in Int /\ b \in Int /\ whole * a + b = total * whole
    BY <2>3, <2>4, <2>5
  <2> HIDE DEF a, b
  <2>7. b = (total - a) * whole
    BY <1>4, <2>6
  <2> QED
    BY <2>6, <2>7 DEF a, b
<1>9. positive \in [1 .. k -> 0 .. 1] /\ positive \in [1 .. k -> Int] /\ extra \in [1 .. k -> 0 .. 1]
      /\ extra \in [1 .. k -> Int]
  OBVIOUS
<1>10. IsFiniteSet(1 .. k) /\ Cardinality(1 .. k) = k
  BY <1>1, FS_Interval
<1>11. IsFiniteSet(Positive) /\ Cardinality(Positive) \in Nat /\ Cardinality(Positive) <= k
  <2>1. Positive \subseteq 1 .. k
    OBVIOUS
  <2> HIDE DEF Positive
  <2> DEFINE All == 1 .. k
  <2>2. IsFiniteSet(All) /\ Cardinality(All) = k /\ Positive \subseteq All
    BY <1>10, <2>1
  <2> HIDE DEF All
  <2> QED
    BY <2>2, FS_Subset, FS_CardinalityType
<1>12. Total(positive) = Cardinality(Positive)
  <2> HIDE DEF positive
  <2> QED
    BY <1>1, <1>9, OnesAreCounted
<1> HIDE DEF remaining
<1>13. remaining \in 0 .. Cardinality(Positive)
  <2> DEFINE most == [i \in 1 .. k |-> (whole - 1) * positive[i]]
  <2>1. most \in [1 .. k -> Int] /\ \A i \in 1 .. k : most[i] = (whole - 1) * positive[i]
    BY <1>4, <1>9
  <2>2. \A i \in 1 .. k : remainder[i] <= most[i] /\ nothing[i] <= remainder[i]
    <3> SUFFICES ASSUME NEW i \in 1 .. k PROVE remainder[i] <= most[i] /\ nothing[i] <= remainder[i]
      OBVIOUS
    <3>1. remainder[i] \in 0 .. whole - 1 /\ most[i] = (whole - 1) * positive[i] /\ nothing[i] = 0
      BY <1>2, <1>6, <2>1
    <3>2. positive[i] = IF remainder[i] > 0 THEN 1 ELSE 0
      OBVIOUS
    <3> HIDE DEF most, positive
    <3>3. CASE remainder[i] > 0
      <4>1. most[i] = whole - 1
        BY <1>4, <3>1, <3>2, <3>3
      <4> QED
        BY <1>4, <3>1, <4>1
    <3>4. CASE ~(remainder[i] > 0)
      <4>1. most[i] = 0
        BY <1>4, <3>1, <3>2, <3>4
      <4> QED
        BY <1>4, <3>1, <3>4, <4>1
    <3> QED
      BY <3>3, <3>4
  <2> HIDE DEF most, positive, Positive
  <2>3. Total(remainder) <= Total(most) /\ Total(most) \in Int
    BY <1>1, <1>7, <2>1, <2>2, TotalsGrow
  <2>4. 0 <= Total(remainder)
    <3>1. Total(nothing) <= Total(remainder)
      BY <1>1, <1>2, <1>7, <2>2, TotalsGrow
    <3> QED
      BY <1>3, <3>1
  <2>5. (whole - 1) * Total(positive) = Total(most)
    <3> DEFINE p == whole - 1
    <3>1. p \in Int /\ \A i \in 1 .. k : most[i] = p * positive[i]
      BY <1>4, <2>1
    <3> HIDE DEF p
    <3>2. Scaled(k, most, p, positive)
      BY <3>1 DEF Scaled
    <3>3. Total(most) = p * Total(positive)
      BY <1>1, <1>9, <2>1, <3>1, <3>2, TotalScales
    <3> QED
      BY <3>3 DEF p
  <2>6. remaining * whole <= (whole - 1) * Cardinality(Positive) /\ 0 <= remaining * whole
    BY <1>8, <1>12, <2>3, <2>4, <2>5
  <2>7. \A r \in Int, n \in Nat, d \in Nat \ {0} : r * d <= (d - 1) * n /\ 0 <= r * d => 0 <= r /\ r <= n
    <3> SUFFICES ASSUME NEW r \in Int, NEW n \in Nat, NEW d \in Nat \ {0}, r * d <= (d - 1) * n, 0 <= r * d
                 PROVE  0 <= r /\ r <= n
      OBVIOUS
    <3>1. r <= -1 => r * d <= -d
      OBVIOUS
    <3>2. r >= n + 1 => r * d >= n * d + d
      OBVIOUS
    <3>3. (d - 1) * n = n * d - n
      OBVIOUS
    <3> QED
      BY <3>1, <3>2, <3>3
  <2>8. 0 <= remaining /\ remaining <= Cardinality(Positive)
    BY <1>4, <1>8, <1>11, <2>6, <2>7
  <2> QED
    BY <1>8, <1>11, <2>8
<1>14. Orders(Pairs, 1 .. k)
  <2>1. \A i \in 1 .. k : i \in Int /\ remainder[i] \in Int
    BY <1>1, <1>7
  <2>2. \A i, j \in 1 .. k : <<i, j>> \in Pairs <=> PriorityOrder(i, j, remainder)
    OBVIOUS
  <2> HIDE DEF Pairs
  <2>3. \A i \in 1 .. k : <<i, i>> \notin Pairs
    BY <2>1, <2>2 DEF PriorityOrder
  <2>4. \A i, j \in 1 .. k : i # j => <<i, j>> \in Pairs \/ <<j, i>> \in Pairs
    BY <2>1, <2>2 DEF PriorityOrder
  <2>5. \A h, i, j \in 1 .. k : <<h, i>> \in Pairs /\ <<i, j>> \in Pairs => <<h, j>> \in Pairs
    <3> SUFFICES ASSUME NEW h \in 1 .. k, NEW i \in 1 .. k, NEW j \in 1 .. k,
                        PriorityOrder(h, i, remainder), PriorityOrder(i, j, remainder)
                 PROVE  PriorityOrder(h, j, remainder)
      BY <2>2
    <3>1. /\ h \in Int /\ i \in Int /\ j \in Int
          /\ remainder[h] \in Int /\ remainder[i] \in Int /\ remainder[j] \in Int
      BY <2>1
    <3> QED
      BY <3>1 DEF PriorityOrder
  <2> QED
    BY <2>3, <2>4, <2>5 DEF Orders
<1>15. \A i \in 1 .. k : ahead(i) = Ahead(Pairs, 1 .. k, i)
  BY <1>1 DEF Ahead
<1>16. \A i \in 1 .. k : extra[i] = IF rank[i] < remaining THEN 1 ELSE 0
  <2>1. \A i \in 1 .. k : rank[i] = Cardinality(Ahead(Pairs, 1 .. k, i))
    BY DEF Rank
  <2> HIDE DEF rank, ahead, Pairs
  <2> QED
    BY <1>15, <2>1
<1>17. /\ \A i \in 1 .. k : rank[i] \in 0 .. k - 1
       /\ \A i, j \in 1 .. k : PriorityOrder(i, j, remainder) <=> rank[i] < rank[j]
  <2> DEFINE All == 1 .. k
  <2>1. \A i, j \in 1 .. k : <<i, j>> \in Pairs <=> PriorityOrder(i, j, remainder)
    OBVIOUS
  <2>2. IsFiniteSet(All) /\ Cardinality(All) = k /\ Orders(Pairs, All) /\ rank = Rank(Pairs, All)
    BY <1>10, <1>14
  <2> HIDE DEF Pairs, All, rank
  <2>3. /\ \A i \in All : rank[i] \in 0 .. k - 1
        /\ \A i, j \in All : <<i, j>> \in Pairs <=> rank[i] < rank[j]
    BY <2>2, RankIs
  <2> QED
    BY <2>1, <2>3 DEF All
<1>18. Total(extra) = remaining
  <2>1. Cardinality({i \in 1 .. k : rank[i] < remaining}) = remaining
    <3> DEFINE All == 1 .. k
    <3>1. /\ IsFiniteSet(All) /\ Cardinality(All) = k /\ Orders(Pairs, All) /\ rank = Rank(Pairs, All)
          /\ remaining \in 0 .. Cardinality(All)
      BY <1>1, <1>10, <1>11, <1>13, <1>14
    <3> HIDE DEF Pairs, All, rank, Positive
    <3>2. Cardinality({i \in All : rank[i] < remaining}) = remaining
      BY <3>1, FirstPlaces
    <3> QED
      BY <3>2 DEF All
  <2>2. {i \in 1 .. k : extra[i] = 1} = {i \in 1 .. k : rank[i] < remaining}
    <3> HIDE DEF extra, rank
    <3> QED
      BY <1>16
  <2> HIDE DEF extra, rank
  <2>3. Total(extra) = Cardinality({i \in 1 .. k : extra[i] = 1})
    BY <1>1, <1>9, OnesAreCounted
  <2> QED
    BY <2>1, <2>2, <2>3
<1>19. shares \in [1 .. k -> Int] /\ DOMAIN shares = 1 .. k /\ \A i \in 1 .. k : shares[i] = value[i] + extra[i]
  <2> HIDE DEF extra
  <2> QED
    BY <1>5, <1>7, <1>9
<1>20. ASSUME NEW i \in 1 .. k, extra[i] = 1 PROVE remainder[i] > 0
  <2> SUFFICES ASSUME remainder[i] = 0 PROVE FALSE
    BY <1>4, <1>6
  <2>1. Positive \subseteq Ahead(Pairs, 1 .. k, i)
    BY <1>6 DEF Ahead, PriorityOrder
  <2>2. Ahead(Pairs, 1 .. k, i) \subseteq 1 .. k /\ rank[i] = Cardinality(Ahead(Pairs, 1 .. k, i))
    BY DEF Ahead, Rank
  <2>3. rank[i] < remaining
    <3> HIDE DEF extra, rank
    <3> QED
      BY <1>16, <1>20
  <2> DEFINE front == Ahead(Pairs, 1 .. k, i)
             All == 1 .. k
  <2>4. front \subseteq All /\ IsFiniteSet(All) /\ Positive \subseteq front /\ rank[i] = Cardinality(front)
    BY <1>10, <2>1, <2>2
  <2> HIDE DEF front, All, Positive, rank
  <2>5. IsFiniteSet(front)
    BY <2>4, FS_Subset
  <2>6. Cardinality(Positive) <= Cardinality(front) /\ Cardinality(front) \in Nat
    BY <2>4, <2>5, FS_Subset, FS_CardinalityType
  <2> QED
    BY <1>11, <1>13, <2>3, <2>4, <2>6
<1> HIDE DEF extra, ahead, Positive, positive
<1>21. Total(shares) = total
  <2>1. Added(k, shares, value, extra)
    BY <1>19 DEF Added
  <2>2. Total(shares) \in Int /\ Total(shares) = Total(value) + Total(extra)
    <3>1. k \in Nat /\ shares \in [1 .. k -> Int] /\ value \in [1 .. k -> Int] /\ extra \in [1 .. k -> Int]
      BY <1>1, <1>7, <1>9, <1>19
    <3> HIDE DEF shares
    <3> QED
      BY <2>1, <3>1, TotalsAdd
  <2> QED
    BY <1>8, <1>18, <2>2 DEF remaining
<1>22. ASSUME NEW i \in 1 .. k PROVE Abs(shares[i] * whole - total * weights[i]) < whole
  <2>1. /\ shares[i] = value[i] + extra[i] /\ total * weights[i] = whole * value[i] + remainder[i]
        /\ value[i] \in Int /\ extra[i] \in 0 .. 1 /\ remainder[i] \in 0 .. whole - 1
        /\ extra[i] = 1 => remainder[i] > 0
    BY <1>6, <1>9, <1>19, <1>20
  <2>2. \A v, b, r, d \in Int : (v + b) * d - (d * v + r) = b * d - r
    OBVIOUS
  <2>3. shares[i] * whole - total * weights[i] = extra[i] * whole - remainder[i]
    <3> DEFINE v == value[i]
               b == extra[i]
               r == remainder[i]
    <3>1. v \in Int /\ b \in Int /\ r \in Int /\ whole \in Int
      BY <1>4, <2>1
    <3> HIDE DEF v, b, r
    <3>2. (v + b) * whole - (whole * v + r) = b * whole - r
      BY <2>2, <3>1
    <3> QED
      BY <2>1, <3>2 DEF v, b, r
  <2>4. extra[i] * whole - remainder[i] \in Int /\ extra[i] * whole - remainder[i] < whole
        /\ extra[i] * whole - remainder[i] > -whole
    <3> DEFINE b == extra[i]
               r == remainder[i]
    <3>1. whole \in Int /\ b \in 0 .. 1 /\ r \in 0 .. whole - 1 /\ (b = 1 => r > 0)
      BY <1>4, <2>1
    <3> HIDE DEF b, r
    <3>2. b * whole - r \in Int /\ b * whole - r < whole /\ b * whole - r > -whole
      <4>1. CASE b = 0
        BY <3>1, <4>1
      <4>2. CASE b = 1
        BY <3>1, <4>2
      <4> QED
        BY <3>1, <4>1, <4>2
    <3> QED
      BY <3>2 DEF b, r
  <2> DEFINE off == extra[i] * whole - remainder[i]
  <2> HIDE DEF off
  <2>5. Abs(off) < whole
    BY <1>4, <2>4 DEF Abs, off
  <2> QED
    BY <2>3, <2>5 DEF off
<1>23. ASSUME NEW i \in 1 .. k, NEW j \in 1 .. k, weights[i] > weights[j]
       PROVE  shares[i] >= shares[j]
  <2> DEFINE a == total * weights[i]
             b == total * weights[j]
  <2>1. a \in Nat /\ b \in Nat /\ a >= b /\ (a = b => total = 0)
    <3>1. \A t \in Nat : \A x, y \in Nat : x > y => t * x >= t * y /\ (t * x = t * y => t = 0)
      OBVIOUS
    <3> QED
      BY <1>1, <1>23, <3>1
  <2>2. /\ value[i] \in Int /\ extra[i] \in 0 .. 1 /\ remainder[i] \in 0 .. whole - 1
        /\ value[j] \in Int /\ extra[j] \in 0 .. 1 /\ remainder[j] \in 0 .. whole - 1
        /\ a = whole * value[i] + remainder[i] /\ b = whole * value[j] + remainder[j]
        /\ shares[i] = value[i] + extra[i] /\ shares[j] = value[j] + extra[j]
    <3>1. /\ value[i] \in Int /\ remainder[i] \in 0 .. whole - 1 /\ a = whole * value[i] + remainder[i]
          /\ value[j] \in Int /\ remainder[j] \in 0 .. whole - 1 /\ b = whole * value[j] + remainder[j]
      <4>1. /\ value[i] \in Nat /\ remainder[i] \in 0 .. whole - 1 /\ a = whole * value[i] + remainder[i]
        BY <1>6
      <4>2. /\ value[j] \in Nat /\ remainder[j] \in 0 .. whole - 1 /\ b = whole * value[j] + remainder[j]
        BY <1>6
      <4> HIDE DEF a, b
      <4> QED
        BY <4>1, <4>2
    <3>2. extra[i] \in 0 .. 1 /\ extra[j] \in 0 .. 1
      BY <1>9
    <3>3. shares[i] = value[i] + extra[i] /\ shares[j] = value[j] + extra[j]
      BY <1>19
    <3> HIDE DEF a, b
    <3> QED
      BY <3>1, <3>2, <3>3
  <2>3. value[i] = a \div whole /\ value[j] = b \div whole
    BY <1>1 DEF value
  <2> HIDE DEF a, b
  <2>4. value[i] >= value[j]
    <3> SUFFICES ASSUME value[i] <= value[j] - 1 PROVE FALSE
      BY <2>2
    <3> DEFINE v == value[i]
               u == value[j]
               x == remainder[i]
               y == remainder[j]
    <3>1. /\ v \in Int /\ u \in Int /\ v <= u - 1 /\ x \in 0 .. whole - 1 /\ y \in 0 .. whole - 1
          /\ a = whole * v + x /\ b = whole * u + y
      BY <2>2
    <3> HIDE DEF v, u, x, y
    <3>2. whole * v <= whole * u - whole
      BY <1>4, <3>1
    <3> QED
      BY <1>4, <2>1, <3>1, <3>2
  <2>5. CASE value[i] > value[j]
    BY <2>2, <2>5
  <2>6. CASE value[i] = value[j] /\ a > b
    <3>1. remainder[i] > remainder[j]
      <4> DEFINE c == whole * value[j]
                 x == remainder[i]
                 y == remainder[j]
      <4>1. /\ c \in Int /\ x \in Int /\ y \in Int /\ a = c + x /\ b = c + y
        <5>1. c \in Int
          BY <1>4, <2>2
        <5> QED
          BY <2>2, <2>6, <5>1
      <4> HIDE DEF c, x, y
      <4>2. x > y
        BY <2>1, <2>6, <4>1
      <4> QED
        BY <4>2 DEF x, y
    <3>2. rank[i] < rank[j]
      BY <1>17, <3>1 DEF PriorityOrder
    <3>3. extra[j] = 1 => extra[i] = 1
      <4>1. rank[i] \in Int /\ rank[j] \in Int
        BY <1>1, <1>17
      <4> HIDE DEF rank
      <4> QED
        BY <1>8, <1>16, <3>2, <4>1
    <3> QED
      BY <2>2, <2>6, <3>3
  <2>7. CASE a = b
    <3>1. total = 0
      BY <2>1, <2>7
    <3>2. remaining = 0
      <4>1. \A n \in 1 .. k : value[n] = 0
        <5> SUFFICES ASSUME NEW n \in 1 .. k PROVE value[n] = 0
          OBVIOUS
        <5>1. total * weights[n] = 0 /\ value[n] = (total * weights[n]) \div whole
          BY <1>1, <3>1 DEF value
        <5>2. 0 \div whole = 0
          BY <1>4, QuotientIs
        <5> QED
          BY <5>1, <5>2
      <4>2. value = nothing
        <5>1. value = [n \in 1 .. k |-> value[n]]
          BY <1>7
        <5>2. [n \in 1 .. k |-> value[n]] = [n \in 1 .. k |-> 0]
          BY <4>1
        <5> QED
          BY <5>1, <5>2 DEF nothing
      <4> QED
        BY <1>3, <3>1, <4>2 DEF remaining
    <3>3. extra[i] = 0 /\ extra[j] = 0
      <4>1. rank[i] \in 0 .. k - 1 /\ rank[j] \in 0 .. k - 1
        BY <1>17
      <4> HIDE DEF rank
      <4>2. ~(rank[i] < 0) /\ ~(rank[j] < 0)
        BY <1>1, <4>1
      <4> QED
        BY <1>16, <3>2, <4>2
    <3> QED
      BY <2>2, <2>4, <3>3
  <2> QED
    BY <2>1, <2>4, <2>2, <2>5, <2>6, <2>7
<1> QED
  BY <1>1, <1>19, <1>21, <1>22, <1>23 DEF AllocationIsExact, whole, shares

-----------------------------------------------------------------------------
(* Timecodes.                                                              *)
LEMMA NearestIs ==
  ASSUME NEW n \in Nat, NEW d \in Nat \ {0}
  PROVE  /\ Nearest(n, d) \in Nat
         /\ 2 * n - 2 * (d * Nearest(n, d)) <= d /\ -d <= 2 * n - 2 * (d * Nearest(n, d))
         /\ \A q \in Int : 2 * n - 2 * (d * q) < d /\ -d < 2 * n - 2 * (d * q) => Nearest(n, d) = q
<1> DEFINE p == n \div d
           r == n % d
           x == Nearest(n, d)
<1>1. p \in Nat /\ r \in 0 .. d - 1 /\ n = d * p + r
  OBVIOUS
<1>2. x = p + IF 2 * r >= d THEN 1 ELSE 0
  BY DEF Nearest
<1> HIDE DEF p, r, x
<1>3. x \in Nat /\ d * x = d * p + IF 2 * r >= d THEN d ELSE 0
  <2>1. d * (p + 1) = d * p + d
    BY <1>1
  <2> QED
    BY <1>1, <1>2, <2>1
<1> DEFINE y == d * x
           z == d * p
<1>4. y \in Int /\ z \in Int /\ n = z + r /\ y = z + IF 2 * r >= d THEN d ELSE 0
  BY <1>1, <1>3
<1>5. 2 * n - 2 * y <= d /\ -d <= 2 * n - 2 * y
  <2> HIDE DEF y, z
  <2> QED
    BY <1>1, <1>4
<1>6. ASSUME NEW q \in Int, 2 * n - 2 * (d * q) < d, -d < 2 * n - 2 * (d * q) PROVE x = q
  <2> DEFINE g == d * q
  <2>1. g \in Int /\ 2 * n - 2 * g < d /\ -d < 2 * n - 2 * g
    BY <1>6
  <2>2. y - g < d /\ -d < y - g
    <3> HIDE DEF y, z, g
    <3> QED
      BY <1>4, <1>5, <2>1
  <2>3. y - g = d * (x - q) /\ x - q \in Int
    BY <1>3
  <2> HIDE DEF y, g
  <2>4. x - q >= 1 => d * (x - q) >= d
    BY <1>3
  <2>5. x - q <= -1 => d * (x - q) <= -d
    BY <1>3
  <2> QED
    BY <1>3, <1>4, <2>1, <2>2, <2>3, <2>4, <2>5
<1> QED
  BY <1>3, <1>5, <1>6 DEF x, y

(* A frame longer than a millisecond is found again from the millisecond   *)
(* nearest to it.                                                          *)
LEMMA MillisecondsTellFrames ==
  ASSUME NEW rate, rate.numerator \in Nat \ {0}, rate.denominator \in Nat \ {0},
         rate.numerator < 1000 * rate.denominator, NEW frames \in Nat
  PROVE  FramesFromMilliseconds(MillisecondsFromFrames(frames, rate), rate) = frames
<1> DEFINE n  == rate.numerator
           d  == 1000 * rate.denominator
           a  == frames * 1000 * rate.denominator
           ms == MillisecondsFromFrames(frames, rate)
           b  == ms * n
<1>1. n \in Nat \ {0} /\ d \in Nat \ {0} /\ n < d /\ a \in Nat /\ a = d * frames
  <2>1. a = frames * 1000 * rate.denominator
    OBVIOUS
  <2> QED
    OBVIOUS
<1>2. ms = Nearest(a, n)
  BY DEF MillisecondsFromFrames
<1> HIDE DEF a, n, ms
<1>3. ms \in Nat /\ 2 * a - 2 * (n * ms) <= n /\ -n <= 2 * a - 2 * (n * ms)
  <2>1. a \in Nat /\ n \in Nat \ {0}
    BY <1>1
  <2>2. /\ Nearest(a, n) \in Nat
        /\ 2 * a - 2 * (n * Nearest(a, n)) <= n /\ -n <= 2 * a - 2 * (n * Nearest(a, n))
    BY ONLY <2>1, NearestIs
  <2> QED
    BY <1>2, <2>2
<1>4. b \in Nat /\ b = n * ms
  BY <1>1, <1>3
<1> HIDE DEF b
<1>5. 2 * b - 2 * a < d /\ -d < 2 * b - 2 * a
  <2> HIDE DEF d
  <2> DEFINE c == n * ms
  <2>1. c = b /\ 2 * a - 2 * c <= n /\ -n <= 2 * a - 2 * c
    BY <1>3, <1>4
  <2> HIDE DEF c
  <2> QED
    BY <1>1, <1>4, <2>1
<1>6. FramesFromMilliseconds(ms, rate) = Nearest(b, d)
  BY DEF FramesFromMilliseconds, b, n
<1> HIDE DEF d
<1>7. 2 * b - 2 * (d * frames) < d /\ -d < 2 * b - 2 * (d * frames)
  BY <1>1, <1>5
<1>8. Nearest(b, d) = frames
  BY <1>1, <1>4, <1>7, NearestIs
<1> QED
  BY <1>6, <1>8 DEF ms

(* The time of day that hours, minutes and seconds spell.                  *)
LEMMA ClockReads ==
  ASSUME NEW t \in Nat
  PROVE  LET M == t \div 60
             H == M \div 60
             D == H \div 24
             day == ((H % 24) * 60 + (M % 60)) * 60 + (t % 60)
         IN /\ t \div 3600 = H /\ D \in Nat /\ day \in Nat /\ day <= 86399 /\ t = 86400 * D + day
<1> DEFINE M == t \div 60
           H == M \div 60
           D == H \div 24
           s == t % 60
           m == M % 60
           h == H % 24
<1>1. t \div 3600 = H
  OBVIOUS
<1>2. t = 60 * M + s /\ M \in Nat /\ s \in 0 .. 59
  OBVIOUS
<1> HIDE DEF s
<1>3. M = 60 * H + m /\ H \in Nat /\ m \in 0 .. 59
  BY <1>2
<1> HIDE DEF m, M, H
<1>4. H = 24 * D + h /\ D \in Nat /\ h \in 0 .. 23
  BY <1>3
<1> HIDE DEF h, H, D
<1>5. (h * 60 + m) * 60 + s >= 0 /\ (h * 60 + m) * 60 + s <= 86399
  BY <1>2, <1>3, <1>4
<1>6. t = 86400 * D + ((h * 60 + m) * 60 + s)
  BY <1>2, <1>3, <1>4
<1>7. (h * 60 + m) * 60 + s \in Nat
  BY <1>2, <1>3, <1>4
<1> QED
  BY <1>1, <1>4, <1>5, <1>6, <1>7 DEF s, m, h, M, H, D

(* Counting every frame.                                                   *)
LEMMA PlainLabelsTell ==
  ASSUME NEW rate, ~rate.dropFrame, Nominal(rate) \in Nat \ {0}, NEW frames \in Nat
  PROVE  ParseTimecode(FormatTimecode(frames, rate), rate) = frames % FramesPerDay(rate)
<1> DEFINE N == Nominal(rate)
           t == frames \div N
           f == frames % N
           code == FormatTimecode(frames, rate)
           D == ((t \div 60) \div 60) \div 24
           h == ((t \div 60) \div 60) % 24
           m == (t \div 60) % 60
           s == t % 60
           day == (h * 60 + m) * 60 + s
           full == N * 86400
           rest == day * N + f
<1>1. code = [h |-> (t \div 3600) % 24, m |-> m, s |-> s, f |-> f]
  BY DEF FormatTimecode, LabelFrames
<1>2. N \in Nat \ {0}
  OBVIOUS
<1> HIDE DEF N
<1>3. t \in Nat /\ f \in 0 .. N - 1 /\ frames = N * t + f
  BY <1>2
<1> HIDE DEF t, f
<1>4. t \div 3600 = (t \div 60) \div 60 /\ D \in Nat /\ day \in Nat /\ day <= 86399 /\ t = 86400 * D + day
  BY <1>3, ClockReads
<1>5. code.h = h /\ code.m = m /\ code.s = s /\ code.f = f
  BY <1>1, <1>4
<1> HIDE DEF code, D, h, m, s
<1>6. ParseTimecode(code, rate) = day * N + f
  BY <1>5 DEF ParseTimecode, N
<1> HIDE DEF day, full
<1>7. FramesPerDay(rate) = full /\ full \in Nat \ {0}
  <2>1. FramesPerDay(rate) = (N * 3600 - 0) * 24
    BY DEF FramesPerDay, N
  <2> QED
    BY <1>2, <2>1 DEF full
<1>8. frames = full * D + rest /\ rest \in 0 .. full - 1
  <2> DEFINE x == day * N
             y == full * D
             z == N * t
  <2>1. z = y + x
    <3>1. N * (86400 * D + day) = (N * 86400) * D + day * N
      BY <1>2, <1>4
    <3> QED
      BY <1>4, <3>1 DEF full
  <2>2. x \in Nat /\ x <= 86399 * N
    <3>1. day \in Nat /\ day <= 86399 /\ N \in Nat
      BY <1>2, <1>4
    <3> QED
      BY ONLY <3>1
  <2>3. y \in Nat /\ z \in Nat /\ frames = z + f
    BY <1>2, <1>3, <1>4, <1>7
  <2> HIDE DEF x, y, z
  <2>4. frames = y + (x + f) /\ x + f \in 0 .. full - 1
    BY <1>2, <1>3, <2>1, <2>2, <2>3 DEF full
  <2> QED
    BY <2>4 DEF x, y
<1> HIDE DEF rest
<1>9. frames % full = rest
  <2>1. D \in Int
    BY <1>4
  <2> QED
    BY <1>7, <1>8, <2>1, QuotientIs
<1> QED
  BY <1>6, <1>7, <1>9 DEF rest, code

SplitsAs(N, d, p, q, w, tens, j, y) ==
  /\ tens = w \div p
  /\ w + d * 9 * tens + Skipped(w % p, d, q) = 60 * N * (10 * tens + j) + y
  /\ d * 9 * tens + Skipped(w % p, d, q) = d * (9 * tens + j)
  /\ y < 60 * N /\ (j > 0 => y >= d)

Dropping(N, d, p, q) ==
  \/ N = 30 /\ d = 2 /\ p = 17982 /\ q = 1798
  \/ N = 60 /\ d = 4 /\ p = 35964 /\ q = 3596

(* Omitting labels: w is a frame of the day, d labels are omitted at each  *)
(* minute but every tenth, of which there are p frames.                    *)
LEMMA SkippedLabels ==
  ASSUME NEW N, NEW d, NEW p, NEW q,
         Dropping(N, d, p, q),
         NEW w \in Nat, w < 144 * p
  PROVE  \E tens \in 0 .. 143, j \in 0 .. 9, y \in Nat : SplitsAs(N, d, p, q, w, tens, j, y)
<1> DEFINE tens == w \div p
           r == w % p
           j == IF r >= d THEN (r - d) \div q ELSE 0
           y == IF j = 0 THEN r ELSE r - q * j
<1> USE DEF Dropping
<1>1. tens \in 0 .. 143 /\ r \in 0 .. p - 1 /\ w = p * tens + r
  <2>1. p \in Nat \ {0} /\ w \in Int
    OBVIOUS
  <2>2. tens \in Nat /\ r \in 0 .. p - 1 /\ w = p * tens + r
    <3> HIDE DEF Dropping
    <3> QED
      BY <2>1, DivisionIs
  <2> HIDE DEF tens, r
  <2> QED
    BY <2>2
<1> HIDE DEF tens, r
<1>2. j \in 0 .. 9 /\ (r >= d => r - d >= q * j /\ r - d < q * j + q)
  <2>1. CASE r >= d
    <3> DEFINE x == r - d
               z == x % q
    <3>1. x \in Nat /\ j = x \div q /\ q \in Nat \ {0}
      BY <1>1, <2>1
    <3> HIDE DEF x, j
    <3>2. j \in Nat /\ z \in 0 .. q - 1 /\ x = q * j + z
      BY <3>1
    <3> HIDE DEF z
    <3>3. x < 10 * q
      BY <1>1 DEF x
    <3> QED
      BY <2>1, <3>2, <3>3 DEF x
  <2>2. CASE ~(r >= d)
    BY <1>1, <2>2
  <2> QED
    BY <2>1, <2>2
<1>3. Skipped(r, d, q) = d * j
  BY DEF Skipped
<1> HIDE DEF j
<1>4. j = 0 => r < d + q
  BY <1>1, <1>2
<1>5. y \in Nat /\ y < 60 * N /\ (j > 0 => y >= d)
  <2>1. d + q = 60 * N /\ d \in Nat /\ q \in Nat /\ r \in Nat
    BY <1>1
  <2>2. CASE j = 0
    BY <1>4, <2>1, <2>2
  <2>3. CASE j > 0
    <3>1. r >= d
      BY <2>3 DEF j
    <3> DEFINE c == q * j
    <3>2. c \in Nat /\ y = r - c
      BY <1>2, <2>1, <2>3
    <3>3. r - d >= c /\ r - d < c + q
      BY <1>2, <3>1
    <3> HIDE DEF c, y
    <3>4. y \in Nat /\ y < d + q /\ y >= d
      BY <2>1, <3>2, <3>3
    <3> QED
      BY <2>1, <3>4
  <2> QED
    BY <1>2, <2>2, <2>3
<1>6. w + d * 9 * tens + d * j = 60 * N * (10 * tens + j) + y
  BY <1>1, <1>2
<1>7. d * 9 * tens + d * j = d * (9 * tens + j)
  BY <1>1, <1>2
<1>8. tens = w \div p /\ Skipped(w % p, d, q) = d * j
  BY <1>3 DEF tens, r
<1> HIDE DEF y, tens, r
<1>9. SplitsAs(N, d, p, q, w, tens, j, y)
  BY <1>5, <1>6, <1>7, <1>8 DEF SplitsAs
<1>10. tens \in 0 .. 143 /\ j \in 0 .. 9 /\ y \in Nat
  BY <1>1, <1>2, <1>5
<1> DEFINE Tens == 0 .. 143
           Ones == 0 .. 9
           Is(t, o, z) == SplitsAs(N, d, p, q, w, t, o, z)
<1>11. Is(tens, j, y) /\ tens \in Tens /\ j \in Ones
  BY <1>9, <1>10
<1> HIDE DEF Is, Tens, Ones, Dropping
<1>12. \E t \in Tens, o \in Ones, z \in Nat : Is(t, o, z)
  BY <1>10, <1>11
<1> QED
  BY <1>12 DEF Is, Tens, Ones

LEMMA TensAndOnes ==
  ASSUME NEW tens \in 0 .. 143, NEW j \in 0 .. 9
  PROVE  10 * tens + j \in 0 .. 1439 /\ (10 * tens + j) % 10 = j /\ (10 * tens + j) \div 10 = tens
BY SMT

(* A drop-frame label is never an omitted one, and takes back what         *)
(* skipping added.                                                         *)
LEMMA DroppedLabelsTell ==
  ASSUME NEW rate \in FrameRates, rate.dropFrame, NEW frames \in Nat
  PROVE  ParseTimecode(FormatTimecode(frames, rate), rate) = frames % FramesPerDay(rate)
<1> DEFINE N == Nominal(rate)
           d == DropFramesPerMinute(rate)
           p == N * 600 - d * 9
           q == N * 60 - d
           w == frames % FramesPerDay(rate)
           L == LabelFrames(frames, rate)
           code == FormatTimecode(frames, rate)
<1>1. rate.numerator \in {30000, 60000} /\ rate.denominator = 1001
  <2>1. MayDrop(rate)
    BY Zenon DEF FrameRates
  <2> QED
    BY <2>1 DEF MayDrop
<1>2. N = IF rate.numerator = 30000 THEN 30 ELSE 60
  <2>1. 61001 \div 2002 = 30 /\ 121001 \div 2002 = 60
    OBVIOUS
  <2> QED
    BY <1>1, <2>1 DEF Nominal
<1>3. N \in {30, 60} /\ d = IF N = 60 THEN 4 ELSE 2
  BY <1>2 DEF DropFramesPerMinute
<1> HIDE DEF N, d
<1>4. \/ N = 30 /\ d = 2 /\ p = 17982 /\ q = 1798
      \/ N = 60 /\ d = 4 /\ p = 35964 /\ q = 3596
  BY <1>3
<1>5. FramesPerDay(rate) = 144 * p
  BY <1>3 DEF FramesPerDay, N, d
<1>6. w \in Nat /\ w < 144 * p
  <2> DEFINE full == 144 * p
  <2>1. full \in Nat \ {0} /\ w = frames % full
    BY <1>4, <1>5
  <2> HIDE DEF full, w
  <2>2. frames % full \in 0 .. full - 1
    BY <2>1
  <2>3. w \in 0 .. full - 1
    BY <2>1, <2>2
  <2> QED
    BY <2>1, <2>3 DEF full
<1>7. L = w + d * 9 * (w \div p) + Skipped(w % p, d, q)
  BY DEF LabelFrames, N, d
<1> HIDE DEF w, p, q
<1>8. PICK tens \in 0 .. 143, j \in 0 .. 9, y \in Nat : SplitsAs(N, d, p, q, w, tens, j, y)
  <2>1. Dropping(N, d, p, q)
    BY <1>4 DEF Dropping
  <2> QED
    BY <1>6, <2>1, SkippedLabels
<1> DEFINE M == 10 * tens + j
           s == y \div N
           f == y % N
<1>9. L = 60 * N * M + y /\ L = w + d * (9 * tens + j)
  <2> DEFINE x == Skipped(w % p, d, q)
             z == d * 9 * tens
  <2>1. L = w + z + x /\ w + z + x = 60 * N * M + y /\ z + x = d * (9 * tens + j)
    BY <1>7, <1>8 DEF SplitsAs
  <2>2. x \in Int /\ z \in Int
    <3>1. z \in Int
      BY <1>3
    <3>2. w % p \in Int /\ ((w % p) - d) \div q \in Int
      BY <1>4, <1>6
    <3> QED
      BY <1>3, <3>1, <3>2 DEF Skipped
  <2> HIDE DEF x, z, L
  <2> QED
    BY <1>6, <2>1, <2>2
<1> HIDE DEF L
<1>10. y < 60 * N /\ (j > 0 => y >= d)
  BY <1>8 DEF SplitsAs
<1>11. s \in 0 .. 59 /\ f \in 0 .. N - 1 /\ y = N * s + f
  <2>1. s \in Nat /\ f \in 0 .. N - 1 /\ y = N * s + f
    BY <1>3
  <2> HIDE DEF s, f
  <2> QED
    BY <1>3, <1>10, <2>1
<1>12. M \in 0 .. 1439 /\ M % 10 = j /\ M \div 10 = tens
  BY TensAndOnes
<1> HIDE DEF s, f
<1>13. L \div N = 60 * M + s /\ L % N = f
  <2> DEFINE a == 60 * M + s
  <2>1. a \in Int
    BY <1>11, <1>12
  <2>2. L = N * a + f /\ L \in Int
    <3> HIDE DEF M
    <3>1. CASE N = 30
      BY <1>9, <1>11, <1>12, <3>1
    <3>2. CASE N = 60
      BY <1>9, <1>11, <1>12, <3>2
    <3> QED
      BY <1>3, <3>1, <3>2
  <2> HIDE DEF a
  <2>3. N \in Nat \ {0}
    BY <1>3
  <2>4. L \div N = a /\ L % N = f
    BY <1>11, <2>1, <2>2, <2>3, QuotientIs
  <2> QED
    BY <2>4 DEF a
<1>14. /\ code.h * 60 + code.m = M /\ code.s = s /\ code.f = f
       /\ code.m % 10 = j
  <2> DEFINE t == L \div N
  <2>1. code = [h |-> (t \div 3600) % 24, m |-> (t \div 60) % 60, s |-> t % 60, f |-> L % N]
    BY DEF FormatTimecode, L, N
  <2>2. t = 60 * M + s
    BY <1>13
  <2> HIDE DEF t, M
  <2>3. t \div 60 = M /\ t % 60 = s
    BY <1>11, <1>12, <2>2
  <2>4. (t \div 3600) % 24 = M \div 60
    BY <1>11, <1>12, <2>2
  <2>5. code.h = M \div 60 /\ code.m = M % 60 /\ code.s = s /\ code.f = f
    BY <1>13, <2>1, <2>3, <2>4
  <2>6. (M \div 60) * 60 + (M % 60) = M /\ (M % 60) % 10 = M % 10
    BY <1>12
  <2> QED
    BY <1>12, <2>5, <2>6
<1> HIDE DEF code, M
<1>15. ~(code.m % 10 # 0 /\ code.s = 0 /\ code.f < d)
  BY <1>3, <1>10, <1>11, <1>14
<1>16. ParseTimecode(code, rate) = ((M * 60 + s) * N + f) - d * (M - M \div 10)
  BY <1>14, <1>15 DEF ParseTimecode, N, d
<1>17. ((M * 60 + s) * N + f) - d * (M - M \div 10) = w
  <2>1. M - M \div 10 = 9 * tens + j
    BY <1>12 DEF M
  <2>2. (M * 60 + s) * N + f = L
    <3>1. CASE N = 30
      BY <1>9, <1>11, <1>12, <3>1
    <3>2. CASE N = 60
      BY <1>9, <1>11, <1>12, <3>2
    <3> QED
      BY <1>3, <3>1, <3>2
  <2>3. w = L - d * (9 * tens + j)
    BY <1>3, <1>6, <1>9
  <2> QED
    BY <2>1, <2>2, <2>3
<1> QED
  BY <1>16, <1>17 DEF code, w

-----------------------------------------------------------------------------
(* Calendars.                                                              *)
CalendarOk(c) ==
  /\ DOMAIN c \subseteq Nat /\ IsFiniteSet(DOMAIN c)
  /\ \A a \in DOMAIN c : /\ c[a].start \in Nat /\ c[a].end \in Nat
                        /\ c[a].rest \in Nat /\ c[a].start < c[a].end

LaidOut(c, ids, laid, n) ==
  /\ n \in Nat /\ laid \in [1 .. n -> ids] /\ Len(laid) = n
  /\ \A i, j \in 1 .. n : i < j => Earlier(c, laid[i], laid[j])
  /\ \A a \in ids : \E i \in 1 .. n : laid[i] = a

(* Sorting lays assignments out in one row, by the time they start.        *)
LEMMA GroupsAreLaidOut ==
  ASSUME NEW c, CalendarOk(c), NEW ids \in SUBSET DOMAIN c
  PROVE  \E n : LaidOut(c, ids, InOrder(c, ids), n)
<1> DEFINE R == {p \in ids \X ids : Earlier(c, p[1], p[2])}
           n == Cardinality(ids)
           laid == Arranged(R, ids)
<1>1. IsFiniteSet(ids) /\ ids \subseteq Nat /\ \A a \in ids : c[a].start \in Nat
  <2>1. IsFiniteSet(DOMAIN c) /\ ids \subseteq DOMAIN c
    BY DEF CalendarOk
  <2>2. IsFiniteSet(ids)
    BY <2>1, FS_Subset
  <2> QED
    BY <2>2 DEF CalendarOk
<1>2. \A a, b \in ids : <<a, b>> \in R <=> Earlier(c, a, b)
  OBVIOUS
<1>3. Orders(R, ids)
  <2> HIDE DEF R
  <2>1. \A a \in ids : a \in Int /\ c[a].start \in Int
    BY <1>1
  <2>2. \A a \in ids : <<a, a>> \notin R
    BY <1>2, <2>1 DEF Earlier
  <2>3. \A a, b \in ids : a # b => <<a, b>> \in R \/ <<b, a>> \in R
    BY <1>2, <2>1 DEF Earlier
  <2>4. ASSUME NEW x \in ids, NEW y \in ids, NEW z \in ids, <<x, y>> \in R, <<y, z>> \in R
        PROVE  <<x, z>> \in R
    <3>1. Earlier(c, x, y) /\ Earlier(c, y, z)
      BY <1>2, <2>4
    <3>2. /\ x \in Int /\ y \in Int /\ z \in Int
          /\ c[x].start \in Int /\ c[y].start \in Int /\ c[z].start \in Int
      BY <2>1
    <3>3. Earlier(c, x, z)
      BY <3>1, <3>2 DEF Earlier
    <3> QED
      BY <1>2, <3>3
  <2> QED
    BY <2>2, <2>3, <2>4 DEF Orders
<1>4. InOrder(c, ids) = laid
  <2>1. \A a \in ids : Ahead(R, ids, a) = {b \in ids : Earlier(c, b, a)}
    BY <1>2 DEF Ahead
  <2> HIDE DEF R
  <2> DEFINE there(i) == CHOOSE a \in ids : Cardinality({b \in ids : Earlier(c, b, a)}) = i - 1
             here(i) == CHOOSE a \in ids : Cardinality(Ahead(R, ids, a)) = i - 1
  <2>2. \A i : there(i) = here(i)
    BY <2>1
  <2>3. InOrder(c, ids) = [i \in 1 .. n |-> there(i)] /\ laid = [i \in 1 .. n |-> here(i)]
    BY DEF InOrder, Arranged
  <2> HIDE DEF there, here, n, laid
  <2> QED
    BY <2>2, <2>3
<1>5. /\ n \in Nat /\ laid \in [1 .. n -> ids]
      /\ \A i, j \in 1 .. n : i < j => <<laid[i], laid[j]>> \in R
      /\ \A a \in ids : \E i \in 1 .. n : laid[i] = a
  <2> HIDE DEF R
  <2> QED
    BY <1>1, <1>3, ArrangedIs
<1> HIDE DEF R, n, laid
<1>6. Len(laid) = n
  BY <1>5, RowIs
<1>7. \A i, j \in 1 .. n : i < j => Earlier(c, laid[i], laid[j])
  BY <1>2, <1>5
<1>8. LaidOut(c, ids, laid, n)
  BY <1>5, <1>6, <1>7 DEF LaidOut
<1> QED
  BY <1>4, <1>8

Rising(c, ids, laid, n) ==
  \A i, j \in 1 .. n : i < j => /\ laid[i] \in ids /\ laid[j] \in ids /\ laid[i] # laid[j]
                                /\ c[laid[i]].start <= c[laid[j]].start

Swept(c, laid, n) ==
  \A p : p \in Sweep(c, laid) <=>
           \E i, j \in 1 .. n : i < j /\ p = <<laid[i], laid[j]>> /\ c[laid[j]].start < c[laid[i]].end

(* Along a row the starts do not fall, so the sweep may stop early.        *)
LEMMA SweepIsWhole ==
  ASSUME NEW c, CalendarOk(c), NEW ids \in SUBSET DOMAIN c, NEW laid, NEW n, LaidOut(c, ids, laid, n)
  PROVE  Rising(c, ids, laid, n) /\ Swept(c, laid, n)
<1>1. n \in Nat /\ DOMAIN laid = 1 .. n /\ \A i \in 1 .. n : laid[i] \in ids
  BY DEF LaidOut
<1>2. \A a \in ids : a \in Int /\ c[a].start \in Int /\ c[a].end \in Int
  BY DEF CalendarOk
<1>3. ASSUME NEW i \in 1 .. n, NEW j \in 1 .. n, i < j
      PROVE  /\ laid[i] \in ids /\ laid[j] \in ids /\ laid[i] # laid[j]
             /\ c[laid[i]].start <= c[laid[j]].start
  <2>1. Earlier(c, laid[i], laid[j])
    BY <1>3 DEF LaidOut
  <2> QED
    BY <1>1, <1>2, <2>1 DEF Earlier
<1>4. ASSUME NEW i \in 1 .. n, NEW j \in 1 .. n, i < j
      PROVE  (\A k \in i + 1 .. j : c[laid[k]].start < c[laid[i]].end) <=> c[laid[j]].start < c[laid[i]].end
  <2>1. j \in i + 1 .. j
    BY <1>1, <1>4
  <2>2. ASSUME NEW k \in i + 1 .. j, c[laid[j]].start < c[laid[i]].end
        PROVE  c[laid[k]].start < c[laid[i]].end
    <3>1. k \in 1 .. n /\ (k = j \/ k < j)
      BY <1>1, <1>4
    <3>2. c[laid[k]].start <= c[laid[j]].start
      BY <1>1, <1>2, <1>3, <3>1
    <3>3. c[laid[k]].start \in Int /\ c[laid[j]].start \in Int /\ c[laid[i]].end \in Int
      BY <1>1, <1>2, <3>1
    <3> QED
      BY <2>2, <3>2, <3>3
  <2> QED
    BY <2>1, <2>2
<1>5. ASSUME NEW p
      PROVE  p \in Sweep(c, laid) <=>
               \E i, j \in 1 .. n : /\ i < j /\ p = <<laid[i], laid[j]>>
                                    /\ c[laid[j]].start < c[laid[i]].end
  <2> DEFINE met(i, j) == \A k \in i + 1 .. j : c[laid[k]].start < c[laid[i]].end
  <2>1. p \in Sweep(c, laid) <=> \E q \in (1 .. n) \X (1 .. n) :
                                  q[1] < q[2] /\ met(q[1], q[2]) /\ p = <<laid[q[1]], laid[q[2]]>>
    BY <1>1 DEF Sweep
  <2>2. (\E q \in (1 .. n) \X (1 .. n) : q[1] < q[2] /\ met(q[1], q[2]) /\ p = <<laid[q[1]], laid[q[2]]>>)
        <=> \E i, j \in 1 .. n : i < j /\ met(i, j) /\ p = <<laid[i], laid[j]>>
    <3> HIDE DEF met
    <3>1. ASSUME NEW i \in 1 .. n, NEW j \in 1 .. n, i < j, met(i, j), p = <<laid[i], laid[j]>>
          PROVE  \E q \in (1 .. n) \X (1 .. n) :
                   q[1] < q[2] /\ met(q[1], q[2]) /\ p = <<laid[q[1]], laid[q[2]]>>
      <4> DEFINE q == <<i, j>>
      <4>1. q \in (1 .. n) \X (1 .. n) /\ q[1] = i /\ q[2] = j
        OBVIOUS
      <4> HIDE DEF q
      <4> QED
        BY <3>1, <4>1
    <3> QED
      BY <3>1
  <2>3. \A i, j \in 1 .. n : i < j => (met(i, j) <=> c[laid[j]].start < c[laid[i]].end)
    BY <1>4
  <2> HIDE DEF met
  <2> QED
    BY <2>1, <2>2, <2>3
<1> QED
  BY <1>3, <1>5 DEF Rising, Swept

LEMMA GroupOf ==
  ASSUME NEW c
  PROVE  /\ \A g \in GroupsOf(c) : g \in SUBSET DOMAIN c /\ \A a, b \in g : c[a].of = c[b].of
         /\ \A a \in DOMAIN c : \E g \in GroupsOf(c) : \A b \in DOMAIN c : b \in g <=> c[b].of = c[a].of
<1>1. \A g \in GroupsOf(c) : g \in SUBSET DOMAIN c /\ \A a, b \in g : c[a].of = c[b].of
  BY DEF GroupsOf
<1>2. ASSUME NEW a \in DOMAIN c
      PROVE  \E g \in GroupsOf(c) : \A b \in DOMAIN c : b \in g <=> c[b].of = c[a].of
  <2> DEFINE g == {b \in DOMAIN c : c[b].of = c[a].of}
  <2>1. g \in GroupsOf(c)
    BY DEF GroupsOf
  <2> QED
    BY <2>1
<1> QED
  BY <1>1, <1>2

(* The sweeps find the overlapping pairs, although each stops at the first *)
(* assignment that starts after the current one.                           *)
LEMMA OverlapsAreFound ==
  ASSUME NEW c, CalendarOk(c)
  PROVE  {{p[1], p[2]} : p \in UnitOverlaps(c)} = OverlapsByDefinition(c)
<1> DEFINE Meet(a, b) == /\ a # b /\ c[a].of = c[b].of
                         /\ c[a].start < c[b].end /\ c[b].start < c[a].end
           Crossing == {p \in (DOMAIN c) \X (DOMAIN c) : Meet(p[1], p[2])}
<1>1. OverlapsByDefinition(c) = {{p[1], p[2]} : p \in Crossing}
  BY DEF OverlapsByDefinition
<1>2. \A a \in DOMAIN c : c[a].start \in Int /\ c[a].end \in Int /\ c[a].start < c[a].end
  BY DEF CalendarOk
<1>3. ASSUME NEW p \in UnitOverlaps(c) PROVE p \in Crossing
  <2>1. PICK g \in GroupsOf(c) : p \in Sweep(c, InOrder(c, g))
    BY DEF UnitOverlaps
  <2>2. g \in SUBSET DOMAIN c /\ \A a, b \in g : c[a].of = c[b].of
    BY GroupOf
  <2> DEFINE laid == InOrder(c, g)
  <2>3. PICK n : LaidOut(c, g, laid, n)
    BY <2>2, GroupsAreLaidOut
  <2> HIDE DEF laid
  <2>4. PICK i \in 1 .. n, j \in 1 .. n : /\ i < j /\ p = <<laid[i], laid[j]>>
                                          /\ c[laid[j]].start < c[laid[i]].end
    <3>1. Swept(c, laid, n)
      BY <2>2, <2>3, SweepIsWhole
    <3>2. p \in Sweep(c, laid)
      BY <2>1 DEF laid
    <3> QED
      BY <3>1, <3>2 DEF Swept
  <2> DEFINE a == laid[i]
             b == laid[j]
  <2>5. a \in g /\ b \in g /\ a # b /\ c[a].start <= c[b].start
    <3>1. Rising(c, g, laid, n)
      BY <2>2, <2>3, SweepIsWhole
    <3> QED
      BY <2>4, <3>1 DEF Rising
  <2>6. p = <<a, b>> /\ c[b].start < c[a].end
    BY <2>4
  <2> HIDE DEF a, b
  <2>7. /\ c[a].start \in Int /\ c[a].end \in Int /\ c[b].start \in Int /\ c[b].end \in Int
        /\ c[b].start < c[b].end
    BY <1>2, <2>2, <2>5
  <2>8. Meet(a, b)
    BY <2>2, <2>5, <2>6, <2>7
  <2> HIDE DEF Meet
  <2>9. a \in DOMAIN c /\ b \in DOMAIN c
    BY <2>2, <2>5
  <2> QED
    BY <2>6, <2>8, <2>9
<1>4. ASSUME NEW p \in Crossing PROVE p \in UnitOverlaps(c) \/ <<p[2], p[1]>> \in UnitOverlaps(c)
  <2> DEFINE a == p[1]
             b == p[2]
  <2>1. a \in DOMAIN c /\ b \in DOMAIN c /\ Meet(a, b) /\ p = <<a, b>>
    OBVIOUS
  <2> HIDE DEF a, b
  <2>2. PICK g \in GroupsOf(c) : \A x \in DOMAIN c : x \in g <=> c[x].of = c[a].of
    BY <2>1, GroupOf
  <2>3. a \in g /\ b \in g /\ g \in SUBSET DOMAIN c
    BY <2>1, <2>2, GroupOf
  <2> DEFINE laid == InOrder(c, g)
  <2>4. PICK n : LaidOut(c, g, laid, n)
    BY <2>3, GroupsAreLaidOut
  <2> HIDE DEF laid
  <2>5. PICK i \in 1 .. n, j \in 1 .. n : laid[i] = a /\ laid[j] = b
    BY <2>3, <2>4 DEF LaidOut
  <2>6. i < j \/ j < i
    BY <2>1, <2>4, <2>5 DEF LaidOut
  <2>7. ASSUME i < j PROVE <<a, b>> \in Sweep(c, laid)
    <3>1. c[laid[j]].start < c[laid[i]].end /\ <<a, b>> = <<laid[i], laid[j]>>
      BY <2>1, <2>5
    <3> QED
      BY <2>3, <2>4, <2>7, <3>1, SweepIsWhole DEF Swept
  <2>8. ASSUME j < i PROVE <<b, a>> \in Sweep(c, laid)
    <3>1. c[laid[i]].start < c[laid[j]].end /\ <<b, a>> = <<laid[j], laid[i]>>
      BY <2>1, <2>5
    <3> QED
      BY <2>3, <2>4, <2>8, <3>1, SweepIsWhole DEF Swept
  <2>9. Sweep(c, laid) \subseteq UnitOverlaps(c)
    BY DEF UnitOverlaps, laid
  <2>10. <<a, b>> \in UnitOverlaps(c) \/ <<b, a>> \in UnitOverlaps(c)
    BY <2>6, <2>7, <2>8, <2>9
  <2> QED
    BY <2>1, <2>10
<1> HIDE DEF Crossing
<1>5. \A p \in Crossing : \E q \in UnitOverlaps(c) : {q[1], q[2]} = {p[1], p[2]}
  <2> SUFFICES ASSUME NEW p \in Crossing PROVE \E q \in UnitOverlaps(c) : {q[1], q[2]} = {p[1], p[2]}
    OBVIOUS
  <2>1. CASE p \in UnitOverlaps(c)
    BY <2>1
  <2>2. CASE <<p[2], p[1]>> \in UnitOverlaps(c)
    <3> DEFINE q == <<p[2], p[1]>>
    <3>1. {q[1], q[2]} = {p[1], p[2]}
      OBVIOUS
    <3> QED
      BY <2>2, <3>1
  <2> QED
    BY <1>4, <2>1, <2>2
<1>6. \A p \in UnitOverlaps(c) : \E q \in Crossing : {q[1], q[2]} = {p[1], p[2]}
  BY <1>3
<1> HIDE DEF Crossing
<1>7. {{p[1], p[2]} : p \in UnitOverlaps(c)} = {{p[1], p[2]} : p \in Crossing}
  <2> DEFINE Found == {{p[1], p[2]} : p \in UnitOverlaps(c)}
             There == {{p[1], p[2]} : p \in Crossing}
  <2>1. ASSUME NEW e \in Found PROVE e \in There
    <3>1. PICK p \in UnitOverlaps(c) : e = {p[1], p[2]}
      OBVIOUS
    <3> QED
      BY <1>6, <3>1
  <2>2. ASSUME NEW e \in There PROVE e \in Found
    <3>1. PICK p \in Crossing : e = {p[1], p[2]}
      OBVIOUS
    <3> QED
      BY <1>5, <3>1
  <2> HIDE DEF Found, There
  <2>3. Found = There
    BY <2>1, <2>2
  <2> QED
    BY <2>3 DEF Found, There
<1> QED
  BY <1>1, <1>7

(* What is reported of neighbours is too close.                            *)
LEMMA GapsAreClose ==
  ASSUME NEW c, CalendarOk(c), NEW g \in GroupsOf(c)
  PROVE  NeighbourGaps(c, InOrder(c, g)) \subseteq CloseByDefinition(c)
<1> DEFINE laid == InOrder(c, g)
<1>1. g \in SUBSET DOMAIN c /\ \A a, b \in g : c[a].of = c[b].of
  BY GroupOf
<1>2. PICK n : LaidOut(c, g, laid, n)
  BY <1>1, GroupsAreLaidOut
<1> HIDE DEF laid
<1>3. n \in Nat /\ Len(laid) = n
  BY <1>2 DEF LaidOut
<1>4. ASSUME NEW p \in NeighbourGaps(c, laid) PROVE p \in CloseByDefinition(c)
  <2>1. PICK k \in 1 .. n - 1 : p = <<laid[k], laid[k + 1]>> /\ TooClose(c[laid[k]], c[laid[k + 1]])
    BY <1>3, <1>4 DEF NeighbourGaps
  <2>2. k \in 1 .. n /\ k + 1 \in 1 .. n /\ k < k + 1
    BY <1>3
  <2>3. laid[k] \in g /\ laid[k + 1] \in g /\ laid[k] # laid[k + 1]
    <3> DEFINE h == k + 1
    <3>1. h \in 1 .. n /\ k < h
      BY <2>2
    <3> HIDE DEF h
    <3>2. laid[k] \in g /\ laid[h] \in g /\ laid[k] # laid[h]
      <4>1. Rising(c, g, laid, n)
        BY <1>1, <1>2, SweepIsWhole
      <4> QED
        BY <2>2, <3>1, <4>1 DEF Rising
    <3> QED
      BY <3>2 DEF h
  <2> DEFINE a == laid[k]
             b == laid[k + 1]
  <2>4. /\ p = <<a, b>> /\ TooClose(c[a], c[b]) /\ a # b /\ c[a].of = c[b].of
        /\ a \in DOMAIN c /\ b \in DOMAIN c
    BY <1>1, <2>1, <2>3
  <2> HIDE DEF a, b
  <2> QED
    BY <2>4 DEF CloseByDefinition
<1> QED
  BY <1>4 DEF laid

(* Without an overlap and without a neighbour that is too close, every     *)
(* assignment ends before the next one starts and leaves time to rest.     *)
Spaced(before, after) ==
  /\ after.start >= before.end
  /\ after.start >= before.end + before.rest /\ after.start >= before.end + after.rest

WellTimed(x) == x.start \in Nat /\ x.end \in Nat /\ x.rest \in Nat /\ x.start < x.end

LEMMA SpacedIsNotClose ==
  ASSUME NEW x, NEW y, WellTimed(x), WellTimed(y)
  PROVE  /\ Spaced(x, y) <=> y.start >= x.end /\ ~RestTooShort(x, y)
         /\ y.start >= x.end => ~TooClose(y, x)
<1>1. RestTooShort(x, y) <=> y.start >= x.end /\ y.start - x.end < Larger(x.rest, y.rest)
  BY DEF RestTooShort
<1>2. Spaced(x, y) <=> y.start >= x.end /\ ~RestTooShort(x, y)
  BY <1>1 DEF Spaced, Larger, WellTimed
<1>3. y.start >= x.end => ~(x.start >= y.end)
  BY DEF WellTimed
<1>4. y.start >= x.end => ~TooClose(y, x)
  BY <1>3 DEF TooClose, RestTooShort, WayTooLong
<1> QED
  BY <1>2, <1>4

(* Where the times between places are known, so is whether there is time   *)
(* to travel.                                                              *)
InTime(before, after) == after.start >= before.end + Between(before.place, after.place)

LEMMA WaysAreTimes ==
  ASSUME NEW P, Charted(P), NEW p \in P, NEW q \in P
  PROVE  Between(p, q) \in Nat
<1>1. p # q => Travel[{p, q}] \in Nat
  BY AlgorithmsAssumption DEF AlgorithmsAssumption, Charted
<1> QED
  BY <1>1 DEF Between

LEMMA InTimeIsNotTooLong ==
  ASSUME NEW P, Charted(P), NEW x, NEW y, WellTimed(x), WellTimed(y), x.place \in P, y.place \in P,
         y.start >= x.end
  PROVE  InTime(x, y) <=> ~WayTooLong(x, y)
<1> DEFINE way == {x.place, y.place}
<1>1. Nowhere \notin way /\ (x.place # y.place => way \in DOMAIN Travel)
  BY DEF Charted
<1>2. x.place # y.place => Between(x.place, y.place) = Travel[way]
  BY DEF Between
<1>3. x.place = y.place => Between(x.place, y.place) = 0
  BY DEF Between
<1>4. WayTooLong(x, y) <=> x.place # y.place /\ y.start - x.end < Travel[way]
  BY <1>1 DEF WayTooLong
<1>5. Between(x.place, y.place) \in Nat
  BY WaysAreTimes
<1> HIDE DEF way
<1> QED
  BY <1>2, <1>3, <1>4, <1>5 DEF InTime, WellTimed

LEMMA TravelSpreads ==
  ASSUME NEW c, CalendarOk(c), NEW ids \in SUBSET DOMAIN c, NEW laid, NEW n, LaidOut(c, ids, laid, n),
         NEW P, Charted(P), \A i \in 1 .. n : c[laid[i]].place \in P,
         \A i \in 1 .. n - 1 : InTime(c[laid[i]], c[laid[i + 1]])
  PROVE  \A i, j \in 1 .. n : i < j => InTime(c[laid[i]], c[laid[j]])
<1>1. n \in Nat
  BY DEF LaidOut
<1> DEFINE s(i) == c[laid[i]].start
           e(i) == c[laid[i]].end
           w(i, j) == Between(c[laid[i]].place, c[laid[j]].place)
<1>2. \A i \in 1 .. n : s(i) \in Nat /\ e(i) \in Nat /\ s(i) < e(i)
  <2>1. \A i \in 1 .. n : laid[i] \in DOMAIN c
    BY DEF LaidOut
  <2> QED
    BY <2>1 DEF CalendarOk
<1>3. \A i, j \in 1 .. n : w(i, j) \in Nat
  BY WaysAreTimes
<1>4. \A i, j, k \in 1 .. n : w(i, k) <= w(i, j) + w(j, k)
  <2>1. \A p, q, r \in P : Between(p, r) <= Between(p, q) + Between(q, r)
    BY DEF Charted
  <2> QED
    BY <2>1
<1>5. \A i \in 1 .. n - 1, k \in 1 .. n : k = i + 1 => s(k) >= e(i) + w(i, k)
  BY DEF InTime
<1>6. ASSUME NEW i \in 1 .. n, NEW j \in 1 .. n, i < j, ~InTime(c[laid[i]], c[laid[j]])
      PROVE  FALSE
  <2> DEFINE Late == {k \in 1 .. n : i < k /\ ~(s(k) >= e(i) + w(i, k))}
  <2>1. Late \subseteq Nat /\ j \in Late
    BY <1>6 DEF InTime
  <2>2. PICK k \in Late : \A m \in Late : k <= m
    <3> HIDE DEF Late
    <3> QED
      BY <2>1, LeastNatural
  <2>3. k \in 1 .. n /\ i < k /\ ~(s(k) >= e(i) + w(i, k))
    BY <2>2
  <2> DEFINE m == k - 1
  <2>4. m \in 1 .. n - 1 /\ m \in 1 .. n /\ (m = i \/ i < m) /\ k = m + 1 /\ ~(k <= m)
    BY <1>1, <2>3
  <2> HIDE DEF m, s, e, w
  <2>5. m # i /\ i < m
    BY <1>5, <2>3, <2>4
  <2>6. s(m) >= e(i) + w(i, m)
    BY <2>2, <2>4, <2>5
  <2>7. s(k) >= e(m) + w(m, k)
    BY <1>5, <2>3, <2>4
  <2>8. w(i, k) <= w(i, m) + w(m, k)
    BY <1>4, <2>3, <2>4
  <2>9. s(m) < e(m) /\ {s(m), e(m), s(k), e(i)} \subseteq Nat /\ {w(i, k), w(i, m), w(m, k)} \subseteq Nat
    BY <1>2, <1>3, <2>3, <2>4
  <2> QED
    BY <2>3, <2>6, <2>7, <2>8, <2>9
<1> QED
  BY <1>6

LEMMA SpacingSpreads ==
  ASSUME NEW c, CalendarOk(c), NEW ids \in SUBSET DOMAIN c, NEW laid, NEW n, LaidOut(c, ids, laid, n),
         \A i \in 1 .. n - 1 : Spaced(c[laid[i]], c[laid[i + 1]])
  PROVE  \A i, j \in 1 .. n : i < j => Spaced(c[laid[i]], c[laid[j]])
<1>1. n \in Nat
  BY DEF LaidOut
<1> DEFINE s(i) == c[laid[i]].start
           e(i) == c[laid[i]].end
           r(i) == c[laid[i]].rest
<1>2. \A i \in 1 .. n : s(i) \in Nat /\ e(i) \in Nat /\ r(i) \in Nat /\ s(i) < e(i)
  <2>1. \A i \in 1 .. n : laid[i] \in DOMAIN c
    BY DEF LaidOut
  <2> QED
    BY <2>1 DEF CalendarOk
<1>3. \A i, j \in 1 .. n : i < j => s(i) <= s(j)
  BY SweepIsWhole DEF Rising
<1>4. \A i \in 1 .. n - 1, k \in 1 .. n :
        k = i + 1 => s(k) >= e(i) /\ s(k) >= e(i) + r(i) /\ s(k) >= e(i) + r(k)
  BY DEF Spaced
<1>5. ASSUME NEW i \in 1 .. n, NEW j \in 1 .. n, i < j PROVE Spaced(c[laid[i]], c[laid[j]])
  <2> HIDE DEF s, e, r
  <2>1. \A k \in 1 .. n : i < k => e(i) <= e(k)
    <3> SUFFICES ASSUME NEW k \in 1 .. n, i < k PROVE e(i) <= e(k)
      OBVIOUS
    <3> DEFINE h == i + 1
    <3>1. h \in 1 .. n /\ (h = k \/ h < k) /\ i \in 1 .. n - 1 /\ h = i + 1
      BY <1>1
    <3> HIDE DEF h
    <3>2. s(h) >= e(i)
      BY <1>4, <3>1
    <3>3. s(h) <= s(k) /\ s(h) \in Nat
      BY <1>2, <1>3, <3>1
    <3> QED
      BY <1>2, <3>2, <3>3
  <2> DEFINE h == i + 1
             g == j - 1
  <2>2. /\ h \in 1 .. n /\ (h = j \/ h < j) /\ i \in 1 .. n - 1
        /\ g \in 1 .. n - 1 /\ g \in 1 .. n /\ (g = i \/ i < g) /\ j = g + 1 /\ h = i + 1
    BY <1>1, <1>5
  <2> HIDE DEF h, g
  <2>3. s(h) >= e(i) /\ s(h) >= e(i) + r(i)
    BY <1>4, <2>2
  <2>4. s(j) >= e(g) + r(j)
    BY <1>4, <2>2
  <2>5. s(h) <= s(j) /\ e(i) <= e(g)
    BY <1>2, <1>3, <2>1, <2>2
  <2>6. s(j) >= e(i) /\ s(j) >= e(i) + r(i) /\ s(j) >= e(i) + r(j)
    BY <1>2, <2>2, <2>3, <2>4, <2>5
  <2> QED
    BY <2>6 DEF Spaced, s, e, r
<1> QED
  BY <1>5

(* When no pair overlaps and no neighbours are too close, nobody rests too *)
(* little, and one who does not get somewhere in time has a way to go that *)
(* is not charted: the distance to a neighbour is never larger than to one *)
(* behind it.                                                              *)
LEMMA CleanIsClean ==
  ASSUME NEW c, CalendarOk(c), UnitOverlaps(c) = {},
         \A g \in GroupsOf(c) : NeighbourGaps(c, InOrder(c, g)) = {},
         NEW p \in CloseByDefinition(c)
  PROVE  ~RestTooShort(c[p[1]], c[p[2]]) /\ ~Charted(PlacesOf(c, c[p[1]].of))
<1> DEFINE a == p[1]
           b == p[2]
           P == PlacesOf(c, c[a].of)
<1>1. a \in DOMAIN c /\ b \in DOMAIN c /\ a # b /\ c[a].of = c[b].of /\ TooClose(c[a], c[b])
  BY DEF CloseByDefinition
<1> HIDE DEF a, b
<1>2. PICK g \in GroupsOf(c) : \A x \in DOMAIN c : x \in g <=> c[x].of = c[a].of
  BY <1>1, GroupOf
<1>3. a \in g /\ b \in g /\ g \in SUBSET DOMAIN c
  BY <1>1, <1>2, GroupOf
<1> DEFINE laid == InOrder(c, g)
<1>4. PICK n : LaidOut(c, g, laid, n)
  BY <1>3, GroupsAreLaidOut
<1>5. NeighbourGaps(c, laid) = {}
  OBVIOUS
<1>6. Sweep(c, laid) = {}
  BY DEF UnitOverlaps
<1> HIDE DEF laid
<1>7. n \in Nat /\ Len(laid) = n /\ \A i \in 1 .. n : laid[i] \in g /\ laid[i] \in DOMAIN c
  BY <1>3, <1>4 DEF LaidOut
<1>8. \A i \in 1 .. n : WellTimed(c[laid[i]]) /\ c[laid[i]].place \in P
  BY <1>2, <1>7 DEF CalendarOk, WellTimed, PlacesOf
<1> HIDE DEF P
<1>9. ASSUME NEW i \in 1 .. n, NEW j \in 1 .. n, i < j PROVE c[laid[j]].start >= c[laid[i]].end
  <2>1. ~(c[laid[j]].start < c[laid[i]].end)
    <3>1. Swept(c, laid, n)
      BY <1>3, <1>4, SweepIsWhole
    <3>2. <<laid[i], laid[j]>> \notin Sweep(c, laid)
      BY <1>6
    <3> QED
      BY <1>9, <3>1, <3>2 DEF Swept
  <2> QED
    BY <1>8, <2>1 DEF WellTimed
<1>10. ASSUME NEW i \in 1 .. n - 1
       PROVE  /\ Spaced(c[laid[i]], c[laid[i + 1]])
              /\ Charted(P) => InTime(c[laid[i]], c[laid[i + 1]])
  <2> DEFINE h == i + 1
  <2>1. i \in 1 .. n /\ h \in 1 .. n /\ i < h
    BY <1>7
  <2>2. ~TooClose(c[laid[i]], c[laid[h]])
    BY <1>5, <1>7 DEF NeighbourGaps
  <2> HIDE DEF h
  <2>3. c[laid[h]].start >= c[laid[i]].end
    BY <1>9, <2>1
  <2>4. ~RestTooShort(c[laid[i]], c[laid[h]]) /\ ~WayTooLong(c[laid[i]], c[laid[h]])
    BY <2>2 DEF TooClose
  <2>5. Spaced(c[laid[i]], c[laid[h]])
    BY <1>8, <2>1, <2>3, <2>4, SpacedIsNotClose
  <2>6. Charted(P) => InTime(c[laid[i]], c[laid[h]])
    BY <1>8, <2>1, <2>3, <2>4, InTimeIsNotTooLong
  <2> QED
    BY <2>5, <2>6 DEF h
<1>11. \A i, j \in 1 .. n : i < j => Spaced(c[laid[i]], c[laid[j]])
  BY <1>3, <1>4, <1>10, SpacingSpreads
<1>12. Charted(P) => \A i, j \in 1 .. n : i < j => InTime(c[laid[i]], c[laid[j]])
  <2>1. \A i \in 1 .. n : c[laid[i]].place \in P
    BY <1>8
  <2> QED
    BY <1>3, <1>4, <1>10, <2>1, TravelSpreads
<1>13. PICK i \in 1 .. n, j \in 1 .. n : laid[i] = a /\ laid[j] = b
  BY <1>3, <1>4 DEF LaidOut
<1>14. i < j
  <2>1. CASE j < i
    <3>1. c[a].start >= c[b].end
      BY <1>9, <1>13, <2>1
    <3> QED
      BY <1>1, <1>8, <1>13, <3>1, SpacedIsNotClose
  <2> QED
    BY <1>1, <1>7, <1>13, <2>1
<1>15. WellTimed(c[a]) /\ WellTimed(c[b]) /\ c[a].place \in P /\ c[b].place \in P /\ c[b].start >= c[a].end
  BY <1>8, <1>9, <1>13, <1>14
<1>16. ~RestTooShort(c[a], c[b])
  <2>1. Spaced(c[a], c[b])
    BY <1>11, <1>13, <1>14
  <2> QED
    BY <1>15, <2>1, SpacedIsNotClose
<1>17. ASSUME Charted(P) PROVE FALSE
  <2>1. InTime(c[a], c[b])
    BY <1>12, <1>13, <1>14, <1>17
  <2>2. WayTooLong(c[a], c[b])
    BY <1>1, <1>16 DEF TooClose
  <2> QED
    BY <1>15, <1>17, <2>1, <2>2, InTimeIsNotTooLong
<1> QED
  BY <1>16, <1>17 DEF a, b, P

-----------------------------------------------------------------------------
(* Dependencies.                                                           *)
GraphOk(nodes, edges) == nodes \subseteq Nat /\ IsFiniteSet(nodes) /\ edges \subseteq nodes \X nodes

Direct(edges, node) == {e[2] : e \in {d \in edges : d[1] = node}}

Widens(within, k, nodes, edges, node) ==
  /\ within \in [0 .. k -> SUBSET nodes]
  /\ within[0] = Direct(edges, node)
  /\ \A n \in 1 .. k : within[n] = Successors(edges, within[n - 1])

(* Reaching one edge further at a time is a function of the number of      *)
(* edges.                                                                  *)
LEMMA ReachableIs ==
  ASSUME NEW nodes, NEW edges, GraphOk(nodes, edges), NEW node
  PROVE  \E within : /\ Widens(within, Cardinality(nodes), nodes, edges, node)
                     /\ Reachable(nodes, edges, node) = within[Cardinality(nodes)]
<1> DEFINE k == Cardinality(nodes)
           Fits == SUBSET nodes
           first == Direct(edges, node)
           step == [n \in 1 .. k |-> [s \in Fits |-> Successors(edges, s)]]
           Wide(g) == g = [n \in 0 .. k |-> IF n = 0 THEN {e[2] : e \in {d \in edges : d[1] = node}}
                                            ELSE Successors(edges, g[n - 1])]
           within == CHOOSE g : Wide(g)
<1>1. k \in Nat
  BY FS_CardinalityType DEF GraphOk
<1>2. first \in Fits /\ \A s \in Fits : Successors(edges, s) \in Fits
  BY DEF Direct, Successors, GraphOk
<1>3. first = {e[2] : e \in {d \in edges : d[1] = node}}
  BY DEF Direct
<1> HIDE DEF k, Fits, first
<1>4. PICK g \in [0 .. k -> Fits] : g[0] = first /\ \A n \in 1 .. k : g[n] = Successors(edges, g[n - 1])
  <2>1. step \in Steps(k, Fits)
    BY <1>2 DEF Steps
  <2>2. \A n \in 1 .. k, s \in Fits : step[n][s] = Successors(edges, s)
    OBVIOUS
  <2> HIDE DEF step
  <2>3. PICK g : Iterates(g, k, Fits, first, step)
    BY <1>1, <1>2, <2>1, StepByStep
  <2>4. g \in [0 .. k -> Fits] /\ g[0] = first /\ \A n \in 1 .. k : g[n] = step[n][g[n - 1]]
    BY <2>3 DEF Iterates
  <2>5. \A n \in 1 .. k : g[n - 1] \in Fits
    BY <1>1, <2>4
  <2> QED
    BY <2>2, <2>4, <2>5
<1>5. Wide(g)
  <2>1. \A n \in 0 .. k : g[n] = IF n = 0 THEN first ELSE Successors(edges, g[n - 1])
    BY <1>1, <1>4
  <2> QED
    BY <1>3, <1>4, <2>1
<1>6. Wide(within)
  <2> HIDE DEF Wide
  <2> QED
    BY <1>5
<1>7. Reachable(nodes, edges, node) = within[k]
  BY DEF Reachable, k
<1> HIDE DEF within, step
<1>8. /\ within[0] = first
      /\ \A n \in 1 .. k : within[n] = Successors(edges, within[n - 1])
  <2> DEFINE value(n) == IF n = 0 THEN first ELSE Successors(edges, within[n - 1])
  <2>1. within = [n \in 0 .. k |-> value(n)]
    BY <1>3, <1>6
  <2>2. 0 \in 0 .. k /\ value(0) = first
    BY <1>1
  <2>3. \A n \in 1 .. k : n \in 0 .. k /\ value(n) = Successors(edges, within[n - 1])
    BY <1>1
  <2> HIDE DEF value, Wide
  <2>4. \A n \in 0 .. k : within[n] = value(n)
    BY <2>1
  <2> QED
    BY <2>2, <2>3, <2>4
<1>9. \A n \in 0 .. k : within[n] \in Fits
  <2> DEFINE Good == {n \in 0 .. k : within[n] \in Fits}
  <2>1. 0 \in Good
    BY <1>1, <1>2, <1>8
  <2>2. \A n \in 1 .. k : n - 1 \in Good => n \in Good
    BY <1>1, <1>2, <1>8
  <2> HIDE DEF Good
  <2>3. \A n \in 0 .. k : n \in Good
    BY <1>1, <2>1, <2>2, BoundedInduction
  <2> QED
    BY <2>3 DEF Good
<1>10. within \in [0 .. k -> Fits]
  BY <1>6, <1>9
<1>11. Widens(within, k, nodes, edges, node)
  BY <1>8, <1>10 DEF Widens, Fits, first
<1> QED
  BY <1>7, <1>11 DEF k

(* What is reachable: the least set with the direct successors that is     *)
(* closed.                                                                 *)
Closed(edges, S) == \A e \in edges : e[1] \in S => e[2] \in S

(* After as many edges as there are nodes nothing new is reached.          *)
LEMMA ReachableIsClosed ==
  ASSUME NEW nodes, NEW edges, GraphOk(nodes, edges), NEW node
  PROVE  LET R == Reachable(nodes, edges, node) IN
         /\ R \subseteq nodes /\ Direct(edges, node) \subseteq R /\ Closed(edges, R)
         /\ \A S : Direct(edges, node) \subseteq S /\ Closed(edges, S) => R \subseteq S
<1> DEFINE k == Cardinality(nodes)
           R == Reachable(nodes, edges, node)
<1>1. k \in Nat /\ IsFiniteSet(nodes)
  BY FS_CardinalityType DEF GraphOk
<1>2. PICK within : Widens(within, k, nodes, edges, node) /\ R = within[k]
  BY ReachableIs
<1> HIDE DEF R
<1>3. /\ within[0] = Direct(edges, node)
      /\ \A n \in 0 .. k : within[n] \subseteq nodes
      /\ \A n \in 1 .. k : within[n] = Successors(edges, within[n - 1])
  BY <1>2 DEF Widens
<1>4. k \in 0 .. k
  BY <1>1
<1> HIDE DEF k
<1>5. Direct(edges, node) \subseteq R
  <2> DEFINE Good == {n \in 0 .. k : Direct(edges, node) \subseteq within[n]}
  <2>1. 0 \in Good
    BY <1>1, <1>3
  <2>2. \A n \in 1 .. k : n - 1 \in Good => n \in Good
    BY <1>1, <1>3 DEF Successors
  <2> HIDE DEF Good
  <2>3. \A n \in 0 .. k : n \in Good
    BY <1>1, <2>1, <2>2, BoundedInduction
  <2>4. k \in Good
    BY <1>4, <2>3
  <2> QED
    BY <1>2, <2>4 DEF Good
<1>6. Closed(edges, R)
  <2> DEFINE size(n) == Cardinality(within[n])
             Good == {n \in 0 .. k : Closed(edges, within[n]) \/ size(n) >= n}
  <2>1. \A n \in 0 .. k : IsFiniteSet(within[n]) /\ size(n) \in Nat
    BY <1>1, <1>3, FS_Subset, FS_CardinalityType
  <2>2. 0 \in Good
    BY <1>1, <2>1
  <2>3. ASSUME NEW n \in 1 .. k, n - 1 \in Good PROVE n \in Good
    <3>1. n - 1 \in 0 .. k /\ n \in 0 .. k /\ n - 1 \in Int /\ n \in Int
      BY <1>1
    <3>2. within[n] = Successors(edges, within[n - 1])
      BY <1>3
    <3>3. CASE Closed(edges, within[n - 1])
      <4>1. within[n] = within[n - 1]
        BY <3>2, <3>3 DEF Closed, Successors
      <4> QED
        BY <3>1, <3>3, <4>1
    <3>4. CASE ~Closed(edges, within[n - 1])
      <4>1. within[n - 1] \subseteq within[n] /\ within[n - 1] # within[n]
        BY <3>2, <3>4 DEF Closed, Successors
      <4> DEFINE a == within[n - 1]
                 b == within[n]
      <4>2. a \subseteq b /\ a # b /\ IsFiniteSet(b)
        BY <2>1, <3>1, <4>1
      <4> HIDE DEF a, b
      <4>3. Cardinality(a) <= Cardinality(b) /\ Cardinality(a) # Cardinality(b)
        BY <4>2, FS_Subset
      <4>4. size(n - 1) <= size(n) /\ size(n - 1) # size(n)
        BY <4>3 DEF a, b
      <4>5. size(n - 1) >= n - 1 /\ size(n - 1) \in Nat /\ size(n) \in Nat
        BY <2>1, <2>3, <3>1, <3>4
      <4> HIDE DEF size
      <4>6. size(n) >= n
        BY <3>1, <4>4, <4>5
      <4> QED
        BY <3>1, <4>6
    <3> QED
      BY <3>3, <3>4
  <2> HIDE DEF Good, size
  <2>4. \A n \in 0 .. k : n \in Good
    BY <1>1, <2>2, <2>3, BoundedInduction
  <2>5. Closed(edges, R) \/ Cardinality(R) >= k
    BY <1>2, <1>4, <2>4 DEF Good, size
  <2>6. ASSUME Cardinality(R) >= k PROVE Closed(edges, R)
    <3>1. R \subseteq nodes
      BY <1>2, <1>3, <1>4
    <3>2. Cardinality(R) = Cardinality(nodes)
      <4>1. Cardinality(R) <= Cardinality(nodes) /\ Cardinality(R) \in Nat
        BY <1>1, <3>1, FS_Subset, FS_CardinalityType
      <4> QED
        BY <1>1, <2>6, <4>1 DEF k
    <3>3. R = nodes
      BY <1>1, <3>1, <3>2, FS_Subset
    <3> QED
      BY <3>3 DEF Closed, GraphOk
  <2> QED
    BY <2>5, <2>6
<1>7. ASSUME NEW S, Direct(edges, node) \subseteq S, Closed(edges, S) PROVE R \subseteq S
  <2> DEFINE Good == {n \in 0 .. k : within[n] \subseteq S}
  <2>1. 0 \in Good
    BY <1>1, <1>3, <1>7
  <2>2. ASSUME NEW n \in 1 .. k, n - 1 \in Good PROVE n \in Good
    <3>1. within[n] = Successors(edges, within[n - 1]) /\ within[n - 1] \subseteq S
      BY <1>3, <2>2
    <3>2. within[n] \subseteq S
      BY <1>7, <3>1 DEF Successors, Closed
    <3> QED
      BY <3>2
  <2> HIDE DEF Good
  <2>3. \A n \in 0 .. k : n \in Good
    BY <1>1, <2>1, <2>2, BoundedInduction
  <2> QED
    BY <1>2, <1>4, <2>3 DEF Good
<1>8. R \subseteq nodes
  BY <1>2, <1>3, <1>4
<1> QED
  BY <1>5, <1>6, <1>7, <1>8 DEF R

(* Without a cycle some task is ready until all are taken: one of those    *)
(* left from which the most tasks are reached.                             *)
LEMMA SomeTaskIsReady ==
  ASSUME NEW nodes, NEW edges, GraphOk(nodes, edges), ~DetectDependencyCycle(nodes, edges),
         NEW taken \in SUBSET nodes, taken # nodes
  PROVE  \E n \in nodes \ taken : Ready(edges, taken, n)
<1> DEFINE k == Cardinality(nodes)
           R(n) == Reachable(nodes, edges, n)
           rest(n) == k - Cardinality(R(n))
           Left == nodes \ taken
           Rests == {rest(n) : n \in Left}
<1>1. k \in Nat /\ IsFiniteSet(nodes) /\ Left # {}
  BY FS_CardinalityType DEF GraphOk
<1>2. \A n \in nodes : /\ R(n) \subseteq nodes /\ Direct(edges, n) \subseteq R(n) /\ Closed(edges, R(n))
                       /\ \A S : Direct(edges, n) \subseteq S /\ Closed(edges, S) => R(n) \subseteq S
  BY ReachableIsClosed
<1>3. \A n \in nodes : n \notin R(n)
  BY DEF DetectDependencyCycle
<1> HIDE DEF R, k
<1>4. \A n \in nodes : IsFiniteSet(R(n)) /\ Cardinality(R(n)) \in Nat /\ rest(n) \in Nat
  <2> SUFFICES ASSUME NEW n \in nodes
               PROVE  IsFiniteSet(R(n)) /\ Cardinality(R(n)) \in Nat /\ rest(n) \in Nat
    OBVIOUS
  <2>1. R(n) \subseteq nodes
    BY <1>2
  <2>2. IsFiniteSet(R(n)) /\ Cardinality(R(n)) <= Cardinality(nodes) /\ Cardinality(R(n)) \in Nat
    BY <1>1, <2>1, FS_Subset, FS_CardinalityType
  <2> QED
    BY <1>1, <2>2 DEF k
<1>5. PICK n \in Left : \A m \in Left : rest(n) <= rest(m)
  <2>1. Rests \subseteq Nat /\ Rests # {}
    BY <1>1, <1>4
  <2> HIDE DEF rest
  <2>2. PICK x \in Rests : \A y \in Rests : x <= y
    <3> HIDE DEF Rests
    <3> QED
      BY <2>1, LeastNatural
  <2> QED
    BY <2>2
<1>6. ASSUME NEW e \in edges, e[2] = n, e[1] \notin taken PROVE FALSE
  <2> DEFINE m == e[1]
  <2>1. m \in Left /\ m \in nodes /\ n \in nodes
    BY <1>6 DEF GraphOk
  <2>2. n \in R(m)
    <3>1. n \in Direct(edges, m)
      BY <1>6 DEF Direct
    <3> QED
      BY <1>2, <2>1, <3>1
  <2>3. R(n) \subseteq R(m)
    <3>1. Direct(edges, n) \subseteq R(m)
      BY <1>2, <2>1, <2>2 DEF Direct, Closed
    <3> QED
      BY <1>2, <2>1, <3>1
  <2> DEFINE a == R(n)
             b == R(m)
  <2>4. a \subseteq b /\ a # b /\ IsFiniteSet(b)
    BY <1>3, <1>4, <2>1, <2>2, <2>3
  <2>5. rest(n) = k - Cardinality(a) /\ rest(m) = k - Cardinality(b) /\ rest(n) <= rest(m)
    BY <1>5, <2>1
  <2>6. Cardinality(a) \in Nat /\ Cardinality(b) \in Nat
    BY <1>4, <2>1
  <2> HIDE DEF a, b, m, rest
  <2>7. Cardinality(a) <= Cardinality(b) /\ Cardinality(a) # Cardinality(b)
    BY <2>4, FS_Subset
  <2> QED
    BY <1>1, <2>5, <2>6, <2>7
<1>7. Ready(edges, taken, n)
  BY <1>6 DEF Ready
<1> QED
  BY <1>5, <1>7

(* The task taken next is ready.                                           *)
LEMMA NextTaskIsReady ==
  ASSUME NEW nodes, NEW edges, GraphOk(nodes, edges), NEW order \in Seq(nodes)
  PROVE  /\ TakeReady(nodes, edges, order) \in Seq(nodes)
         /\ (\E n \in nodes \ Range(order) : Ready(edges, Range(order), n)) =>
              \E n \in nodes \ Range(order) : /\ Ready(edges, Range(order), n)
                                              /\ TakeReady(nodes, edges, order) = Append(order, n)
<1> DEFINE ready == {n \in nodes \ Range(order) : Ready(edges, Range(order), n)}
           first == CHOOSE n \in ready : \A m \in ready : n <= m
<1>1. TakeReady(nodes, edges, order) = IF ready = {} THEN order ELSE Append(order, first)
  BY DEF TakeReady
<1>2. ready # {} => first \in ready
  <2> SUFFICES ASSUME ready # {} PROVE first \in ready
    OBVIOUS
  <2>1. ready \subseteq Nat
    BY DEF GraphOk
  <2>2. \E n \in ready : \A m \in ready : n <= m
    <3> HIDE DEF ready
    <3> QED
      BY <2>1, LeastNatural
  <2> HIDE DEF ready
  <2> QED
    BY <2>2
<1> HIDE DEF first
<1>3. TakeReady(nodes, edges, order) \in Seq(nodes)
  <2>1. ready \subseteq nodes
    OBVIOUS
  <2> HIDE DEF ready
  <2> QED
    BY <1>1, <1>2, <2>1
<1>4. ready = {} <=> ~\E n \in nodes \ Range(order) : Ready(edges, Range(order), n)
  OBVIOUS
<1>5. first \in ready => first \in nodes \ Range(order) /\ Ready(edges, Range(order), first)
  OBVIOUS
<1> HIDE DEF ready
<1> QED
  BY <1>1, <1>2, <1>3, <1>4, <1>5

Ordered(s, n, nodes, edges) ==
  /\ s \in Seq(nodes) /\ Len(s) = n
  /\ \A i, j \in 1 .. n : s[i] = s[j] => i = j
  /\ \A e \in edges, i \in 1 .. n : s[i] = e[2] => \E j \in 1 .. i - 1 : s[j] = e[1]

(* Taking a ready task keeps what was taken in order.                      *)
LEMMA TakingKeepsOrder ==
  ASSUME NEW nodes, NEW edges, GraphOk(nodes, edges), NEW n \in Nat, NEW s, Ordered(s, n, nodes, edges),
         NEW x \in nodes \ Range(s), Ready(edges, Range(s), x)
  PROVE  Ordered(Append(s, x), n + 1, nodes, edges)
<1> DEFINE t == Append(s, x)
           m == n + 1
<1>1. /\ s \in Seq(nodes) /\ Len(s) = n /\ \A i, j \in 1 .. n : s[i] = s[j] => i = j
      /\ \A e \in edges, i \in 1 .. n : s[i] = e[2] => \E j \in 1 .. i - 1 : s[j] = e[1]
  BY DEF Ordered
<1>2. t \in Seq(nodes) /\ Len(t) = m /\ t[m] = x /\ \A i \in 1 .. n : t[i] = s[i]
  BY <1>1
<1>3. Range(s) = {s[i] : i \in 1 .. n}
  BY <1>1 DEF Range
<1>4. \A i \in 1 .. m : i \in 1 .. n \/ i = m
  OBVIOUS
<1>5. 1 .. n \subseteq 1 .. m /\ m \in 1 .. m /\ 1 .. m - 1 = 1 .. n
  OBVIOUS
<1> HIDE DEF t, m
<1>6. \A i, j \in 1 .. m : t[i] = t[j] => i = j
  BY <1>1, <1>2, <1>3, <1>4
<1>7. ASSUME NEW e \in edges, NEW i \in 1 .. m, t[i] = e[2] PROVE \E j \in 1 .. i - 1 : t[j] = e[1]
  <2>1. CASE i \in 1 .. n
    <3>1. PICK j \in 1 .. i - 1 : s[j] = e[1]
      BY <1>1, <1>2, <1>7, <2>1
    <3>2. j \in 1 .. n
      BY <2>1
    <3> QED
      BY <1>2, <3>1, <3>2
  <2>2. CASE i = m
    <3>1. e[1] \in Range(s)
      BY <1>2, <1>7, <2>2 DEF Ready
    <3>2. PICK j \in 1 .. n : s[j] = e[1]
      BY <1>3, <3>1
    <3> QED
      BY <1>2, <1>5, <2>2, <3>2
  <2> QED
    BY <1>4, <2>1, <2>2
<1> QED
  BY <1>2, <1>6, <1>7 DEF Ordered, t, m

Takes(order, k, nodes, edges) ==
  /\ order \in [0 .. k -> Seq(nodes)] /\ order[0] = <<>>
  /\ \A n \in 1 .. k : order[n] = TakeReady(nodes, edges, order[n - 1])

(* The order is what taking one ready task at a time makes of nothing.     *)
LEMMA OrderIs ==
  ASSUME NEW nodes, NEW edges, GraphOk(nodes, edges), ~DetectDependencyCycle(nodes, edges)
  PROVE  \E order : /\ Takes(order, Cardinality(nodes), nodes, edges)
                    /\ TopologicalOrder(nodes, edges) = order[Cardinality(nodes)]
<1> DEFINE k == Cardinality(nodes)
           Fits == Seq(nodes)
           first == <<>>
           step == [n \in 1 .. k |-> [s \in Fits |-> TakeReady(nodes, edges, s)]]
           Taking(g) == g = [n \in 0 .. k |-> IF n = 0 THEN <<>> ELSE TakeReady(nodes, edges, g[n - 1])]
           order == CHOOSE g : Taking(g)
<1>1. k \in Nat
  BY FS_CardinalityType DEF GraphOk
<1>2. first \in Fits /\ \A s \in Fits : TakeReady(nodes, edges, s) \in Fits
  BY NextTaskIsReady
<1>3. first = <<>>
  OBVIOUS
<1> HIDE DEF k, Fits, first
<1>4. PICK g \in [0 .. k -> Fits] : g[0] = first /\ \A n \in 1 .. k : g[n] = TakeReady(nodes, edges, g[n - 1])
  <2>1. step \in Steps(k, Fits)
    BY <1>2 DEF Steps
  <2>2. \A n \in 1 .. k, s \in Fits : step[n][s] = TakeReady(nodes, edges, s)
    OBVIOUS
  <2> HIDE DEF step
  <2>3. PICK g : Iterates(g, k, Fits, first, step)
    BY <1>1, <1>2, <2>1, StepByStep
  <2>4. g \in [0 .. k -> Fits] /\ g[0] = first /\ \A n \in 1 .. k : g[n] = step[n][g[n - 1]]
    BY <2>3 DEF Iterates
  <2>5. \A n \in 1 .. k : g[n - 1] \in Fits
    BY <1>1, <2>4
  <2> QED
    BY <2>2, <2>4, <2>5
<1>5. Taking(g)
  <2>1. \A n \in 0 .. k : g[n] = IF n = 0 THEN first ELSE TakeReady(nodes, edges, g[n - 1])
    BY <1>1, <1>4
  <2> QED
    BY <1>3, <1>4, <2>1
<1>6. Taking(order)
  <2> HIDE DEF Taking
  <2> QED
    BY <1>5
<1>7. TopologicalOrder(nodes, edges) = order[k]
  BY DEF TopologicalOrder, k
<1> HIDE DEF order, step
<1>8. /\ order[0] = first
      /\ \A n \in 1 .. k : order[n] = TakeReady(nodes, edges, order[n - 1])
  <2> DEFINE value(n) == IF n = 0 THEN first ELSE TakeReady(nodes, edges, order[n - 1])
  <2>1. order = [n \in 0 .. k |-> value(n)]
    BY <1>3, <1>6
  <2>2. 0 \in 0 .. k /\ value(0) = first
    BY <1>1
  <2>3. \A n \in 1 .. k : n \in 0 .. k /\ value(n) = TakeReady(nodes, edges, order[n - 1])
    BY <1>1
  <2> HIDE DEF value, Taking
  <2>4. \A n \in 0 .. k : order[n] = value(n)
    BY <2>1
  <2> QED
    BY <2>2, <2>3, <2>4
<1>9. \A n \in 0 .. k : order[n] \in Fits
  <2> DEFINE Good == {n \in 0 .. k : order[n] \in Fits}
  <2>1. 0 \in Good
    BY <1>1, <1>2, <1>8
  <2>2. \A n \in 1 .. k : n - 1 \in Good => n \in Good
    BY <1>1, <1>2, <1>8
  <2> HIDE DEF Good
  <2>3. \A n \in 0 .. k : n \in Good
    BY <1>1, <2>1, <2>2, BoundedInduction
  <2> QED
    BY <2>3 DEF Good
<1>10. order \in [0 .. k -> Fits]
  BY <1>6, <1>9
<1>11. Takes(order, k, nodes, edges)
  BY <1>3, <1>8, <1>10 DEF Takes, Fits
<1> QED
  BY <1>7, <1>11 DEF k

OrderIsRight(nodes, edges, s) ==
  LET place(n) == CHOOSE i \in DOMAIN s : s[i] = n
  IN IF DetectDependencyCycle(nodes, edges) THEN s = <<>>
     ELSE /\ Range(s) = nodes
          /\ Len(s) = Cardinality(nodes)
          /\ \A e \in edges : place(e[1]) < place(e[2])

(* A graph without a cycle is ordered whole: while a task is left, one is  *)
(* ready.                                                                  *)
LEMMA OrderStands ==
  ASSUME NEW nodes, NEW edges, GraphOk(nodes, edges)
  PROVE  OrderIsRight(nodes, edges, TopologicalOrder(nodes, edges))
<1>1. CASE DetectDependencyCycle(nodes, edges)
  BY <1>1 DEF TopologicalOrder, OrderIsRight
<1>2. CASE ~DetectDependencyCycle(nodes, edges)
  <2> DEFINE k == Cardinality(nodes)
             s == TopologicalOrder(nodes, edges)
             place(n) == CHOOSE i \in DOMAIN s : s[i] = n
  <2>1. k \in Nat /\ IsFiniteSet(nodes)
    BY FS_CardinalityType DEF GraphOk
  <2>2. PICK order : Takes(order, k, nodes, edges) /\ s = order[k]
    BY <1>2, OrderIs
  <2> HIDE DEF s
  <2> DEFINE Good == {n \in 0 .. k : Ordered(order[n], n, nodes, edges)}
  <2>3. 0 \in Good
    <3>1. order[0] = <<>> /\ 0 \in 0 .. k
      BY <2>1, <2>2 DEF Takes
    <3>2. Ordered(<<>>, 0, nodes, edges)
      BY DEF Ordered
    <3> QED
      BY <3>1, <3>2
  <2>4. ASSUME NEW n \in 1 .. k, n - 1 \in Good PROVE n \in Good
    <3> DEFINE m == n - 1
               t == order[m]
    <3>1. m \in Nat /\ m + 1 = n /\ m < k /\ m \in 0 .. k
      BY <2>1
    <3>2. Ordered(t, m, nodes, edges) /\ order[n] = TakeReady(nodes, edges, t)
      BY <2>2, <2>4 DEF Takes
    <3> HIDE DEF m, t
    <3>3. t \in Seq(nodes) /\ Len(t) = m /\ DOMAIN t = 1 .. m /\ \A i, j \in 1 .. m : t[i] = t[j] => i = j
      BY <3>2 DEF Ordered
    <3>4. Range(t) \in SUBSET nodes /\ Range(t) # nodes
      <4>1. Range(t) \in SUBSET nodes
        BY <3>3 DEF Range
      <4> DEFINE All == 1 .. m
                 T == Range(t)
      <4>2. IsFiniteSet(All) /\ Cardinality(All) = m
        BY <3>1, FS_Interval
      <4>3. t \in [All -> T] /\ \A y \in T : \E i \in All : t[i] = y
        BY <3>3 DEF Range
      <4>4. \A i, j \in All : t[i] = t[j] => i = j
        BY <3>3
      <4> HIDE DEF All, T
      <4>5. t \in Surjection(All, T) /\ t \in Injection(All, T)
        BY <4>3, <4>4 DEF Surjection, Injection, IsInjective
      <4>6. Cardinality(T) = m
        BY <4>2, <4>5, FS_Surjection
      <4> QED
        BY <2>1, <3>1, <4>1, <4>6 DEF T
    <3>5. \E x \in nodes \ Range(t) : Ready(edges, Range(t), x)
      BY <1>2, <3>4, SomeTaskIsReady
    <3>6. PICK x \in nodes \ Range(t) : /\ Ready(edges, Range(t), x)
                                        /\ TakeReady(nodes, edges, t) = Append(t, x)
      BY <3>3, <3>5, NextTaskIsReady
    <3>7. Ordered(Append(t, x), m + 1, nodes, edges)
      BY <3>1, <3>2, <3>6, TakingKeepsOrder
    <3>8. Ordered(order[n], n, nodes, edges)
      BY <3>1, <3>2, <3>6, <3>7
    <3> QED
      BY <3>8
  <2> HIDE DEF Good
  <2>5. \A n \in 0 .. k : n \in Good
    BY <2>1, <2>3, <2>4, BoundedInduction
  <2>6. Ordered(s, k, nodes, edges)
    <3>1. k \in 0 .. k
      BY <2>1
    <3> QED
      BY <2>2, <2>5, <3>1 DEF Good
  <2>7. /\ s \in Seq(nodes) /\ Len(s) = k /\ DOMAIN s = 1 .. k
        /\ \A i, j \in 1 .. k : s[i] = s[j] => i = j
        /\ \A e \in edges, i \in 1 .. k : s[i] = e[2] => \E j \in 1 .. i - 1 : s[j] = e[1]
    BY <2>6 DEF Ordered
  <2>8. Range(s) = nodes
    <3> DEFINE All == 1 .. k
               T == Range(s)
    <3>1. IsFiniteSet(All) /\ Cardinality(All) = k
      BY <2>1, FS_Interval
    <3>2. s \in [All -> T] /\ \A y \in T : \E i \in All : s[i] = y
      BY <2>7 DEF Range
    <3>3. T \subseteq nodes
      BY <2>7 DEF Range
    <3>4. \A i, j \in All : s[i] = s[j] => i = j
      BY <2>7
    <3> HIDE DEF All, T
    <3>5. s \in Surjection(All, T) /\ s \in Injection(All, T)
      BY <3>2, <3>4 DEF Surjection, Injection, IsInjective
    <3>6. Cardinality(T) = Cardinality(nodes)
      BY <3>1, <3>5, FS_Surjection
    <3>7. T = nodes
      BY <2>1, <3>3, <3>6, FS_Subset
    <3> QED
      BY <3>7 DEF T
  <2>9. ASSUME NEW e \in edges PROVE place(e[1]) < place(e[2])
    <3>1. e[1] \in nodes /\ e[2] \in nodes
      BY DEF GraphOk
    <3>2. \A x \in nodes : place(x) \in 1 .. k /\ s[place(x)] = x
      <4> SUFFICES ASSUME NEW x \in nodes PROVE place(x) \in 1 .. k /\ s[place(x)] = x
        OBVIOUS
      <4>1. \E i \in DOMAIN s : s[i] = x
        BY <2>8 DEF Range
      <4> QED
        BY <2>7, <4>1
    <3> HIDE DEF place, k
    <3>3. PICK j \in 1 .. place(e[2]) - 1 : s[j] = e[1]
      BY <2>7, <3>1, <3>2
    <3>4. j \in 1 .. k /\ j < place(e[2])
      BY <2>1, <3>1, <3>2
    <3>5. j = place(e[1])
      BY <2>7, <3>1, <3>2, <3>3, <3>4
    <3> QED
      BY <3>4, <3>5
  <2> QED
    BY <1>2, <2>7, <2>8, <2>9 DEF OrderIsRight, s
<1> QED
  BY <1>1, <1>2

-----------------------------------------------------------------------------
(* Moves.                                                                  *)
LEMMA LargestNatural ==
  ASSUME NEW S \in SUBSET Nat, S # {}, NEW b \in Nat, \A x \in S : x <= b
  PROVE  \E x \in S : \A y \in S : y <= x
<1> DEFINE Under == {n \in 0 .. b : b - n \in S}
<1>1. Under \subseteq Nat /\ Under # {}
  <2>1. PICK x \in S : TRUE
    OBVIOUS
  <2>2. b - x \in 0 .. b /\ b - (b - x) = x
    OBVIOUS
  <2>3. b - x \in Under
    BY <2>2
  <2>4. Under \subseteq Nat
    OBVIOUS
  <2> HIDE DEF Under
  <2> QED
    BY <2>3, <2>4
<1>2. PICK n \in Under : \A m \in Under : n <= m
  <2> HIDE DEF Under
  <2> QED
    BY <1>1, LeastNatural
<1>3. ASSUME NEW y \in S PROVE y <= b - n
  <2>1. b - y \in 0 .. b /\ b - (b - y) = y
    OBVIOUS
  <2>2. b - y \in Under
    BY <2>1
  <2>3. n <= b - y /\ n \in Int
    BY <1>2, <2>2
  <2> QED
    BY <2>3
<1> QED
  BY <1>2, <1>3

LEMMA RowsAreBounded ==
  ASSUME NEW k \in Nat, NEW g \in [1 .. k -> Nat]
  PROVE  \E b \in Nat : \A j \in 1 .. k : g[j] <= b
<1> DEFINE Good == {n \in 0 .. k : \E b \in Nat : \A j \in 1 .. n : g[j] <= b}
<1>1. 0 \in Good
  OBVIOUS
<1>2. ASSUME NEW n \in 1 .. k, n - 1 \in Good PROVE n \in Good
  <2>1. PICK b \in Nat : \A j \in 1 .. n - 1 : g[j] <= b
    BY <1>2
  <2> DEFINE c == b + g[n]
  <2>2. c \in Nat /\ b <= c /\ g[n] <= c
    OBVIOUS
  <2>3. ASSUME NEW j \in 1 .. n PROVE g[j] <= c
    <3>1. j = n \/ j \in 1 .. n - 1
      OBVIOUS
    <3>2. g[j] \in Nat
      OBVIOUS
    <3> HIDE DEF c
    <3> QED
      BY <2>1, <2>2, <3>1, <3>2
  <2> HIDE DEF c
  <2> QED
    BY <2>2, <2>3
<1> HIDE DEF Good
<1>3. \A n \in 0 .. k : n \in Good
  BY <1>1, <1>2, BoundedInduction
<1>4. k \in Good
  BY <1>3
<1> QED
  BY <1>4 DEF Good

(* The lengths of the runs that end at the places before i, and the length *)
(* at i.                                                                   *)
Before(values, g, i) == {g[j] : j \in {k \in 1 .. i - 1 : values[k] < values[i]}}

LengthAt(values, g, i) ==
  IF Before(values, g, i) = {} THEN 1
  ELSE 1 + CHOOSE n \in Before(values, g, i) : \A m \in Before(values, g, i) : m <= n

(* A length is one more than a largest of those it goes on from.           *)
LEMMA LengthIs ==
  ASSUME NEW k \in Nat, NEW values, NEW i \in 1 .. k, NEW g,
         \A j \in 1 .. i - 1 : g[j] \in Nat
  PROVE  /\ LengthAt(values, g, i) \in Nat \ {0}
         /\ \A j \in 1 .. i - 1 : values[j] < values[i] => g[j] < LengthAt(values, g, i)
         /\ LengthAt(values, g, i) # 1 =>
              \E j \in 1 .. i - 1 : values[j] < values[i] /\ g[j] = LengthAt(values, g, i) - 1
<1> DEFINE B == Before(values, g, i)
           most == CHOOSE n \in B : \A m \in B : m <= n
<1>1. LengthAt(values, g, i) = IF B = {} THEN 1 ELSE 1 + most
  BY DEF LengthAt
<1>2. /\ \A j \in 1 .. i - 1 : values[j] < values[i] => g[j] \in B
      /\ \A n \in B : \E j \in 1 .. i - 1 : values[j] < values[i] /\ g[j] = n
      /\ B \subseteq Nat
  BY DEF Before
<1>3. PICK b \in Nat : \A n \in B : n <= b
  <2> DEFINE h == [j \in 1 .. i - 1 |-> g[j]]
  <2>1. h \in [1 .. i - 1 -> Nat] /\ i - 1 \in Nat /\ \A j \in 1 .. i - 1 : h[j] = g[j]
    OBVIOUS
  <2> DEFINE m == i - 1
  <2>2. h \in [1 .. m -> Nat] /\ m \in Nat
    BY <2>1
  <2> HIDE DEF h, m
  <2>3. PICK b \in Nat : \A j \in 1 .. m : h[j] <= b
    BY <2>2, RowsAreBounded
  <2> QED
    BY <1>2, <2>1, <2>3 DEF m
<1> HIDE DEF B
<1>4. B # {} => most \in B /\ \A m \in B : m <= most
  <2> SUFFICES ASSUME B # {} PROVE most \in B /\ \A m \in B : m <= most
    OBVIOUS
  <2>1. \E n \in B : \A m \in B : m <= n
    BY <1>2, <1>3, LargestNatural
  <2> QED
    BY <2>1
<1> DEFINE here == LengthAt(values, g, i)
<1> HIDE DEF most, here
<1>5. here \in Nat \ {0}
  <2>1. CASE B = {}
    BY <1>1, <2>1 DEF here
  <2>2. CASE B # {}
    <3>1. most \in Nat /\ here = 1 + most
      BY <1>1, <1>2, <1>4, <2>2 DEF here
    <3> QED
      BY <3>1
  <2> QED
    BY <2>1, <2>2
<1>6. ASSUME NEW j \in 1 .. i - 1, values[j] < values[i] PROVE g[j] < here
  <2>1. g[j] \in B /\ g[j] \in Nat /\ g[j] <= most /\ most \in Nat /\ here = 1 + most
    BY <1>1, <1>2, <1>4, <1>6 DEF here
  <2> QED
    BY <2>1
<1>7. ASSUME here # 1 PROVE \E j \in 1 .. i - 1 : values[j] < values[i] /\ g[j] = here - 1
  <2>1. most \in B /\ most \in Nat /\ here = 1 + most
    BY <1>1, <1>2, <1>4, <1>7 DEF here
  <2>2. most = here - 1
    BY <2>1
  <2> QED
    BY <1>2, <2>1, <2>2
<1> QED
  BY <1>5, <1>6, <1>7 DEF here

Lengths(L, values) ==
  /\ L \in [1 .. Len(values) -> Nat \ {0}]
  /\ \A i \in 1 .. Len(values), j \in 1 .. Len(values) : j < i /\ values[j] < values[i] => L[j] < L[i]
  /\ \A i \in 1 .. Len(values) : L[i] # 1 =>
       \E j \in 1 .. Len(values) : j < i /\ values[j] < values[i] /\ L[j] = L[i] - 1

LEMMA LengthsAre ==
  ASSUME NEW values \in Seq(Nat)
  PROVE  Lengths(RunLengths(values), values)
<1> DEFINE k == Len(values)
           Fits == Nat
           rule == [n \in 1 .. k |-> [g \in UNION {[1 .. m -> Fits] : m \in 0 .. k} |->
                      IF g \in [1 .. n - 1 -> Fits] THEN LengthAt(values, g, n) ELSE 0]]
           Measures(g) == g = [i \in DOMAIN values |->
                                LET before == {g[j] : j \in {h \in 1 .. i - 1 : values[h] < values[i]}}
                                IN IF before = {} THEN 1
                                   ELSE 1 + CHOOSE n \in before : \A m \in before : m <= n]
           length == CHOOSE g : Measures(g)
<1>1. k \in Nat /\ DOMAIN values = 1 .. k
  OBVIOUS
<1>2. \A g : Measures(g) <=> g = [i \in 1 .. k |-> LengthAt(values, g, i)]
  BY <1>1 DEF LengthAt, Before
<1>3. RunLengths(values) = [i \in 1 .. k |-> length[i]]
  BY <1>1 DEF RunLengths
<1> HIDE DEF k, Measures
<1>4. \E g : Measures(g)
  <2>1. rule \in Rules(k, Fits)
    <3> SUFFICES ASSUME NEW n \in 1 .. k, NEW g \in UNION {[1 .. m -> Fits] : m \in 0 .. k},
                        g \in [1 .. n - 1 -> Fits]
                 PROVE  LengthAt(values, g, n) \in Fits
      BY DEF Rules
    <3>1. \A j \in 1 .. n - 1 : g[j] \in Nat
      OBVIOUS
    <3> QED
      BY <1>1, <3>1, LengthIs
  <2>2. ASSUME NEW n \in 1 .. k, NEW g \in [1 .. n - 1 -> Fits]
        PROVE  rule[n][g] = LengthAt(values, g, n)
    <3>1. g \in UNION {[1 .. m -> Fits] : m \in 0 .. k}
      <4>1. n - 1 \in 0 .. k
        BY <1>1
      <4> QED
        BY <4>1
    <3> QED
      BY <3>1
  <2> HIDE DEF rule, Fits
  <2>3. PICK g : Follows(g, k, Fits, rule)
    BY <1>1, <2>1, FromEarlier
  <2>4. ASSUME NEW n \in 1 .. k PROVE g[n] = LengthAt(values, g, n)
    <3> DEFINE h == [j \in 1 .. n - 1 |-> g[j]]
    <3>1. g[n] = rule[n][h] /\ h \in [1 .. n - 1 -> Fits]
      BY <1>1, <2>3 DEF Follows
    <3>2. Before(values, h, n) = Before(values, g, n)
      BY DEF Before
    <3> HIDE DEF h
    <3> QED
      BY <2>2, <3>1, <3>2 DEF LengthAt
  <2>5. g = [n \in 1 .. k |-> g[n]]
    BY <2>3 DEF Follows
  <2>6. g = [n \in 1 .. k |-> LengthAt(values, g, n)]
    BY <2>4, <2>5
  <2> QED
    BY <1>2, <2>6
<1>5. Measures(length)
  BY <1>4
<1> HIDE DEF length
<1>6. \A i \in 1 .. k : length[i] = LengthAt(values, length, i)
  <2>1. length = [i \in 1 .. k |-> LengthAt(values, length, i)]
    BY <1>2, <1>5
  <2> QED
    BY <2>1
<1>7. \A i \in 1 .. k : length[i] \in Nat
  <2> DEFINE Good == {n \in 0 .. k : \A i \in 1 .. n : length[i] \in Nat}
  <2>1. 0 \in Good
    BY <1>1
  <2>2. ASSUME NEW n \in 1 .. k, n - 1 \in Good PROVE n \in Good
    <3>1. \A j \in 1 .. n - 1 : length[j] \in Nat
      BY <2>2
    <3>2. length[n] \in Nat
      BY <1>1, <1>6, <3>1, LengthIs
    <3>3. \A i \in 1 .. n : i = n \/ i \in 1 .. n - 1
      BY <1>1
    <3> QED
      BY <3>1, <3>2, <3>3
  <2> HIDE DEF Good
  <2>3. \A n \in 0 .. k : n \in Good
    BY <1>1, <2>1, <2>2, BoundedInduction
  <2> QED
    BY <1>1, <2>3 DEF Good
<1>8. ASSUME NEW i \in 1 .. k
      PROVE  /\ length[i] \in Nat \ {0}
             /\ \A j \in 1 .. i - 1 : values[j] < values[i] => length[j] < length[i]
             /\ length[i] # 1 => \E j \in 1 .. i - 1 : values[j] < values[i] /\ length[j] = length[i] - 1
  <2>1. \A j \in 1 .. i - 1 : length[j] \in Nat
    BY <1>1, <1>7
  <2> DEFINE here == LengthAt(values, length, i)
  <2>2. /\ here \in Nat \ {0}
        /\ \A j \in 1 .. i - 1 : values[j] < values[i] => length[j] < here
        /\ here # 1 => \E j \in 1 .. i - 1 : values[j] < values[i] /\ length[j] = here - 1
    BY <1>1, <2>1, LengthIs
  <2>3. length[i] = here
    BY <1>6
  <2> HIDE DEF here
  <2> QED
    BY <2>2, <2>3
<1> DEFINE L == RunLengths(values)
<1>9. L \in [1 .. k -> Nat \ {0}] /\ \A i \in 1 .. k : L[i] = length[i]
  BY <1>3, <1>8
<1> HIDE DEF L
<1>10. \A i, j \in 1 .. k : j < i <=> j \in 1 .. i - 1
  BY <1>1
<1>11. \A i \in 1 .. k : \A j \in 1 .. i - 1 : j \in 1 .. k
  BY <1>1
<1> QED
  BY <1>8, <1>9, <1>10, <1>11 DEF Lengths, k, L

(* The run that ends at place i goes on from the first place that has the  *)
(* length it needs.                                                        *)
StepsBack(values, L, i) == {k \in 1 .. i - 1 : values[k] < values[i] /\ L[k] = L[i] - 1}

RunAt(values, L, g, i) ==
  IF StepsBack(values, L, i) = {} THEN {i}
  ELSE {i} \cup g[CHOOSE k \in StepsBack(values, L, i) : \A j \in StepsBack(values, L, i) : k <= j]

RunOk(values, L, run, i) ==
  /\ run \subseteq 1 .. i /\ i \in run /\ IsFiniteSet(run) /\ Cardinality(run) = L[i]
  /\ Increasing(values, run)

(* A run that goes on from the place the step back names stays a run, of   *)
(* the length of its last place.                                           *)
LEMMA RunGoesOn ==
  ASSUME NEW values \in Seq(Nat), NEW L, Lengths(L, values), NEW i \in 1 .. Len(values), NEW g,
         \A j \in 1 .. i - 1 : RunOk(values, L, g[j], j)
  PROVE  RunOk(values, L, RunAt(values, L, g, i), i)
<1> DEFINE k == Len(values)
           B == StepsBack(values, L, i)
           last == CHOOSE h \in B : \A j \in B : h <= j
<1>1. k \in Nat /\ \A j \in 1 .. k : values[j] \in Nat
  OBVIOUS
<1>2. /\ L[i] \in Nat \ {0}
      /\ L[i] # 1 => \E j \in 1 .. k : j < i /\ values[j] < values[i] /\ L[j] = L[i] - 1
      /\ \A j \in 1 .. k : L[j] \in Nat \ {0}
  BY DEF Lengths
<1>3. RunAt(values, L, g, i) = IF B = {} THEN {i} ELSE {i} \cup g[last]
  BY DEF RunAt
<1>4. \A h : h \in B <=> h \in 1 .. i - 1 /\ values[h] < values[i] /\ L[h] = L[i] - 1
  BY DEF StepsBack
<1> HIDE DEF B, last, k
<1>5. CASE B = {}
  <2>1. L[i] = 1
    <3> SUFFICES ASSUME L[i] # 1 PROVE FALSE
      OBVIOUS
    <3>1. PICK j \in 1 .. k : j < i /\ values[j] < values[i] /\ L[j] = L[i] - 1
      BY <1>2
    <3>2. j \in 1 .. i - 1
      BY <1>1, <3>1
    <3> QED
      BY <1>4, <1>5, <3>1, <3>2
  <2>2. IsFiniteSet({i}) /\ Cardinality({i}) = 1
    BY FS_Singleton
  <2>3. {i} \subseteq 1 .. i /\ Increasing(values, {i})
    BY DEF Increasing
  <2> QED
    BY <1>3, <1>5, <2>1, <2>2, <2>3 DEF RunOk
<1>6. CASE B # {}
  <2>1. last \in B
    <3>1. B \subseteq Nat
      BY <1>4
    <3>2. \E h \in B : \A j \in B : h <= j
      BY <1>6, <3>1, LeastNatural
    <3> QED
      BY <3>2 DEF last
  <2>2. last \in 1 .. i - 1 /\ values[last] < values[i] /\ L[last] = L[i] - 1
    BY <1>4, <2>1
  <2> DEFINE old == g[last]
             new == {i} \cup old
  <2>3. /\ old \subseteq 1 .. last /\ last \in old /\ IsFiniteSet(old) /\ Cardinality(old) = L[last]
        /\ Increasing(values, old)
    BY <2>2 DEF RunOk
  <2> HIDE DEF old
  <2>4. i \notin old /\ new \subseteq 1 .. i
    BY <2>2, <2>3
  <2>5. IsFiniteSet(new) /\ Cardinality(new) = L[i]
    <3>1. IsFiniteSet(old \cup {i}) /\ Cardinality(old \cup {i}) = Cardinality(old) + 1
      BY <2>3, <2>4, FS_AddElement
    <3>2. new = old \cup {i}
      OBVIOUS
    <3>3. (L[i] - 1) + 1 = L[i]
      BY <1>2
    <3> QED
      BY <2>2, <2>3, <3>1, <3>2, <3>3
  <2>6. \A j \in old : j \in 1 .. k /\ j < i /\ values[j] < values[i]
    <3> SUFFICES ASSUME NEW j \in old PROVE j \in 1 .. k /\ j < i /\ values[j] < values[i]
      OBVIOUS
    <3>1. j \in 1 .. last /\ last \in 1 .. k /\ j \in 1 .. k /\ j < i /\ (j = last \/ j < last)
      BY <1>1, <2>2, <2>3 DEF k
    <3>2. j = last \/ values[j] < values[last]
      BY <2>3, <3>1 DEF Increasing
    <3>3. values[j] \in Nat /\ values[last] \in Nat /\ values[i] \in Nat
      BY <1>1, <3>1 DEF k
    <3> QED
      BY <2>2, <3>1, <3>2, <3>3
  <2>7. Increasing(values, new)
    <3> SUFFICES ASSUME NEW x \in new, NEW y \in new, x < y PROVE values[x] < values[y]
      BY DEF Increasing
    <3>1. CASE y = i
      <4>1. x # i
        BY <3>1
      <4> QED
        BY <2>6, <3>1, <4>1
    <3>2. CASE y # i
      <4>1. y \in old /\ y < i /\ y \in 1 .. k
        BY <2>6, <3>2
      <4>2. x \in old
        BY <1>1, <2>6, <4>1
      <4> QED
        BY <2>3, <4>1, <4>2 DEF Increasing
    <3> QED
      BY <3>1, <3>2
  <2>8. RunAt(values, L, g, i) = new
    BY <1>3, <1>6 DEF old
  <2> HIDE DEF new
  <2>9. i \in new
    BY DEF new
  <2> QED
    BY <2>4, <2>5, <2>7, <2>8, <2>9 DEF RunOk
<1> QED
  BY <1>5, <1>6

MovesAreFewest(values, answered) ==
  /\ Increasing(values, answered)
  /\ \A run \in SUBSET DOMAIN values : Increasing(values, run) => Cardinality(run) <= Cardinality(answered)

(* No run that kept its order is longer than the largest length: along it  *)
(* the lengths grow.                                                       *)
LEMMA RunsAreBounded ==
  ASSUME NEW values \in Seq(Nat), NEW L, Lengths(L, values), NEW m \in Nat,
         \A i \in 1 .. Len(values) : L[i] <= m,
         NEW run \in SUBSET (1 .. Len(values)), Increasing(values, run)
  PROVE  Cardinality(run) <= m
<1> DEFINE k == Len(values)
           f == [i \in run |-> L[i]]
           Image == {L[i] : i \in run}
           All == 1 .. m
<1>1. k \in Nat /\ L \in [1 .. k -> Nat \ {0}]
  BY DEF Lengths
<1>2. IsFiniteSet(run)
  <2>1. IsFiniteSet(1 .. k)
    BY <1>1, FS_Interval
  <2> QED
    BY <2>1, FS_Subset
<1>3. \A i, j \in run : L[i] = L[j] => i = j
  <2>1. \A i, j \in run : i < j => L[i] < L[j]
    BY DEF Increasing, Lengths
  <2>2. \A i \in run : i \in Int /\ L[i] \in Int
    BY <1>1
  <2> QED
    BY <2>1, <2>2
<1>4. Image \subseteq All
  BY <1>1
<1>5. f \in [run -> Image] /\ \A x \in Image : \E i \in run : f[i] = x
  OBVIOUS
<1>6. IsFiniteSet(All) /\ Cardinality(All) = m
  BY FS_Interval
<1> HIDE DEF f, Image, All
<1>7. \A i, j \in run : f[i] = f[j] => i = j
  BY <1>3 DEF f
<1>8. f \in Surjection(run, Image) /\ f \in Injection(run, Image)
  BY <1>5, <1>7 DEF Surjection, Injection, IsInjective
<1>9. Cardinality(Image) = Cardinality(run)
  BY <1>2, <1>8, FS_Surjection
<1>10. Cardinality(Image) <= Cardinality(All)
  BY <1>4, <1>6, FS_Subset
<1> QED
  BY <1>6, <1>9, <1>10

(* What the steps back collect is a run, and as long as its last length.   *)
LEMMA LongestRunStands ==
  ASSUME NEW values \in Seq(Nat)
  PROVE  MovesAreFewest(values, LongestRun(values))
<1> DEFINE k == Len(values)
           L == RunLengths(values)
           Fits == SUBSET (1 .. k)
           rule == [n \in 1 .. k |-> [g \in UNION {[1 .. m -> Fits] : m \in 0 .. k} |->
                      IF g \in [1 .. n - 1 -> Fits] THEN RunAt(values, L, g, n) ELSE {}]]
           step(i) == {h \in 1 .. i - 1 : values[h] < values[i] /\ L[h] = L[i] - 1}
           Runs(g) == g = [i \in DOMAIN values |->
                             IF step(i) = {} THEN {i}
                             ELSE {i} \cup g[CHOOSE h \in step(i) : \A j \in step(i) : h <= j]]
           run == CHOOSE g : Runs(g)
           Best(i) == \A j \in 1 .. k : L[j] < L[i] \/ (L[j] = L[i] /\ i <= j)
           best == CHOOSE i \in 1 .. k : Best(i)
<1>1. k \in Nat /\ DOMAIN values = 1 .. k
  OBVIOUS
<1>2. LongestRun(values) = IF values = <<>> THEN {} ELSE run[best]
  BY <1>1 DEF LongestRun
<1>3. \A g : Runs(g) <=> g = [i \in 1 .. k |-> RunAt(values, L, g, i)]
  BY <1>1 DEF RunAt, StepsBack
<1>4. Lengths(L, values) /\ L \in [1 .. k -> Nat \ {0}]
  BY LengthsAre DEF Lengths
<1> HIDE DEF k, L, Runs, best, Best
<1>5. ASSUME NEW n \in 1 .. k, NEW g, \A j \in 1 .. n - 1 : g[j] \in Fits
      PROVE  RunAt(values, L, g, n) \in Fits
  <2> DEFINE B == StepsBack(values, L, n)
             last == CHOOSE h \in B : \A j \in B : h <= j
  <2>1. RunAt(values, L, g, n) = IF B = {} THEN {n} ELSE {n} \cup g[last]
    BY DEF RunAt
  <2>2. B \subseteq 1 .. n - 1 /\ B \subseteq Nat
    BY DEF StepsBack
  <2> HIDE DEF B
  <2>3. B # {} => last \in B
    <3> SUFFICES ASSUME B # {} PROVE last \in B
      OBVIOUS
    <3>1. \E h \in B : \A j \in B : h <= j
      BY <2>2, LeastNatural
    <3> QED
      BY <3>1
  <2> HIDE DEF last
  <2>4. B # {} => g[last] \in Fits
    BY <1>5, <2>2, <2>3
  <2> QED
    BY <2>1, <2>4
<1>6. \E g : Runs(g)
  <2>1. rule \in Rules(k, Fits)
    <3> SUFFICES ASSUME NEW n \in 1 .. k, NEW g \in UNION {[1 .. m -> Fits] : m \in 0 .. k},
                        g \in [1 .. n - 1 -> Fits]
                 PROVE  RunAt(values, L, g, n) \in Fits
      BY DEF Rules
    <3>1. \A j \in 1 .. n - 1 : g[j] \in Fits
      OBVIOUS
    <3> HIDE DEF Fits
    <3> QED
      BY <1>5, <3>1
  <2>2. ASSUME NEW n \in 1 .. k, NEW g \in [1 .. n - 1 -> Fits]
        PROVE  rule[n][g] = RunAt(values, L, g, n)
    <3>1. g \in UNION {[1 .. m -> Fits] : m \in 0 .. k}
      <4>1. n - 1 \in 0 .. k
        BY <1>1
      <4> HIDE DEF Fits
      <4> QED
        BY <4>1
    <3> HIDE DEF Fits
    <3> QED
      BY <3>1
  <2> HIDE DEF rule, Fits
  <2>3. PICK g : Follows(g, k, Fits, rule)
    BY <1>1, <2>1, FromEarlier
  <2>4. ASSUME NEW n \in 1 .. k PROVE g[n] = RunAt(values, L, g, n)
    <3> DEFINE h == [j \in 1 .. n - 1 |-> g[j]]
               B == StepsBack(values, L, n)
               last == CHOOSE i \in B : \A j \in B : i <= j
    <3>1. g[n] = rule[n][h] /\ h \in [1 .. n - 1 -> Fits]
      BY <1>1, <2>3 DEF Follows
    <3>2. \A j \in 1 .. n - 1 : h[j] = g[j]
      OBVIOUS
    <3>3. B \subseteq 1 .. n - 1 /\ B \subseteq Nat
      BY DEF StepsBack
    <3> HIDE DEF h, B
    <3>4. B # {} => last \in B
      <4> SUFFICES ASSUME B # {} PROVE last \in B
        OBVIOUS
      <4>1. \E i \in B : \A j \in B : i <= j
        BY <3>3, LeastNatural
      <4> QED
        BY <4>1
    <3>5. /\ RunAt(values, L, g, n) = IF B = {} THEN {n} ELSE {n} \cup g[last]
          /\ RunAt(values, L, h, n) = IF B = {} THEN {n} ELSE {n} \cup h[last]
      BY DEF RunAt, B
    <3> HIDE DEF last
    <3>6. RunAt(values, L, g, n) = RunAt(values, L, h, n)
      BY <3>2, <3>3, <3>4, <3>5
    <3> QED
      BY <2>2, <3>1, <3>6
  <2>5. g = [n \in 1 .. k |-> g[n]]
    BY <2>3 DEF Follows
  <2>6. g = [n \in 1 .. k |-> RunAt(values, L, g, n)]
    BY <2>4, <2>5
  <2> QED
    BY <1>3, <2>6
<1>7. Runs(run)
  BY <1>6
<1> HIDE DEF run
<1>8. \A i \in 1 .. k : run[i] = RunAt(values, L, run, i)
  <2>1. run = [i \in 1 .. k |-> RunAt(values, L, run, i)]
    BY <1>3, <1>7
  <2> QED
    BY <2>1
<1>9. \A i \in 1 .. k : RunOk(values, L, run[i], i)
  <2> DEFINE Good == {n \in 0 .. k : \A i \in 1 .. n : RunOk(values, L, run[i], i)}
  <2>1. 0 \in Good
    BY <1>1
  <2>2. ASSUME NEW n \in 1 .. k, n - 1 \in Good PROVE n \in Good
    <3>1. \A j \in 1 .. n - 1 : RunOk(values, L, run[j], j)
      BY <2>2
    <3>2. RunOk(values, L, run[n], n)
      <4>1. n \in 1 .. Len(values)
        BY DEF k
      <4>2. RunOk(values, L, RunAt(values, L, run, n), n)
        BY <1>4, <3>1, <4>1, RunGoesOn
      <4> QED
        BY <1>8, <4>2
    <3>3. \A i \in 1 .. n : i = n \/ i \in 1 .. n - 1
      BY <1>1
    <3> QED
      BY <3>1, <3>2, <3>3
  <2> HIDE DEF Good
  <2>3. \A n \in 0 .. k : n \in Good
    BY <1>1, <2>1, <2>2, BoundedInduction
  <2> QED
    BY <1>1, <2>3 DEF Good
<1>10. CASE values = <<>>
  <2>1. 1 .. k = {}
    BY <1>1, <1>10 DEF k
  <2>2. Cardinality({}) = 0
    BY FS_EmptySet
  <2>3. \A S \in SUBSET {} : S = {}
    OBVIOUS
  <2> QED
    BY <1>1, <1>2, <1>10, <2>1, <2>2, <2>3 DEF MovesAreFewest, Increasing
<1>11. CASE values # <<>>
  <2>1. best \in 1 .. k /\ Best(best)
    <3>1. 1 \in 1 .. k
      BY <1>1, <1>11 DEF k
    <3>2. PICK b \in Nat : \A i \in 1 .. k : L[i] <= b
      BY <1>1, <1>4, RowsAreBounded
    <3>3. PICK m \in Nat : /\ \E i \in 1 .. k : L[i] = m
                           /\ \A i \in 1 .. k : L[i] <= m
      <4> DEFINE Values == {L[i] : i \in 1 .. k}
      <4>1. Values # {} /\ Values \subseteq Nat /\ \A y \in Values : y <= b
        BY <1>4, <3>1, <3>2
      <4>2. \E x \in Values : \A y \in Values : y <= x
        <5> HIDE DEF Values
        <5> QED
          BY <4>1, LargestNatural
      <4> QED
        BY <4>1, <4>2
    <3>4. PICK i \in 1 .. k : L[i] = m /\ \A j \in 1 .. k : L[j] = m => i <= j
      <4> DEFINE Ends == {i \in 1 .. k : L[i] = m}
      <4>1. Ends # {} /\ Ends \subseteq Nat
        BY <3>3
      <4>2. \E i \in Ends : \A j \in Ends : i <= j
        <5> HIDE DEF Ends
        <5> QED
          BY <4>1, LeastNatural
      <4> QED
        BY <4>2
    <3>5. ASSUME NEW j \in 1 .. k PROVE L[j] < L[i] \/ (L[j] = L[i] /\ i <= j)
      <4>1. L[i] = m /\ L[j] <= m /\ m \in Nat /\ L[j] \in Nat
        BY <1>4, <3>3, <3>4
      <4> QED
        BY <3>4, <4>1
    <3>6. Best(i)
      BY <3>5 DEF Best
    <3>7. \E x \in 1 .. k : Best(x)
      BY <3>6
    <3> QED
      BY <3>7 DEF best
  <2>2. RunOk(values, L, run[best], best)
    BY <1>9, <2>1
  <2> DEFINE answered == run[best]
             m == L[best]
  <2>3. Increasing(values, answered) /\ Cardinality(answered) = m
    BY <2>2 DEF RunOk
  <2>4. m \in Nat /\ \A i \in 1 .. Len(values) : L[i] <= m
    <3>1. \A i \in 1 .. k : L[i] \in Nat /\ L[best] \in Nat
      BY <1>4, <2>1
    <3>2. \A i \in 1 .. k : L[i] <= L[best]
      BY <2>1, <3>1 DEF Best
    <3> QED
      BY <2>1, <3>1, <3>2 DEF k
  <2>5. LongestRun(values) = answered
    BY <1>2, <1>11
  <2> HIDE DEF answered, m
  <2>6. ASSUME NEW other \in SUBSET DOMAIN values, Increasing(values, other)
        PROVE  Cardinality(other) <= Cardinality(answered)
    <3>1. other \in SUBSET (1 .. Len(values))
      OBVIOUS
    <3>2. Cardinality(other) <= m
      BY <1>4, <2>4, <2>6, <3>1, RunsAreBounded
    <3> QED
      BY <2>3, <3>2
  <2> QED
    BY <2>3, <2>5, <2>6 DEF MovesAreFewest
<1> QED
  BY <1>10, <1>11

----------------------------------------------------------------------------
(***************************************************************************)
(* Listings: what a client reads page by page is whole, and both answers   *)
(* about a project's creative status agree.                                *)
(***************************************************************************)

ShelfRows == [at : 0 .. clock, archived : BOOLEAN]
ListStates == {"active", "archived", "all"}
CursorRows == [at : 0 .. clock, id : ListIds]

ShelfType ==
  /\ clock \in Nat
  /\ shelf \in [ListIds -> {NoShelf} \cup ShelfRows]

ListingType(l) ==
  l \in [phase : {"none", "read", "page", "ended"}, state : ListStates, limit : {0} \cup Limits,
         cursor : SUBSET CursorRows, shown : Seq(ListIds), total : Nat, untouched : SUBSET ListIds,
         back : SUBSET ListIds, quiet : BOOLEAN]

\* Only the rows of `twice` were given more than once.
OnceBut(seq, twice) ==
  \A i, j \in DOMAIN seq : seq[i] = seq[j] => i = j \/ seq[i] \in twice

(* What was shown exists and does not come after the cursor, unless it was *)
(* set back; what nobody wrote was shown or does.  The total is that of    *)
(* the rows as they were when it was counted, which are still the rows if  *)
(* nobody wrote.                                                           *)
ListingStands(l) ==
  /\ l.limit # 0
  /\ l.cursor = {} \/ \E c \in CursorRows : l.cursor = {c}
  /\ l.phase = "page" => l.cursor # {}
  /\ OnceBut(l.shown, l.back)
  /\ \A x \in Range(l.shown) :
       x \in OnShelf /\ (l.cursor # {} /\ x \notin l.back => ~Past(x, l.cursor))
  /\ l.untouched \subseteq Selected(l.state)
  /\ \A x \in l.untouched : x \in Range(l.shown) \/ (l.cursor # {} /\ Past(x, l.cursor))
  /\ l.quiet => /\ l.untouched = Selected(l.state) /\ Range(l.shown) \subseteq l.untouched
                /\ l.back = {}
  /\ l.phase = "ended" => l.cursor = {} /\ (l.quiet => l.total = Cardinality(Selected(l.state)))

(* A request that may still write under the guard took its time after the  *)
(* last write of the row.                                                  *)
WritingStands(g) ==
  /\ g \in [on : SUBSET ListIds, at : 0 .. clock, fresh : BOOLEAN]
  /\ \A x \in g.on : g.fresh => shelf[x].at <= g.at

ListingsInv ==
  /\ ShelfType
  /\ DOMAIN writing = ListWriters /\ \A w \in ListWriters : WritingStands(writing[w])
  /\ \A r \in Readers :
       /\ ListingType(listing[r])
       /\ IF listing[r].phase = "none" THEN listing[r].shown = <<>> ELSE ListingStands(listing[r])
  /\ DOMAIN listing = Readers
  /\ creative \in [completed : [Modules -> BOOLEAN], content : [Modules -> BOOLEAN]]


LEMMA RowsOnShelf ==
  ASSUME ShelfType
  PROVE  \A x \in OnShelf : x \in Nat /\ x \in ListIds /\ shelf[x] \in ShelfRows
                              /\ shelf[x].at \in 0 .. clock /\ shelf[x].at \in Nat
BY ListingsAssumption DEF ShelfType, OnShelf, ShelfRows, ListingsAssumption

(* Rows are in one order.                                                  *)
LEMMA NewerIsOrder ==
  ASSUME ShelfType
  PROVE  /\ \A x, y \in OnShelf : x # y => Newer(x, y) \/ Newer(y, x)
         /\ \A x, y \in OnShelf : ~(Newer(x, y) /\ Newer(y, x))
         /\ \A x, y, z \in OnShelf : Newer(x, y) /\ Newer(y, z) => Newer(x, z)
<1>1. \A x \in OnShelf : x \in Nat /\ shelf[x].at \in Nat
  BY RowsOnShelf
<1> QED
  BY <1>1 DEF Newer

LEMMA ShelfFinite ==
  ASSUME ShelfType, NEW S \in SUBSET OnShelf
  PROVE  IsFiniteSet(S) /\ Cardinality(S) \in Nat
<1>1. IsFiniteSet(S)
  BY ListingsAssumption, FS_Subset DEF OnShelf, ListingsAssumption
<1> QED
  BY <1>1, FS_CardinalityType

(* Every place of a sorted set of rows is taken by one row, and a row that *)
(* is newer has an earlier place.                                          *)
LEMMA SortedIs ==
  ASSUME ShelfType, NEW S \in SUBSET OnShelf
  PROVE  LET n == Cardinality(S) IN
         /\ Sorted(S) \in [1 .. n -> S]
         /\ \A i, j \in 1 .. n : i < j => Newer(Sorted(S)[i], Sorted(S)[j])
         /\ \A x \in S : \E i \in 1 .. n : Sorted(S)[i] = x
<1> DEFINE n == Cardinality(S)
           R == {p \in S \X S : Newer(p[1], p[2])}
<1>1. IsFiniteSet(S)
  BY ShelfFinite
<1>2. \A x, y \in S : <<x, y>> \in R <=> Newer(x, y)
  OBVIOUS
<1> HIDE DEF R
<1>3. Orders(R, S)
  <2>1. \A x \in S : <<x, x>> \notin R
    BY <1>2, NewerIsOrder
  <2>2. \A x, y \in S : x # y => <<x, y>> \in R \/ <<y, x>> \in R
    BY <1>2, NewerIsOrder
  <2>3. \A x, y, z \in S : <<x, y>> \in R /\ <<y, z>> \in R => <<x, z>> \in R
    BY <1>2, NewerIsOrder
  <2> QED
    BY <2>1, <2>2, <2>3 DEF Orders
<1>4. Sorted(S) = Arranged(R, S)
  <2>1. \A x \in S : Ahead(R, S, x) = {y \in S : Newer(y, x)}
    BY <1>2 DEF Ahead
  <2> DEFINE there(k) == CHOOSE x \in S : Cardinality({y \in S : Newer(y, x)}) = k - 1
             here(k) == CHOOSE x \in S : Cardinality(Ahead(R, S, x)) = k - 1
  <2>2. \A k : there(k) = here(k)
    BY <2>1
  <2>3. Sorted(S) = [k \in 1 .. n |-> there(k)] /\ Arranged(R, S) = [k \in 1 .. n |-> here(k)]
    BY DEF Sorted, Arranged
  <2> HIDE DEF there, here, n
  <2> QED
    BY <2>2, <2>3
<1> DEFINE laid == Arranged(R, S)
<1>5. /\ laid \in [1 .. n -> S]
      /\ \A i, j \in 1 .. n : i < j => <<laid[i], laid[j]>> \in R
      /\ \A x \in S : \E i \in 1 .. n : laid[i] = x
  BY <1>1, <1>3, ArrangedIs
<1> HIDE DEF laid, n
<1>6. \A i, j \in 1 .. n : i < j => Newer(laid[i], laid[j])
  BY <1>2, <1>5
<1> QED
  BY <1>4, <1>5, <1>6 DEF laid, n

LEMMA FirstOfIs ==
  ASSUME NEW T, NEW queue \in Seq(T), NEW k \in Nat
  PROVE  /\ FirstOf(queue, k) \in Seq(T)
         /\ Len(FirstOf(queue, k)) = IF Len(queue) < k THEN Len(queue) ELSE k
         /\ \A i \in 1 .. Len(FirstOf(queue, k)) : FirstOf(queue, k)[i] = queue[i]
<1> DEFINE m == IF Len(queue) < k THEN Len(queue) ELSE k
<1>1. m \in Nat /\ m <= Len(queue)
  OBVIOUS
<1>2. FirstOf(queue, k) = [i \in 1 .. m |-> queue[i]]
  BY DEF FirstOf
<1>3. \A i \in 1 .. m : queue[i] \in T
  BY <1>1
<1> HIDE DEF m
<1>4. [i \in 1 .. m |-> queue[i]] \in Seq(T) /\ Len([i \in 1 .. m |-> queue[i]]) = m
  BY <1>1, <1>3, IsASeq, LenProperties
<1>5. \A i \in 1 .. m : FirstOf(queue, k)[i] = queue[i]
  BY <1>2
<1>6. /\ FirstOf(queue, k) \in Seq(T) /\ Len(FirstOf(queue, k)) = m
  BY <1>2, <1>4
<1> QED
  BY <1>5, <1>6 DEF m

(* A page holds rows after the cursor, each once, and leaves those that    *)
(* come after its own cursor, none if it gives no cursor.                  *)
PageHolds(given, queue) ==
  /\ given.items \in Seq(ListIds) /\ IsInjective(given.items) /\ Range(given.items) \subseteq queue
  /\ \/ given.next = {} /\ queue \subseteq Range(given.items)
     \/ \E last \in queue :
          /\ given.next = {[at |-> shelf[last].at, id |-> last]}
          /\ \A x \in Range(given.items) : ~Newer(last, x)
          /\ \A x \in queue : x \in Range(given.items) \/ Newer(last, x)

LEMMA PageIs ==
  ASSUME ShelfType, NEW state, NEW cursor, NEW limit \in Limits
  PROVE  PageHolds(Page(state, cursor, limit), {x \in Selected(state) : Past(x, cursor)})
<1> DEFINE S == {x \in Selected(state) : Past(x, cursor)}
           n == Cardinality(S)
           all == Sorted(S)
           queue == FirstOf(all, limit + 1)
           items == FirstOf(queue, limit)
           m == IF n < limit THEN n ELSE limit
           given == Page(state, cursor, limit)
<1>1. limit \in Nat /\ limit > 0
  BY ListingsAssumption DEF ListingsAssumption
<1>2. S \in SUBSET OnShelf
  BY DEF Selected
<1> HIDE DEF S
<1>3. IsFiniteSet(S) /\ n \in Nat
  BY <1>2, ShelfFinite
<1>4. /\ all \in [1 .. n -> S]
      /\ \A i, j \in 1 .. n : i < j => Newer(all[i], all[j])
      /\ \A x \in S : \E i \in 1 .. n : all[i] = x
  BY <1>2, SortedIs
<1> HIDE DEF all, n
<1>5. all \in Seq(S) /\ Len(all) = n
  BY <1>3, <1>4, SeqDef, LenProperties
<1>6. /\ queue \in Seq(S) /\ Len(queue) = (IF n < limit + 1 THEN n ELSE limit + 1)
      /\ \A i \in 1 .. Len(queue) : queue[i] = all[i]
  <2>1. limit + 1 \in Nat
    BY <1>1
  <2>2. /\ queue \in Seq(S) /\ Len(queue) = (IF Len(all) < limit + 1 THEN Len(all) ELSE limit + 1)
        /\ \A i \in 1 .. Len(queue) : queue[i] = all[i]
    BY <1>5, <2>1, FirstOfIs
  <2> QED
    BY <1>5, <2>2
<1> HIDE DEF queue
<1>7. /\ items \in Seq(S) /\ Len(items) = m
      /\ \A i \in 1 .. m : items[i] = all[i]
  <2>1. /\ items \in Seq(S) /\ Len(items) = (IF Len(queue) < limit THEN Len(queue) ELSE limit)
        /\ \A i \in 1 .. Len(items) : items[i] = queue[i]
    BY <1>1, <1>6, FirstOfIs
  <2> HIDE DEF items
  <2> QED
    BY <1>1, <1>3, <1>6, <2>1
<1>8. /\ given.items = items
      /\ given.next = IF Len(queue) > limit
                     THEN {[at |-> shelf[items[Len(items)]].at, id |-> items[Len(items)]]} ELSE {}
  BY DEF Page, S, all, queue
<1> HIDE DEF items, given
<1>9. /\ m \in Nat /\ m <= n /\ DOMAIN items = 1 .. m /\ 1 .. m \subseteq 1 .. n
      /\ (n <= limit => m = n) /\ (n > limit => m = limit)
  BY <1>1, <1>3, <1>7
<1> HIDE DEF m
<1>10. IsInjective(items)
  <2> SUFFICES ASSUME NEW i \in 1 .. m, NEW j \in 1 .. m, items[i] = items[j], i < j PROVE FALSE
    BY <1>9 DEF IsInjective
  <2>1. i \in 1 .. n /\ j \in 1 .. n /\ all[i] = all[j]
    BY <1>7, <1>9
  <2>2. Newer(all[i], all[j]) /\ all[i] \in OnShelf
    BY <2>1, <1>2, <1>4
  <2> QED
    BY <2>1, <2>2, NewerIsOrder
<1>11. Range(items) = {all[i] : i \in 1 .. m}
  BY <1>7, <1>9 DEF Range
<1>12. items \in Seq(ListIds) /\ Range(items) \subseteq S
  <2>1. S \subseteq ListIds
    BY <1>2 DEF OnShelf
  <2>2. \A i \in 1 .. m : items[i] \in S
    BY <1>4, <1>7, <1>9
  <2>3. Range(items) \subseteq S
    BY <2>2, <1>9 DEF Range
  <2> QED
    BY <2>1, <2>3, <1>7, SeqDef
<1>13. CASE n <= limit
  <2>1. given.next = {} /\ m = n
    BY <1>1, <1>3, <1>6, <1>8, <1>9, <1>13
  <2>2. S \subseteq Range(items)
    BY <2>1, <1>4, <1>11
  <2> QED
    BY <2>1, <2>2, <1>8, <1>10, <1>12 DEF PageHolds, given, S
<1>14. CASE n > limit
  <2> DEFINE last == all[m]
  <2>1. m = limit /\ m \in 1 .. m /\ m \in 1 .. n
    BY <1>1, <1>3, <1>9, <1>14
  <2>2. last = items[Len(items)] /\ last \in S
    BY <2>1, <1>4, <1>7
  <2>3. given.next = {[at |-> shelf[last].at, id |-> last]}
    BY <2>1, <2>2, <1>1, <1>3, <1>6, <1>8, <1>14
  <2>4. \A i \in 1 .. n : all[i] \in OnShelf
    BY <1>2, <1>4
  <2>5. \A i \in 1 .. m : ~Newer(last, all[i])
    <3> SUFFICES ASSUME NEW i \in 1 .. m PROVE ~Newer(last, all[i])
      OBVIOUS
    <3>0. i \in 1 .. n
      BY <1>9
    <3>1. i = m \/ Newer(all[i], last)
      BY <3>0, <2>1, <1>4
    <3>2. all[i] \in OnShelf /\ last \in OnShelf
      BY <3>0, <2>1, <2>4
    <3> QED
      BY <3>1, <3>2, NewerIsOrder
  <2>6. \A i \in 1 .. n : i \in 1 .. m \/ Newer(last, all[i])
    BY <2>1, <1>3, <1>4, <1>9
  <2> HIDE DEF last
  <2>7. \A x \in Range(items) : ~Newer(last, x)
    BY <2>5, <1>11
  <2>8. \A x \in S : x \in Range(items) \/ Newer(last, x)
    BY <2>6, <1>4, <1>11
  <2> QED
    BY <2>2, <2>3, <2>7, <2>8, <1>8, <1>10, <1>12 DEF PageHolds, given, S
<1> QED
  BY <1>1, <1>3, <1>13, <1>14


LEMMA SelectedOnShelf == \A state : Selected(state) \subseteq OnShelf
BY DEF Selected

LEMMA SelectedFinite ==
  ASSUME ShelfType, NEW state
  PROVE  Cardinality(Selected(state)) \in Nat
BY SelectedOnShelf, ShelfFinite

(* An answer that was given with one page more.                            *)
LEMMA ReadPage ==
  ASSUME ShelfType, NEW l, ListingType(l), NEW given,
         IF l.phase = "none" THEN l.shown = <<>> /\ l.cursor = {} ELSE ListingStands(l) /\ l.cursor # {},
         PageHolds(given, {x \in Selected(l.state) : Past(x, l.cursor)}),
         NEW k, k.phase = "read", k.state = l.state, k.limit \in Limits, k.cursor = given.next,
         k.shown = l.shown \o given.items, k.quiet \in BOOLEAN, k.back = l.back,
         IF l.phase = "none" THEN k.untouched = Selected(l.state) /\ k.back = {}
                             ELSE k.untouched = l.untouched /\ k.quiet = l.quiet
  PROVE  k.shown \in Seq(ListIds) /\ k.cursor \in SUBSET CursorRows /\ ListingStands(k)
<1> DEFINE S == {x \in Selected(l.state) : Past(x, l.cursor)}
           old == l.shown
           new == given.items
<1>1. /\ old \in Seq(ListIds) /\ new \in Seq(ListIds) /\ l.state \in ListStates
      /\ IsInjective(new) /\ Range(new) \subseteq S
  BY DEF ListingType, PageHolds
<1>2. /\ old \o new \in Seq(ListIds)
      /\ Range(old \o new) = Range(old) \cup Range(new)
  <2> HIDE DEF old, new
  <2>1. old \o new \in Seq(ListIds) /\ Len(old \o new) = Len(old) + Len(new)
        /\ \A i \in 1 .. Len(old) + Len(new) :
             (old \o new)[i] = IF i <= Len(old) THEN old[i] ELSE new[i - Len(old)]
    BY <1>1, ConcatProperties
  <2>2. \A i \in 1 .. Len(old) : i \in 1 .. Len(old) + Len(new) /\ (old \o new)[i] = old[i]
    BY <1>1, <2>1
  <2>3. \A i \in 1 .. Len(new) :
           i + Len(old) \in 1 .. Len(old) + Len(new) /\ (old \o new)[i + Len(old)] = new[i]
    BY <1>1, <2>1
  <2>4. \A i \in 1 .. Len(old) + Len(new) :
          \/ i \in 1 .. Len(old) /\ (old \o new)[i] = old[i]
          \/ i - Len(old) \in 1 .. Len(new) /\ (old \o new)[i] = new[i - Len(old)]
    BY <1>1, <2>1
  <2>5. /\ DOMAIN old = 1 .. Len(old) /\ DOMAIN new = 1 .. Len(new)
        /\ DOMAIN (old \o new) = 1 .. Len(old) + Len(new)
    BY <1>1, <2>1
  <2>6. Range(old) \subseteq Range(old \o new) /\ Range(new) \subseteq Range(old \o new)
    <3>1. \A x \in Range(old) : x \in Range(old \o new)
      BY <2>2, <2>5 DEF Range
    <3>2. \A x \in Range(new) : x \in Range(old \o new)
      BY <2>3, <2>5 DEF Range
    <3> QED
      BY <3>1, <3>2
  <2>7. Range(old \o new) \subseteq Range(old) \cup Range(new)
    BY <2>4, <2>5 DEF Range
  <2> QED
    BY <2>1, <2>6, <2>7
<1>3. /\ OnceBut(old, l.back) /\ Range(old) \cap Range(new) \subseteq l.back
      /\ Range(old) \subseteq OnShelf
  <2>1. CASE l.phase = "none"
    BY <2>1 DEF OnceBut, Range
  <2>2. CASE l.phase # "none"
    BY <2>2, <1>1 DEF ListingStands
  <2> QED
    BY <2>1, <2>2
<1>4. OnceBut(old \o new, l.back)
  <2> HIDE DEF old, new
  <2> SUFFICES ASSUME NEW i \in 1 .. Len(old) + Len(new), NEW j \in 1 .. Len(old) + Len(new),
                      (old \o new)[i] = (old \o new)[j], (old \o new)[i] \notin l.back
               PROVE  i = j
    BY <1>1, ConcatProperties DEF OnceBut
  <2>1. \A x \in 1 .. Len(old) + Len(new) :
          (old \o new)[x] = IF x <= Len(old) THEN old[x] ELSE new[x - Len(old)]
    BY <1>1, ConcatProperties
  <2>2. /\ DOMAIN old = 1 .. Len(old) /\ DOMAIN new = 1 .. Len(new)
        /\ Len(old) \in Nat /\ Len(new) \in Nat
    BY <1>1
  <2>3. CASE i <= Len(old) /\ j <= Len(old)
    <3>1. i \in DOMAIN old /\ j \in DOMAIN old /\ old[i] = old[j]
      BY <2>1, <2>2, <2>3
    <3> QED
      BY <2>1, <2>3, <3>1, <1>3 DEF OnceBut
  <2>4. CASE i > Len(old) /\ j > Len(old)
    <3>1. i - Len(old) \in DOMAIN new /\ j - Len(old) \in DOMAIN new
          /\ new[i - Len(old)] = new[j - Len(old)]
      BY <2>1, <2>2, <2>4
    <3>2. i - Len(old) = j - Len(old)
      BY <3>1, <1>1 DEF IsInjective
    <3> QED
      BY <3>2, <2>2
  <2>5. CASE i <= Len(old) /\ j > Len(old)
    <3>1. i \in DOMAIN old /\ j - Len(old) \in DOMAIN new /\ old[i] = new[j - Len(old)]
      BY <2>1, <2>2, <2>5
    <3>2. old[i] \in Range(old) /\ new[j - Len(old)] \in Range(new) /\ old[i] \notin l.back
      BY <2>1, <2>5, <3>1 DEF Range
    <3> QED
      BY <3>1, <3>2, <1>3
  <2>6. CASE i > Len(old) /\ j <= Len(old)
    <3>1. j \in DOMAIN old /\ i - Len(old) \in DOMAIN new /\ old[j] = new[i - Len(old)]
      BY <2>1, <2>2, <2>6
    <3>2. old[j] \in Range(old) /\ new[i - Len(old)] \in Range(new) /\ old[j] \notin l.back
      BY <2>1, <2>6, <3>1 DEF Range
    <3> QED
      BY <3>1, <3>2, <1>3
  <2> QED
    BY <2>2, <2>3, <2>4, <2>5, <2>6
<1>5. \A x \in k.untouched : x \in Range(old) \/ x \in S
  <2>1. CASE l.phase = "none"
    BY <2>1 DEF Past
  <2>2. CASE l.phase # "none"
    BY <2>2 DEF ListingStands
  <2> QED
    BY <2>1, <2>2
<1>6. k.untouched \subseteq Selected(l.state)
  BY DEF ListingStands
<1>7. k.quiet => /\ k.untouched = Selected(l.state) /\ Range(old) \subseteq k.untouched
                 /\ k.back = {}
  <2>1. CASE l.phase = "none"
    BY <2>1 DEF Range
  <2>2. CASE l.phase # "none"
    BY <2>2 DEF ListingStands
  <2> QED
    BY <2>1, <2>2
<1>8. S \subseteq OnShelf /\ S \subseteq Selected(l.state) /\ S \subseteq ListIds
  BY DEF Selected, OnShelf
<1>9. /\ given.next = {} \/ \E c \in CursorRows : given.next = {c}
      /\ given.next # {} => \A x \in (Range(old) \cup Range(new)) \ l.back : ~Past(x, given.next)
      /\ \A x \in S : x \in Range(new) \/ (given.next # {} /\ Past(x, given.next))
  <2>1. CASE given.next = {} /\ S \subseteq Range(new)
    BY <2>1
  <2>2. ASSUME NEW last \in S,
               given.next = {[at |-> shelf[last].at, id |-> last]},
               \A x \in Range(new) : ~Newer(last, x),
               \A x \in S : x \in Range(new) \/ Newer(last, x)
        PROVE  /\ given.next = {} \/ \E c \in CursorRows : given.next = {c}
               /\ given.next # {} => \A x \in (Range(old) \cup Range(new)) \ l.back : ~Past(x, given.next)
               /\ \A x \in S : x \in Range(new) \/ (given.next # {} /\ Past(x, given.next))
    <3> DEFINE c == [at |-> shelf[last].at, id |-> last]
    <3>1. c \in CursorRows
      BY <1>8, RowsOnShelf DEF CursorRows
    <3>2. \A x : Past(x, given.next) <=> shelf[x].at < shelf[last].at
                                          \/ (shelf[x].at = shelf[last].at /\ x < last)
      BY <2>2 DEF Past
    <3>3. \A x \in OnShelf : Past(x, given.next) <=> Newer(last, x)
      BY <3>2, <1>8, RowsOnShelf DEF Newer
    <3>4. ASSUME NEW x \in Range(old) \ l.back PROVE ~Newer(last, x)
      <4>1. l.phase # "none"
        BY <3>4 DEF Range
      <4>2. PICK d \in CursorRows : l.cursor = {d}
        BY <4>1 DEF ListingStands
      <4>3. ~Past(x, {d}) /\ Past(last, {d}) /\ x \in OnShelf
        BY <3>4, <4>1, <4>2 DEF ListingStands
      <4>4. /\ ~(shelf[x].at < d.at \/ (shelf[x].at = d.at /\ x < d.id))
            /\ shelf[last].at < d.at \/ (shelf[last].at = d.at /\ last < d.id)
        BY <4>3 DEF Past
      <4>5. d.at \in Nat /\ d.id \in Nat
        <5>1. d.at \in 0 .. clock /\ d.id \in ListIds
          BY DEF CursorRows
        <5> QED
          BY <5>1, ListingsAssumption DEF ListingsAssumption, ShelfType
      <4>6. x \in Nat /\ shelf[x].at \in Nat /\ last \in Nat /\ shelf[last].at \in Nat
        BY <4>3, <1>8, RowsOnShelf
      <4> QED
        BY <4>4, <4>5, <4>6 DEF Newer
    <3>5. Range(new) \subseteq OnShelf
      BY <1>1, <1>8
    <3> QED
      BY <3>1, <3>3, <3>4, <3>5, <2>2, <1>3, <1>8
  <2> QED
    BY <2>1, <2>2 DEF PageHolds
<1>10. ListingStands(k)
  <2>1. k.limit # 0
    BY ListingsAssumption DEF ListingsAssumption
  <2>2. Range(old) \cup Range(new) \subseteq OnShelf
    BY <1>1, <1>3, <1>8
  <2>3. k.quiet => Range(old) \cup Range(new) \subseteq k.untouched
    BY <1>1, <1>7, <1>8
  <2>4. k.shown = old \o new
    OBVIOUS
  <2> HIDE DEF S, old, new
  <2> QED
    BY <2>1, <2>2, <2>3, <2>4, <1>2, <1>4, <1>5, <1>6, <1>7, <1>9 DEF ListingStands
<1> QED
  BY <1>2, <1>9, <1>10


LEMMA ListingsInvInit == ListingsInit => ListingsInv
<1> SUFFICES ASSUME ListingsInit PROVE ListingsInv
  OBVIOUS
<1>1. ShelfType
  <2>1. clock \in Nat /\ 0 \in 0 .. clock
    BY DEF ListingsInit
  <2>2. \A one \in [at : {0}, archived : {FALSE}] : one \in ShelfRows
    BY <2>1 DEF ShelfRows
  <2>3. \A x \in ListIds : shelf[x] \in {NoShelf} \cup ShelfRows
    BY <2>2 DEF ListingsInit
  <2>4. shelf = [x \in ListIds |-> shelf[x]]
    BY DEF ListingsInit
  <2> QED
    BY <2>1, <2>3, <2>4 DEF ShelfType
<1>2. /\ \A r \in Readers : listing[r] = NoListing
      /\ DOMAIN writing = ListWriters /\ \A w \in ListWriters : writing[w] = NoWriting
  BY DEF ListingsInit
<1>3. ListingType(NoListing) /\ NoListing.phase = "none" /\ NoListing.shown = <<>>
  BY DEF ListingType, NoListing, ListStates
<1>4. WritingStands(NoWriting)
  BY DEF ListingsInit, WritingStands, NoWriting
<1> QED
  BY <1>1, <1>2, <1>3, <1>4 DEF ListingsInv, ListingsInit

(* What is said of a reader's list does not change with another's.         *)
LEMMA SameShelf ==
  ASSUME ListingsInv, UNCHANGED <<shelf, clock, writing>>,
         NEW r \in Readers, NEW k,
         DOMAIN listing' = Readers, \A q \in Readers \ {r} : listing'[q] = listing[q], listing'[r] = k,
         ListingType(k), IF k.phase = "none" THEN k.shown = <<>> ELSE ListingStands(k),
         creative' = creative
  PROVE  ListingsInv'
<1>1. ShelfType'
  BY DEF ListingsInv, ShelfType, ShelfRows
<1>2. ASSUME NEW l PROVE (ListingType(l)' <=> ListingType(l)) /\ (ListingStands(l)' <=> ListingStands(l))
  BY DEF ListingType, ListingStands, CursorRows, Past, Selected, OnShelf
<1>3. ASSUME NEW q \in Readers
      PROVE  /\ ListingType(listing[q])'
             /\ IF listing'[q].phase = "none" THEN listing'[q].shown = <<>> ELSE ListingStands(listing[q])'
  <2>1. PICK l : l = listing'[q]
    OBVIOUS
  <2>2. ListingType(l) /\ IF l.phase = "none" THEN l.shown = <<>> ELSE ListingStands(l)
    BY <2>1 DEF ListingsInv
  <2>3. ListingType(l)' /\ IF l.phase = "none" THEN l.shown = <<>> ELSE ListingStands(l)'
    BY <2>2, <1>2
  <2>4. ListingType(listing[q])' <=> ListingType(l)'
    BY <2>1 DEF ListingType, CursorRows
  <2>5. ListingStands(listing[q])' <=> ListingStands(l)'
    BY <2>1 DEF ListingStands
  <2> QED
    BY <2>1, <2>3, <2>4, <2>5
<1>4. \A w \in ListWriters : WritingStands(writing[w])'
  BY DEF ListingsInv, WritingStands
<1> QED
  BY <1>1, <1>3, <1>4 DEF ListingsInv


LEMMA StartListingKeeps ==
  ASSUME ListingsInv, NEW r \in Readers, NEW state \in ListStates, NEW limit \in Limits,
         StartListing(r, state, limit)
  PROVE  ListingsInv'
<1> DEFINE l == [phase |-> "none", state |-> state, limit |-> limit, cursor |-> {}, shown |-> <<>>,
                 total |-> 0, untouched |-> {}, back |-> {}, quiet |-> TRUE]
           given == Page(state, {}, limit)
           k == [phase |-> "read", state |-> state, limit |-> limit, cursor |-> given.next,
                 shown |-> given.items, total |-> 0, untouched |-> Selected(state), back |-> {},
                 quiet |-> TRUE]
<1>1. ShelfType
  BY DEF ListingsInv
<1>2. PageHolds(given, {x \in Selected(state) : Past(x, {})})
  BY <1>1, PageIs
<1>3. /\ l.phase = "none" /\ l.shown = <<>> /\ l.cursor = {} /\ l.state = state /\ l.back = {}
      /\ ListingType(l)
  BY DEF ListingType
<1> HIDE DEF l, given
<1>4. l.shown \o given.items = given.items
  <2>1. given.items \in Seq(ListIds)
    BY <1>2 DEF PageHolds
  <2> QED
    BY <1>3, <2>1, ConcatEmptySeq
<1>5. Selected(state) \in SUBSET ListIds
  BY DEF Selected, OnShelf
<1>6. k \in [phase : {"read"}, state : {l.state}, limit : {limit}, cursor : {given.next},
             shown : {l.shown \o given.items}, total : {0}, untouched : {Selected(state)},
             back : {{}}, quiet : {TRUE}]
  BY <1>3, <1>4
<1> HIDE DEF k
<1>7. ListingType(k) /\ ListingStands(k)
  <2>1. /\ k.phase = "read" /\ k.state = l.state /\ k.limit = limit /\ k.cursor = given.next
        /\ k.shown = l.shown \o given.items /\ k.quiet = TRUE /\ k.untouched = Selected(l.state)
        /\ k.back = {} /\ k.back = l.back
    BY <1>3, <1>6
  <2>2. k.shown \in Seq(ListIds) /\ k.cursor \in SUBSET CursorRows /\ ListingStands(k)
    BY <1>1, <1>2, <1>3, <2>1, ReadPage
  <2>3. l.state \in ListStates
    BY <1>3
  <2>4. given.next \in SUBSET CursorRows /\ l.shown \o given.items \in Seq(ListIds)
    BY <2>1, <2>2
  <2>5. limit \in {0} \cup Limits /\ 0 \in Nat
    OBVIOUS
  <2>6. PICK u, s, c : u = Selected(state) /\ s = l.shown \o given.items /\ c = given.next
    OBVIOUS
  <2>7. k \in [phase : {"read"}, state : {l.state}, limit : {limit}, cursor : {c},
               shown : {s}, total : {0}, untouched : {u}, back : {{}}, quiet : {TRUE}]
    BY <1>6, <2>6
  <2>8. u \in SUBSET ListIds /\ s \in Seq(ListIds) /\ c \in SUBSET CursorRows
    BY <1>5, <2>4, <2>6
  <2>9. ListingType(k)
    BY <2>3, <2>5, <2>7, <2>8 DEF ListingType
  <2> QED
    BY <2>2, <2>9
<1>8. /\ DOMAIN listing' = Readers /\ listing'[r] = k /\ \A q \in Readers \ {r} : listing'[q] = listing[q]
      /\ UNCHANGED <<shelf, clock, writing, creative>>
  BY DEF StartListing, ListingsInv, k, given
<1>9. k.phase = "read"
  BY DEF k
<1> QED
  BY <1>7, <1>8, <1>9, SameShelf

LEMMA CountListedKeeps ==
  ASSUME ListingsInv, NEW r \in Readers, CountListed(r)
  PROVE  ListingsInv'
<1>1. PICK l : l = listing[r]
  OBVIOUS
<1> DEFINE k == [l EXCEPT !.total = RecordCount(l.state), !.phase = IF l.cursor = {} THEN "ended" ELSE "page"]
<1>2. ShelfType /\ ListingType(l) /\ l.phase = "read" /\ ListingStands(l)
  BY <1>1 DEF ListingsInv, CountListed
<1>3. RecordCount(l.state) \in Nat
  BY <1>2, SelectedFinite DEF RecordCount
<1>4. ListingType(k)
  BY <1>2, <1>3 DEF ListingType
<1>5. /\ k.phase = (IF l.cursor = {} THEN "ended" ELSE "page") /\ k.total = RecordCount(l.state)
      /\ k.limit = l.limit /\ k.cursor = l.cursor /\ k.shown = l.shown /\ k.untouched = l.untouched
      /\ k.state = l.state /\ k.quiet = l.quiet /\ k.back = l.back
  BY <1>2 DEF ListingType
<1>6. /\ DOMAIN listing' = Readers /\ listing'[r] = k /\ \A q \in Readers \ {r} : listing'[q] = listing[q]
      /\ UNCHANGED <<shelf, clock, writing, creative>>
  BY <1>1, <1>2 DEF CountListed, ListingsInv, ListingType
<1> HIDE DEF k
<1>7. ListingStands(k)
  BY <1>2, <1>5 DEF ListingStands, RecordCount
<1>8. k.phase # "none"
  BY <1>5
<1> QED
  BY <1>4, <1>6, <1>7, <1>8, SameShelf

LEMMA NextPageKeeps ==
  ASSUME ListingsInv, NEW r \in Readers, NextPage(r)
  PROVE  ListingsInv'
<1>1. PICK l : l = listing[r]
  OBVIOUS
<1> DEFINE given == Page(l.state, l.cursor, l.limit)
           k == [l EXCEPT !.phase = "read", !.cursor = given.next, !.shown = l.shown \o given.items]
<1>2. ShelfType /\ ListingType(l) /\ l.phase = "page" /\ ListingStands(l)
  BY <1>1 DEF ListingsInv, NextPage
<1>3. l.limit \in Limits /\ l.cursor # {}
  BY <1>2 DEF ListingType, ListingStands
<1>4. PageHolds(given, {x \in Selected(l.state) : Past(x, l.cursor)})
  BY <1>2, <1>3, PageIs
<1> HIDE DEF given
<1>5. k \in [phase : {"read"}, state : {l.state}, limit : {l.limit}, cursor : {given.next},
             shown : {l.shown \o given.items}, total : {l.total}, untouched : {l.untouched},
             back : {l.back}, quiet : {l.quiet}]
  BY <1>2 DEF ListingType
<1>6. /\ DOMAIN listing' = Readers /\ listing'[r] = k /\ \A q \in Readers \ {r} : listing'[q] = listing[q]
      /\ UNCHANGED <<shelf, clock, writing, creative>>
  BY <1>1, <1>2 DEF NextPage, ListingsInv, ListingType, given
<1> HIDE DEF k
<1>7. ListingType(k) /\ ListingStands(k)
  <2>1. /\ k.phase = "read" /\ k.state = l.state /\ k.limit = l.limit /\ k.cursor = given.next
        /\ k.shown = l.shown \o given.items /\ k.quiet = l.quiet /\ k.untouched = l.untouched
        /\ k.back = l.back
    BY <1>5
  <2>2. l.untouched \in SUBSET ListIds /\ l.back \in SUBSET ListIds /\ l.total \in Nat /\ l.quiet \in BOOLEAN /\ l.state \in ListStates
    BY <1>2 DEF ListingType
  <2>3. k.shown \in Seq(ListIds) /\ k.cursor \in SUBSET CursorRows /\ ListingStands(k)
    BY <1>2, <1>3, <1>4, <2>1, <2>2, ReadPage
  <2> QED
    BY <1>3, <1>5, <2>1, <2>2, <2>3 DEF ListingType
<1>8. k.phase # "none"
  BY <1>5
<1> QED
  BY <1>6, <1>7, <1>8, SameShelf

LEMMA CloseListingKeeps ==
  ASSUME ListingsInv, NEW r \in Readers, CloseListing(r)
  PROVE  ListingsInv'
<1>1. ListingType(NoListing) /\ NoListing.phase = "none" /\ NoListing.shown = <<>>
  BY DEF ListingType, NoListing, ListStates
<1>2. /\ DOMAIN listing' = Readers /\ listing'[r] = NoListing
      /\ \A q \in Readers \ {r} : listing'[q] = listing[q]
      /\ UNCHANGED <<shelf, clock, writing, creative>>
  BY DEF CloseListing, ListingsInv
<1> QED
  BY <1>1, <1>2, SameShelf

(* A row that is written goes nearer to the front, behind no cursor, or is *)
(* one that was set back.                                                  *)
LEMMA StoreKeeps ==
  ASSUME ListingsInv, NEW w \in ListWriters, NEW x \in ListIds, NEW archived \in BOOLEAN,
         NEW back \in SUBSET {x}, Store(w, x, archived, back),
         x \in OnShelf /\ writing[w].at < shelf[x].at => x \in back
  PROVE  ListingsInv'
<1> DEFINE at == writing[w].at
<1>0. at \in 0 .. clock /\ (x \in OnShelf /\ at < shelf[x].at => x \in back)
  BY DEF ListingsInv, WritingStands
<1>1. /\ shelf' = [shelf EXCEPT ![x] = [at |-> at, archived |-> archived]] /\ clock' = clock
      /\ creative' = creative
      /\ listing' = [r \in Readers |->
           [listing[r] EXCEPT !.untouched = @ \ {x}, !.quiet = FALSE, !.back = @ \cup back]]
      /\ writing' = [v \in ListWriters |->
           IF v = w THEN NoWriting ELSE [writing[v] EXCEPT !.fresh = @ /\ x \notin writing[v].on]]
  BY DEF Store
<1> HIDE DEF at
<1>2. ShelfType /\ clock \in Nat /\ shelf \in [ListIds -> {NoShelf} \cup ShelfRows]
  BY DEF ListingsInv, ShelfType
<1>3. /\ shelf'[x] = [at |-> at, archived |-> archived] /\ shelf'[x].at = at
      /\ shelf'[x] \in ShelfRows
      /\ \A y \in ListIds \ {x} : shelf'[y] = shelf[y]
  <2>2. [at |-> at, archived |-> archived] \in ShelfRows
    BY <1>0 DEF ShelfRows
  <2> QED
    BY <1>1, <1>2, <2>2
<1>4. ShelfType'
  BY <1>1, <1>2, <1>3 DEF ShelfType, ShelfRows
<1>5. OnShelf' = OnShelf \cup {x}
  <2>1. shelf'[x] # NoShelf
    <3>1. shelf'[x].at = at /\ NoShelf.at = -1
      BY <1>3 DEF NoShelf
    <3> QED
      BY <3>1, <1>0, <1>2
  <2> QED
    BY <1>3, <2>1 DEF OnShelf
<1>6. \A state : \A y \in ListIds \ {x} : y \in Selected(state)' <=> y \in Selected(state)
  BY <1>3, <1>5 DEF Selected
<1>7. ASSUME NEW l, ListingType(l), l.phase # "none", ListingStands(l),
             NEW k, k = [l EXCEPT !.untouched = @ \ {x}, !.quiet = FALSE, !.back = @ \cup back]
      PROVE  ListingStands(k)'
  <2>1. /\ k.phase = l.phase /\ k.limit = l.limit /\ k.cursor = l.cursor /\ k.shown = l.shown
        /\ k.untouched = l.untouched \ {x} /\ k.state = l.state /\ k.quiet = FALSE
        /\ k.back = l.back \cup back
    BY <1>7 DEF ListingType
  <2>2. k.limit # 0 /\ k.cursor = l.cursor /\ (k.phase = "page" => k.cursor # {})
        /\ OnceBut(k.shown, k.back) /\ (k.phase = "ended" => k.cursor = {})
    BY <1>7, <2>1 DEF ListingStands, OnceBut
  <2>3. k.cursor = {} \/ \E c \in CursorRows' : k.cursor = {c}
    BY <1>1, <1>7, <2>1 DEF ListingStands, CursorRows
  <2>4. ASSUME NEW y \in Range(k.shown) PROVE  y \in OnShelf' /\ (k.cursor # {} /\ y \notin k.back => ~Past(y, k.cursor)')
    <3>1. y \in OnShelf /\ (l.cursor # {} /\ y \notin l.back => ~Past(y, l.cursor))
      BY <1>7, <2>1 DEF ListingStands
    <3>2. CASE y = x /\ l.cursor # {} /\ y \notin k.back
      <4>1. PICK c \in CursorRows : l.cursor = {c}
        BY <1>7, <3>2 DEF ListingStands
      <4>2. c.at \in Nat /\ c.id \in Nat
        <5>1. c.at \in 0 .. clock /\ c.id \in ListIds
          BY DEF CursorRows
        <5> QED
          BY <5>1, <1>2, ListingsAssumption DEF ListingsAssumption
      <4>3. y \in Nat /\ shelf[y].at \in Nat /\ shelf[y].at <= at /\ at \in Nat
        BY <1>0, <1>2, <2>1, <3>1, <3>2, RowsOnShelf
      <4>4. ~(shelf[y].at < c.at \/ (shelf[y].at = c.at /\ y < c.id))
        BY <2>1, <3>1, <3>2, <4>1 DEF Past
      <4>5. ~(at < c.at \/ (at = c.at /\ y < c.id))
        BY <4>2, <4>3, <4>4
      <4>6. ~Past(y, {c})'
        BY <1>3, <3>2, <4>5 DEF Past
      <4> QED
        BY <1>5, <2>1, <3>1, <4>1, <4>6
    <3>3. CASE y # x \/ l.cursor = {} \/ y \in k.back
      <4>1. y \in ListIds
        BY <3>1 DEF OnShelf
      <4>2. y # x => shelf'[y] = shelf[y]
        BY <1>3, <4>1
      <4>3. y # x => (Past(y, l.cursor)' <=> Past(y, l.cursor))
        BY <4>2 DEF Past
      <4> QED
        BY <1>5, <2>1, <3>1, <3>3, <4>3
    <3> QED
      BY <3>2, <3>3
  <2>5. ASSUME NEW y \in k.untouched
        PROVE  /\ y \in Selected(k.state)'
               /\ y \in Range(k.shown) \/ (k.cursor # {} /\ Past(y, k.cursor)')
    <3>1. /\ y \in l.untouched /\ y # x /\ y \in Selected(l.state)
          /\ y \in Range(l.shown) \/ (l.cursor # {} /\ Past(y, l.cursor))
      BY <1>7, <2>1 DEF ListingStands
    <3>2. y \in ListIds
      BY <3>1 DEF Selected, OnShelf
    <3>3. Past(y, l.cursor)' <=> Past(y, l.cursor)
      BY <1>3, <3>1, <3>2 DEF Past
    <3> QED
      BY <1>6, <2>1, <3>1, <3>2, <3>3
  <2> QED
    BY <2>1, <2>2, <2>3, <2>4, <2>5 DEF ListingStands
<1>8. ASSUME NEW r \in Readers
      PROVE  /\ ListingType(listing[r])'
             /\ IF listing'[r].phase = "none" THEN listing'[r].shown = <<>> ELSE ListingStands(listing[r])'
  <2>1. PICK l : l = listing[r]
    OBVIOUS
  <2>2. PICK k : k = [l EXCEPT !.untouched = @ \ {x}, !.quiet = FALSE, !.back = @ \cup back]
    OBVIOUS
  <2>3. listing'[r] = k
    BY <1>1, <2>1, <2>2
  <2>4. ListingType(l) /\ IF l.phase = "none" THEN l.shown = <<>> ELSE ListingStands(l)
    BY <2>1 DEF ListingsInv
  <2>5. ListingType(k) /\ k.phase = l.phase /\ k.shown = l.shown
    BY <2>2, <2>4 DEF ListingType
  <2>6. ListingType(k)'
    BY <2>5, <1>1 DEF ListingType, CursorRows
  <2>7. k.phase # "none" => ListingStands(k)'
    BY <2>2, <2>4, <2>5, <1>7
  <2>8. ListingType(listing[r])' <=> ListingType(k)'
    BY <2>3 DEF ListingType, CursorRows
  <2>9. ListingStands(listing[r])' <=> ListingStands(k)'
    BY <2>3 DEF ListingStands
  <2> QED
    BY <2>3, <2>4, <2>5, <2>6, <2>7, <2>8, <2>9
<1>9. DOMAIN listing' = Readers /\ DOMAIN writing' = ListWriters
  BY <1>1
<1>10. ASSUME NEW v \in ListWriters PROVE WritingStands(writing[v])'
  <2>1. PICK g : g = writing[v] /\ WritingStands(g)
    BY DEF ListingsInv
  <2>2. CASE v = w
    <3>1. writing'[v] = NoWriting
      BY <1>1, <2>2
    <3>2. NoWriting \in [on : SUBSET ListIds, at : 0 .. clock', fresh : BOOLEAN] /\ NoWriting.on = {}
      <4>1. clock' = clock /\ clock \in Nat
        BY <1>1, <1>2
      <4>2. 0 \in 0 .. clock'
        BY <4>1
      <4> QED
        BY <4>2 DEF NoWriting
    <3>3. WritingStands(NoWriting)'
      BY <3>2 DEF WritingStands
    <3>4. WritingStands(writing[v])' <=> WritingStands(NoWriting)'
      BY <3>1 DEF WritingStands
    <3> QED
      BY <3>3, <3>4
  <2>3. CASE v # w
    <3> DEFINE k == [g EXCEPT !.fresh = g.fresh /\ x \notin g.on]
    <3>1. writing'[v] = k
      BY <1>1, <2>1, <2>3 DEF WritingStands
    <3>2. g \in [on : SUBSET ListIds, at : 0 .. clock, fresh : BOOLEAN]
      BY <2>1 DEF WritingStands
    <3>3. k \in [on : SUBSET ListIds, at : 0 .. clock, fresh : BOOLEAN] /\ k.on = g.on /\ k.at = g.at
          /\ (k.fresh <=> g.fresh /\ x \notin g.on)
      BY <3>2
    <3> HIDE DEF k
    <3>4. ASSUME NEW y \in k.on, k.fresh PROVE shelf'[y].at <= k.at
      <4>1. y # x /\ g.fresh /\ y \in ListIds
        BY <3>2, <3>3, <3>4
      <4> QED
        BY <1>3, <2>1, <3>3, <3>4, <4>1 DEF WritingStands
    <3> QED
      BY <1>1, <3>1, <3>3, <3>4 DEF WritingStands
  <2> QED
    BY <2>2, <2>3
<1> QED
  BY <1>1, <1>4, <1>8, <1>9, <1>10 DEF ListingsInv

(* A write that the guard lets through sets no time back; one without a    *)
(* guard is counted if it does.                                            *)
LEMMA WritesKeep ==
  ASSUME ListingsInv, NEW w \in ListWriters, NEW x \in ListIds,
         CommitUnguarded(w, x) \/ \E archived \in BOOLEAN : CommitWrite(w, x, archived)
  PROVE  ListingsInv'
<1>1. ASSUME NEW archived \in BOOLEAN, CommitWrite(w, x, archived)
      PROVE  ListingsInv'
  <2>1. shelf[x].at <= writing[w].at
    BY <1>1 DEF CommitWrite, ListingsInv, WritingStands
  <2>2. x \in OnShelf => shelf[x].at \in Nat
    BY RowsOnShelf DEF ListingsInv
  <2>3. writing[w].at \in Nat
    BY DEF ListingsInv, WritingStands, ShelfType
  <2> QED
    BY <1>1, <2>1, <2>2, <2>3, StoreKeeps DEF CommitWrite
<1>2. CASE CommitUnguarded(w, x)
  <2>1. shelf[x].archived \in BOOLEAN
    BY <1>2, RowsOnShelf DEF CommitUnguarded, ListingsInv, ShelfRows
  <2> DEFINE back == {y \in {x} : writing[w].at < shelf[y].at}
  <2>2. back \in SUBSET {x} /\ (writing[w].at < shelf[x].at => x \in back)
    OBVIOUS
  <2>3. Store(w, x, shelf[x].archived, back)
    BY <1>2 DEF CommitUnguarded
  <2> HIDE DEF back
  <2> QED
    BY <2>1, <2>2, <2>3, StoreKeeps
<1> QED
  BY <1>1, <1>2

(* A request takes its time, or ends before its batch.                     *)
LEMMA WritersKeep ==
  ASSUME ListingsInv, NEW w \in ListWriters, NEW g, WritingStands(g),
         writing' = [writing EXCEPT ![w] = g], UNCHANGED <<shelf, clock, listing, creative>>
  PROVE  ListingsInv'
<1>1. ShelfType'
  BY DEF ListingsInv, ShelfType, ShelfRows
<1>2. ASSUME NEW r \in Readers
      PROVE  /\ ListingType(listing[r])'
             /\ IF listing'[r].phase = "none" THEN listing'[r].shown = <<>> ELSE ListingStands(listing[r])'
  <2>1. ListingType(listing[r])' <=> ListingType(listing[r])
    BY DEF ListingType, CursorRows
  <2>2. ListingStands(listing[r])' <=> ListingStands(listing[r])
    BY DEF ListingStands, CursorRows, Past, Selected, OnShelf
  <2> QED
    BY <2>1, <2>2 DEF ListingsInv
<1>3. \A v \in ListWriters : WritingStands(writing[v])'
  <2> SUFFICES ASSUME NEW v \in ListWriters, NEW k, k = writing'[v]
               PROVE  WritingStands(k)'
    BY DEF WritingStands
  <2>1. WritingStands(k)
    BY DEF ListingsInv
  <2> QED
    BY <2>1 DEF WritingStands
<1> QED
  BY <1>1, <1>2, <1>3 DEF ListingsInv

LEMMA StartWriteKeeps ==
  ASSUME ListingsInv, NEW w \in ListWriters, (\E x \in ListIds : StartWrite(w, x)) \/ AbandonWrite(w)
  PROVE  ListingsInv'
<1>1. ASSUME NEW x \in ListIds, StartWrite(w, x) PROVE ListingsInv'
  <2> DEFINE g == [on |-> {x}, at |-> clock, fresh |-> TRUE]
  <2>1. clock \in Nat /\ clock \in 0 .. clock /\ shelf[x] \in {NoShelf} \cup ShelfRows
    BY DEF ListingsInv, ShelfType
  <2>2. shelf[x].at <= clock
    <3>1. CASE shelf[x] = NoShelf
      BY <2>1, <3>1 DEF NoShelf
    <3>2. CASE shelf[x] \in ShelfRows
      BY <2>1, <3>2 DEF ShelfRows
    <3> QED
      BY <2>1, <3>1, <3>2
  <2>3. WritingStands(g)
    BY <2>1, <2>2 DEF WritingStands
  <2>4. writing' = [writing EXCEPT ![w] = g] /\ UNCHANGED <<shelf, clock, listing, creative>>
    BY <1>1 DEF StartWrite
  <2> HIDE DEF g
  <2> QED
    BY <2>3, <2>4, WritersKeep
<1>2. CASE AbandonWrite(w)
  <2>1. WritingStands(NoWriting)
    BY DEF ListingsInv, ShelfType, WritingStands, NoWriting
  <2> QED
    BY <1>2, <2>1, WritersKeep DEF AbandonWrite
<1> QED
  BY <1>1, <1>2



LEMMA TickKeeps ==
  ASSUME ListingsInv, clock' \in {clock, clock + 1}, UNCHANGED <<shelf, writing, listing>>,
         creative' \in [completed : [Modules -> BOOLEAN], content : [Modules -> BOOLEAN]]
  PROVE  ListingsInv'
<1>1. clock \in Nat /\ clock' \in Nat /\ 0 .. clock \subseteq 0 .. clock'
  BY DEF ListingsInv, ShelfType
<1>2. ShelfRows \subseteq ShelfRows'
  BY <1>1 DEF ShelfRows
<1>3. CursorRows \subseteq CursorRows'
  BY <1>1 DEF CursorRows
<1>4. ShelfType'
  BY <1>1, <1>2 DEF ListingsInv, ShelfType
<1>5. ASSUME NEW l
      PROVE  /\ ListingType(l) => ListingType(l)'
             /\ ListingStands(l) => ListingStands(l)'
  <2>1. ListingType(l) => ListingType(l)'
    BY <1>3 DEF ListingType
  <2>2. ListingStands(l) => ListingStands(l)'
    BY <1>3 DEF ListingStands, Past, Selected, OnShelf
  <2> QED
    BY <2>1, <2>2
<1>6. ASSUME NEW r \in Readers
      PROVE  /\ ListingType(listing[r])'
             /\ IF listing'[r].phase = "none" THEN listing'[r].shown = <<>> ELSE ListingStands(listing[r])'
  <2>1. PICK l : l = listing[r] /\ l = listing'[r]
    OBVIOUS
  <2>2. ListingType(l)' /\ IF l.phase = "none" THEN l.shown = <<>> ELSE ListingStands(l)'
    BY <2>1, <1>5 DEF ListingsInv
  <2>3. ListingType(listing[r])' <=> ListingType(l)'
    BY <2>1 DEF ListingType, CursorRows
  <2>4. ListingStands(listing[r])' <=> ListingStands(l)'
    BY <2>1 DEF ListingStands
  <2> QED
    BY <2>1, <2>2, <2>3, <2>4
<1>7. \A w \in ListWriters : WritingStands(writing[w])'
  BY <1>1 DEF ListingsInv, WritingStands
<1> QED
  BY <1>4, <1>6, <1>7 DEF ListingsInv

LEMMA ListingsInvStep == ListingsInv /\ [ListingsNext]_listingsVars => ListingsInv'
<1> SUFFICES ASSUME ListingsInv, [ListingsNext]_listingsVars PROVE ListingsInv'
  OBVIOUS
<1>1. ASSUME NEW r \in Readers, NEW state \in ListStates, NEW limit \in Limits,
             StartListing(r, state, limit)
      PROVE  ListingsInv'
  BY <1>1, StartListingKeeps
<1>2. ASSUME NEW r \in Readers, CountListed(r) \/ NextPage(r) \/ CloseListing(r)
      PROVE  ListingsInv'
  BY <1>2, CountListedKeeps, NextPageKeeps, CloseListingKeeps
<1>3. ASSUME NEW w \in ListWriters,
             \/ \E x \in ListIds :
                  \/ StartWrite(w, x) \/ CommitUnguarded(w, x)
                  \/ \E archived \in BOOLEAN : CommitWrite(w, x, archived)
             \/ AbandonWrite(w)
      PROVE  ListingsInv'
  BY <1>3, StartWriteKeeps, WritesKeep
<1>4. CASE Tick
  BY <1>4, TickKeeps DEF Tick, ListingsInv
<1>5. ASSUME NEW m \in Modules, NEW b \in BOOLEAN, SetCompleted(m, b) \/ SetContent(m, b)
      PROVE  ListingsInv'
  <2>1. creative' \in [completed : [Modules -> BOOLEAN], content : [Modules -> BOOLEAN]]
    BY <1>5 DEF SetCompleted, SetContent, ListingsInv
  <2>2. UNCHANGED <<shelf, clock, writing, listing>>
    BY <1>5 DEF SetCompleted, SetContent
  <2> QED
    BY <2>1, <2>2, TickKeeps
<1>6. CASE UNCHANGED listingsVars
  BY <1>6, TickKeeps DEF listingsVars, ListingsInv
<1> QED
  BY <1>1, <1>2, <1>3, <1>4, <1>5, <1>6 DEF ListingsNext, ListStates

(* The rows shown once each are as many as their range.                    *)
LEMMA InjectiveLength ==
  ASSUME NEW T, NEW seq \in Seq(T), IsInjective(seq)
  PROVE  Cardinality(Range(seq)) = Len(seq)
<1>1. Len(seq) \in Nat /\ DOMAIN seq = 1 .. Len(seq) /\ seq \in [1 .. Len(seq) -> T]
  BY SeqDef, LenProperties
<1>2. seq \in [1 .. Len(seq) -> Range(seq)] /\ \A t \in Range(seq) : \E i \in 1 .. Len(seq) : seq[i] = t
  BY <1>1 DEF Range
<1>3. seq \in Surjection(1 .. Len(seq), Range(seq)) /\ seq \in Injection(1 .. Len(seq), Range(seq))
  BY <1>2 DEF Surjection, Injection
<1>4. IsFiniteSet(1 .. Len(seq)) /\ Cardinality(1 .. Len(seq)) = Len(seq)
  BY <1>1, FS_Interval
<1> QED
  BY <1>3, <1>4, FS_Surjection

LEMMA ListsWhole == ListingsInv => ListsAreWhole
<1> SUFFICES ASSUME ListingsInv, NEW r \in Readers, NEW l, l = listing[r]
             PROVE  /\ OnceBut(l.shown, l.back)
                    /\ l.phase = "ended" => l.untouched \subseteq Range(l.shown)
                    /\ l.phase = "ended" /\ l.quiet => l.total = Len(l.shown)
  BY DEF ListsAreWhole, OnceBut
<1>1. CASE l.phase = "none"
  BY <1>1 DEF ListingsInv, OnceBut
<1>2. CASE l.phase # "none"
  <2>1. ListingType(l) /\ ListingStands(l)
    BY <1>2 DEF ListingsInv
  <2>2. l.phase = "ended" => l.untouched \subseteq Range(l.shown)
    BY <2>1 DEF ListingStands
  <2>3. ASSUME l.phase = "ended", l.quiet PROVE l.total = Len(l.shown)
    <3>1. Range(l.shown) = Selected(l.state) /\ l.total = Cardinality(Selected(l.state))
      BY <2>1, <2>2, <2>3 DEF ListingStands
    <3>2. l.shown \in Seq(ListIds) /\ IsInjective(l.shown)
      BY <2>1, <2>3 DEF ListingType, ListingStands, OnceBut, IsInjective
    <3> QED
      BY <3>1, <3>2, InjectiveLength
  <2> QED
    BY <2>1, <2>2, <2>3 DEF ListingStands
<1> QED
  BY <1>1, <1>2

LEMMA StatusesOne == ListingsInv => StatusesAgree
<1> SUFFICES ASSUME ListingsInv PROVE StatusesAgree
  OBVIOUS
<1>1. \A m \in Modules : creative.completed[m] \in BOOLEAN /\ creative.content[m] \in BOOLEAN
  BY DEF ListingsInv
<1> DEFINE c == creative
           complete == \A m \in Modules : c.completed[m]
           begun == \E m \in Modules : c.completed[m] \/ (m # "overview" /\ c.content[m])
           filled == \E m \in Modules : c.completed[m] \/ c.content[m]
<1>2. ListStatus(c) = IF complete THEN "writing_completed" ELSE IF begun THEN "in_progress" ELSE "just_started"
  BY DEF ListStatus
<1>3. PageStatus(c) = IF complete THEN "writing_completed" ELSE IF filled THEN "in_progress" ELSE "just_started"
  <2>1. \A m \in Modules : /\ ModuleStatus(c, m) = "completed" <=> c.completed[m]
                           /\ ModuleStatus(c, m) # "not_yet_started" <=> c.completed[m] \/ c.content[m]
    BY DEF ModuleStatus
  <2> QED
    BY <2>1 DEF PageStatus
<1>4. begun => filled
  OBVIOUS
<1>5. ~begun /\ filled => \A m \in Modules : ~c.completed[m] /\ (c.content[m] <=> m = "overview")
  BY <1>1 DEF Modules
<1>6. complete => begun
  BY DEF Modules
<1> HIDE DEF complete, begun, filled
<1> QED
  BY <1>2, <1>3, <1>4, <1>5, <1>6 DEF StatusesAgree, c

(* A list that is read page by page while others write shows no row twice, *)
(* unless a write without a guard has set its time back since it began     *)
(* (readiness.ts:487); when it has ended, it has shown every row nobody    *)
(* wrote since it began; with no writes its total is right; and the list's *)
(* SQL and the project's page agree on creative statuses (projects.ts:76,  *)
(* :147, :776, records.ts:83).                                             *)
THEOREM ListedIsWhole == ListingsSpec => [](ListsAreWhole /\ StatusesAgree)
<1> QED
  BY ListingsInvInit, ListingsInvStep, ListsWhole, StatusesOne, PTL DEF ListingsSpec

----------------------------------------------------------------------------
(***************************************************************************)
(* What is shown is right: an answer is the one its algorithm computes for *)
(* its question, and what an algorithm computes is what it promises.       *)
(***************************************************************************)

Kinds == {"allocate", "line", "timecode", "calendar", "order", "moves", "merge"}

Asked(kind) ==
  CASE kind = "allocate" -> Allocations
    [] kind = "line"     -> BudgetLines
    [] kind = "timecode" -> Timecodes
    [] kind = "calendar" -> Calendars
    [] kind = "order"    -> Networks
    [] kind = "moves"    -> Reorderings
    [] kind = "merge"    -> Merges

Computed(kind, of) ==
  CASE kind = "allocate" -> AllocateMinorUnits(of.total, of.weights)
    [] kind = "line"     -> CalculateBudgetLine(of)
    [] kind = "timecode" -> FormatTimecode(of.frames, of.rate)
    [] kind = "calendar" -> DetectResourceConflicts(of)
    [] kind = "order"    -> TopologicalOrder(of.nodes, of.edges)
    [] kind = "moves"    -> LongestRun(of)
    [] kind = "merge"    -> ApplyElementMerge(of, PreviewElementMerge(of))

Posed == \E kind \in Kinds : \E of \in Asked(kind) : question = [kind |-> kind, of |-> of]

AlgorithmsInv ==
  /\ question = Unanswered \/ Posed
  /\ answer = Unanswered \/ answer = [kind |-> question.kind, is |-> Computed(question.kind, question.of)]

(* The rates that labels and milliseconds can carry: at least one frame to *)
(* the second, once rounded, and fewer than one to the millisecond.        *)
(* frameRateSchema admits others: the label of a slower rate is divided by *)
(* zero, and two frames of a faster one share a millisecond.               *)
WorkableRates ==
  \A t \in Timecodes : Nominal(t.rate) # 0 /\ t.rate.numerator < 1000 * t.rate.denominator

(* The three calendar facts, for what the detector answers.                *)
LEMMA CalendarsStand ==
  ASSUME NEW c, CalendarOk(c), NEW found, found = DetectResourceConflicts(c)
  PROVE  /\ {{p[1], p[2]} : p \in found.overlap} = OverlapsByDefinition(c)
         /\ found.gap \subseteq CloseByDefinition(c)
         /\ found.overlap \cup found.gap = {} => OnlyUnchartedAreClose(c)
<1>1. /\ found.overlap = UnitOverlaps(c)
      /\ found.gap = UNION {NeighbourGaps(c, InOrder(c, g)) : g \in GroupsOf(c)}
  BY DEF DetectResourceConflicts
<1>2. {{p[1], p[2]} : p \in UnitOverlaps(c)} = OverlapsByDefinition(c)
  BY OverlapsAreFound
<1>3. found.gap \subseteq CloseByDefinition(c)
  BY <1>1, GapsAreClose
<1>4. ASSUME found.overlap \cup found.gap = {} PROVE OnlyUnchartedAreClose(c)
  <2>1. UnitOverlaps(c) = {} /\ \A g \in GroupsOf(c) : NeighbourGaps(c, InOrder(c, g)) = {}
    BY <1>1, <1>4
  <2> QED
    BY <2>1, CleanIsClean DEF OnlyUnchartedAreClose
<1> QED
  BY <1>1, <1>2, <1>3, <1>4

LEMMA AlgorithmsInvInit == AlgorithmsInit => AlgorithmsInv
BY DEF AlgorithmsInit, AlgorithmsInv, Posed, Kinds, Asked

LEMMA AlgorithmsInvStep == AlgorithmsInv /\ [AlgorithmsNext]_algorithmsVars => AlgorithmsInv'
<1> SUFFICES ASSUME AlgorithmsInv, [AlgorithmsNext]_algorithmsVars PROVE AlgorithmsInv'
  OBVIOUS
<1>1. ASSUME NEW kind, NEW result, Answer(kind, result), result = Computed(kind, question.of)
      PROVE  AlgorithmsInv'
  BY <1>1 DEF Answer, AlgorithmsInv, Posed
<1>2. CASE Allocate
  BY <1>1, <1>2 DEF Allocate, Computed
<1>3. CASE TotalLine
  BY <1>1, <1>3 DEF TotalLine, Computed
<1>4. CASE Label
  BY <1>1, <1>4 DEF Label, Computed
<1>5. CASE Detect
  BY <1>1, <1>5 DEF Detect, Computed
<1>6. CASE Order
  BY <1>1, <1>6 DEF Order, Computed
<1>7. CASE FindMoves
  BY <1>1, <1>7 DEF FindMoves, Computed
<1>8. CASE Merge
  BY <1>1, <1>8 DEF Merge, Computed
<1>9. CASE UNCHANGED algorithmsVars
  BY <1>9 DEF algorithmsVars, AlgorithmsInv, Posed
<1> QED
  BY <1>2, <1>3, <1>4, <1>5, <1>6, <1>7, <1>8, <1>9 DEF AlgorithmsNext

(* An answer is about a question of its kind, and the one computed for it. *)
LEMMA AnswerIs ==
  ASSUME AlgorithmsInv, NEW kind \in Kinds, answer.kind = kind
  PROVE  question.of \in Asked(kind) /\ answer.is = Computed(kind, question.of)
<1>1. kind # "none"
  BY DEF Kinds
<1>2. answer # Unanswered
  BY <1>1 DEF Unanswered
<1>3. answer = [kind |-> question.kind, is |-> Computed(question.kind, question.of)]
  BY <1>2 DEF AlgorithmsInv
<1>4. question.kind = kind /\ answer.is = Computed(kind, question.of)
  BY <1>3
<1>5. Posed
  BY <1>1, <1>4 DEF AlgorithmsInv, Unanswered
<1>6. PICK k \in Kinds : \E of \in Asked(k) : question = [kind |-> k, of |-> of]
  BY <1>5 DEF Posed
<1>7. k = kind /\ question.of \in Asked(k)
  BY <1>4, <1>6
<1> QED
  BY <1>4, <1>7

LEMMA MoneyStands == AlgorithmsInv => MoneyIsExact
<1> SUFFICES ASSUME AlgorithmsInv PROVE MoneyIsExact
  OBVIOUS
<1>1. ASSUME answer.kind = "allocate"
      PROVE  AllocationIsExact(question.of.total, question.of.weights, answer.is)
  <2>1. question.of \in Asked("allocate") /\ answer.is = Computed("allocate", question.of)
    BY <1>1, AnswerIs DEF Kinds
  <2>2. question.of \in Allocations /\ answer.is = AllocateMinorUnits(question.of.total, question.of.weights)
    BY <2>1 DEF Asked, Computed
  <2>3. /\ question.of.total \in Nat /\ question.of.weights \in Seq(Nat)
        /\ \E i \in DOMAIN question.of.weights : question.of.weights[i] > 0
    BY <2>2, AlgorithmsAssumption
  <2> QED
    BY <2>2, <2>3, AllocationStands
<1>2. ASSUME answer.kind = "line"
      PROVE  CalculateBudgetLine([question.of EXCEPT !.rate = -@]) = -answer.is
  <2>1. question.of \in Asked("line") /\ answer.is = Computed("line", question.of)
    BY <1>2, AnswerIs DEF Kinds
  <2>2. question.of \in BudgetLines /\ answer.is = CalculateBudgetLine(question.of)
    BY <2>1 DEF Asked, Computed
  <2>3. question.of \in
          [rate : Int, quantity : Nat, duration : Nat, fringe : Nat, tax : Nat, markup : Nat]
    BY <2>2, AlgorithmsAssumption
  <2> QED
    BY <2>2, <2>3, LineIsReversed
<1> QED
  BY <1>1, <1>2 DEF MoneyIsExact

LEMMA TimecodesStand == WorkableRates /\ AlgorithmsInv => TimecodesRoundTrip
<1> SUFFICES ASSUME WorkableRates, AlgorithmsInv, answer.kind = "timecode",
                    NEW rate, rate = question.of.rate, NEW frames, frames = question.of.frames
             PROVE  /\ ParseTimecode(answer.is, rate) = frames % FramesPerDay(rate)
                    /\ FramesFromMilliseconds(MillisecondsFromFrames(frames, rate), rate) = frames
  BY DEF TimecodesRoundTrip
<1>1. question.of \in Asked("timecode") /\ answer.is = Computed("timecode", question.of)
  BY AnswerIs DEF Kinds
<1>2. question.of \in Timecodes /\ answer.is = FormatTimecode(frames, rate)
  BY <1>1 DEF Asked, Computed
<1>3. rate \in FrameRates /\ frames \in Nat
  BY <1>2, AlgorithmsAssumption
<1>4. Nominal(rate) # 0 /\ rate.numerator < 1000 * rate.denominator
  BY <1>2 DEF WorkableRates
<1>5. rate.numerator \in Nat \ {0} /\ rate.denominator \in Nat \ {0} /\ rate.dropFrame \in BOOLEAN
  <2>1. MaxNumerator \in Nat /\ MaxDenominator \in Nat
    BY SMT DEF MaxNumerator, MaxDenominator
  <2>2. rate \in Rates
    BY <1>3, SMT DEF FrameRates
  <2>3. /\ rate.numerator \in 1 .. MaxNumerator /\ rate.denominator \in 1 .. MaxDenominator
        /\ rate.dropFrame \in BOOLEAN
    BY <2>2, SMT DEF Rates
  <2> QED
    BY <2>1, <2>3
<1>6. Nominal(rate) \in Nat \ {0}
  BY <1>4, <1>5 DEF Nominal
<1>7. ParseTimecode(FormatTimecode(frames, rate), rate) = frames % FramesPerDay(rate)
  BY <1>3, <1>5, <1>6, PlainLabelsTell, DroppedLabelsTell
<1>8. FramesFromMilliseconds(MillisecondsFromFrames(frames, rate), rate) = frames
  BY <1>3, <1>4, <1>5, MillisecondsTellFrames
<1> QED
  BY <1>2, <1>7, <1>8

LEMMA FindingsStand == AlgorithmsInv => FindingsAreSound
<1> SUFFICES ASSUME AlgorithmsInv PROVE FindingsAreSound
  OBVIOUS
<1>1. CleanCalendarsAreClean
  <2> SUFFICES ASSUME answer.kind = "calendar"
               PROVE  /\ {{p[1], p[2]} : p \in answer.is.overlap} = OverlapsByDefinition(question.of)
                      /\ answer.is.gap \subseteq CloseByDefinition(question.of)
                      /\ answer.is.overlap \cup answer.is.gap = {} => OnlyUnchartedAreClose(question.of)
    BY DEF CleanCalendarsAreClean
  <2>1. question.of \in Asked("calendar") /\ answer.is = Computed("calendar", question.of)
    BY AnswerIs DEF Kinds
  <2>2. question.of \in Calendars /\ answer.is = DetectResourceConflicts(question.of)
    BY <2>1 DEF Asked, Computed
  <2>3. CalendarOk(question.of)
    BY <2>2, AlgorithmsAssumption DEF CalendarOk
  <2> QED
    BY <2>2, <2>3, CalendarsStand
<1>2. ASSUME answer.kind = "order" PROVE OrderIsRight(question.of.nodes, question.of.edges, answer.is)
  <2>1. question.of \in Asked("order") /\ answer.is = Computed("order", question.of)
    BY <1>2, AnswerIs DEF Kinds
  <2>2. question.of \in Networks /\ answer.is = TopologicalOrder(question.of.nodes, question.of.edges)
    BY <2>1 DEF Asked, Computed
  <2>3. GraphOk(question.of.nodes, question.of.edges)
    BY <2>2, AlgorithmsAssumption DEF GraphOk
  <2> QED
    BY <2>2, <2>3, OrderStands
<1>3. ASSUME answer.kind = "moves" PROVE MovesAreFewest(question.of, answer.is)
  <2>1. question.of \in Asked("moves") /\ answer.is = Computed("moves", question.of)
    BY <1>3, AnswerIs DEF Kinds
  <2>2. question.of \in Reorderings /\ answer.is = LongestRun(question.of)
    BY <2>1 DEF Asked, Computed
  <2>3. question.of \in Seq(Nat)
    BY <2>2, AlgorithmsAssumption
  <2> QED
    BY <2>2, <2>3, LongestRunStands
<1>4. OrdersAreBest
  BY <1>2, <1>3 DEF OrdersAreBest, OrderIsRight, MovesAreFewest
<1>5. MergeKeepsReferences
  <2> SUFFICES ASSUME answer.kind = "merge", answer.is # Refused, NEW merge, merge = question.of
               PROVE  LET survivor(e) == IF e \in merge.sources THEN merge.target ELSE e IN
                      /\ answer.is.references =
                           {[by |-> r.by, element |-> survivor(r.element)] : r \in Range(merge.references)}
                      /\ Len(merge.references) = Cardinality(answer.is.references) + answer.is.removed
                      /\ merge.target \notin answer.is.archived
    BY DEF MergeKeepsReferences
  <2>1. question.of \in Asked("merge") /\ answer.is = Computed("merge", question.of)
    BY AnswerIs DEF Kinds
  <2>2. merge \in Merges /\ answer.is = ApplyElementMerge(merge, PreviewElementMerge(merge))
    BY <2>1 DEF Asked, Computed
  <2> QED
    BY <2>2, MergeIsSound
<1> QED
  BY <1>1, <1>4, <1>5 DEF FindingsAreSound

(* The algorithms that need no assumption on frame rates: allocations add  *)
(* up, lines are reversed exactly, calendars without a report leave time   *)
(* to rest and, where all ways are known, to travel, orders and moves lose *)
(* nothing, merges keep every reference (money.ts:132, conflicts.ts:158,   *)
(* :189, dependencies.ts:62, element-merge.ts:148).                        *)
THEOREM FindingsHold == AlgorithmsSpec => [](MoneyIsExact /\ FindingsAreSound)
<1> QED
  BY AlgorithmsInvInit, AlgorithmsInvStep, MoneyStands, FindingsStand, PTL DEF AlgorithmsSpec

(* At rates that timecodes can carry, the label of every frame parses back *)
(* to that frame of the day, drop-frame labels across every skip and the   *)
(* end of the day, and frames survive milliseconds (timecode.ts:57, :84,   *)
(* :119); so every answer of every algorithm is what it promises.          *)
THEOREM AnswersHold == WorkableRates => (AlgorithmsSpec => []AnswersAreRight)
<1> SUFFICES ASSUME WorkableRates PROVE AlgorithmsSpec => []AnswersAreRight
  OBVIOUS
<1>1. AlgorithmsInv => AnswersAreRight
  BY MoneyStands, TimecodesStand, FindingsStand DEF AnswersAreRight, FiguresAreExact
<1> QED
  BY <1>1, AlgorithmsInvInit, AlgorithmsInvStep, PTL DEF AlgorithmsSpec

(* Whatever else members do in the workspace, what is computed and what is *)
(* listed is right: no request of another part touches a question, an      *)
(* answer, a listing or the rows behind it.                                *)
THEOREM ShownHolds == WorkableRates => (WorkspaceSpec => []ShownIsRight)
<1> DEFINE Inv == AlgorithmsInv /\ ListingsInv
<1> SUFFICES ASSUME WorkableRates PROVE WorkspaceSpec => []ShownIsRight
  OBVIOUS
<1>1. WorkspaceInit => Inv
  <2> SUFFICES ASSUME WorkspaceInit PROVE Inv
    OBVIOUS
  <2>1. ListingsInit /\ (AlgorithmsInit \/ (question = Unanswered /\ answer = Unanswered))
    BY DEF WorkspaceInit
  <2> QED
    BY <2>1, AlgorithmsInvInit, ListingsInvInit DEF AlgorithmsInv
<1>2. Inv /\ [WorkspaceNext]_workspaceVars => Inv'
  <2> SUFFICES ASSUME Inv, [WorkspaceNext]_workspaceVars PROVE Inv'
    OBVIOUS
  <2>1. ASSUME UNCHANGED computedVars
        PROVE  [AlgorithmsNext]_algorithmsVars /\ [ListingsNext]_listingsVars
    BY <2>1 DEF computedVars
  <2>2. [AlgorithmsNext]_algorithmsVars /\ [ListingsNext]_listingsVars
    BY <2>1 DEF WorkspaceNext, workspaceVars
  <2> QED
    BY <2>2, AlgorithmsInvStep, ListingsInvStep
<1>3. Inv => ShownIsRight
  BY MoneyStands, TimecodesStand, FindingsStand, ListsWhole, StatusesOne
     DEF ShownIsRight, AnswersAreRight, FiguresAreExact
<1> QED
  BY <1>1, <1>2, <1>3, PTL DEF WorkspaceSpec
=============================================================================
