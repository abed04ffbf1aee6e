----------------------------- MODULE DataLemmas -----------------------------
(* Facts about numbers that the proofs about the units rest on: the greatest *)
(* of a finite set, quotients and remainders, and induction.  The induction *)
(* theorems of the library take an operator, for which the provers cannot   *)
(* put a formula; here what is to be shown of the numbers is a set of them. *)
EXTENDS SequencesExt, FiniteSetTheorems, WellFoundedInduction, TLAPS

----------------------------------------------------------------------------
(* The lesser and the greater of two numbers *)

LEMMA MinOfTwo ==
  ASSUME NEW a \in Int, NEW c \in Int
  PROVE  Min({a, c}) = IF a <= c THEN a ELSE c
<1> DEFINE least == IF a <= c THEN a ELSE c
<1>1. least \in {a, c} /\ \A y \in {a, c} : least <= y
  OBVIOUS
<1>2. \A x \in {a, c} : (\A y \in {a, c} : x <= y) => x = least
  OBVIOUS
<1> HIDE DEF least
<1>3. (CHOOSE x \in {a, c} : \A y \in {a, c} : x <= y) = least
  BY <1>1, <1>2
<1> QED BY <1>3 DEF Min, least

LEMMA MaxOfTwo ==
  ASSUME NEW a \in Int, NEW c \in Int
  PROVE  Max({a, c}) = IF a >= c THEN a ELSE c
<1> DEFINE most == IF a >= c THEN a ELSE c
<1>1. most \in {a, c} /\ \A y \in {a, c} : most >= y
  OBVIOUS
<1>2. \A x \in {a, c} : (\A y \in {a, c} : x >= y) => x = most
  OBVIOUS
<1> HIDE DEF most
<1>3. (CHOOSE x \in {a, c} : \A y \in {a, c} : x >= y) = most
  BY <1>1, <1>2
<1> QED BY <1>3 DEF Max, most

----------------------------------------------------------------------------
(* The greatest number of a finite set *)

LEMMA FiniteHasGreatest ==
  ASSUME NEW S \in SUBSET Int, IsFiniteSet(S), S # {}
  PROVE  \E n \in S : \A m \in S : m <= n
<1> DEFINE From(n) == {m \in S : n <= m}
           U == {From(n) : n \in S}
<1>1. U \subseteq FiniteSubsetsOf(S) /\ U # {}
  <2>1. ASSUME NEW n \in S PROVE From(n) \in FiniteSubsetsOf(S)
    <3>1. From(n) \in SUBSET S
      OBVIOUS
    <3> HIDE DEF From
    <3>2. IsFiniteSet(From(n))
      BY <3>1, FS_Subset
    <3> QED BY <3>1, <3>2 DEF FiniteSubsetsOf
  <2> QED BY <2>1
<1>2. PICK u \in U : \A y \in U : ~(<<y, u>> \in StrictSubsetOrdering(S))
  BY <1>1, FS_StrictSubsetOrderingWellFounded, WFMin
<1>3. PICK n \in S : u = From(n)
  OBVIOUS
<1>4. ASSUME NEW m \in S, n < m PROVE FALSE
  <2>1. From(m) \in U /\ From(m) \subseteq From(n) /\ n \in From(n) /\ n \notin From(m)
    <3>1. n \in Int /\ m \in Int /\ n <= n /\ ~(m <= n)
      BY <1>4
    <3>2. \A x \in S : m <= x => n <= x
      BY <1>4
    <3> QED BY <3>1, <3>2
  <2>2. From(m) \in SUBSET S /\ From(n) \in SUBSET S /\ From(m) # From(n)
    BY <1>4, <2>1
  <2> HIDE DEF From, U
  <2>3. <<From(m), From(n)>> \in StrictSubsetOrdering(S)
    BY <2>1, <2>2 DEF StrictSubsetOrdering
  <2> QED BY <1>2, <1>3, <2>1, <2>3
<1> QED BY <1>4

LEMMA MaxIs ==
  ASSUME NEW S \in SUBSET Int, NEW n \in S, \A m \in S : m <= n
  PROVE  Max(S) = n
<1>1. n \in S /\ \A y \in S : n >= y
  OBVIOUS
<1>2. \A x \in S : (\A y \in S : x >= y) => x = n
  OBVIOUS
<1>3. (CHOOSE x \in S : \A y \in S : x >= y) = n
  BY <1>1, <1>2
<1> QED BY <1>3 DEF Max

LEMMA MaxOfFinite ==
  ASSUME NEW S \in SUBSET Int, IsFiniteSet(S), S # {}
  PROVE  Max(S) \in S /\ \A m \in S : m <= Max(S)
<1>1. PICK n \in S : \A m \in S : m <= n
  BY FiniteHasGreatest
<1>2. Max(S) = n
  BY <1>1, MaxIs
<1> QED BY <1>1, <1>2

\* The greatest value of a function on a finite set.
Values(f, S) == {f[x] : x \in S}

LEMMA MaxOfValues ==
  ASSUME NEW S, IsFiniteSet(S), S # {}, NEW f, \A x \in S : f[x] \in Int
  PROVE  /\ \E x \in S : Max(Values(f, S)) = f[x]
         /\ \A x \in S : f[x] <= Max(Values(f, S))
<1> DEFINE T == Values(f, S)
           g == [x \in S |-> f[x]]
<1>1. T \in SUBSET Int /\ T # {}
  BY DEF Values
<1>2. g \in Surjection(S, T)
  <2>1. g \in [S -> T] /\ \A t \in T : \E x \in S : g[x] = t
    BY DEF Values
  <2> QED BY <2>1 DEF Surjection
<1>3. IsFiniteSet(T)
  BY <1>2, FS_Surjection
<1> HIDE DEF T
<1>4. Max(T) \in T /\ \A m \in T : m <= Max(T)
  BY <1>1, <1>3, MaxOfFinite
<1>5. \A x \in S : f[x] \in T
  BY DEF T, Values
<1>6. \A t \in T : \E x \in S : t = f[x]
  BY DEF T, Values
<1> QED BY <1>4, <1>5, <1>6 DEF T

----------------------------------------------------------------------------
(* Remainders and quotients *)

LEMMA Division ==
  ASSUME NEW a \in Int, NEW d \in Nat \ {0}
  PROVE  /\ a \div d \in Int /\ a % d \in 0..(d - 1)
         /\ a = d * (a \div d) + (a % d)
OBVIOUS

LEMMA NotBetweenMultiples ==
  ASSUME NEW d \in Nat \ {0}, NEW z \in Int, -d < d * z, d * z < d
  PROVE  z = 0
<1>1. CASE z >= 1
  <2>1. d * z >= d
    BY <1>1
  <2> QED BY <2>1
<1>2. CASE z <= -1
  <2>1. d * z <= -d
    BY <1>2
  <2> QED BY <2>1
<1> QED BY <1>1, <1>2

LEMMA DivisionIsUnique ==
  ASSUME NEW d \in Nat \ {0}, NEW q \in Int, NEW e \in 0..(d - 1)
  PROVE  (d * q + e) % d = e /\ (d * q + e) \div d = q
<1>1. d * q \in Int
  OBVIOUS
<1>2. PICK a \in Int : a = d * q + e
  BY <1>1
<1>3. PICK r \in Int, f \in 0..(d - 1) : r = a \div d /\ f = a % d /\ a = d * r + f
  BY Division
<1>4. d * (q - r) = d * q - d * r
  OBVIOUS
<1>5. d * r \in Int /\ d * (q - r) = f - e
  BY <1>1, <1>2, <1>3, <1>4
<1>6. q - r = 0
  <2>1. -d < d * (q - r) /\ d * (q - r) < d
    BY <1>5
  <2> QED BY <2>1, NotBetweenMultiples
<1>7. q = r
  BY <1>6
<1>8. e = f
  BY <1>1, <1>2, <1>3, <1>7
<1> QED BY <1>2, <1>3, <1>7, <1>8

\* A multiple more leaves the remainder the same.
LEMMA RemainderShifts ==
  ASSUME NEW d \in Nat \ {0}, NEW x \in Int, NEW a \in Int
  PROVE  (x * d + a) % d = a % d
<1>1. PICK r \in Int, e \in 0..(d - 1) : r = a \div d /\ e = a % d /\ a = d * r + e
  BY Division
<1>2. x * d + a = d * (x + r) + e
  <2>1. d * (x + r) = x * d + d * r
    OBVIOUS
  <2> QED BY <1>1, <2>1
<1>3. PICK q \in Int : q = x + r
  OBVIOUS
<1>4. (d * q + e) % d = e
  BY DivisionIsUnique
<1> QED BY <1>1, <1>2, <1>3, <1>4

\* Numbers with the same remainder are a multiple apart.
LEMMA SameRemainder ==
  ASSUME NEW d \in Nat \ {0}, NEW a \in Int, NEW b \in Int, a % d = b % d
  PROVE  \E z \in Int : a = z * d + b
<1>1. PICK q \in Int, r \in Int, e \in 0..(d - 1) : a = d * q + e /\ b = d * r + e
  BY Division
<1>2. (q - r) * d = d * q - d * r
  OBVIOUS
<1>3. d * q \in Int /\ d * r \in Int
  OBVIOUS
<1>4. a = (q - r) * d + b
  BY <1>1, <1>2, <1>3
<1> QED BY <1>4

\* A quotient lies within one of the number.
LEMMA QuotientBrackets ==
  ASSUME NEW d \in Nat \ {0}, NEW a \in Nat
  PROVE  d * (a \div d) <= a /\ a < d * (a \div d) + d
<1>1. PICK q \in Int, e \in 0..(d - 1) : q = a \div d /\ a = d * q + e
  BY Division
<1>2. PICK z \in Int : z = d * q
  OBVIOUS
<1>3. z <= a /\ a < z + d
  BY <1>1, <1>2
<1> QED BY <1>1, <1>2, <1>3

LEMMA QuotientIsLargest ==
  ASSUME NEW d \in Nat \ {0}, NEW a \in Int, NEW z \in Int, d * z <= a
  PROVE  z <= a \div d
<1>1. PICK q \in Int, e \in 0..(d - 1) : q = a \div d /\ a = d * q + e
  BY Division
<1>2. CASE q + 1 <= z
  <2>1. d * (z - q) = d * z - d * q /\ d * q \in Int /\ d * z \in Int
    OBVIOUS
  <2>2. d * (z - q) >= d
    BY <1>2
  <2> QED BY <1>1, <2>1, <2>2
<1> QED BY <1>1, <1>2

LEMMA DivisionOfNat ==
  ASSUME NEW d \in Nat \ {0}, NEW a \in Nat
  PROVE  \E q \in Nat, e \in 0..(d - 1) : a = d * q + e
<1>1. a \div d \in Nat
  OBVIOUS
<1>2. a % d \in 0..(d - 1) /\ a = d * (a \div d) + (a % d)
  BY Division
<1> QED BY <1>1, <1>2

LEMMA QuotientBelow ==
  ASSUME NEW d \in Nat \ {0}, NEW a \in Int, NEW z \in Int, a < d * z
  PROVE  a \div d < z
<1>1. PICK q \in Int, e \in 0..(d - 1) : q = a \div d /\ a = d * q + e
  BY Division
<1>2. CASE z <= q
  <2>1. d * (q - z) = d * q - d * z /\ d * q \in Int /\ d * z \in Int
    OBVIOUS
  <2>2. d * (q - z) >= 0
    BY <1>2
  <2> QED BY <1>1, <2>1, <2>2
<1> QED BY <1>1, <1>2

----------------------------------------------------------------------------
(* Induction on numbers, stated with sets *)

LEMMA LeastNatural ==
  ASSUME NEW T \in SUBSET Nat, T # {}
  PROVE  \E n \in T : \A m \in T : n <= m
<1> DEFINE U == {0..n : n \in T}
<1>1. U \subseteq FiniteSubsetsOf(Nat) /\ U # {}
  <2>1. ASSUME NEW n \in T PROVE 0..n \in FiniteSubsetsOf(Nat)
    BY FS_Interval DEF FiniteSubsetsOf
  <2> QED BY <2>1
<1>2. PICK u \in U : \A y \in U : ~(<<y, u>> \in StrictSubsetOrdering(Nat))
  BY <1>1, FS_StrictSubsetOrderingWellFounded, WFMin
<1>3. PICK n \in T : u = 0..n
  OBVIOUS
<1>4. ASSUME NEW m \in T, m < n PROVE FALSE
  <2>1. 0..m \in U /\ 0..m \subseteq 0..n /\ n \in 0..n /\ n \notin 0..m
    BY <1>4
  <2>2. 0..m \in SUBSET Nat /\ 0..n \in SUBSET Nat /\ 0..m # 0..n
    BY <1>4, <2>1
  <2>3. <<0..m, 0..n>> \in StrictSubsetOrdering(Nat)
    BY <2>1, <2>2 DEF StrictSubsetOrdering
  <2> QED BY <1>2, <1>3, <2>1, <2>3
<1> QED BY <1>4

\* What 0 has and each number passes on to the next one, all have.
LEMMA NumbersUpTo ==
  ASSUME NEW n \in Nat, NEW G, 0 \in G, \A i \in 1..n : i - 1 \in G => i \in G
  PROVE  \A i \in 0..n : i \in G
<1> DEFINE T == {i \in 0..n : i \notin G}
<1> SUFFICES ASSUME T # {} PROVE FALSE
  OBVIOUS
<1>1. PICK m \in T : \A i \in T : m <= i
  <2>1. T \in SUBSET Nat
    OBVIOUS
  <2> HIDE DEF T
  <2> QED BY <2>1, LeastNatural
<1>2. m \in 1..n /\ m - 1 \in 0..n /\ ~(m <= m - 1)
  OBVIOUS
<1>3. m - 1 \in G
  BY <1>1, <1>2
<1> QED BY <1>2, <1>3

\* A computation that takes a step for each of the numbers 1..n exists.
StepsOf(step, S, n) == step \in [1..n -> [S -> S]]
Iterates(f, S, start, n, step) ==
  f \in [0..n -> S] /\ f[0] = start /\ \A i \in 1..n : f[i] = step[i][f[i - 1]]

LEMMA IterationExists ==
  ASSUME NEW S, NEW start, start \in S, NEW n \in Nat, NEW step, StepsOf(step, S, n)
  PROVE  \E f : Iterates(f, S, start, n, step)
<1> USE DEF StepsOf, Iterates
<1> DEFINE G == {m \in 0..n : \E f \in [0..m -> S] :
                               f[0] = start /\ \A i \in 1..m : f[i] = step[i][f[i - 1]]}
<1>1. 0 \in G
  <2> DEFINE f == [i \in 0..0 |-> start]
  <2>1. f \in [0..0 -> S] /\ f[0] = start /\ \A i \in 1..0 : f[i] = step[i][f[i - 1]]
    OBVIOUS
  <2> HIDE DEF f
  <2> QED BY <2>1
<1>2. ASSUME NEW m \in 1..n, m - 1 \in G PROVE m \in G
  <2>1. PICK f \in [0..(m - 1) -> S] :
          f[0] = start /\ \A i \in 1..(m - 1) : f[i] = step[i][f[i - 1]]
    BY <1>2
  <2>2. m - 1 \in 0..(m - 1) /\ m \notin 0..(m - 1) /\ 0 # m
        /\ \A i \in 0..m : i = m \/ i \in 0..(m - 1)
    OBVIOUS
  <2> DEFINE g == [i \in 0..m |-> IF i = m THEN step[m][f[m - 1]] ELSE f[i]]
  <2>3. step[m][f[m - 1]] \in S
    BY <2>2
  <2>4. g \in [0..m -> S]
    BY <2>2, <2>3
  <2>5. g[0] = start
    BY <2>1, <2>2
  <2>6. ASSUME NEW i \in 1..m PROVE g[i] = step[i][g[i - 1]]
    <3>1. i - 1 \in 0..m /\ i - 1 # m /\ g[i - 1] = f[i - 1]
      OBVIOUS
    <3>2. CASE i = m
      BY <3>1, <3>2
    <3>3. CASE i # m
      <4>1. i \in 1..(m - 1)
        BY <3>3
      <4> QED BY <2>1, <3>1, <3>3, <4>1
    <3> QED BY <3>2, <3>3
  <2>7. m \in 0..n
    OBVIOUS
  <2> HIDE DEF g
  <2> QED BY <2>4, <2>5, <2>6, <2>7
<1> HIDE DEF G
<1>3. n \in G
  <2>1. \A i \in 0..n : i \in G
    BY <1>1, <1>2, NumbersUpTo
  <2> QED BY <2>1
<1> QED BY <1>3 DEF G

\* The same from any number on.
LEMMA NumbersFrom ==
  ASSUME NEW a \in Int, NEW b \in Int, NEW G, a \in G, \A i \in (a + 1)..b : i - 1 \in G => i \in G
  PROVE  \A i \in a..b : i \in G
<1>1. CASE a <= b
  <2> DEFINE n == b - a
             H == {i \in 0..n : a + i \in G}
  <2>1. n \in Nat /\ 0 \in H
    BY <1>1
  <2>2. ASSUME NEW i \in 1..n, i - 1 \in H PROVE i \in H
    <3>1. a + i \in (a + 1)..b /\ (a + i) - 1 = a + (i - 1) /\ i \in 0..n
      BY <2>1
    <3> QED BY <2>2, <3>1
  <2> HIDE DEF H
  <2>3. \A i \in 0..n : i \in H
    BY <2>1, <2>2, NumbersUpTo
  <2>4. ASSUME NEW i \in a..b PROVE i \in G
    <3>1. i - a \in 0..n /\ a + (i - a) = i
      OBVIOUS
    <3> QED BY <2>3, <3>1 DEF H
  <2> QED BY <2>4
<1>2. CASE ~(a <= b)
  BY <1>2
<1> QED BY <1>1, <1>2

StepsFrom(step, S, a, b) == step \in [(a + 1)..b -> [S -> S]]
IteratesFrom(f, S, start, a, b, step) ==
  f \in [a..b -> S] /\ f[a] = start /\ \A i \in (a + 1)..b : f[i] = step[i][f[i - 1]]

LEMMA IterationFrom ==
  ASSUME NEW S, NEW start, start \in S, NEW a \in Int, NEW b \in Int, a <= b,
         NEW step, StepsFrom(step, S, a, b)
  PROVE  \E f : IteratesFrom(f, S, start, a, b, step)
<1> DEFINE n == b - a
           turned == [i \in 1..n |-> step[a + i]]
<1>1. n \in Nat /\ \A i \in 1..n : a + i \in (a + 1)..b
  OBVIOUS
<1>2. StepsOf(turned, S, n)
  BY <1>1 DEF StepsOf, StepsFrom
<1>3. PICK f : Iterates(f, S, start, n, turned)
  <2> HIDE DEF n, turned
  <2> QED BY <1>1, <1>2, IterationExists
<1> DEFINE g == [k \in a..b |-> f[k - a]]
<1>4. \A k \in a..b : k - a \in 0..n
  OBVIOUS
<1>5. f \in [0..n -> S] /\ f[0] = start
  BY <1>3 DEF Iterates
<1>6. g \in [a..b -> S] /\ g[a] = start
  BY <1>4, <1>5
<1>7. ASSUME NEW i \in (a + 1)..b PROVE g[i] = step[i][g[i - 1]]
  <2>1. i - a \in 1..n /\ i \in a..b /\ i - 1 \in a..b /\ a + (i - a) = i /\ (i - a) - 1 = (i - 1) - a
    OBVIOUS
  <2>2. f[i - a] = turned[i - a][f[(i - a) - 1]]
    BY <1>3, <2>1 DEF Iterates
  <2> QED BY <2>1, <2>2
<1> HIDE DEF g
<1> QED BY <1>6, <1>7 DEF IteratesFrom
=============================================================================
