---------------------------- MODULE WealthProofs ----------------------------
(* Theorems about Wealth: deposits are in the balances, the figures of a page  *)
(* agree, a forecast says what the rate of an account carries, and the months  *)
(* of an energy meter add up.                                                  *)
(*                                                                             *)
(* Sums are folds over sets.  Folded says of a function on all subsets of a    *)
(* set that it adds up as the fold does; there is one such function, and the   *)
(* fold is its value (SumIs), so that sums are added and subtracted by adding  *)
(* and subtracting these functions.                                            *)
EXTENDS Wealth, TLAPS, FiniteSetTheorems, NaturalsInduction

-----------------------------------------------------------------------------
(* Numbers.                                                                   *)

\* A set of numbers that is not empty has a least one.
LEMMA LeastNumber ==
  ASSUME NEW T \in SUBSET Nat, T # {}
  PROVE  \E n \in T : \A m \in T : n <= m
<1>1. PICK R : R = OpToRel(<, Nat) OBVIOUS
<1>2. \A x, y \in Nat : x < y => <<x, y>> \in R BY <1>1, Zenon DEF OpToRel
<1>3. IsWellFoundedOn(R, Nat) BY <1>1, NatLessThanWellFounded, Zenon
<1>4. PICK n \in T : \A m \in T : ~(<<m, n>> \in R) BY <1>3, WFMin
<1>5. \A m \in T : ~(m < n) BY <1>2, <1>4
<1> QED BY <1>5

\* The largest of numbers that are no larger than n.
LEMMA MaxProperties ==
  ASSUME NEW n \in Nat, NEW T \in SUBSET (0..n), T # {}
  PROVE  Max(T) \in T /\ \A k \in T : k <= Max(T)
<1>1. PICK U : U = {n - k : k \in T} OBVIOUS
<1>2. U \in SUBSET Nat /\ U # {}
  <2>1. \A k \in T : n - k \in Nat OBVIOUS
  <2>2. PICK k \in T : TRUE OBVIOUS
  <2>3. n - k \in U BY <1>1
  <2> QED BY <1>1, <2>1, <2>3
<1>3. PICK m \in U : \A k \in U : m <= k BY <1>2, LeastNumber
<1>4. PICK x \in T : m = n - x BY <1>1
<1>5. \A k \in T : n - k \in U BY <1>1
<1>6. \A k \in T : x >= k BY <1>3, <1>4, <1>5
<1> QED BY <1>6 DEF Max

\* The newest of some rows: by date, then by id.
Latest(dates, S, i) == i \in S /\ \A j \in S : dates[j] < dates[i] \/ (dates[j] = dates[i] /\ j <= i)
First(dates, S, i) == i \in S /\ \A j \in S : dates[i] < dates[j] \/ (dates[i] = dates[j] /\ i <= j)

\* Rows that are some have a newest one.
LEMMA LatestExists ==
  ASSUME NEW k \in Nat, NEW dates \in [1..k -> Nat], NEW S \in SUBSET (1..k), S # {}
  PROVE  \E i \in S : Latest(dates, S, i)
<1>1. PICK T : T = {n \in 0..k : \E U \in SUBSET (1..n) : U # {} /\ ~\E i \in U : Latest(dates, U, i)} OBVIOUS
<1>2. ASSUME T # {} PROVE FALSE
  <2>1. PICK n \in T : \A m \in T : n <= m
    <3>1. T \in SUBSET Nat BY <1>1
    <3> QED BY <3>1, <1>2, LeastNumber
  <2>2. n \in 0..k /\ \E U \in SUBSET (1..n) : U # {} /\ ~\E i \in U : Latest(dates, U, i) BY <2>1, <1>1
  <2>3. PICK U \in SUBSET (1..n) : U # {} /\ ~\E i \in U : Latest(dates, U, i) BY <2>2
  <2>4. n # 0
    <3>1. ASSUME n = 0 PROVE U = {} BY <2>3, <3>1
    <3> QED BY <2>3, <3>1
  <2>5. n - 1 \in 0..k /\ n - 1 \notin T BY <2>1, <2>2, <2>4
  <2>6. \A V \in SUBSET (1..(n - 1)) : V # {} => \E i \in V : Latest(dates, V, i) BY <2>5, <1>1
  <2>7. n \in U
    <3>1. ASSUME n \notin U PROVE U \in SUBSET (1..(n - 1)) BY <3>1, <2>2, <2>3, <2>4
    <3> QED BY <3>1, <2>3, <2>6
  <2>8. U \ {n} # {} BY <2>2, <2>3, <2>7 DEF Latest
  <2>9. U \ {n} \in SUBSET (1..(n - 1)) BY <2>2, <2>3
  <2>10. PICK i \in U \ {n} : Latest(dates, U \ {n}, i) BY <2>6, <2>8, <2>9
  <2>11. i \in 1..k /\ n \in 1..k /\ i < n BY <2>2, <2>4, <2>9, <2>10
  <2>12. dates[i] \in Nat /\ dates[n] \in Nat /\ \A j \in U : dates[j] \in Nat BY <2>11, <2>2, <2>3
  <2>13. CASE dates[i] <= dates[n]
    <3>1. Latest(dates, U, n) BY <2>7, <2>10, <2>11, <2>12, <2>13 DEF Latest
    <3> QED BY <3>1, <2>7, <2>3
  <2>14. CASE dates[n] < dates[i]
    <3>1. Latest(dates, U, i) BY <2>7, <2>10, <2>11, <2>12, <2>14 DEF Latest
    <3> QED BY <3>1, <2>10, <2>3
  <2> QED BY <2>12, <2>13, <2>14
<1>3. k \notin T BY <1>2
<1> QED BY <1>1, <1>3

\* And an oldest.
LEMMA FirstExists ==
  ASSUME NEW k \in Nat, NEW dates \in [1..k -> Nat], NEW S \in SUBSET (1..k), S # {}
  PROVE  \E i \in S : First(dates, S, i)
<1>1. PICK T : T = {n \in Nat : \E j \in S : dates[j] = n} OBVIOUS
<1>2. T \in SUBSET Nat /\ T # {} BY <1>1
<1>3. PICK d \in T : \A m \in T : d <= m BY <1>2, LeastNumber
<1>4. PICK U : U = {j \in S : dates[j] = d} OBVIOUS
<1>5. U \in SUBSET Nat /\ U # {}
  <2>1. PICK j \in S : dates[j] = d BY <1>1, <1>3
  <2>2. j \in U BY <1>4, <2>1
  <2>3. \A i \in S : i \in Nat OBVIOUS
  <2> QED BY <1>4, <2>2, <2>3
<1>6. PICK i \in U : \A j \in U : i <= j BY <1>5, LeastNumber
<1>7. i \in S /\ dates[i] = d BY <1>4, <1>6
<1>8. ASSUME NEW j \in S PROVE dates[i] < dates[j] \/ (dates[i] = dates[j] /\ i <= j)
  <2>1. dates[j] \in T /\ dates[j] \in Nat BY <1>1, <1>8
  <2>2. d <= dates[j] /\ d \in Nat BY <1>2, <1>3, <2>1
  <2>3. dates[j] = d => i <= j BY <1>4, <1>6, <1>8
  <2> QED BY <1>7, <2>1, <2>2, <2>3
<1> QED BY <1>7, <1>8 DEF First

\* There is one newest row.
LEMMA LatestOne ==
  ASSUME NEW k \in Nat, NEW dates \in [1..k -> Nat], NEW S \in SUBSET (1..k),
         NEW i \in S, NEW j \in S, Latest(dates, S, i), Latest(dates, S, j)
  PROVE  i = j
BY DEF Latest

-----------------------------------------------------------------------------
(* Sums.                                                                      *)

Pick(s) == CHOOSE x \in s : TRUE
Folded(f, S, F) ==
  F \in [SUBSET S -> Int] /\ \A s \in SUBSET S : F[s] = IF s = {} THEN 0 ELSE f[Pick(s)] + F[s \ {Pick(s)}]
Few(S, n) == {s \in SUBSET S : Cardinality(s) <= n}
FoldedTo(f, S, n) ==
  \E F \in [Few(S, n) -> Int] :
    \A s \in Few(S, n) : F[s] = IF s = {} THEN 0 ELSE f[Pick(s)] + F[s \ {Pick(s)}]

\* A set without its pick has one element less.
LEMMA PickLess ==
  ASSUME NEW S, IsFiniteSet(S), NEW s \in SUBSET S, s # {}
  PROVE  /\ Pick(s) \in s /\ s \ {Pick(s)} \in SUBSET S
         /\ Cardinality(s) \in Nat /\ Cardinality(s \ {Pick(s)}) \in Nat
         /\ Cardinality(s \ {Pick(s)}) = Cardinality(s) - 1
<1>1. Pick(s) \in s BY DEF Pick
<1>2. IsFiniteSet(s) BY FS_Subset
<1>3. IsFiniteSet(s \ {Pick(s)}) BY <1>2, FS_Subset
<1> QED BY <1>1, <1>2, <1>3, FS_RemoveElement, FS_CardinalityType

\* Finite sums exist.
LEMMA FoldedExists ==
  ASSUME NEW S, IsFiniteSet(S), NEW f, \A x \in S : f[x] \in Int
  PROVE  \E F : Folded(f, S, F)
<1>1. PICK T : T = {n \in Nat : ~FoldedTo(f, S, n)} OBVIOUS
<1>2. ASSUME T # {} PROVE FALSE
  <2>1. T \in SUBSET Nat BY <1>1
  <2>2. PICK n \in T : \A m \in T : n <= m BY <1>2, <2>1, LeastNumber
  <2>3. n \in Nat /\ ~FoldedTo(f, S, n) BY <1>1, <2>2
  <2>4. \A s \in SUBSET S : IsFiniteSet(s) /\ Cardinality(s) \in Nat BY FS_Subset, FS_CardinalityType
  <2>5. n # 0
    <3>1. ASSUME n = 0 PROVE FoldedTo(f, S, n)
      <4>1. \A s \in Few(S, 0) : s = {} BY <2>4, FS_EmptySet DEF Few
      <4>2. PICK F : F = [s \in Few(S, 0) |-> 0] OBVIOUS
      <4>3. F \in [Few(S, 0) -> Int] BY <4>2
      <4>4. \A s \in Few(S, 0) : F[s] = IF s = {} THEN 0 ELSE f[Pick(s)] + F[s \ {Pick(s)}] BY <4>1, <4>2
      <4> QED BY <3>1, <4>3, <4>4 DEF FoldedTo
    <3> QED BY <2>3, <3>1
  <2>6. n - 1 \in Nat /\ n - 1 \notin T BY <2>2, <2>3, <2>5
  <2>7. FoldedTo(f, S, n - 1) BY <1>1, <2>6
  <2>8. PICK F \in [Few(S, n - 1) -> Int] :
          \A s \in Few(S, n - 1) : F[s] = IF s = {} THEN 0 ELSE f[Pick(s)] + F[s \ {Pick(s)}]
    BY <2>7 DEF FoldedTo
  <2>9. PICK G : G = [s \in Few(S, n) |-> IF s = {} THEN 0 ELSE f[Pick(s)] + F[s \ {Pick(s)}]] OBVIOUS
  <2>10. \A s \in Few(S, n) : s # {} => Pick(s) \in S /\ s \ {Pick(s)} \in Few(S, n - 1)
    BY <2>3, PickLess DEF Few
  <2>11. \A s \in Few(S, n) : s # {} => f[Pick(s)] \in Int /\ F[s \ {Pick(s)}] \in Int BY <2>8, <2>10
  <2>12. G \in [Few(S, n) -> Int]
    <3>1. \A s \in Few(S, n) : (IF s = {} THEN 0 ELSE f[Pick(s)] + F[s \ {Pick(s)}]) \in Int BY <2>11
    <3> QED BY <2>9, <3>1
  <2>13. \A s \in Few(S, n - 1) : s \in Few(S, n) /\ G[s] = F[s]
    <3>1. \A s \in Few(S, n - 1) : s \in Few(S, n) BY <2>3, <2>4 DEF Few
    <3> QED BY <3>1, <2>8, <2>9
  <2>14. \A s \in Few(S, n) : G[s] = IF s = {} THEN 0 ELSE f[Pick(s)] + G[s \ {Pick(s)}]
    BY <2>9, <2>10, <2>13
  <2>15. FoldedTo(f, S, n) BY <2>12, <2>14 DEF FoldedTo
  <2> QED BY <2>3, <2>15
<1>3. Cardinality(S) \in Nat BY FS_CardinalityType
<1>4. FoldedTo(f, S, Cardinality(S)) BY <1>1, <1>2, <1>3
<1>5. Few(S, Cardinality(S)) = SUBSET S BY FS_Subset, <1>3 DEF Few
<1>6. PICK F \in [SUBSET S -> Int] :
        \A s \in SUBSET S : F[s] = IF s = {} THEN 0 ELSE f[Pick(s)] + F[s \ {Pick(s)}]
  BY <1>4, <1>5 DEF FoldedTo
<1> QED BY <1>6 DEF Folded

\* A fold is the value of any function that adds up as it does.
LEMMA SumIs ==
  ASSUME NEW S, IsFiniteSet(S), NEW f, NEW F, Folded(f, S, F), NEW U \in SUBSET S
  PROVE  Sum(f, U) = F[U]
<1>1. PICK iter : iter = CHOOSE g : g = [s \in SUBSET U |-> IF s = {} THEN 0 ELSE f[Pick(s)] + g[s \ {Pick(s)}]]
  OBVIOUS
<1>2. Sum(f, U) = iter[U]
  BY <1>1 DEF Sum, SumFunctionOnSet, FoldFunctionOnSet, MapThenFoldSet, Pick
<1>3. PICK G : G = [s \in SUBSET U |-> F[s]] OBVIOUS
<1>4. \A s \in SUBSET U : s # {} => Pick(s) \in s /\ s \ {Pick(s)} \in SUBSET U BY DEF Pick
<1>5. \A s \in SUBSET U : s \in SUBSET S OBVIOUS
<1>6. G = [s \in SUBSET U |-> IF s = {} THEN 0 ELSE f[Pick(s)] + G[s \ {Pick(s)}]]
  <2>1. \A s \in SUBSET U : G[s] = IF s = {} THEN 0 ELSE f[Pick(s)] + G[s \ {Pick(s)}]
    BY <1>3, <1>4, <1>5 DEF Folded
  <2> QED BY <1>3, <2>1
<1>7. iter = [s \in SUBSET U |-> IF s = {} THEN 0 ELSE f[Pick(s)] + iter[s \ {Pick(s)}]] BY <1>1, <1>6
<1>8. PICK T : T = {n \in Nat : \E s \in SUBSET U : Cardinality(s) = n /\ iter[s] # F[s]} OBVIOUS
<1>9. ASSUME T # {} PROVE FALSE
  <2>1. T \in SUBSET Nat BY <1>8
  <2>2. PICK n \in T : \A m \in T : n <= m BY <1>9, <2>1, LeastNumber
  <2>3. PICK s \in SUBSET U : Cardinality(s) = n /\ iter[s] # F[s] BY <1>8, <2>2
  <2>4. s # {}
    <3>1. ASSUME s = {} PROVE iter[s] = F[s]
      <4>1. iter[s] = 0 BY <1>7, <3>1
      <4>2. F[s] = 0 BY <3>1 DEF Folded
      <4> QED BY <4>1, <4>2
    <3> QED BY <2>3, <3>1
  <2>5. /\ s \ {Pick(s)} \in SUBSET U /\ Cardinality(s \ {Pick(s)}) \in Nat
        /\ Cardinality(s \ {Pick(s)}) = n - 1 /\ n \in Nat
    <3>1. IsFiniteSet(U) BY FS_Subset
    <3> QED BY <3>1, <2>3, <2>4, PickLess
  <2>6. iter[s \ {Pick(s)}] = F[s \ {Pick(s)}] BY <1>8, <2>2, <2>5
  <2>7. iter[s] = f[Pick(s)] + iter[s \ {Pick(s)}] BY <1>7, <2>3, <2>4
  <2>8. F[s] = f[Pick(s)] + F[s \ {Pick(s)}] BY <2>4, <1>5 DEF Folded
  <2> QED BY <2>3, <2>6, <2>7, <2>8
<1>10. IsFiniteSet(U) /\ Cardinality(U) \in Nat BY FS_Subset, FS_CardinalityType
<1>11. iter[U] = F[U] BY <1>8, <1>9, <1>10
<1> QED BY <1>2, <1>11

\* A sum of numbers is a number, and of none 0.
LEMMA SumFits ==
  ASSUME NEW S, IsFiniteSet(S), NEW f, \A x \in S : f[x] \in Int
  PROVE  Sum(f, S) \in Int /\ (S = {} => Sum(f, S) = 0)
<1>1. PICK F : Folded(f, S, F) BY FoldedExists
<1>2. Sum(f, S) = F[S] BY <1>1, SumIs
<1> QED BY <1>1, <1>2 DEF Folded

\* The sum of differences is the difference of the sums.
LEMMA SumOfDifferences ==
  ASSUME NEW S, IsFiniteSet(S), NEW f, NEW g, NEW h,
         \A x \in S : f[x] \in Int /\ g[x] \in Int /\ h[x] = f[x] - g[x]
  PROVE  Sum(h, S) = Sum(f, S) - Sum(g, S)
<1>1. PICK F : Folded(f, S, F) BY FoldedExists
<1>2. PICK G : Folded(g, S, G) BY FoldedExists
<1>3. PICK H : H = [s \in SUBSET S |-> F[s] - G[s]] OBVIOUS
<1>4. H \in [SUBSET S -> Int] BY <1>1, <1>2, <1>3 DEF Folded
<1>5. ASSUME NEW s \in SUBSET S PROVE H[s] = IF s = {} THEN 0 ELSE h[Pick(s)] + H[s \ {Pick(s)}]
  <2>1. CASE s = {}
    <3>1. F[s] = 0 BY <1>1, <2>1 DEF Folded
    <3>2. G[s] = 0 BY <1>2, <2>1 DEF Folded
    <3> QED BY <1>3, <2>1, <3>1, <3>2
  <2>2. CASE s # {}
    <3>1. Pick(s) \in S /\ s \ {Pick(s)} \in SUBSET S BY <2>2 DEF Pick
    <3>2. F[s] = f[Pick(s)] + F[s \ {Pick(s)}] /\ F[s \ {Pick(s)}] \in Int BY <1>1, <2>2, <3>1 DEF Folded
    <3>3. G[s] = g[Pick(s)] + G[s \ {Pick(s)}] /\ G[s \ {Pick(s)}] \in Int BY <1>2, <2>2, <3>1 DEF Folded
    <3>4. f[Pick(s)] \in Int /\ g[Pick(s)] \in Int /\ h[Pick(s)] = f[Pick(s)] - g[Pick(s)] BY <3>1
    <3>5. H[s] = F[s] - G[s] /\ H[s \ {Pick(s)}] = F[s \ {Pick(s)}] - G[s \ {Pick(s)}] BY <1>3, <3>1
    <3> QED BY <2>2, <3>2, <3>3, <3>4, <3>5
  <2> QED BY <2>1, <2>2
<1>6. Folded(h, S, H) BY <1>4, <1>5 DEF Folded
<1>7. Sum(f, S) = F[S] /\ Sum(g, S) = G[S] /\ Sum(h, S) = H[S] BY <1>1, <1>2, <1>6, SumIs
<1> QED BY <1>3, <1>7

\* Whatever is taken out first, a sum adds up to the same.
LEMMA AnyOrder ==
  ASSUME NEW S, NEW f, NEW F, IsFiniteSet(S), Folded(f, S, F), \A x \in S : f[x] \in Int
  PROVE  \A s \in SUBSET S : \A y \in s : F[s] = f[y] + F[s \ {y}]
<1> DEFINE Odd(u) == \E x \in u : F[u] # f[x] + F[u \ {x}]
<1>0. \A u \in SUBSET S : F[u] \in Int BY DEF Folded
<1>1. \A u \in SUBSET S : IsFiniteSet(u) /\ Cardinality(u) \in Nat BY FS_Subset, FS_CardinalityType
<1>2. PICK T : T = {n \in Nat : \E u \in SUBSET S : Cardinality(u) = n /\ Odd(u)} OBVIOUS
<1>3. ASSUME T # {} PROVE FALSE
  <2>1. T \in SUBSET Nat BY <1>2
  <2>2. PICK n \in T : \A m \in T : n <= m BY <1>3, <2>1, LeastNumber
  <2>3. PICK u \in SUBSET S : Cardinality(u) = n /\ Odd(u) BY <1>2, <2>2
  <2>4. PICK x \in u : F[u] # f[x] + F[u \ {x}] BY <2>3
  <2>5. PICK p : p = Pick(u) OBVIOUS
  <2>6. p \in u /\ F[u] = f[p] + F[u \ {p}] BY <2>3, <2>4, <2>5 DEF Pick, Folded
  <2>7. p # x BY <2>4, <2>6
  <2>8. \A z \in u : Cardinality(u \ {z}) = n - 1 /\ Cardinality(u \ {z}) \in Nat /\ u \ {z} \in SUBSET S
    BY <1>1, <2>3, FS_RemoveElement
  <2>9. ASSUME NEW z \in u PROVE ~Odd(u \ {z})
    <3>1. n - 1 \notin T BY <2>1, <2>2
    <3>2. n - 1 \in Nat BY <2>8, <2>9
    <3> QED BY <1>2, <2>8, <3>1, <3>2
  <2>10. F[u \ {p}] = f[x] + F[(u \ {p}) \ {x}] BY <2>6, <2>7, <2>9
  <2>11. F[u \ {x}] = f[p] + F[(u \ {x}) \ {p}] BY <2>6, <2>7, <2>9
  <2>12. PICK v \in SUBSET S : v = (u \ {x}) \ {p} /\ v = (u \ {p}) \ {x} OBVIOUS
  <2>13. PICK a \in Int : a = f[x] BY <2>3
  <2>14. PICK b \in Int : b = f[p] BY <2>3, <2>6
  <2>15. PICK c \in Int : c = F[v] BY <1>0
  <2>16. F[u \ {p}] = a + c /\ F[u \ {x}] = b + c BY <2>10, <2>11, <2>12, <2>13, <2>14, <2>15
  <2>17. F[u] = b + (a + c) /\ F[u] # a + (b + c) BY <2>4, <2>6, <2>13, <2>14, <2>16
  <2> QED BY <2>17
<1>4. \A s \in SUBSET S : ~Odd(s) BY <1>1, <1>2, <1>3
<1> QED BY <1>4

\* A sum without one of its elements is less by that one.
LEMMA SumWithout ==
  ASSUME NEW S, IsFiniteSet(S), NEW f, \A x \in S : f[x] \in Int, NEW y \in S
  PROVE  Sum(f, S) = f[y] + Sum(f, S \ {y}) /\ Sum(f, S \ {y}) \in Int
<1>1. PICK F : Folded(f, S, F) BY FoldedExists
<1>2. Sum(f, S) = F[S] /\ Sum(f, S \ {y}) = F[S \ {y}] BY <1>1, SumIs
<1>3. F[S] = f[y] + F[S \ {y}] BY <1>1, AnyOrder
<1>4. F[S \ {y}] \in Int BY <1>1 DEF Folded
<1> QED BY <1>2, <1>3, <1>4

\* What rises step by step rises by the sum of the steps in all, and by no less if a
\* step is taken for too little.
LEMMA Telescope ==
  ASSUME NEW M \in Nat, NEW P \in [0..(M + 1) -> Int], NEW d \in [0..M -> Int]
  PROVE  /\ (\A m \in 0..M : d[m] <= P[m + 1] - P[m]) => Sum(d, 0..M) <= P[M + 1] - P[0]
         /\ (\A m \in 0..M : d[m] = P[m + 1] - P[m]) => Sum(d, 0..M) = P[M + 1] - P[0]
<1> DEFINE Below == \A m \in 0..M : d[m] <= P[m + 1] - P[m]
           Equal == \A m \in 0..M : d[m] = P[m + 1] - P[m]
<1>1. \A k \in 0..M : IsFiniteSet(0..k) BY FS_Interval
<1>2. \A k \in 0..M : \A x \in 0..k : d[x] \in Int OBVIOUS
<1>3. ASSUME NEW k \in 0..M
      PROVE  Sum(d, 0..k) = d[k] + Sum(d, (0..k) \ {k}) /\ Sum(d, (0..k) \ {k}) \in Int
  <2>1. k \in 0..k OBVIOUS
  <2> QED BY <1>1, <1>2, <2>1, SumWithout
<1>4. PICK g : g = [k \in 0..M |-> Sum(d, 0..k)] OBVIOUS
<1>7. g \in [0..M -> Int]
  <2>1. \A k \in 0..M : Sum(d, 0..k) \in Int BY <1>1, <1>2, SumFits
  <2> QED BY <1>4, <2>1
<1>8. g[0] = d[0]
  <2>1. (0..0) \ {0} = {} /\ 0 \in 0..M OBVIOUS
  <2>2. Sum(d, 0..0) = d[0] + Sum(d, {}) BY <1>3, <2>1
  <2>3. Sum(d, {}) = 0
    <3>1. IsFiniteSet({}) /\ \A x \in {} : d[x] \in Int BY FS_EmptySet
    <3> QED BY <3>1, SumFits
  <2>4. g[0] = d[0] + 0 BY <1>4, <2>1, <2>2, <2>3
  <2> QED BY <1>2, <2>1, <2>4
<1>9. \A k \in 1..M : g[k] = d[k] + g[k - 1]
  <2> SUFFICES ASSUME NEW k \in 1..M PROVE g[k] = d[k] + g[k - 1] OBVIOUS
  <2>1. (0..k) \ {k} = 0..(k - 1) /\ k \in 0..M /\ k - 1 \in 0..M OBVIOUS
  <2>2. Sum(d, 0..k) = d[k] + Sum(d, 0..(k - 1)) BY <1>3, <2>1
  <2> QED BY <1>4, <2>1, <2>2
<1>10. Sum(d, 0..M) = g[M] BY <1>4
<1>11. ASSUME Below PROVE g[M] <= P[M + 1] - P[0]
  <2>1. PICK T : T = {k \in 0..M : ~(g[k] <= P[k + 1] - P[0])} OBVIOUS
  <2>2. ASSUME T # {} PROVE FALSE
    <3>1. T \in SUBSET Nat BY <2>1
    <3>2. PICK k \in T : \A j \in T : k <= j BY <2>2, <3>1, LeastNumber
    <3>3. k \in 0..M /\ ~(g[k] <= P[k + 1] - P[0]) BY <2>1, <3>2
    <3>4. k # 0 BY <1>8, <1>11, <3>3
    <3>5. k - 1 \in 0..M /\ k - 1 \notin T BY <3>2, <3>3, <3>4
    <3>6. g[k - 1] <= P[k] - P[0] BY <2>1, <3>3, <3>5
    <3>7. k \in 1..M BY <3>3, <3>4
    <3>8. g[k] = d[k] + g[k - 1] BY <1>9, <3>7
    <3>9. d[k] <= P[k + 1] - P[k] BY <1>11, <3>3
    <3>10. P[k] \in Int /\ P[k + 1] \in Int /\ P[0] \in Int /\ d[k] \in Int /\ g[k - 1] \in Int BY <1>7, <3>3, <3>5
    <3> QED BY <3>3, <3>6, <3>8, <3>9, <3>10
  <2> QED BY <2>1, <2>2
<1>12. ASSUME Equal PROVE g[M] = P[M + 1] - P[0]
  <2>1. PICK T : T = {k \in 0..M : ~(g[k] = P[k + 1] - P[0])} OBVIOUS
  <2>2. ASSUME T # {} PROVE FALSE
    <3>1. T \in SUBSET Nat BY <2>1
    <3>2. PICK k \in T : \A j \in T : k <= j BY <2>2, <3>1, LeastNumber
    <3>3. k \in 0..M /\ ~(g[k] = P[k + 1] - P[0]) BY <2>1, <3>2
    <3>4. k # 0 BY <1>8, <1>12, <3>3
    <3>5. k - 1 \in 0..M /\ k - 1 \notin T BY <3>2, <3>3, <3>4
    <3>6. g[k - 1] = P[k] - P[0] BY <2>1, <3>3, <3>5
    <3>7. k \in 1..M BY <3>3, <3>4
    <3>8. g[k] = d[k] + g[k - 1] BY <1>9, <3>7
    <3>9. d[k] = P[k + 1] - P[k] BY <1>12, <3>3
    <3>10. P[k] \in Int /\ P[k + 1] \in Int /\ P[0] \in Int /\ d[k] \in Int /\ g[k - 1] \in Int BY <1>7, <3>3, <3>5
    <3> QED BY <3>3, <3>6, <3>8, <3>9, <3>10
  <2> QED BY <2>1, <2>2
<1> QED BY <1>10, <1>11, <1>12

-----------------------------------------------------------------------------
(* Types.                                                                     *)

Row == [account : Accounts, date : Nat, amount : Int]
Point == [h : HoldingIds \cup {Null}, date : Nat, price : Prices]
Goal == [target : Int, date : Nat \cup {Null}, account : Accounts \cup {Null}, amount : Int \cup {Null}]

\* What a thread is doing: a deposit, a sweep that is at a holding, or a price that is set.
Adjusts == [op : {"adjust"}, account : Accounts, delta : Int, seen : Int]
Quotes == [op : {"quote"}, rest : (SUBSET HoldingIds) \ {{}}]
Refreshes == [op : {"refresh"}, h : HoldingIds, clean : BOOLEAN, rest : SUBSET HoldingIds]
Finds == [op : {"find"}, h : HoldingIds, clean : BOOLEAN, rest : SUBSET HoldingIds, price : Prices]
Stores == [op : {"point"}, h : HoldingIds, clean : BOOLEAN, rest : SUBSET HoldingIds, price : Prices,
           date : Nat, at : Nat]
Calls == {NoCall} \cup Adjusts \cup Quotes \cup Refreshes \cup Finds \cup Stores

BalancesFit == balances \in Seq(Row) /\ now \in Nat /\ due \in [Accounts -> Int] /\ clashed \subseteq Accounts
HoldingsFit == holdings \in [HoldingIds -> Holding] /\ points \in Seq(Point) /\ loose \subseteq HoldingIds
GoalsFit == goals \in [Goals -> Goal \cup {NoGoal}]
CallsFit == call \in [Callers -> Calls]

TypeInv == BalancesFit /\ HoldingsFit /\ GoalsFit /\ CallsFit

\* Ids are numbers from 1.
LEMMA Ids == HoldingIds \in SUBSET Nat /\ 0 \notin HoldingIds
BY WealthAssumption, FS_CardinalityType

\* The least of some ids is one of them.
LEMMA LeastId == ASSUME NEW S \in SUBSET Nat, S # {} PROVE Min(S) \in S
BY LeastNumber DEF Min

\* Row i is the newest of S in a table of balances.
NewestIn(rows, S, i) == i \in S /\ \A j \in S : rows[j].date < rows[i].date \/ (rows[j].date = rows[i].date /\ j <= i)

\* Some balances have a newest one, and one only.
LEMMA NewestExists ==
  ASSUME NEW rows \in Seq(Row), NEW S \in SUBSET (DOMAIN rows), S # {}
  PROVE  (\E i \in S : NewestIn(rows, S, i)) /\ \A i, j \in S : NewestIn(rows, S, i) /\ NewestIn(rows, S, j) => i = j
<1>1. PICK k \in Nat : DOMAIN rows = 1..k OBVIOUS
<1>2. \A i \in DOMAIN rows : rows[i] \in Row /\ rows[i].date \in Nat /\ i \in Nat
  <2>1. \A i \in DOMAIN rows : rows[i] \in Row /\ i \in Nat OBVIOUS
  <2> QED BY <2>1 DEF Row
<1>3. PICK dates : dates = [i \in 1..k |-> rows[i].date] OBVIOUS
<1>4. dates \in [1..k -> Nat] BY <1>1, <1>2, <1>3
<1>5. \E i \in S : Latest(dates, S, i) BY <1>1, <1>4, LatestExists
<1>6. \A i \in S : i \in 1..k BY <1>1
<1>7. \E i \in S : NewestIn(rows, S, i) BY <1>3, <1>5, <1>6 DEF Latest, NewestIn
<1>8. \A i, j \in S : NewestIn(rows, S, i) /\ NewestIn(rows, S, j) => i = j BY <1>1, <1>2 DEF NewestIn
<1> QED BY <1>7, <1>8

\* Newest finds it.
LEMMA NewestIs ==
  ASSUME BalancesFit, NEW S \in SUBSET (DOMAIN balances), S # {}
  PROVE  Newest(S) \in S /\ NewestIn(balances, S, Newest(S))
<1>1. \E i \in S : NewestIn(balances, S, i) BY NewestExists DEF BalancesFit
<1>2. Newest(S) = CHOOSE i \in S : NewestIn(balances, S, i)
  <2>1. \A i \in S : NewestIn(balances, S, i) <=>
          \A j \in S : balances[j].date < balances[i].date \/ (balances[j].date = balances[i].date /\ j <= i)
    BY DEF NewestIn
  <2> QED BY <2>1 DEF Newest
<1> QED BY <1>1, <1>2

\* And so it does after a step.
LEMMA NewestAfter ==
  ASSUME BalancesFit', NEW S \in SUBSET (DOMAIN balances'), NEW i \in S, NewestIn(balances', S, i)
  PROVE  Newest(S)' = i
<1>1. balances' \in Seq(Row) BY DEF BalancesFit
<1>2. Newest(S)' = CHOOSE j \in S : NewestIn(balances', S, j)
  <2>1. \A k \in S : NewestIn(balances', S, k) <=>
          \A j \in S : balances'[j].date < balances'[k].date \/ (balances'[j].date = balances'[k].date /\ j <= k)
    BY DEF NewestIn
  <2> QED BY <2>1 DEF Newest
<1>3. \A j \in S : NewestIn(balances', S, j) => j = i BY <1>1, NewestExists
<1> QED BY <1>2, <1>3

\* The latest balance is a number or none.
LEMMA LatestFits ==
  ASSUME BalancesFit, NEW S \in SUBSET (DOMAIN balances)
  PROVE  IF S = {} THEN BalanceAt(Newest(S)) = Null
         ELSE Newest(S) \in DOMAIN balances /\ BalanceAt(Newest(S)) = balances[Newest(S)].amount
              /\ BalanceAt(Newest(S)) \in Int
<1>1. CASE S = {} BY <1>1 DEF Newest, BalanceAt
<1>2. CASE S # {}
  <2>1. Newest(S) \in DOMAIN balances BY <1>2, NewestIs
  <2>2. Newest(S) # 0 /\ balances[Newest(S)] \in Row BY <2>1 DEF BalancesFit
  <2> QED BY <1>2, <2>1, <2>2 DEF BalanceAt, Row
<1> QED BY <1>1, <1>2

\* What is known of the latest balance of an account.
LEMMA LatestOf ==
  ASSUME BalancesFit, NEW a \in Accounts
  PROVE  /\ Snapshots(a) \in SUBSET (DOMAIN balances)
         /\ OrZero(latest_balance(a)) \in Int
         /\ Snapshots(a) # {} => latest_balance(a) \in Int
         /\ Snapshots(a) = {} => latest_balance(a) = Null
<1>1. Snapshots(a) \in SUBSET (DOMAIN balances) BY DEF Snapshots
<1>2. Null \notin Int BY WealthAssumption
<1> QED BY <1>1, <1>2, LatestFits DEF latest_balance, OrZero

\* A balance that is added is the latest, unless an older one has a later date.
LEMMA StoredLatest ==
  ASSUME BalancesFit, BalancesFit', NEW a \in Accounts, NEW d \in Nat, NEW n \in Int, Stored(a, d, n)
  PROVE  /\ latest_balance(a)' = IF Newer(a, d) THEN latest_balance(a) ELSE n
         /\ \A b \in Accounts : b # a => latest_balance(b)' = latest_balance(b) /\ Snapshots(b)' = Snapshots(b)
<1>1. PICK k \in Nat : DOMAIN balances = 1..k /\ k = Len(balances) BY DEF BalancesFit
<1>2. /\ DOMAIN balances' = 1..(k + 1) /\ balances'[k + 1] = [account |-> a, date |-> d, amount |-> n]
      /\ \A i \in 1..k : balances'[i] = balances[i]
  BY <1>1 DEF Stored, BalancesFit
<1>3. ASSUME NEW b \in Accounts PROVE Snapshots(b)' = IF b = a THEN Snapshots(a) \cup {k + 1} ELSE Snapshots(b)
  BY <1>1, <1>2 DEF Snapshots
<1>4. ASSUME NEW S \in SUBSET (1..k) PROVE BalanceAt(Newest(S))' = BalanceAt(Newest(S))
  <2>1. CASE S = {} BY <2>1 DEF Newest, BalanceAt
  <2>2. CASE S # {}
    <3>1. Newest(S) \in S /\ NewestIn(balances, S, Newest(S)) BY <1>1, <2>2, NewestIs
    <3>2. PICK i \in S : i = Newest(S) BY <3>1
    <3>3. NewestIn(balances', S, i) BY <1>2, <3>1, <3>2 DEF NewestIn
    <3>4. Newest(S)' = i
      <4>1. S \in SUBSET (DOMAIN balances') BY <1>2
      <4> QED BY <3>3, <4>1, NewestAfter
    <3>5. i # 0 /\ balances'[i] = balances[i]
      <4>1. i \in 1..k OBVIOUS
      <4> QED BY <1>2, <4>1
    <3> QED BY <3>2, <3>4, <3>5 DEF BalanceAt
  <2> QED BY <2>1, <2>2
<1>5. \A b \in Accounts : Snapshots(b) \in SUBSET (1..k) BY <1>1 DEF Snapshots
<1>6. ASSUME NEW b \in Accounts, b # a PROVE latest_balance(b)' = latest_balance(b) /\ Snapshots(b)' = Snapshots(b)
  <2>1. PICK S \in SUBSET (1..k) : S = Snapshots(b) BY <1>5, <1>6
  <2>2. Snapshots(b)' = S BY <1>3, <1>6, <2>1
  <2> QED BY <1>4, <2>1, <2>2 DEF latest_balance
<1>7. PICK S \in SUBSET (1..k) : S = Snapshots(a) BY <1>5
<1>8. Snapshots(a)' = S \cup {k + 1} BY <1>3, <1>7
<1>9. S \cup {k + 1} \in SUBSET (DOMAIN balances') BY <1>2
<1>10. \A i \in S : balances'[i].date = balances[i].date /\ balances[i].date \in Nat /\ i \in 1..k
  <2>1. \A i \in 1..k : balances[i] \in Row BY <1>1 DEF BalancesFit
  <2>2. \A i \in S : i \in 1..k OBVIOUS
  <2> QED BY <1>2, <2>1, <2>2 DEF Row
<1>11. CASE ~Newer(a, d)
  <2>1. \A j \in S : balances[j].date <= d BY <1>7, <1>10, <1>11 DEF Newer
  <2>2. NewestIn(balances', S \cup {k + 1}, k + 1) BY <1>2, <1>10, <2>1 DEF NewestIn
  <2>5. k + 1 \in S \cup {k + 1} OBVIOUS
  <2>3. Newest(S \cup {k + 1})' = k + 1 BY <1>9, <2>2, <2>5, NewestAfter
  <2>4. latest_balance(a)' = BalanceAt(k + 1)' BY <1>8, <2>3 DEF latest_balance
  <2> QED BY <1>2, <1>6, <1>11, <2>4 DEF BalanceAt
<1>12. CASE Newer(a, d)
  <2>1. S # {} BY <1>7, <1>12 DEF Newer
  <2>2. Newest(S) \in S /\ NewestIn(balances, S, Newest(S)) BY <1>1, <2>1, NewestIs
  <2>3. PICK i \in S : i = Newest(S) BY <2>2
  <2>4. balances[i].date > d BY <1>7, <1>10, <1>12, <2>2, <2>3 DEF Newer, NewestIn
  <2>5. NewestIn(balances', S \cup {k + 1}, i) BY <1>2, <1>10, <2>2, <2>3, <2>4 DEF NewestIn
  <2>6. Newest(S \cup {k + 1})' = i BY <1>9, <2>5, NewestAfter
  <2>7. i # 0 /\ balances'[i] = balances[i] BY <1>2, <1>10
  <2>8. latest_balance(a)' = BalanceAt(i)' BY <1>8, <2>6 DEF latest_balance
  <2>9. latest_balance(a) = BalanceAt(i) BY <1>7, <2>3 DEF latest_balance
  <2> QED BY <1>6, <1>12, <2>7, <2>8, <2>9 DEF BalanceAt
<1> QED BY <1>6, <1>11, <1>12

-----------------------------------------------------------------------------
(* What a step does to the calls.                                             *)

Pricings == Refreshes \cup Finds \cup Stores

\* The kind of a call is its op.
LEMMA CallKinds ==
  ASSUME NEW c \in Calls
  PROVE  /\ c.op \in {"none", "adjust", "quote", "refresh", "find", "point"}
         /\ c.op = "none" => c = NoCall
         /\ c.op = "adjust" => c \in Adjusts
         /\ c.op = "quote" => c \in Quotes
         /\ c.op = "refresh" => c \in Refreshes
         /\ c.op = "find" => c \in Finds
         /\ c.op = "point" => c \in Stores
         /\ c.op \in {"refresh", "find", "point"} => c \in Pricings
BY DEF Calls, NoCall, Adjusts, Quotes, Refreshes, Finds, Stores, Pricings

\* A call that is disturbed is as it was, but for that.
Dirty(c, d) ==
  /\ d \in Calls /\ d.op = c.op /\ d.h = c.h /\ d.rest = c.rest /\ ~d.clean
  /\ c.op \in {"find", "point"} => d.price = c.price
  /\ c.op = "point" => d.date = c.date /\ d.at = c.at

\* Marking a call as disturbed leaves everything else of it.
LEMMA DirtyIs ==
  ASSUME NEW c \in Calls, c.op \in {"refresh", "find", "point"}
  PROVE  Dirty(c, [c EXCEPT !.clean = FALSE])
<1>1. PICK d : d = [c EXCEPT !.clean = FALSE] OBVIOUS
<1>2. CASE c.op = "refresh"
  <2>1. c \in Refreshes BY <1>2, CallKinds
  <2> QED BY <1>1, <2>1 DEF Dirty, Calls, Refreshes
<1>3. CASE c.op = "find"
  <2>1. c \in Finds BY <1>3, CallKinds
  <2> QED BY <1>1, <2>1 DEF Dirty, Calls, Finds
<1>4. CASE c.op = "point"
  <2>1. c \in Stores BY <1>4, CallKinds
  <2> QED BY <1>1, <2>1 DEF Dirty, Calls, Stores
<1> QED BY <1>2, <1>3, <1>4

\* Calls that set the price of h are disturbed, the others stay.
LEMMA DisturbedIs ==
  ASSUME CallsFit, NEW h
  PROVE  /\ Disturbed(call, h) \in [Callers -> Calls]
         /\ \A t \in Callers : IF PricingOf(t, h) THEN Dirty(call[t], Disturbed(call, h)[t])
                               ELSE Disturbed(call, h)[t] = call[t]
<1>1. \A t \in Callers : call[t] \in Calls BY DEF CallsFit
<1>2. \A t \in Callers : PricingOf(t, h) => Dirty(call[t], [call[t] EXCEPT !.clean = FALSE])
  BY <1>1, DirtyIs DEF PricingOf
<1>3. \A t \in Callers : Disturbed(call, h)[t] = IF PricingOf(t, h) THEN [call[t] EXCEPT !.clean = FALSE] ELSE call[t]
  BY DEF Disturbed, PricingOf
<1>4. \A t \in Callers : Disturbed(call, h)[t] \in Calls BY <1>1, <1>2, <1>3 DEF Dirty
<1>5. DOMAIN Disturbed(call, h) = Callers /\ Disturbed(call, h) = [t \in Callers |-> Disturbed(call, h)[t]]
  BY DEF Disturbed
<1> QED BY <1>2, <1>3, <1>4, <1>5

\* A call that begins to set a price, and one that goes on with a sweep.
LEMMA PriceCallIs ==
  ASSUME NEW h \in HoldingIds, NEW rest \in SUBSET HoldingIds
  PROVE  /\ PriceCall(h, rest) \in Refreshes /\ PriceCall(h, rest).h = h
         /\ PriceCall(h, rest).clean <=> ~Pricing(h)
<1>1. Pricing(h) \in BOOLEAN BY DEF Pricing
<1>2. PICK b \in BOOLEAN : b = ~Pricing(h) BY <1>1
<1>3. PICK d : d = [op |-> "refresh", h |-> h, clean |-> b, rest |-> rest] OBVIOUS
<1>4. PriceCall(h, rest) = d BY <1>2, <1>3, Zenon DEF PriceCall
<1>5. d \in Refreshes /\ d.h = h /\ d.clean = b BY <1>3 DEF Refreshes
<1>6. PriceCall(h, rest).clean = ~Pricing(h) BY <1>2, <1>4, <1>5, Zenon
<1> QED BY <1>4, <1>5, <1>6

\* Where a sweep goes on it has a call of its own type.
LEMMA GoOnIs ==
  ASSUME CallsFit, NEW t \in Callers, NEW rest \in SUBSET HoldingIds
  PROVE  /\ GoOn(t, rest) \in [Callers -> Calls] /\ GoOn(t, rest)[t].op \in {"none", "quote"}
         /\ \A u \in Callers \ {t} : GoOn(t, rest)[u] = call[u]
<1>1. PICK d : d = IF rest = {} THEN NoCall ELSE [op |-> "quote", rest |-> rest] OBVIOUS
<1>2. d \in Calls /\ d.op \in {"none", "quote"} BY <1>1 DEF Calls, NoCall, Quotes
<1>3. GoOn(t, rest) = [call EXCEPT ![t] = d] BY <1>1 DEF GoOn
<1> QED BY <1>2, <1>3 DEF CallsFit

\* The price as it is refreshed, and the point that is looked for.
LEMMA FoundIs ==
  ASSUME NEW c \in Refreshes, NEW p \in Prices
  PROVE  Found(c, p) \in Finds /\ Found(c, p).h = c.h /\ Found(c, p).price = p /\ Found(c, p).clean = c.clean
BY DEF Found, Refreshes, Finds

\* What a call has after it looked for its point.
LEMMA PlacedIs ==
  ASSUME NEW c \in Finds, NEW d \in Nat, NEW at \in Nat
  PROVE  /\ Placed(c, d, at) \in Stores /\ Placed(c, d, at).h = c.h /\ Placed(c, d, at).price = c.price
         /\ Placed(c, d, at).clean = c.clean /\ Placed(c, d, at).date = d /\ Placed(c, d, at).at = at
BY DEF Placed, Finds, Stores

\* The point of a day, or 0.
LEMMA PointOnIs ==
  ASSUME HoldingsFit, NEW h, NEW d
  PROVE  /\ PointOn(h, d) \in Nat
         /\ PointOn(h, d) # 0 => /\ PointOn(h, d) \in DOMAIN points
                                 /\ points[PointOn(h, d)].h = h /\ points[PointOn(h, d)].date = d
         /\ PointOn(h, d) = 0 => ~\E i \in DOMAIN points : points[i].h = h /\ points[i].date = d
<1>1. PICK on : on = {i \in DOMAIN points : points[i].h = h /\ points[i].date = d} OBVIOUS
<1>2. on \in SUBSET Nat /\ 0 \notin on BY <1>1 DEF HoldingsFit
<1>3. on # {} => Min(on) \in on BY <1>2, LeastId
<1>4. PointOn(h, d) = IF on = {} THEN 0 ELSE Min(on) BY <1>1 DEF PointOn
<1> QED BY <1>1, <1>2, <1>3, <1>4

-----------------------------------------------------------------------------
(* Types hold.                                                                *)

\* The empty tables are well typed.
LEMMA TypesInit == Init => TypeInv
<1> SUFFICES ASSUME Init PROVE TypeInv OBVIOUS
<1>1. BalancesFit BY DEF Init, InitAssets, BalancesFit
<1>2. HoldingsFit BY WealthAssumption DEF Init, HoldingsFit
<1>3. GoalsFit BY DEF Init, GoalsFit
<1>4. CallsFit BY DEF Init, CallsFit, Calls
<1> QED BY <1>1, <1>2, <1>3, <1>4 DEF TypeInv

\* Balances change by what is typed in and by deposits.
LEMMA RecordFits ==
  ASSUME TypeInv, NEW a \in Accounts, NEW d \in 0..(now + 1), NEW n \in Balances, record_balance(a, d, n)
  PROVE  TypeInv'
<1>1. n \in Int /\ d \in Nat BY WealthAssumption DEF TypeInv, BalancesFit
<1>2. BalancesFit' BY <1>1 DEF TypeInv, BalancesFit, record_balance, Stored, Row
<1>3. UNCHANGED <<holdings, points, goals, call, loose>> BY DEF record_balance
<1> QED BY <1>2, <1>3 DEF TypeInv, HoldingsFit, GoalsFit, CallsFit

\* Every step keeps the types; the steps of a deposit first.
LEMMA AdjustStartFits ==
  ASSUME TypeInv, NEW t \in Callers, NEW a \in Accounts, NEW n \in Deltas, AdjustStart(t, a, n)
  PROVE  TypeInv'
<1>1. n \in Int BY WealthAssumption
<1>2. OrZero(latest_balance(a)) \in Int BY LatestOf DEF TypeInv
<1>3. UNCHANGED <<now, balances, due, clashed, holdings, points, goals, loose>> BY DEF AdjustStart
<1>4. [op |-> "adjust", account |-> a, delta |-> n, seen |-> OrZero(latest_balance(a))] \in Calls
  BY <1>1, <1>2 DEF Calls, Adjusts
<1>5. CallsFit' BY <1>4 DEF TypeInv, CallsFit, AdjustStart
<1> QED BY <1>3, <1>5 DEF TypeInv, HoldingsFit, GoalsFit, BalancesFit

\* The commit of a deposit adds to what it has seen.
LEMMA AdjustCommitFits ==
  ASSUME TypeInv, NEW t \in Callers, AdjustCommit(t)
  PROVE  TypeInv' /\ call[t] \in Adjusts /\ call' = [call EXCEPT ![t] = NoCall]
<1>1. call[t] \in Calls /\ call[t].op = "adjust" BY DEF TypeInv, CallsFit, AdjustCommit, Under
<1>2. call[t] \in Adjusts BY <1>1, CallKinds
<1>3. /\ call[t].account \in Accounts /\ call[t].delta \in Int /\ call[t].seen + call[t].delta \in Int
  BY <1>2 DEF Adjusts
<1>4. Stored(call[t].account, now, call[t].seen + call[t].delta) BY DEF AdjustCommit
<1>5. balances' \in Seq(Row) BY <1>3, <1>4 DEF Stored, TypeInv, BalancesFit, Row
<1>6. due' = [due EXCEPT ![call[t].account] = @ + call[t].delta] BY DEF AdjustCommit
<1>7. due' \in [Accounts -> Int] BY <1>3, <1>6 DEF TypeInv, BalancesFit
<1>8. now' = now /\ clashed' \subseteq Accounts /\ UNCHANGED <<holdings, points, goals, loose>>
  BY <1>3 DEF AdjustCommit, TypeInv, BalancesFit
<1>9. call' = [call EXCEPT ![t] = NoCall] BY DEF AdjustCommit, End
<1>10. CallsFit' BY <1>9 DEF TypeInv, CallsFit, Calls
<1> QED BY <1>2, <1>5, <1>7, <1>8, <1>9, <1>10 DEF TypeInv, HoldingsFit, GoalsFit, BalancesFit

\* Goals are typed in and deleted.
LEMMA GoalsFitOn == ASSUME TypeInv, GoalStep PROVE TypeInv'
<1>1. PICK g \in Goals : delete_goal(g) \/ \E b \in Targets : create_goal(g, b) \/ update_goal(g, b)
  BY DEF GoalStep
<1>2. UNCHANGED <<now, balances, due, clashed, holdings, points, call, loose>>
  BY <1>1 DEF delete_goal, create_goal, update_goal
<1>3. CASE delete_goal(g)
  <2>1. GoalsFit' BY <1>3 DEF delete_goal, TypeInv, GoalsFit
  <2> QED BY <1>2, <2>1 DEF TypeInv, HoldingsFit, CallsFit, BalancesFit
<1>4. ASSUME NEW b \in Targets, create_goal(g, b) PROVE TypeInv'
  <2>1. b \in [target : Int \cup {Null}, date : Nat \cup {Null}, account : Accounts \cup {Null}, amount : Int \cup {Null}]
    BY WealthAssumption
  <2>2. b.target # Null BY <1>4 DEF create_goal
  <2>3. b \in Goal BY <2>1, <2>2 DEF Goal
  <2>4. GoalsFit' BY <1>4, <2>3 DEF create_goal, TypeInv, GoalsFit
  <2> QED BY <1>2, <2>4 DEF TypeInv, HoldingsFit, CallsFit, BalancesFit
<1>5. ASSUME NEW b \in Targets, update_goal(g, b) PROVE TypeInv'
  <2>1. b \in [target : Int \cup {Null}, date : Nat \cup {Null}, account : Accounts \cup {Null}, amount : Int \cup {Null}]
    BY WealthAssumption
  <2>2. goals[g] \in Goal BY <1>5 DEF update_goal, TypeInv, GoalsFit
  <2>3. PICK e : e = [f \in DOMAIN b |-> IF b[f] = Null /\ f \notin {"date", "account"} THEN goals[g][f] ELSE b[f]]
    OBVIOUS
  <2>4. DOMAIN b = {"target", "date", "account", "amount"} BY <2>1
  <2>5. e \in Goal BY <2>1, <2>2, <2>3, <2>4 DEF Goal
  <2>6. goals' = [goals EXCEPT ![g] = e] BY <1>5, <2>3 DEF update_goal
  <2>7. GoalsFit' BY <2>5, <2>6 DEF TypeInv, GoalsFit
  <2> QED BY <1>2, <2>7 DEF TypeInv, HoldingsFit, CallsFit, BalancesFit
<1> QED BY <1>1, <1>3, <1>4, <1>5

\* A holding that is held is a row of the table.
LEMMA HeldIs ==
  ASSUME HoldingsFit, NEW h \in HoldingIds
  PROVE  /\ holdings[h].price \in Prices \cup {Null} /\ holdings[h].units \in Nat
         /\ Held(h) => holdings[h] \in [account : Accounts, units : Nat \ {0}, price : Prices \cup {Null}]
         /\ ~Held(h) => holdings[h].account = Null /\ holdings[h].price = Null
BY DEF HoldingsFit, Holding, Held, NoHolding

\* Calls in which one thread begins to set a price.
LEMMA PricingFits ==
  ASSUME TypeInv, NEW t \in Callers, NEW h \in HoldingIds, NEW rest \in SUBSET HoldingIds,
         call' = [Disturbed(call, h) EXCEPT ![t] = PriceCall(h, rest)]
  PROVE  CallsFit'
<1>1. PriceCall(h, rest) \in Calls BY PriceCallIs DEF Calls
<1>2. Disturbed(call, h) \in [Callers -> Calls] BY DisturbedIs DEF TypeInv
<1> QED BY <1>1, <1>2 DEF CallsFit

\* The steps on a holding keep the types.
LEMMA CreateFits ==
  ASSUME TypeInv, NEW t \in Callers, NEW h \in HoldingIds, NEW a \in Accounts, NEW n \in Units,
         NEW p \in Prices \cup {Null}, create_holding(t, h, a, n, p)
  PROVE  TypeInv'
<1>1. UNCHANGED <<now, balances, points, goals, due, clashed>> BY DEF create_holding
<1>2. loose' \subseteq HoldingIds BY DEF create_holding, TypeInv, HoldingsFit
<1>3. [account |-> a, units |-> n, price |-> p] \in Holding BY WealthAssumption DEF Holding
<1>4. holdings' \in [HoldingIds -> Holding] BY <1>3 DEF create_holding, TypeInv, HoldingsFit
<1>5. call' = call \/ call' = [Disturbed(call, h) EXCEPT ![t] = PriceCall(h, {})] BY DEF create_holding
<1>6. CallsFit' BY <1>5, PricingFits DEF TypeInv, CallsFit
<1> QED BY <1>1, <1>2, <1>4, <1>6 DEF TypeInv, HoldingsFit, BalancesFit, GoalsFit

\* Units that are changed leave price and account.
LEMMA SetUnitsFits ==
  ASSUME TypeInv, NEW h \in HoldingIds, NEW n \in Units, SetUnits(h, n)
  PROVE  TypeInv' /\ holdings'[h].price = holdings[h].price /\ holdings'[h].account = holdings[h].account
<1>1. UNCHANGED <<now, balances, points, goals, call, due, clashed, loose>> BY DEF SetUnits
<1>2. holdings[h] \in [account : Accounts, units : Nat \ {0}, price : Prices \cup {Null}]
  BY HeldIs DEF SetUnits, TypeInv
<1>3. PICK r : r = [holdings[h] EXCEPT !.units = n] OBVIOUS
<1>4. r \in Holding /\ r.price = holdings[h].price /\ r.account = holdings[h].account
  BY <1>2, <1>3, WealthAssumption DEF Holding
<1>5. holdings' = [holdings EXCEPT ![h] = r] BY <1>3 DEF SetUnits
<1>6. holdings' \in [HoldingIds -> Holding] /\ holdings'[h] = r BY <1>4, <1>5 DEF TypeInv, HoldingsFit
<1> QED BY <1>1, <1>4, <1>6 DEF TypeInv, HoldingsFit, BalancesFit, GoalsFit, CallsFit

\* A price that is set, or cleared.
LEMMA PricedFits ==
  ASSUME TypeInv, NEW h \in HoldingIds, Held(h), NEW p \in Prices \cup {Null},
         holdings' = [holdings EXCEPT ![h].price = p]
  PROVE  /\ holdings' \in [HoldingIds -> Holding]
         /\ holdings'[h].price = p /\ holdings'[h].account = holdings[h].account /\ Held(h)'
         /\ \A k \in HoldingIds \ {h} : holdings'[k] = holdings[k]
<1>1. holdings[h] \in [account : Accounts, units : Nat \ {0}, price : Prices \cup {Null}] BY HeldIs DEF TypeInv
<1>2. PICK r : r = [holdings[h] EXCEPT !.price = p] OBVIOUS
<1>3. r \in [account : Accounts, units : Nat \ {0}, price : Prices \cup {Null}]
  BY <1>1, <1>2
<1>4. r.price = p /\ r.account = holdings[h].account BY <1>1, <1>2
<1>5. r # NoHolding
  <2>1. r.account # Null BY <1>3, WealthAssumption
  <2> QED BY <2>1 DEF NoHolding
<1>6. holdings' = [holdings EXCEPT ![h] = r] BY <1>2
<1>7. holdings' \in [HoldingIds -> Holding] /\ holdings'[h] = r BY <1>3, <1>6 DEF TypeInv, HoldingsFit, Holding
<1>8. \A k \in HoldingIds \ {h} : holdings'[k] = holdings[k] BY <1>6 DEF TypeInv, HoldingsFit
<1> QED BY <1>4, <1>5, <1>7, <1>8 DEF Held

\* A price that is cleared,
LEMMA ClearFits ==
  ASSUME TypeInv, NEW h \in HoldingIds, ClearPrice(h)
  PROVE  TypeInv'
<1>1. UNCHANGED <<now, balances, points, goals, due, clashed>> BY DEF ClearPrice
<1>2. holdings' \in [HoldingIds -> Holding]
  <2>1. Held(h) /\ holdings' = [holdings EXCEPT ![h].price = Null] BY DEF ClearPrice
  <2> QED BY <2>1, PricedFits
<1>3. loose' \subseteq HoldingIds BY DEF ClearPrice, TypeInv, HoldingsFit
<1>4. CallsFit' BY DisturbedIs DEF ClearPrice, TypeInv, CallsFit
<1> QED BY <1>1, <1>2, <1>3, <1>4 DEF TypeInv, HoldingsFit, BalancesFit, GoalsFit

\* or set by hand.
LEMMA SetPriceFits ==
  ASSUME TypeInv, NEW t \in Callers, NEW h \in HoldingIds, NEW p \in Prices, SetPrice(t, h, p)
  PROVE  TypeInv'
<1>1. UNCHANGED <<now, balances, points, goals, due, clashed, loose>> BY DEF SetPrice
<1>2. holdings' \in [HoldingIds -> Holding]
  <2>1. Held(h) /\ holdings' = [holdings EXCEPT ![h].price = p] BY DEF SetPrice
  <2> QED BY <2>1, PricedFits
<1>3. call' = [Disturbed(call, h) EXCEPT ![t] = PriceCall(h, {})] BY DEF SetPrice
<1>4. CallsFit'
  <2>1. {} \in SUBSET HoldingIds OBVIOUS
  <2> QED BY <1>3, <2>1, PricingFits
<1> QED BY <1>1, <1>2, <1>4 DEF TypeInv, HoldingsFit, BalancesFit, GoalsFit

\* A deletion leaves the points where they are, those of the holding without one.
LEMMA DeleteFits ==
  ASSUME TypeInv, NEW h \in HoldingIds, delete_holding(h)
  PROVE  /\ TypeInv' /\ DOMAIN points' = DOMAIN points
         /\ \A i \in DOMAIN points :
              /\ points'[i].date = points[i].date /\ points'[i].price = points[i].price
              /\ points'[i].h = IF points[i].h = h THEN Null ELSE points[i].h
<1>1. UNCHANGED <<now, balances, goals, due, clashed, loose>> BY DEF delete_holding
<1>2. holdings' \in [HoldingIds -> Holding] BY DEF delete_holding, TypeInv, HoldingsFit, Holding
<1>3. CallsFit' BY DisturbedIs DEF delete_holding, TypeInv, CallsFit
<1>4. PICK n \in Nat : DOMAIN points = 1..n BY DEF TypeInv, HoldingsFit
<1>5. \A i \in 1..n : points[i] \in Point BY <1>4 DEF TypeInv, HoldingsFit
<1>6. \A i \in 1..n : [points[i] EXCEPT !.h = Null] \in Point BY <1>5 DEF Point
<1>7. points' = [i \in 1..n |-> IF points[i].h = h THEN [points[i] EXCEPT !.h = Null] ELSE points[i]]
  BY <1>4 DEF delete_holding
<1>8. points' \in Seq(Point) BY <1>5, <1>6, <1>7
<1>9. \A i \in 1..n : /\ points'[i].date = points[i].date /\ points'[i].price = points[i].price
                      /\ points'[i].h = IF points[i].h = h THEN Null ELSE points[i].h
  BY <1>5, <1>7 DEF Point
<1> QED BY <1>1, <1>2, <1>3, <1>4, <1>7, <1>8, <1>9 DEF TypeInv, HoldingsFit, BalancesFit, GoalsFit

\* The calls that set a price go on.
LEMMA RefreshFits ==
  ASSUME TypeInv, NEW t \in Callers, Refresh(t)
  PROVE  /\ TypeInv' /\ call[t] \in Refreshes
         /\ \A u \in Callers \ {t} : call'[u] = call[u]
         /\ IF Held(call[t].h) /\ holdings[call[t].h].price # Null
              THEN call'[t] = Found(call[t], holdings[call[t].h].price)
              ELSE call'[t].op \in {"none", "quote"}
<1>1. UNCHANGED <<now, balances, points, holdings, goals, due, clashed, loose>> BY DEF Refresh
<1>2. call[t] \in Calls /\ call[t].op = "refresh" BY DEF TypeInv, CallsFit, Refresh, Under
<1>3. call[t] \in Refreshes BY <1>2, CallKinds
<1>4. call[t].h \in HoldingIds /\ call[t].rest \in SUBSET HoldingIds BY <1>3 DEF Refreshes
<1>5. CASE Held(call[t].h) /\ holdings[call[t].h].price # Null
  <2>1. call' = [call EXCEPT ![t] = Found(call[t], holdings[call[t].h].price)] BY <1>5 DEF Refresh
  <2>2. holdings[call[t].h].price \in Prices BY <1>4, <1>5, HeldIs DEF TypeInv
  <2>3. Found(call[t], holdings[call[t].h].price) \in Calls BY <1>3, <2>2, FoundIs DEF Calls
  <2>4. /\ call'[t] = Found(call[t], holdings[call[t].h].price)
        /\ CallsFit' /\ \A u \in Callers \ {t} : call'[u] = call[u]
    BY <2>1, <2>3 DEF TypeInv, CallsFit
  <2> QED BY <1>1, <1>3, <1>5, <2>4 DEF TypeInv, HoldingsFit, BalancesFit, GoalsFit
<1>6. CASE ~(Held(call[t].h) /\ holdings[call[t].h].price # Null)
  <2>1. call' = GoOn(t, call[t].rest) \/ call' = [call EXCEPT ![t] = NoCall] BY <1>6 DEF Refresh, End
  <2>2. CallsFit' /\ call'[t].op \in {"none", "quote"} /\ \A u \in Callers \ {t} : call'[u] = call[u]
    <3>1. CASE call' = GoOn(t, call[t].rest) BY <1>4, <3>1, GoOnIs DEF TypeInv, CallsFit
    <3>2. CASE call' = [call EXCEPT ![t] = NoCall] BY <3>2 DEF TypeInv, CallsFit, Calls, NoCall
    <3> QED BY <2>1, <3>1, <3>2
  <2> QED BY <1>1, <1>3, <1>6, <2>2 DEF TypeInv, HoldingsFit, BalancesFit, GoalsFit
<1> QED BY <1>5, <1>6

\* The second step looks for the point of the day.
LEMMA FindFits ==
  ASSUME TypeInv, NEW t \in Callers, FindPoint(t)
  PROVE  /\ TypeInv' /\ call[t] \in Finds /\ call[t].op = "find"
         /\ call'[t] = Placed(call[t], now, PointOn(call[t].h, now))
         /\ PointOn(call[t].h, now) \in Nat
         /\ \A u \in Callers \ {t} : call'[u] = call[u]
<1>1. UNCHANGED <<now, balances, points, holdings, goals, due, clashed, loose>> BY DEF FindPoint
<1>2. call[t] \in Calls /\ call[t].op = "find" BY DEF TypeInv, CallsFit, FindPoint, Under
<1>3. call[t] \in Finds BY <1>2, CallKinds
<1>4. PICK c : c = Placed(call[t], now, PointOn(call[t].h, now)) OBVIOUS
<1>5. now \in Nat /\ PointOn(call[t].h, now) \in Nat BY PointOnIs DEF TypeInv, BalancesFit
<1>6. c \in Calls BY <1>3, <1>4, <1>5, PlacedIs DEF Calls
<1>7. call' = [call EXCEPT ![t] = c] BY <1>4 DEF FindPoint
<1>8. CallsFit' /\ call'[t] = c /\ \A u \in Callers \ {t} : call'[u] = call[u]
  BY <1>6, <1>7 DEF TypeInv, CallsFit
<1> QED BY <1>1, <1>2, <1>3, <1>4, <1>5, <1>8 DEF TypeInv, HoldingsFit, BalancesFit, GoalsFit

\* The point of a day is updated, or added.
LEMMA StoreFits ==
  ASSUME TypeInv, NEW t \in Callers, PointStored(t)
  PROVE  /\ TypeInv' /\ call[t] \in Stores /\ PointThere(call[t])
         /\ call'[t].op \in {"none", "quote"}
         /\ \A u \in Callers \ {t} : call'[u] = Disturbed(call, call[t].h)[u]
         /\ IF call[t].at = 0
              THEN /\ DOMAIN points' = 1..(Len(points) + 1)
                   /\ points'[Len(points) + 1] = [h |-> call[t].h, date |-> call[t].date, price |-> call[t].price]
                   /\ \A i \in DOMAIN points : points'[i] = points[i]
              ELSE /\ DOMAIN points' = DOMAIN points /\ call[t].at \in DOMAIN points
                   /\ points'[call[t].at].h = call[t].h /\ points'[call[t].at].date = points[call[t].at].date
                   /\ points'[call[t].at].price = call[t].price /\ points[call[t].at].h = call[t].h
                   /\ \A i \in DOMAIN points \ {call[t].at} : points'[i] = points[i]
<1>1. UNCHANGED <<now, balances, holdings, goals, due, clashed>> BY DEF PointStored
<1>2. call[t] \in Calls /\ call[t].op = "point" BY DEF TypeInv, CallsFit, PointStored, Under
<1>3. call[t] \in Stores BY <1>2, CallKinds
<1>4. PICK c \in Stores : c = call[t] BY <1>3
<1>5. c.h \in HoldingIds /\ c.rest \in SUBSET HoldingIds /\ c.price \in Prices /\ c.date \in Nat /\ c.at \in Nat
  BY DEF Stores
<1>6. loose' \subseteq HoldingIds
  <2>1. loose' = loose \ {c.h} \/ loose' = loose \cup {c.h} BY <1>4 DEF PointStored
  <2> QED BY <1>5, <2>1 DEF TypeInv, HoldingsFit
<1>7. PointThere(c) /\ points' = PointsWith(c) BY <1>4 DEF PointStored
<1>8. PICK d : d = GoOn(t, c.rest)[t] OBVIOUS
<1>9. d \in Calls /\ d.op \in {"none", "quote"} BY <1>5, <1>8, GoOnIs DEF TypeInv
<1>10. call' = [Disturbed(call, c.h) EXCEPT ![t] = d] BY <1>4, <1>8 DEF PointStored
<1>11. Disturbed(call, c.h) \in [Callers -> Calls] BY DisturbedIs DEF TypeInv
<1>12. CallsFit' /\ call'[t] = d /\ \A u \in Callers \ {t} : call'[u] = Disturbed(call, c.h)[u]
  BY <1>9, <1>10, <1>11 DEF CallsFit
<1>13. PICK n \in Nat : DOMAIN points = 1..n /\ n = Len(points) BY DEF TypeInv, HoldingsFit
<1>14. CASE c.at = 0
  <2>1. points' = Append(points, [h |-> c.h, date |-> c.date, price |-> c.price]) BY <1>7, <1>14 DEF PointsWith
  <2>2. [h |-> c.h, date |-> c.date, price |-> c.price] \in Point BY <1>5 DEF Point
  <2>3. /\ points' \in Seq(Point) /\ DOMAIN points' = 1..(n + 1)
        /\ points'[n + 1] = [h |-> c.h, date |-> c.date, price |-> c.price]
        /\ \A i \in 1..n : points'[i] = points[i]
    BY <2>1, <2>2, <1>13 DEF TypeInv, HoldingsFit
  <2> QED BY <1>1, <1>4, <1>6, <1>7, <1>9, <1>12, <1>13, <1>14, <2>3 DEF TypeInv, HoldingsFit, BalancesFit, GoalsFit
<1>15. CASE c.at # 0
  <2>1. c.at \in DOMAIN points /\ points[c.at].h = c.h BY <1>7, <1>15 DEF PointThere
  <2>2. points[c.at] \in Point BY <2>1 DEF TypeInv, HoldingsFit
  <2>3. PICK r : r = [points[c.at] EXCEPT !.price = c.price] OBVIOUS
  <2>4. r \in Point /\ r.h = c.h /\ r.date = points[c.at].date /\ r.price = c.price
    BY <1>5, <2>1, <2>2, <2>3 DEF Point
  <2>5. points' = [points EXCEPT ![c.at] = r] BY <1>7, <1>15, <2>3 DEF PointsWith
  <2>6. /\ points' \in Seq(Point) /\ DOMAIN points' = DOMAIN points /\ points'[c.at] = r
        /\ \A i \in DOMAIN points \ {c.at} : points'[i] = points[i]
    BY <2>1, <2>4, <2>5 DEF TypeInv, HoldingsFit
  <2> QED BY <1>1, <1>4, <1>6, <1>7, <1>9, <1>12, <1>15, <2>1, <2>4, <2>6 DEF TypeInv, HoldingsFit, BalancesFit, GoalsFit
<1> QED BY <1>14, <1>15

\* A commit of a point that fails ends the call.
LEMMA LostFits ==
  ASSUME TypeInv, NEW t \in Callers, PointLost(t)
  PROVE  TypeInv' /\ call[t] \in Stores /\ call' = [call EXCEPT ![t] = NoCall]
<1>1. UNCHANGED <<now, balances, points, holdings, goals, due, clashed>> BY DEF PointLost
<1>2. call[t] \in Calls /\ call[t].op = "point" BY DEF TypeInv, CallsFit, PointLost, Under
<1>3. call[t] \in Stores BY <1>2, CallKinds
<1>4. loose' \subseteq HoldingIds BY <1>3 DEF PointLost, TypeInv, HoldingsFit, Stores
<1>5. call' = [call EXCEPT ![t] = NoCall] BY DEF PointLost, End
<1>6. CallsFit' BY <1>5 DEF TypeInv, CallsFit, Calls
<1> QED BY <1>1, <1>3, <1>4, <1>5, <1>6 DEF TypeInv, HoldingsFit, BalancesFit, GoalsFit

\* Sweeps begin, go on without a quote, and with one.
LEMMA SyncFits ==
  ASSUME TypeInv, NEW t \in Callers, NEW a \in Accounts, SyncStart(t, a)
  PROVE  TypeInv'
<1>1. UNCHANGED <<now, balances, points, holdings, goals, due, clashed, loose>> BY DEF SyncStart
<1>2. Of(a) \in (SUBSET HoldingIds) \ {{}} BY DEF SyncStart, Of
<1>3. PICK c : c = [op |-> "quote", rest |-> Of(a)] OBVIOUS
<1>4. c \in Calls BY <1>2, <1>3 DEF Calls, Quotes
<1>5. call' = [call EXCEPT ![t] = c] BY <1>3 DEF SyncStart
<1>6. CallsFit' BY <1>4, <1>5 DEF TypeInv, CallsFit
<1> QED BY <1>1, <1>6 DEF TypeInv, HoldingsFit, BalancesFit, GoalsFit

\* A sweep goes on without a quote,
LEMMA NoQuoteFits ==
  ASSUME TypeInv, NEW t \in Callers, NoQuote(t)
  PROVE  TypeInv'
<1>1. UNCHANGED <<now, balances, points, holdings, goals, due, clashed, loose>> BY DEF NoQuote
<1>2. call[t] \in Calls /\ call[t].op = "quote" BY DEF TypeInv, CallsFit, NoQuote, Under
<1>3. call[t] \in Quotes BY <1>2, CallKinds
<1>4. call[t].rest \ {Min(call[t].rest)} \in SUBSET HoldingIds BY <1>3 DEF Quotes
<1>5. CallsFit' BY <1>4, GoOnIs DEF NoQuote, TypeInv, CallsFit
<1> QED BY <1>1, <1>5 DEF TypeInv, HoldingsFit, BalancesFit, GoalsFit

\* or sets the price quoted for the next holding.
LEMMA QuoteFits ==
  ASSUME TypeInv, NEW t \in Callers, NEW p \in Prices, Quote(t, p)
  PROVE  /\ TypeInv' /\ call[t].op = "quote" /\ Min(call[t].rest) \in HoldingIds
         /\ call[t].rest \ {Min(call[t].rest)} \in SUBSET HoldingIds
<1>1. UNCHANGED <<now, balances, points, goals, due, clashed, loose>> BY DEF Quote
<1>2. call[t] \in Calls /\ call[t].op = "quote" BY DEF TypeInv, CallsFit, Quote, Under
<1>3. call[t] \in Quotes BY <1>2, CallKinds
<1>4. call[t].rest \in SUBSET HoldingIds /\ call[t].rest # {} BY <1>3 DEF Quotes
<1>5. Min(call[t].rest) \in HoldingIds BY <1>4, Ids, LeastId
<1>6. PICK h \in HoldingIds : h = Min(call[t].rest) BY <1>5
<1>7. CASE Held(h)
  <2>1. /\ holdings' = [holdings EXCEPT ![h].price = p]
        /\ call' = [Disturbed(call, h) EXCEPT ![t] = PriceCall(h, call[t].rest \ {h})]
    BY <1>6, <1>7 DEF Quote
  <2>2. holdings' \in [HoldingIds -> Holding] BY <1>7, <2>1, PricedFits
  <2>3. CallsFit'
    <3>1. call[t].rest \ {h} \in SUBSET HoldingIds BY <1>4
    <3> QED BY <2>1, <3>1, PricingFits
  <2> QED BY <1>1, <1>2, <1>4, <1>5, <2>2, <2>3 DEF TypeInv, HoldingsFit, BalancesFit, GoalsFit
<1>8. CASE ~Held(h)
  <2>1. call' = [call EXCEPT ![t] = NoCall] /\ UNCHANGED holdings BY <1>6, <1>8 DEF Quote, End
  <2>2. CallsFit' BY <2>1 DEF TypeInv, CallsFit, Calls
  <2> QED BY <1>1, <1>2, <1>4, <1>5, <2>1, <2>2 DEF TypeInv, HoldingsFit, BalancesFit, GoalsFit
<1> QED BY <1>7, <1>8

\* The logs, the meter and the day.
LEMMA ElseFits ==
  ASSUME TypeInv, ((LogStep \/ MeterStep \/ NextDay) /\ UNCHANGED wealthVars) \/ UNCHANGED vars
  PROVE  TypeInv' /\ UNCHANGED wealthVars /\ (now' = now \/ now' = now + 1)
<1>1. UNCHANGED wealthVars BY DEF vars
<1>2. LogStep => now' = now BY DEF LogStep, add_log, delete_log
<1>3. MeterStep => now' = now
  BY DEF MeterStep, Produce, ReplaceMeter, Configure, ReadMeter, SampleKept, SampleDropped
<1>4. now' = now \/ now' = now + 1 BY <1>2, <1>3 DEF NextDay, vars
<1> QED BY <1>1, <1>4 DEF wealthVars, TypeInv, HoldingsFit, BalancesFit, GoalsFit, CallsFit

-----------------------------------------------------------------------------
(* The invariants.                                                            *)

\* A deposit under way knows the balance, and the balance is all that was paid in.
DepositInv ==
  \A a \in Accounts : a \notin clashed =>
    /\ OrZero(latest_balance(a)) = due[a]
    /\ \A t \in Callers : Adjusting(t, a) => call[t].seen = due[a]

PointsOf(h) == {i \in DOMAIN points : points[i].h = h}
NewestPoint(h, i) ==
  /\ i \in PointsOf(h)
  /\ \A j \in PointsOf(h) : points[j].date < points[i].date \/ (points[j].date = points[i].date /\ j <= i)

\* No point is of a day to come or of a holding that has gone.
PointsRight == \A i \in DOMAIN points : points[i].date <= now /\ (points[i].h # Null => Held(points[i].h))

\* What a call knows that no other has disturbed: the price, and the point of its day,
\* after which there is none.
Knows(c, h) ==
  /\ Held(h) /\ holdings[h].price # Null
  /\ c.op \in {"find", "point"} => c.price = holdings[h].price
  /\ c.op = "point" =>
       /\ c.date <= now /\ \A i \in PointsOf(h) : points[i].date <= c.date
       /\ IF c.at = 0 THEN \A i \in PointsOf(h) : points[i].date # c.date
          ELSE c.at \in PointsOf(h) /\ points[c.at].date = c.date

CleanKnows(h) ==
  \A t \in Callers :
    PricingOf(t, h) /\ call[t].clean => Knows(call[t], h) /\ \A u \in Callers : PricingOf(u, h) => u = t

\* A holding without a price has no points, and one with a price has it on its newest.
PointsAgree(h) ==
  Held(h) /\ h \notin loose =>
    /\ holdings[h].price = Null => PointsOf(h) = {}
    /\ holdings[h].price # Null /\ ~Pricing(h) => \E i \in PointsOf(h) : NewestPoint(h, i) /\ points[i].price = holdings[h].price

\* No point under way is of a day to come.
CallsDated == \A t \in Callers : call[t].op = "point" => call[t].date <= now

PriceInv == PointsRight /\ \A h \in HoldingIds : CleanKnows(h) /\ PointsAgree(h)

-----------------------------------------------------------------------------
(* Deposits.                                                                  *)

\* A step that leaves the balances and the deposits under way keeps them.
LEMMA DepositsFrame ==
  ASSUME TypeInv, DepositInv, UNCHANGED <<balances, due, clashed>>,
         \A u \in Callers : call'[u].op = "adjust" => call'[u] = call[u]
  PROVE  DepositInv'
<1>1. \A a \in Accounts : latest_balance(a)' = latest_balance(a)
  BY DEF latest_balance, BalanceAt, Newest, Snapshots
<1>2. \A a \in Accounts, u \in Callers : Adjusting(u, a)' => Adjusting(u, a) /\ call'[u] = call[u]
  BY DEF Adjusting, Under
<1> QED BY <1>1, <1>2 DEF DepositInv, OrZero

\* What a call that sets a price does to the others: no deposit begins or changes, and
\* what is stored is of the day it was looked for.
OnlyPrices ==
  \A u \in Callers : /\ call'[u].op = "adjust" => call'[u] = call[u]
                     /\ call'[u].op = "point" => \/ call[u].op = "point" /\ call'[u].date = call[u].date
                                                 \/ call'[u].date = now

\* Steps on holdings leave the balances and the deposits under way alone.
LEMMA OthersLeaveDeposits ==
  ASSUME TypeInv, HoldingStep \/ SyncStep
  PROVE  /\ TypeInv' /\ UNCHANGED <<now, balances, due, clashed>>
         /\ OnlyPrices
<1> DEFINE Keeps == TypeInv' /\ UNCHANGED <<now, balances, due, clashed>> /\ OnlyPrices
<1>1. ASSUME NEW h
      PROVE  \A u \in Callers :
               LET d == Disturbed(call, h)[u] IN
               /\ d.op = "adjust" => d = call[u]
               /\ d.op = "point" => call[u].op = "point" /\ d.date = call[u].date
  BY DisturbedIs DEF TypeInv, Dirty, PricingOf
<1>2. ASSUME NEW t \in Callers, NEW h \in HoldingIds, NEW rest \in SUBSET HoldingIds,
             call' = [Disturbed(call, h) EXCEPT ![t] = PriceCall(h, rest)]
      PROVE  OnlyPrices
  <2>1. PriceCall(h, rest).op = "refresh" BY DEF PriceCall
  <2>2. DOMAIN Disturbed(call, h) = Callers BY DEF Disturbed
  <2>3. \A u \in Callers : call'[u] = IF u = t THEN PriceCall(h, rest) ELSE Disturbed(call, h)[u] BY <1>2, <2>2
  <2> QED BY <1>1, <2>1, <2>3 DEF OnlyPrices
<1>3. ASSUME NEW h \in HoldingIds, delete_holding(h) PROVE Keeps
  <2>1. call' = Disturbed(call, h) /\ UNCHANGED <<now, balances, due, clashed>> BY <1>3 DEF delete_holding
  <2> QED BY <1>1, <1>3, <2>1, DeleteFits DEF OnlyPrices
<1>4. ASSUME NEW h \in HoldingIds, ClearPrice(h) PROVE Keeps
  <2>1. call' = Disturbed(call, h) /\ UNCHANGED <<now, balances, due, clashed>> BY <1>4 DEF ClearPrice
  <2> QED BY <1>1, <1>4, <2>1, ClearFits DEF OnlyPrices
<1>5. ASSUME NEW h \in HoldingIds, NEW n \in Units, SetUnits(h, n) PROVE Keeps
  <2>1. call' = call /\ UNCHANGED <<now, balances, due, clashed>> BY <1>5 DEF SetUnits
  <2> QED BY <1>5, <2>1, SetUnitsFits DEF OnlyPrices
<1>6. ASSUME NEW t \in Callers, NEW h \in HoldingIds, NEW p \in Prices, SetPrice(t, h, p) PROVE Keeps
  <2>1. call' = [Disturbed(call, h) EXCEPT ![t] = PriceCall(h, {})] /\ UNCHANGED <<now, balances, due, clashed>>
    BY <1>6 DEF SetPrice
  <2>2. {} \in SUBSET HoldingIds OBVIOUS
  <2> QED BY <1>2, <1>6, <2>1, <2>2, SetPriceFits
<1>7. ASSUME NEW t \in Callers, NEW h \in HoldingIds, NEW a \in Accounts, NEW n \in Units,
             NEW p \in Prices \cup {Null}, create_holding(t, h, a, n, p)
      PROVE  Keeps
  <2>1. call' = call \/ call' = [Disturbed(call, h) EXCEPT ![t] = PriceCall(h, {})] BY <1>7 DEF create_holding
  <2>2. {} \in SUBSET HoldingIds OBVIOUS
  <2>3. UNCHANGED <<now, balances, due, clashed>> BY <1>7 DEF create_holding
  <2> QED BY <1>2, <1>7, <2>1, <2>2, <2>3, CreateFits DEF OnlyPrices
<1>8. ASSUME NEW t \in Callers, Refresh(t) PROVE Keeps
  <2>1. UNCHANGED <<now, balances, due, clashed>> BY <1>8 DEF Refresh
  <2>2. call'[t].op \notin {"adjust", "point"}
    <3>1. \A p : Found(call[t], p).op = "find" BY DEF Found
    <3> QED BY <1>8, <3>1, RefreshFits
  <2> QED BY <1>8, <2>1, <2>2, RefreshFits DEF OnlyPrices
<1>9. ASSUME NEW t \in Callers, FindPoint(t) PROVE Keeps
  <2>1. UNCHANGED <<now, balances, due, clashed>> BY <1>9 DEF FindPoint
  <2>2. call'[t].op # "adjust" /\ call'[t].date = now
    <3>1. \A d, at : Placed(call[t], d, at).op = "point" /\ Placed(call[t], d, at).date = d BY DEF Placed
    <3> QED BY <1>9, <3>1, FindFits
  <2> QED BY <1>9, <2>1, <2>2, FindFits DEF OnlyPrices
<1>10. ASSUME NEW t \in Callers, PointStored(t) PROVE Keeps
  <2>1. UNCHANGED <<now, balances, due, clashed>> BY <1>10 DEF PointStored
  <2>2. call'[t].op \in {"none", "quote"} /\ \A u \in Callers \ {t} : call'[u] = Disturbed(call, call[t].h)[u]
    BY <1>10, StoreFits
  <2>3. OnlyPrices
    <3>1. PICK h : h = call[t].h OBVIOUS
    <3> QED BY <1>1, <2>2, <3>1 DEF OnlyPrices
  <2>4. TypeInv' BY <1>10, StoreFits
  <2> QED BY <2>1, <2>3, <2>4
<1>11. ASSUME NEW t \in Callers, PointLost(t) PROVE Keeps
  <2>1. UNCHANGED <<now, balances, due, clashed>> BY <1>11 DEF PointLost
  <2>2. call' = [call EXCEPT ![t] = NoCall] BY <1>11, LostFits
  <2> QED BY <1>11, <2>1, <2>2, LostFits DEF OnlyPrices, TypeInv, CallsFit, NoCall
<1>12. ASSUME NEW t \in Callers, NEW a \in Accounts, SyncStart(t, a) PROVE Keeps
  <2>1. UNCHANGED <<now, balances, due, clashed>> /\ call' = [call EXCEPT ![t] = [op |-> "quote", rest |-> Of(a)]]
    BY <1>12 DEF SyncStart
  <2> QED BY <1>12, <2>1, SyncFits DEF OnlyPrices, TypeInv, CallsFit
<1>13. ASSUME NEW t \in Callers, NoQuote(t) PROVE Keeps
  <2>1. UNCHANGED <<now, balances, due, clashed>> /\ call' = GoOn(t, call[t].rest \ {Min(call[t].rest)})
    BY <1>13 DEF NoQuote
  <2>2. OnlyPrices BY <2>1 DEF OnlyPrices, GoOn, TypeInv, CallsFit, NoCall
  <2> QED BY <1>13, <2>1, <2>2, NoQuoteFits
<1>14. ASSUME NEW t \in Callers, NEW p \in Prices, Quote(t, p) PROVE Keeps
  <2>1. UNCHANGED <<now, balances, due, clashed>> BY <1>14 DEF Quote
  <2>2. PICK h \in HoldingIds : h = Min(call[t].rest) BY <1>14, QuoteFits
  <2>3. PICK rest \in SUBSET HoldingIds : rest = call[t].rest \ {h} BY <1>14, <2>2, QuoteFits
  <2>4. call' = [Disturbed(call, h) EXCEPT ![t] = PriceCall(h, rest)] \/ call' = [call EXCEPT ![t] = NoCall]
    BY <1>14, <2>2, <2>3 DEF Quote, End
  <2>5. CASE call' = [call EXCEPT ![t] = NoCall] BY <1>14, <2>1, <2>5, QuoteFits DEF OnlyPrices, TypeInv, CallsFit, NoCall
  <2> QED BY <1>2, <1>14, <2>1, <2>4, <2>5, QuoteFits
<1>15. CASE HoldingStep
  <2>1. \A h \in HoldingIds : delete_holding(h) => Keeps BY <1>3
  <2>2. \A h \in HoldingIds : ClearPrice(h) => Keeps BY <1>4
  <2>3. \A h \in HoldingIds, n \in Units : SetUnits(h, n) => Keeps BY <1>5
  <2>4. \A t \in Callers, h \in HoldingIds, p \in Prices : SetPrice(t, h, p) => Keeps BY <1>6
  <2>5. \A t \in Callers, h \in HoldingIds, a \in Accounts, n \in Units, p \in Prices \cup {Null} :
          create_holding(t, h, a, n, p) => Keeps
    BY <1>7
  <2>6. \A t \in Callers : Refresh(t) \/ FindPoint(t) \/ PointStored(t) \/ PointLost(t) => Keeps
    BY <1>8, <1>9, <1>10, <1>11
  <2>7. Keeps BY <1>15, <2>1, <2>2, <2>3, <2>4, <2>5, <2>6 DEF HoldingStep
  <2> QED BY <2>7
<1>16. CASE SyncStep
  <2>1. Keeps BY <1>12, <1>13, <1>14, <1>16 DEF SyncStep
  <2> QED BY <2>1
<1> QED BY <1>15, <1>16

\* A balance that is typed in starts anew, or is older than what is known.
LEMMA RecordKeeps ==
  ASSUME TypeInv, TypeInv', DepositInv, NEW a \in Accounts, NEW d \in 0..(now + 1), NEW n \in Balances,
         record_balance(a, d, n)
  PROVE  DepositInv'
<1>1. n \in Int /\ d \in Nat /\ Stored(a, d, n) BY WealthAssumption DEF TypeInv, BalancesFit, record_balance
<1>2. /\ latest_balance(a)' = IF Newer(a, d) THEN latest_balance(a) ELSE n
      /\ \A b \in Accounts : b # a => latest_balance(b)' = latest_balance(b)
  BY <1>1, StoredLatest DEF TypeInv
<1>3. call' = call BY DEF record_balance
<1>4. due' = IF Newer(a, d) THEN due ELSE [due EXCEPT ![a] = n] BY DEF record_balance
<1>5. clashed' = IF \E t \in Callers : Adjusting(t, a) THEN clashed \cup {a}
                 ELSE IF Newer(a, d) THEN clashed ELSE clashed \ {a}
  BY DEF record_balance
<1>6. OrZero(n) = n BY <1>1, WealthAssumption DEF OrZero
<1>7. ASSUME NEW b \in Accounts, b \notin clashed', b # a
      PROVE  OrZero(latest_balance(b))' = due'[b] /\ \A t \in Callers : Adjusting(t, b)' => call'[t].seen = due'[b]
  <2>1. b \notin clashed /\ due'[b] = due[b] BY <1>4, <1>5, <1>7 DEF TypeInv, BalancesFit
  <2> QED BY <1>2, <1>3, <1>7, <2>1 DEF DepositInv, OrZero, Adjusting, Under
<1>8. ASSUME a \notin clashed'
      PROVE  OrZero(latest_balance(a))' = due'[a] /\ \A t \in Callers : Adjusting(t, a)' => call'[t].seen = due'[a]
  <2>1. ~\E t \in Callers : Adjusting(t, a) BY <1>5, <1>8
  <2>2. \A t \in Callers : ~Adjusting(t, a)' BY <1>3, <2>1 DEF Adjusting, Under
  <2>3. CASE Newer(a, d)
    <3>1. a \notin clashed /\ due' = due BY <1>4, <1>5, <1>8, <2>1, <2>3
    <3> QED BY <1>2, <2>2, <2>3, <3>1 DEF DepositInv, OrZero
  <2>4. CASE ~Newer(a, d)
    <3>1. due'[a] = n BY <1>4, <2>4 DEF TypeInv, BalancesFit
    <3> QED BY <1>2, <1>6, <2>2, <2>4, <3>1 DEF OrZero
  <2> QED BY <2>3, <2>4
<1> QED BY <1>7, <1>8 DEF DepositInv

\* A deposit begins with the balance it sees,
LEMMA AdjustStartKeeps ==
  ASSUME TypeInv, DepositInv, NEW t \in Callers, NEW a \in Accounts, NEW n \in Deltas, AdjustStart(t, a, n)
  PROVE  DepositInv'
<1>1. UNCHANGED <<balances, due, clashed>> BY DEF AdjustStart
<1>2. \A b \in Accounts : latest_balance(b)' = latest_balance(b)
  BY <1>1 DEF latest_balance, BalanceAt, Newest, Snapshots
<1>3. PICK c : c = [op |-> "adjust", account |-> a, delta |-> n, seen |-> OrZero(latest_balance(a))] OBVIOUS
<1>4. call' = [call EXCEPT ![t] = c] BY <1>3 DEF AdjustStart
<1>5. \A u \in Callers : call'[u] = IF u = t THEN c ELSE call[u] BY <1>4 DEF TypeInv, CallsFit
<1>6. c.account = a /\ c.seen = OrZero(latest_balance(a)) BY <1>3
<1> QED BY <1>1, <1>2, <1>5, <1>6 DEF DepositInv, OrZero, Adjusting, Under

\* and adds to it, unless another came between.
LEMMA AdjustCommitKeeps ==
  ASSUME TypeInv, TypeInv', DepositInv, NEW t \in Callers, AdjustCommit(t)
  PROVE  DepositInv'
<1>1. call[t] \in Adjusts /\ call' = [call EXCEPT ![t] = NoCall] BY AdjustCommitFits
<1>2. PICK a \in Accounts : a = call[t].account BY <1>1 DEF Adjusts
<1>3. PICK n \in Int : n = call[t].seen + call[t].delta BY <1>1 DEF Adjusts
<1>4. Stored(a, now, n) /\ now \in Nat BY <1>2, <1>3 DEF AdjustCommit, TypeInv, BalancesFit
<1>5. /\ latest_balance(a)' = IF Newer(a, now) THEN latest_balance(a) ELSE n
      /\ \A b \in Accounts : b # a => latest_balance(b)' = latest_balance(b)
  BY <1>4, StoredLatest DEF TypeInv
<1>6. due' = [due EXCEPT ![a] = @ + call[t].delta] BY <1>2 DEF AdjustCommit
<1>7. clashed' = IF Newer(a, now) \/ \E u \in Callers \ {t} : Adjusting(u, a) THEN clashed \cup {a} ELSE clashed
  BY <1>2 DEF AdjustCommit
<1>8. OrZero(n) = n BY <1>3, WealthAssumption DEF OrZero
<1>9. \A u \in Callers : call'[u] = IF u = t THEN NoCall ELSE call[u] BY <1>1 DEF TypeInv, CallsFit
<1>10. \A u \in Callers, b \in Accounts : Adjusting(u, b)' => u # t /\ Adjusting(u, b) /\ call'[u] = call[u]
  BY <1>9 DEF Adjusting, Under, NoCall
<1>11. ASSUME NEW b \in Accounts, b \notin clashed', b # a
       PROVE  OrZero(latest_balance(b))' = due'[b] /\ \A u \in Callers : Adjusting(u, b)' => call'[u].seen = due'[b]
  <2>1. b \notin clashed /\ due'[b] = due[b] BY <1>6, <1>7, <1>11 DEF TypeInv, BalancesFit
  <2> QED BY <1>5, <1>10, <1>11, <2>1 DEF DepositInv, OrZero
<1>12. ASSUME a \notin clashed'
       PROVE  OrZero(latest_balance(a))' = due'[a] /\ \A u \in Callers : Adjusting(u, a)' => call'[u].seen = due'[a]
  <2>1. a \notin clashed /\ ~Newer(a, now) /\ ~\E u \in Callers \ {t} : Adjusting(u, a) BY <1>7, <1>12
  <2>2. call[t].seen = due[a]
    <3>1. Adjusting(t, a) BY <1>1, <1>2 DEF Adjusting, Under, Adjusts
    <3> QED BY <2>1, <3>1 DEF DepositInv
  <2>3. due'[a] = n BY <1>3, <1>6, <2>2 DEF TypeInv, BalancesFit
  <2> QED BY <1>5, <1>8, <1>10, <2>1, <2>3 DEF OrZero
<1> QED BY <1>11, <1>12 DEF DepositInv

\* Every step keeps the types and the deposits.
LEMMA BalancesStep ==
  ASSUME TypeInv, DepositInv, [Next]_vars
  PROVE  TypeInv' /\ DepositInv'
<1>1. CASE BalanceStep
  <2>1. ASSUME NEW a \in Accounts, NEW d \in 0..(now + 1), NEW n \in Balances, record_balance(a, d, n)
        PROVE  TypeInv' /\ DepositInv'
    BY <2>1, RecordFits, RecordKeeps
  <2>2. ASSUME NEW t \in Callers, AdjustCommit(t) PROVE TypeInv' /\ DepositInv'
    BY <2>2, AdjustCommitFits, AdjustCommitKeeps
  <2>3. ASSUME NEW t \in Callers, NEW a \in Accounts, NEW n \in Deltas, AdjustStart(t, a, n)
        PROVE  TypeInv' /\ DepositInv'
    BY <2>3, AdjustStartFits, AdjustStartKeeps
  <2> QED BY <1>1, <2>1, <2>2, <2>3 DEF BalanceStep
<1>2. CASE GoalStep
  <2>1. UNCHANGED <<balances, due, clashed, call>>
    BY <1>2 DEF GoalStep, delete_goal, create_goal, update_goal
  <2> QED BY <1>2, <2>1, GoalsFitOn, DepositsFrame
<1>3. CASE HoldingStep \/ SyncStep
  <2>1. TypeInv' /\ UNCHANGED <<balances, due, clashed>> /\ \A u \in Callers : call'[u].op = "adjust" => call'[u] = call[u]
    BY <1>3, OthersLeaveDeposits DEF OnlyPrices
  <2> QED BY <2>1, DepositsFrame
<1>4. CASE ((LogStep \/ MeterStep \/ NextDay) /\ UNCHANGED wealthVars) \/ UNCHANGED vars
  <2>1. TypeInv' /\ UNCHANGED wealthVars BY <1>4, ElseFits
  <2> QED BY <2>1, DepositsFrame DEF wealthVars
<1> QED BY <1>1, <1>2, <1>3, <1>4 DEF Next

\* Deposits are in the balances.
LEMMA DepositsInit == ASSUME Init PROVE DepositInv
<1>1. \A a \in Accounts : Snapshots(a) = {} BY DEF Init, Snapshots
<1>2. \A a \in Accounts : OrZero(latest_balance(a)) = 0
  BY <1>1 DEF OrZero, latest_balance, BalanceAt, Newest
<1>3. \A t \in Callers, a \in Accounts : ~Adjusting(t, a) BY DEF Init, Adjusting, Under, NoCall
<1>4. due = [a \in Accounts |-> 0] BY DEF Init
<1> QED BY <1>2, <1>3, <1>4 DEF DepositInv

\* Every reachable state of the accounts, holdings, points, goals and calls is well
\* typed, for any accounts, holdings, goals and threads.
THEOREM WealthInvariant == Spec => []TypeInv
<1>1. Init => TypeInv /\ DepositInv BY TypesInit, DepositsInit
<1>2. TypeInv /\ DepositInv /\ [Next]_vars => (TypeInv /\ DepositInv)' BY BalancesStep
<1> QED BY <1>1, <1>2, PTL DEF Spec

\* The balance of an account is all that was paid in, in whatever order deposits,
\* balances and days come, unless two calls on the account overlapped or a balance is
\* dated after the deposit (adjust_balance, adjust_value).
THEOREM DepositsTheorem == Spec => []DepositsKept
<1>1. Init => TypeInv /\ DepositInv BY TypesInit, DepositsInit
<1>2. TypeInv /\ DepositInv /\ [Next]_vars => (TypeInv /\ DepositInv)' BY BalancesStep
<1>3. TypeInv /\ DepositInv => DepositsKept
  <2> SUFFICES ASSUME TypeInv, DepositInv, NEW a \in Accounts, Snapshots(a) # {}, a \notin clashed
               PROVE  latest_balance(a) = due[a]
    BY DEF DepositsKept
  <2>1. latest_balance(a) \in Int BY LatestOf DEF TypeInv
  <2>2. OrZero(latest_balance(a)) = latest_balance(a) BY <2>1, WealthAssumption DEF OrZero
  <2> QED BY <2>2 DEF DepositInv
<1> QED BY <1>1, <1>2, <1>3, PTL DEF Spec

-----------------------------------------------------------------------------
(* Prices and their points.                                                   *)

\* A point is of a holding or was deleted.
LEMMA PointIs ==
  ASSUME HoldingsFit, NEW i \in DOMAIN points
  PROVE  /\ points[i].h \in HoldingIds \cup {Null} /\ points[i].date \in Nat /\ points[i].price \in Prices
         /\ i \in Nat
<1>1. points[i] \in Point /\ i \in Nat BY DEF HoldingsFit
<1> QED BY <1>1 DEF Point

\* A step does nothing to holding k.
Untouched(k) ==
  /\ holdings'[k].price = holdings[k].price /\ (Held(k)' <=> Held(k)) /\ (k \in loose' <=> k \in loose)
  /\ PointsOf(k)' = PointsOf(k)
  /\ \A i \in PointsOf(k) : points'[i].date = points[i].date /\ points'[i].price = points[i].price
  /\ \A u \in Callers : PricingOf(u, k) \/ PricingOf(u, k)' => call'[u] = call[u]

\* What no step touches stays as the call and the points had it.
LEMMA UntouchedKeeps ==
  ASSUME TypeInv, TypeInv', NEW k \in HoldingIds, Untouched(k), CleanKnows(k), PointsAgree(k),
         now' = now \/ now' = now + 1
  PROVE  CleanKnows(k)' /\ PointsAgree(k)'
<1>1. \A u \in Callers : PricingOf(u, k)' <=> PricingOf(u, k) BY DEF Untouched, PricingOf
<1>2. Pricing(k)' <=> Pricing(k) BY <1>1 DEF Pricing
<1>3. now \in Nat /\ now' \in Nat BY DEF TypeInv, BalancesFit
<1>4. ASSUME NEW t \in Callers, PricingOf(t, k)', call'[t].clean
      PROVE  Knows(call[t], k)' /\ \A u \in Callers : PricingOf(u, k)' => u = t
  <2>1. call'[t] = call[t] /\ PricingOf(t, k) BY <1>1, <1>4 DEF Untouched
  <2>2. Knows(call[t], k) /\ \A u \in Callers : PricingOf(u, k) => u = t BY <1>4, <2>1 DEF CleanKnows
  <2>3. call[t] \in Calls BY DEF TypeInv, CallsFit
  <2>4. call[t].op = "point" => call[t].date \in Nat BY <2>3, CallKinds DEF Stores
  <2>5. Knows(call[t], k)' BY <1>3, <2>1, <2>2, <2>4 DEF Knows, Untouched
  <2> QED BY <1>1, <2>2, <2>5
<1>5. CleanKnows(k)' BY <1>4 DEF CleanKnows
<1>6. \A i \in PointsOf(k) : NewestPoint(k, i) => NewestPoint(k, i)' BY DEF NewestPoint, Untouched
<1>7. PointsAgree(k)' BY <1>2, <1>6 DEF PointsAgree, Untouched
<1> QED BY <1>5, <1>7

\* A step that does nothing to any holding keeps the prices.
LEMMA PricesFrame ==
  ASSUME TypeInv, TypeInv', PriceInv, UNCHANGED <<holdings, points, loose>>, now' = now \/ now' = now + 1,
         \A u \in Callers : call'[u] = call[u] \/ {call[u].op, call'[u].op} \cap {"refresh", "find", "point"} = {}
  PROVE  PriceInv'
<1>1. \A k \in HoldingIds : Untouched(k) BY DEF Untouched, Held, PointsOf, PricingOf
<1>2. PointsRight'
  <2>1. \A i \in DOMAIN points : points[i] \in Point BY DEF TypeInv, HoldingsFit
  <2>2. \A i \in DOMAIN points : points[i].date \in Nat BY <2>1 DEF Point
  <2> QED BY <2>2 DEF PriceInv, PointsRight, Held, TypeInv, BalancesFit
<1> QED BY <1>1, <1>2, UntouchedKeeps DEF PriceInv

\* Calls about another holding are not disturbed.
LEMMA DisturbedElsewhere ==
  ASSUME CallsFit, NEW h \in HoldingIds, NEW k \in HoldingIds \ {h}, NEW u \in Callers
  PROVE  LET d == Disturbed(call, h)[u] IN
         (PricingOf(u, k) \/ (d.op \in {"refresh", "find", "point"} /\ d.h = k)) => d = call[u]
BY DisturbedIs DEF PricingOf, Dirty

\* A thread that was not setting a price sets the price of h.
LEMMA PricingKeeps ==
  ASSUME TypeInv, TypeInv', PriceInv, NEW t \in Callers, NEW h \in HoldingIds, NEW rest \in SUBSET HoldingIds,
         call[t].op \notin {"refresh", "find", "point"},
         call' = [Disturbed(call, h) EXCEPT ![t] = PriceCall(h, rest)],
         Held(h)', holdings'[h].price # Null, \A k \in HoldingIds \ {h} : holdings'[k] = holdings[k],
         now' = now, points' = points, loose' \ {h} = loose \ {h}
  PROVE  PriceInv'
<1>1. /\ PriceCall(h, rest) \in Refreshes /\ PriceCall(h, rest).h = h
      /\ PriceCall(h, rest).clean <=> ~Pricing(h)
  BY PriceCallIs
<1>2. PriceCall(h, rest).op = "refresh" BY <1>1 DEF Refreshes
<1>3. DOMAIN Disturbed(call, h) = Callers BY DEF Disturbed
<1>4. \A u \in Callers : call'[u] = IF u = t THEN PriceCall(h, rest) ELSE Disturbed(call, h)[u] BY <1>3
<1>5. \A u \in Callers : IF PricingOf(u, h) THEN Dirty(call[u], Disturbed(call, h)[u])
                         ELSE Disturbed(call, h)[u] = call[u]
  BY DisturbedIs DEF TypeInv
<1>6. PricingOf(t, h)' /\ \A u \in Callers \ {t} : PricingOf(u, h)' => PricingOf(u, h) /\ ~call'[u].clean
  BY <1>1, <1>2, <1>4, <1>5 DEF PricingOf, Dirty
<1>7. Pricing(h)' BY <1>6 DEF Pricing
<1>8. CleanKnows(h)'
  <2> SUFFICES ASSUME NEW u \in Callers, PricingOf(u, h)', call'[u].clean
               PROVE  Knows(call[u], h)' /\ \A v \in Callers : PricingOf(v, h)' => v = u
    BY DEF CleanKnows
  <2>1. u = t BY <1>6
  <2>2. ~Pricing(h) BY <1>1, <1>4, <2>1
  <2>3. \A v \in Callers : PricingOf(v, h)' => v = t BY <1>6, <2>2 DEF Pricing
  <2>4. Knows(call[t], h)' BY <1>2, <1>4 DEF Knows
  <2> QED BY <2>1, <2>3, <2>4
<1>9. PointsAgree(h)' BY <1>7 DEF PointsAgree
<1>10. ASSUME NEW k \in HoldingIds \ {h} PROVE CleanKnows(k)' /\ PointsAgree(k)'
  <2>1. ASSUME NEW u \in Callers, PricingOf(u, k) \/ PricingOf(u, k)' PROVE call'[u] = call[u]
    <3>1. u # t BY <1>1, <1>4, <1>10, <2>1 DEF PricingOf
    <3>2. call'[u] = Disturbed(call, h)[u] BY <1>4, <3>1
    <3> QED BY <2>1, <3>2, DisturbedElsewhere DEF PricingOf, TypeInv
  <2>2. Untouched(k) BY <1>10, <2>1 DEF Untouched, Held, PointsOf
  <2> QED BY <2>2, UntouchedKeeps DEF PriceInv
<1>11. PointsRight'
  <2>1. \A i \in DOMAIN points : points[i].h # Null => points[i].h \in HoldingIds BY PointIs DEF TypeInv
  <2>2. \A k \in HoldingIds : Held(k) => Held(k)' BY DEF Held
  <2> QED BY <2>1, <2>2 DEF PriceInv, PointsRight
<1> QED BY <1>8, <1>9, <1>10, <1>11 DEF PriceInv

\* A price set by hand,
LEMMA SetPriceKeeps ==
  ASSUME TypeInv, TypeInv', PriceInv, NEW t \in Callers, NEW h \in HoldingIds, NEW p \in Prices, SetPrice(t, h, p)
  PROVE  PriceInv'
<1>1. /\ Held(h) /\ holdings' = [holdings EXCEPT ![h].price = p] /\ call[t] = NoCall
      /\ call' = [Disturbed(call, h) EXCEPT ![t] = PriceCall(h, {})]
      /\ UNCHANGED <<now, points, loose>>
  BY DEF SetPrice, Idle
<1>2. /\ holdings'[h].price = p /\ Held(h)' /\ \A k \in HoldingIds \ {h} : holdings'[k] = holdings[k]
  BY <1>1, PricedFits
<1>3. p # Null BY WealthAssumption
<1>4. {} \in SUBSET HoldingIds /\ call[t].op \notin {"refresh", "find", "point"} BY <1>1 DEF NoCall
<1> QED BY <1>1, <1>2, <1>3, <1>4, PricingKeeps

\* or by a sweep.
LEMMA QuoteKeeps ==
  ASSUME TypeInv, TypeInv', PriceInv, NEW t \in Callers, NEW p \in Prices, Quote(t, p)
  PROVE  PriceInv'
<1>1. PICK h \in HoldingIds : h = Min(call[t].rest) BY QuoteFits
<1>2. PICK rest \in SUBSET HoldingIds : rest = call[t].rest \ {h} BY <1>1, QuoteFits
<1>3. call[t].op = "quote" /\ UNCHANGED <<now, points, loose>> BY QuoteFits DEF Quote
<1>4. CASE Held(h)
  <2>1. /\ holdings' = [holdings EXCEPT ![h].price = p]
        /\ call' = [Disturbed(call, h) EXCEPT ![t] = PriceCall(h, rest)]
    BY <1>1, <1>2, <1>4 DEF Quote
  <2>2. holdings'[h].price = p /\ Held(h)' /\ \A k \in HoldingIds \ {h} : holdings'[k] = holdings[k]
    BY <1>4, <2>1, PricedFits
  <2>3. p # Null BY WealthAssumption
  <2> QED BY <1>3, <2>1, <2>2, <2>3, PricingKeeps
<1>5. CASE ~Held(h)
  <2>1. call' = [call EXCEPT ![t] = NoCall] /\ UNCHANGED holdings BY <1>1, <1>5 DEF Quote, End
  <2>2. \A u \in Callers : call'[u] = IF u = t THEN NoCall ELSE call[u] BY <2>1 DEF TypeInv, CallsFit
  <2>3. NoCall.op = "none" BY DEF NoCall
  <2> QED BY <1>3, <2>1, <2>2, <2>3, PricesFrame
<1> QED BY <1>4, <1>5

\* A new holding has an id that none has, and no points.
LEMMA CreateKeeps ==
  ASSUME TypeInv, TypeInv', PriceInv, NEW t \in Callers, NEW h \in HoldingIds, NEW a \in Accounts, NEW n \in Units,
         NEW p \in Prices \cup {Null}, create_holding(t, h, a, n, p)
  PROVE  PriceInv'
<1>1. /\ h = 1 + Max({0} \cup {k \in HoldingIds : Held(k)}) /\ call[t] = NoCall
      /\ holdings' = [holdings EXCEPT ![h] = [account |-> a, units |-> n, price |-> p]]
      /\ call' = IF p = Null THEN call ELSE [Disturbed(call, h) EXCEPT ![t] = PriceCall(h, {})]
      /\ loose' = loose \ {h} /\ UNCHANGED <<now, points>>
  BY DEF create_holding, Idle
<1>2. ~Held(h)
  <2>1. PICK T : T = {0} \cup {k \in HoldingIds : Held(k)} OBVIOUS
  <2>2. PICK m \in Nat : HoldingIds = 1..m BY WealthAssumption, FS_CardinalityType
  <2>3. T \in SUBSET (0..m) /\ T # {} BY <2>1, <2>2
  <2>4. Max(T) \in T /\ \A k \in T : k <= Max(T) BY <2>2, <2>3, MaxProperties
  <2>5. h \notin T
    <3>1. PICK x \in Nat : x = Max(T)
      <4>1. Max(T) \in 0..m BY <2>3, <2>4
      <4> QED BY <4>1
    <3>2. h = 1 + x /\ \A k \in T : k <= x BY <1>1, <2>1, <2>4, <3>1
    <3> QED BY <3>1, <3>2
  <2> QED BY <2>1, <2>5
<1>3. PointsOf(h) = {}
  <2>1. \A i \in DOMAIN points : points[i].h = h => points[i].h # Null BY Ids, WealthAssumption
  <2> QED BY <1>2, <2>1 DEF PriceInv, PointsRight, PointsOf
<1>4. PICK r : r = [account |-> a, units |-> n, price |-> p] OBVIOUS
<1>5. r # NoHolding
  <2>1. r.account # Null BY <1>4, WealthAssumption
  <2> QED BY <2>1 DEF NoHolding
<1>6. /\ holdings'[h].price = p /\ Held(h)' /\ \A k \in HoldingIds \ {h} : holdings'[k] = holdings[k]
  BY <1>1, <1>4, <1>5 DEF TypeInv, HoldingsFit, Held
<1>7. CASE p = Null
  <2>1. call' = call BY <1>1, <1>7
  <2>2. CleanKnows(h)'
    <3>1. \A u \in Callers : ~(PricingOf(u, h) /\ call[u].clean) BY <1>2 DEF PriceInv, CleanKnows, Knows
    <3> QED BY <2>1, <3>1 DEF CleanKnows, PricingOf
  <2>3. PointsOf(h)' = {} BY <1>1, <1>3 DEF PointsOf
  <2>4. PointsAgree(h)' BY <1>6, <1>7, <2>3 DEF PointsAgree
  <2>5. ASSUME NEW k \in HoldingIds \ {h} PROVE CleanKnows(k)' /\ PointsAgree(k)'
    <3>1. Untouched(k) BY <1>1, <1>6, <2>1, <2>5 DEF Untouched, Held, PointsOf
    <3> QED BY <1>1, <3>1, UntouchedKeeps DEF PriceInv
  <2>6. PointsRight'
    <3>1. \A i \in DOMAIN points : points[i].h # Null => points[i].h \in HoldingIds BY PointIs DEF TypeInv
    <3>2. \A k \in HoldingIds : Held(k) => Held(k)' BY <1>6 DEF Held
    <3> QED BY <1>1, <3>1, <3>2 DEF PriceInv, PointsRight
  <2> QED BY <2>2, <2>4, <2>5, <2>6 DEF PriceInv
<1>8. CASE p # Null
  <2>1. {} \in SUBSET HoldingIds /\ call[t].op \notin {"refresh", "find", "point"} BY <1>1 DEF NoCall
  <2>2. call' = [Disturbed(call, h) EXCEPT ![t] = PriceCall(h, {})] BY <1>1, <1>8
  <2>3. loose' \ {h} = loose \ {h} BY <1>1
  <2> QED BY <1>1, <1>6, <1>8, <2>1, <2>2, <2>3, PricingKeeps
<1> QED BY <1>7, <1>8

\* Units have no price.
LEMMA SetUnitsKeeps ==
  ASSUME TypeInv, TypeInv', PriceInv, NEW h \in HoldingIds, NEW n \in Units, SetUnits(h, n)
  PROVE  PriceInv'
<1>1. /\ Held(h) /\ UNCHANGED <<now, call, points, loose>>
      /\ holdings' = [holdings EXCEPT ![h].units = n]
  BY DEF SetUnits
<1>2. holdings'[h].price = holdings[h].price /\ holdings'[h].account = holdings[h].account BY SetUnitsFits
<1>3. \A k \in HoldingIds \ {h} : holdings'[k] = holdings[k] BY <1>1 DEF TypeInv, HoldingsFit
<1>4. Held(h)'
  <2>1. holdings[h].account \in Accounts BY <1>1, HeldIs DEF TypeInv
  <2>2. holdings'[h].account # Null BY <1>2, <2>1, WealthAssumption
  <2> QED BY <2>2 DEF Held, NoHolding
<1>5. \A k \in HoldingIds : (Held(k)' <=> Held(k)) /\ holdings'[k].price = holdings[k].price
  BY <1>1, <1>2, <1>3, <1>4 DEF Held
<1>6. \A k \in HoldingIds : Untouched(k) BY <1>1, <1>5 DEF Untouched, PointsOf
<1>7. PointsRight'
  <2>1. \A i \in DOMAIN points : points[i].h # Null => points[i].h \in HoldingIds BY PointIs DEF TypeInv
  <2> QED BY <1>1, <1>5, <2>1 DEF PriceInv, PointsRight
<1> QED BY <1>1, <1>6, <1>7, UntouchedKeeps DEF PriceInv

\* A price that is cleared, and a holding that is deleted, disturb the calls.
LEMMA DisturbedKeeps ==
  ASSUME TypeInv, TypeInv', NEW h \in HoldingIds, call' = Disturbed(call, h)
  PROVE  CleanKnows(h)'
BY DisturbedIs DEF TypeInv, CleanKnows, PricingOf, Dirty

\* A price that is cleared makes its holding loose.
LEMMA ClearKeeps ==
  ASSUME TypeInv, TypeInv', PriceInv, NEW h \in HoldingIds, ClearPrice(h)
  PROVE  PriceInv'
<1>1. /\ Held(h) /\ holdings' = [holdings EXCEPT ![h].price = Null] /\ call' = Disturbed(call, h)
      /\ loose' = loose \cup {h} /\ UNCHANGED <<now, points>>
  BY DEF ClearPrice
<1>2. Held(h)' /\ \A k \in HoldingIds \ {h} : holdings'[k] = holdings[k] BY <1>1, PricedFits
<1>3. CleanKnows(h)' /\ PointsAgree(h)' BY <1>1, DisturbedKeeps DEF PointsAgree
<1>4. ASSUME NEW k \in HoldingIds \ {h} PROVE CleanKnows(k)' /\ PointsAgree(k)'
  <2>1. ASSUME NEW u \in Callers, PricingOf(u, k) \/ PricingOf(u, k)' PROVE call'[u] = call[u]
    BY <1>1, <1>4, <2>1, DisturbedElsewhere DEF PricingOf, TypeInv
  <2>2. Untouched(k) BY <1>1, <1>2, <1>4, <2>1 DEF Untouched, Held, PointsOf
  <2> QED BY <1>1, <2>2, UntouchedKeeps DEF PriceInv
<1>5. PointsRight'
  <2>1. \A i \in DOMAIN points : points[i].h # Null => points[i].h \in HoldingIds BY PointIs DEF TypeInv
  <2>2. \A k \in HoldingIds : Held(k) => Held(k)' BY <1>2 DEF Held
  <2> QED BY <1>1, <2>1, <2>2 DEF PriceInv, PointsRight
<1> QED BY <1>3, <1>4, <1>5 DEF PriceInv

\* A holding that is deleted has no price and no points.
LEMMA DeleteKeeps ==
  ASSUME TypeInv, TypeInv', PriceInv, NEW h \in HoldingIds, delete_holding(h)
  PROVE  PriceInv'
<1>1. /\ holdings' = [holdings EXCEPT ![h] = NoHolding] /\ call' = Disturbed(call, h)
      /\ UNCHANGED <<now, loose>>
  BY DEF delete_holding
<1>2. /\ DOMAIN points' = DOMAIN points
      /\ \A i \in DOMAIN points :
           /\ points'[i].date = points[i].date /\ points'[i].price = points[i].price
           /\ points'[i].h = IF points[i].h = h THEN Null ELSE points[i].h
  BY DeleteFits
<1>3. ~Held(h)' /\ \A k \in HoldingIds \ {h} : holdings'[k] = holdings[k] BY <1>1 DEF Held, TypeInv, HoldingsFit
<1>4. CleanKnows(h)' /\ PointsAgree(h)' BY <1>1, <1>3, DisturbedKeeps DEF PointsAgree
<1>5. ASSUME NEW k \in HoldingIds \ {h} PROVE CleanKnows(k)' /\ PointsAgree(k)'
  <2>1. ASSUME NEW u \in Callers, PricingOf(u, k) \/ PricingOf(u, k)' PROVE call'[u] = call[u]
    BY <1>1, <1>5, <2>1, DisturbedElsewhere DEF PricingOf, TypeInv
  <2>2. k # Null
    <3>1. k \in Int BY Ids
    <3> QED BY <3>1, WealthAssumption
  <2>3. PointsOf(k)' = PointsOf(k)
    <3>1. \A i \in DOMAIN points : points'[i].h = k <=> points[i].h = k BY <1>2, <1>5, <2>2
    <3> QED BY <1>2, <3>1 DEF PointsOf
  <2>4. Untouched(k) BY <1>1, <1>2, <1>3, <1>5, <2>1, <2>3 DEF Untouched, Held, PointsOf
  <2> QED BY <1>1, <2>4, UntouchedKeeps DEF PriceInv
<1>6. PointsRight'
  <2>1. \A i \in DOMAIN points : points[i].h # Null => points[i].h \in HoldingIds BY PointIs DEF TypeInv
  <2>2. \A k \in HoldingIds \ {h} : Held(k) => Held(k)' BY <1>3 DEF Held
  <2>3. \A i \in DOMAIN points : points[i].date <= now /\ (points[i].h # Null => Held(points[i].h))
    BY DEF PriceInv, PointsRight
  <2>4. \A i \in DOMAIN points : points[i].h \notin {h, Null} => holdings'[points[i].h] # NoHolding
    BY <2>1, <2>2, <2>3 DEF Held
  <2>5. \A i \in DOMAIN points : points'[i].h # Null => points'[i].h = points[i].h /\ points[i].h \notin {h, Null} BY <1>2
  <2> QED BY <1>1, <1>2, <2>3, <2>4, <2>5 DEF PointsRight, Held
<1> QED BY <1>4, <1>5, <1>6 DEF PriceInv

\* A call goes on: only call t changes, and only its holding is concerned.
LEMMA OthersUntouched ==
  ASSUME TypeInv, TypeInv', PriceInv, NEW t \in Callers, NEW h \in HoldingIds, NEW k \in HoldingIds \ {h},
         UNCHANGED <<now, holdings, points>>, loose' \ {h} = loose \ {h}, call[t].h = h,
         \A u \in Callers \ {t} : call'[u] = call[u], call'[t].op \in {"refresh", "find", "point"} => call'[t].h = h
  PROVE  CleanKnows(k)' /\ PointsAgree(k)'
<1>1. Untouched(k) BY DEF Untouched, Held, PointsOf, PricingOf
<1> QED BY <1>1, UntouchedKeeps DEF PriceInv

\* What a call reads again is the price there is,
LEMMA RefreshKeeps ==
  ASSUME TypeInv, TypeInv', PriceInv, NEW t \in Callers, Refresh(t)
  PROVE  PriceInv'
<1>1. UNCHANGED <<now, holdings, points, loose>> BY DEF Refresh
<1>2. PICK c \in Refreshes : c = call[t] BY RefreshFits
<1>3. PICK h \in HoldingIds : h = c.h BY DEF Refreshes
<1>4. /\ \A u \in Callers \ {t} : call'[u] = call[u]
      /\ IF Held(h) /\ holdings[h].price # Null THEN call'[t] = Found(c, holdings[h].price)
         ELSE call'[t].op \in {"none", "quote"}
  BY <1>2, <1>3, RefreshFits
<1>5. PricingOf(t, h) BY <1>2, <1>3 DEF PricingOf, Refreshes
<1>6. CleanKnows(h)' /\ PointsAgree(h)' /\ (call'[t].op \in {"refresh", "find", "point"} => call'[t].h = h)
  <2>1. CASE Held(h) /\ holdings[h].price # Null
    <3>1. holdings[h].price \in Prices BY <2>1, HeldIs DEF TypeInv
    <3>2. PICK d : d = Found(c, holdings[h].price) OBVIOUS
    <3>3. d \in Finds /\ d.h = h /\ d.price = holdings[h].price /\ d.clean = c.clean /\ d.op = "find"
      BY <1>3, <3>1, <3>2, FoundIs DEF Finds
    <3>4. call'[t] = d BY <1>4, <2>1, <3>2
    <3>5. \A u \in Callers : PricingOf(u, h)' <=> PricingOf(u, h) BY <1>4, <1>5, <3>3, <3>4 DEF PricingOf
    <3>6. CleanKnows(h)'
      <4> SUFFICES ASSUME NEW u \in Callers, PricingOf(u, h)', call'[u].clean
                   PROVE  Knows(call[u], h)' /\ \A v \in Callers : PricingOf(v, h)' => v = u
        BY DEF CleanKnows
      <4>1. call[u].clean BY <1>2, <1>4, <3>3, <3>4
      <4>2. Knows(call[u], h) /\ \A v \in Callers : PricingOf(v, h) => v = u BY <3>5, <4>1 DEF PriceInv, CleanKnows
      <4>3. u = t BY <1>5, <4>2
      <4>4. Knows(d, h) BY <3>3, <4>2 DEF Knows
      <4>5. Knows(d, h)' BY <1>1, <4>4 DEF Knows, Held, PointsOf
      <4> QED BY <3>4, <3>5, <4>2, <4>3, <4>5
    <3>7. Pricing(h)' BY <1>5, <3>5 DEF Pricing
    <3>8. PointsAgree(h)' BY <1>1, <2>1, <3>7 DEF PointsAgree, Held
    <3> QED BY <3>3, <3>4, <3>6, <3>8
  <2>2. CASE ~(Held(h) /\ holdings[h].price # Null)
    <3>1. call'[t].op \in {"none", "quote"} BY <1>4, <2>2
    <3>2. CleanKnows(h)'
      <4> SUFFICES ASSUME NEW u \in Callers, PricingOf(u, h)', call'[u].clean PROVE FALSE BY DEF CleanKnows
      <4>1. u # t /\ call'[u] = call[u] /\ PricingOf(u, h) BY <1>4, <3>1 DEF PricingOf
      <4> QED BY <1>5, <4>1 DEF PriceInv, CleanKnows
    <3>3. PointsAgree(h)' BY <1>1, <2>2 DEF PriceInv, PointsAgree, Held, PointsOf
    <3> QED BY <3>1, <3>2, <3>3
  <2> QED BY <2>1, <2>2
<1>7. \A k \in HoldingIds \ {h} : CleanKnows(k)' /\ PointsAgree(k)' BY <1>1, <1>2, <1>3, <1>4, <1>6, OthersUntouched
<1>8. PointsRight' BY <1>1 DEF PriceInv, PointsRight, Held
<1> QED BY <1>6, <1>7, <1>8 DEF PriceInv

\* and the point it finds is the one of its day.
LEMMA FindKeeps ==
  ASSUME TypeInv, TypeInv', PriceInv, NEW t \in Callers, FindPoint(t)
  PROVE  PriceInv'
<1>1. UNCHANGED <<now, holdings, points, loose>> BY DEF FindPoint
<1>2. PICK c \in Finds : c = call[t] BY FindFits
<1>3. PICK h \in HoldingIds : h = c.h BY DEF Finds
<1>4. PICK at \in Nat : at = PointOn(h, now) BY PointOnIs DEF TypeInv
<1>5. PICK d : d = Placed(c, now, at) OBVIOUS
<1>6. call'[t] = d /\ \A u \in Callers \ {t} : call'[u] = call[u] BY <1>2, <1>3, <1>4, <1>5, FindFits
<1>7. now \in Nat BY DEF TypeInv, BalancesFit
<1>8. d.h = h /\ d.price = c.price /\ d.clean = c.clean /\ d.op = "point" /\ d.date = now /\ d.at = at
  BY <1>3, <1>4, <1>5, <1>7, PlacedIs DEF Stores
<1>9. PricingOf(t, h) /\ c.op = "find" BY <1>2, <1>3 DEF PricingOf, Finds
<1>10. \A u \in Callers : PricingOf(u, h)' <=> PricingOf(u, h) BY <1>6, <1>8, <1>9 DEF PricingOf
<1>11. CleanKnows(h)'
  <2> SUFFICES ASSUME NEW u \in Callers, PricingOf(u, h)', call'[u].clean
               PROVE  Knows(call[u], h)' /\ \A v \in Callers : PricingOf(v, h)' => v = u
    BY DEF CleanKnows
  <2>1. call[u].clean BY <1>2, <1>6, <1>8
  <2>2. Knows(call[u], h) /\ \A v \in Callers : PricingOf(v, h) => v = u BY <1>10, <2>1 DEF PriceInv, CleanKnows
  <2>3. u = t BY <1>9, <2>2
  <2>4. Knows(c, h) BY <1>2, <2>2, <2>3
  <2>5. \A i \in PointsOf(h) : points[i].date <= now BY DEF PriceInv, PointsRight, PointsOf
  <2>6. IF at = 0 THEN \A i \in PointsOf(h) : points[i].date # now
        ELSE at \in PointsOf(h) /\ points[at].date = now
    BY <1>4, PointOnIs DEF PointsOf, TypeInv
  <2>7. Knows(d, h) BY <1>7, <1>8, <1>9, <2>4, <2>5, <2>6 DEF Knows
  <2>8. Knows(d, h)' BY <1>1, <2>7 DEF Knows, Held, PointsOf
  <2> QED BY <1>6, <1>10, <2>2, <2>3, <2>8
<1>12. Pricing(h)' BY <1>9, <1>10 DEF Pricing
<1>13. Pricing(h) BY <1>9 DEF Pricing
<1>14. PointsAgree(h)' BY <1>1, <1>12, <1>13 DEF PriceInv, PointsAgree, Held, PointsOf
<1>15. \A k \in HoldingIds \ {h} : CleanKnows(k)' /\ PointsAgree(k)'
  BY <1>1, <1>2, <1>3, <1>6, <1>8, OthersUntouched
<1>16. PointsRight' BY <1>1 DEF PriceInv, PointsRight, Held
<1> QED BY <1>11, <1>14, <1>15, <1>16 DEF PriceInv

\* A point that is lost makes its holding loose.
LEMMA LostKeeps ==
  ASSUME TypeInv, TypeInv', PriceInv, NEW t \in Callers, PointLost(t)
  PROVE  PriceInv'
<1>1. UNCHANGED <<now, holdings, points>> BY DEF PointLost
<1>2. PICK c \in Stores : c = call[t] BY LostFits
<1>3. PICK h \in HoldingIds : h = c.h BY DEF Stores
<1>4. loose' = loose \cup {h} BY <1>2, <1>3 DEF PointLost
<1>5. call' = [call EXCEPT ![t] = NoCall] BY LostFits
<1>6. \A u \in Callers : call'[u] = IF u = t THEN NoCall ELSE call[u] BY <1>5 DEF TypeInv, CallsFit
<1>7. PricingOf(t, h) BY <1>2, <1>3 DEF PricingOf, Stores
<1>8. CleanKnows(h)'
  <2> SUFFICES ASSUME NEW u \in Callers, PricingOf(u, h)', call'[u].clean PROVE FALSE BY DEF CleanKnows
  <2>1. u # t /\ call'[u] = call[u] /\ PricingOf(u, h) BY <1>6 DEF PricingOf, NoCall
  <2> QED BY <1>7, <2>1 DEF PriceInv, CleanKnows
<1>9. PointsAgree(h)' BY <1>4 DEF PointsAgree
<1>10. \A k \in HoldingIds \ {h} : CleanKnows(k)' /\ PointsAgree(k)'
  <2>1. call'[t].op = "none" BY <1>6 DEF NoCall
  <2> QED BY <1>1, <1>2, <1>3, <1>4, <1>6, <2>1, OthersUntouched
<1>11. PointsRight' BY <1>1 DEF PriceInv, PointsRight, Held
<1> QED BY <1>8, <1>9, <1>10, <1>11 DEF PriceInv

\* The point of a call that was not disturbed is the newest, and has the price.
LEMMA StoreKeeps ==
  ASSUME TypeInv, TypeInv', CallsDated, PriceInv, NEW t \in Callers, PointStored(t)
  PROVE  PriceInv'
<1>1. UNCHANGED <<now, holdings>> BY DEF PointStored
<1>2. PICK c \in Stores : c = call[t] BY StoreFits
<1>3. PICK h \in HoldingIds : h = c.h BY DEF Stores
<1>4. loose' = IF c.clean /\ Single(h, c.date) THEN loose \ {h} ELSE loose \cup {h} BY <1>2, <1>3 DEF PointStored
<1>5. call'[t].op \in {"none", "quote"} /\ \A u \in Callers \ {t} : call'[u] = Disturbed(call, h)[u]
  BY <1>2, <1>3, StoreFits
<1>6. PricingOf(t, h) /\ c.op = "point" BY <1>2, <1>3 DEF PricingOf, Stores
<1>7. PICK n \in Nat : DOMAIN points = 1..n /\ n = Len(points) BY DEF TypeInv, HoldingsFit
<1>8. IF c.at = 0
        THEN /\ DOMAIN points' = 1..(n + 1)
             /\ points'[n + 1] = [h |-> h, date |-> c.date, price |-> c.price]
             /\ \A i \in 1..n : points'[i] = points[i]
        ELSE /\ DOMAIN points' = 1..n /\ c.at \in 1..n
             /\ points'[c.at].h = h /\ points'[c.at].date = points[c.at].date /\ points'[c.at].price = c.price
             /\ points[c.at].h = h
             /\ \A i \in 1..n \ {c.at} : points'[i] = points[i]
  BY <1>2, <1>3, <1>7, StoreFits
<1>9. \A u \in Callers : PricingOf(u, h)' => u # t /\ PricingOf(u, h) /\ ~call'[u].clean
  BY <1>5, DisturbedIs DEF PricingOf, Dirty, TypeInv
<1>10. CleanKnows(h)' BY <1>9 DEF CleanKnows
<1>11. Held(h) BY <1>2, <1>3, StoreFits DEF PointThere
<1>12. PointsAgree(h)'
  <2>1. CASE ~(c.clean /\ Single(h, c.date)) BY <1>4, <2>1 DEF PointsAgree
  <2>2. CASE c.clean /\ Single(h, c.date)
    <3>1. Knows(c, h) BY <1>2, <1>6, <2>2 DEF PriceInv, CleanKnows
    <3>2. holdings[h].price # Null /\ c.price = holdings[h].price BY <1>6, <3>1 DEF Knows
    <3>3. \A i \in PointsOf(h) : points[i].date <= c.date BY <1>6, <3>1 DEF Knows
    <3>4. c.date \in Nat /\ \A i \in 1..n : points[i].date \in Nat BY <1>7, PointIs DEF Stores, TypeInv
    <3>5. \E i \in PointsOf(h)' : NewestPoint(h, i)' /\ points'[i].price = c.price
      <4>1. CASE c.at = 0
        <5>1. PointsOf(h)' = PointsOf(h) \cup {n + 1} BY <1>7, <1>8, <4>1 DEF PointsOf
        <5>2. \A j \in PointsOf(h)' : points'[j].date <= c.date /\ j <= n + 1
          BY <1>7, <1>8, <3>3, <3>4, <4>1, <5>1 DEF PointsOf
        <5>3. points'[n + 1].date = c.date /\ points'[n + 1].price = c.price BY <1>8, <4>1
        <5>4. \A j \in PointsOf(h)' : points'[j].date \in Nat BY <1>7, <1>8, <3>4, <4>1, <5>1 DEF PointsOf
        <5>5. NewestPoint(h, n + 1)' BY <3>4, <5>1, <5>2, <5>3, <5>4 DEF NewestPoint
        <5> QED BY <5>1, <5>3, <5>5
      <4>2. CASE c.at # 0
        <5>1. c.at \in PointsOf(h) /\ points[c.at].date = c.date BY <1>6, <3>1, <4>2 DEF Knows
        <5>2. PointsOf(h)' = PointsOf(h) BY <1>7, <1>8, <4>2 DEF PointsOf
        <5>3. \A j \in PointsOf(h) : points'[j].date = points[j].date BY <1>7, <1>8, <4>2 DEF PointsOf
        <5>4. \A j \in PointsOf(h) : points[j].date = c.date => j = c.at
          BY <2>2, <5>1 DEF Single, PointsOf
        <5>5. \A j \in PointsOf(h) : points[j].date \in Nat /\ j \in Nat BY <1>7, <3>4 DEF PointsOf
        <5>6. NewestPoint(h, c.at)' BY <3>3, <3>4, <5>1, <5>2, <5>3, <5>4, <5>5 DEF NewestPoint
        <5> QED BY <1>8, <4>2, <5>1, <5>2, <5>6
      <4> QED BY <4>1, <4>2
    <3> QED BY <1>1, <3>2, <3>5 DEF PointsAgree
  <2> QED BY <2>1, <2>2
<1>13. ASSUME NEW k \in HoldingIds \ {h} PROVE CleanKnows(k)' /\ PointsAgree(k)'
  <2>1. PointsOf(k)' = PointsOf(k) BY <1>7, <1>8, <1>13 DEF PointsOf
  <2>2. \A i \in PointsOf(k) : points'[i] = points[i] BY <1>7, <1>8, <1>13 DEF PointsOf
  <2>3. ASSUME NEW u \in Callers, PricingOf(u, k) \/ PricingOf(u, k)' PROVE call'[u] = call[u]
    <3>1. u # t BY <1>5, <1>6, <1>13, <2>3 DEF PricingOf
    <3>2. call'[u] = Disturbed(call, h)[u] BY <1>5, <3>1
    <3> QED BY <1>13, <2>3, <3>2, DisturbedElsewhere DEF PricingOf, TypeInv
  <2>4. k \in loose' <=> k \in loose BY <1>4, <1>13
  <2>5. Untouched(k) BY <1>1, <2>1, <2>2, <2>3, <2>4 DEF Untouched, Held
  <2> QED BY <1>1, <2>5, UntouchedKeeps DEF PriceInv
<1>14. PointsRight'
  <2>1. \A i \in 1..n : points[i].date <= now /\ (points[i].h # Null => Held(points[i].h))
    BY <1>7 DEF PriceInv, PointsRight
  <2>2. c.date <= now BY <1>2, <1>6 DEF CallsDated
  <2> QED BY <1>1, <1>7, <1>8, <1>11, <2>1, <2>2 DEF PointsRight, Held
<1> QED BY <1>10, <1>12, <1>13, <1>14 DEF PriceInv

\* Every step keeps the prices.
LEMMA PricesStep ==
  ASSUME TypeInv, TypeInv', CallsDated, PriceInv, [Next]_vars
  PROVE  CallsDated' /\ PriceInv'
<1>1. ASSUME UNCHANGED <<holdings, points, loose>>, now' = now \/ now' = now + 1,
             \A u \in Callers : call'[u] = call[u] \/ {call[u].op, call'[u].op} \cap {"refresh", "find", "point"} = {}
      PROVE  CallsDated' /\ PriceInv'
  <2>1. \A u \in Callers : call[u].op = "point" => call[u].date \in Nat
    BY CallKinds DEF TypeInv, CallsFit, Stores
  <2>2. CallsDated'
    <3>1. now \in Nat BY DEF TypeInv, BalancesFit
    <3>2. \A u \in Callers : call'[u].op = "point" => call'[u] = call[u] BY <1>1
    <3> QED BY <1>1, <2>1, <3>1, <3>2 DEF CallsDated
  <2> QED BY <1>1, <2>2, PricesFrame
<1>2. CASE BalanceStep
  <2>1. UNCHANGED <<now, holdings, points, loose>>
    BY <1>2 DEF BalanceStep, record_balance, AdjustStart, AdjustCommit
  <2>2. \A u \in Callers : call'[u] = call[u] \/ {call[u].op, call'[u].op} \cap {"refresh", "find", "point"} = {}
    <3>1. ASSUME NEW t \in Callers, AdjustCommit(t)
          PROVE  \A u \in Callers : call'[u] = call[u] \/ {call[u].op, call'[u].op} \cap {"refresh", "find", "point"} = {}
      BY <3>1 DEF AdjustCommit, Under, End, TypeInv, CallsFit, NoCall
    <3>2. ASSUME NEW t \in Callers, NEW a \in Accounts, NEW n \in Deltas, AdjustStart(t, a, n)
          PROVE  \A u \in Callers : call'[u] = call[u] \/ {call[u].op, call'[u].op} \cap {"refresh", "find", "point"} = {}
      BY <3>2 DEF AdjustStart, Idle, TypeInv, CallsFit, NoCall
    <3>3. ASSUME NEW a, NEW d, NEW n, record_balance(a, d, n) PROVE call' = call BY <3>3 DEF record_balance
    <3> QED BY <1>2, <3>1, <3>2, <3>3 DEF BalanceStep
  <2> QED BY <1>1, <2>1, <2>2
<1>3. CASE GoalStep
  <2>1. UNCHANGED <<now, holdings, points, loose, call>>
    BY <1>3 DEF GoalStep, delete_goal, create_goal, update_goal
  <2> QED BY <1>1, <2>1
<1>4. CASE HoldingStep \/ SyncStep
  <2>1. CallsDated'
    <3>1. OnlyPrices /\ now' = now BY <1>4, OthersLeaveDeposits
    <3>2. now \in Nat BY DEF TypeInv, BalancesFit
    <3> QED BY <3>1, <3>2 DEF CallsDated, OnlyPrices
  <2>2. PriceInv'
    <3>1. ASSUME NEW h \in HoldingIds, delete_holding(h) \/ ClearPrice(h) \/ \E n \in Units : SetUnits(h, n)
          PROVE  PriceInv'
      BY <3>1, DeleteKeeps, ClearKeeps, SetUnitsKeeps
    <3>2. ASSUME NEW t \in Callers, NEW h \in HoldingIds, NEW p \in Prices, SetPrice(t, h, p) PROVE PriceInv'
      BY <3>2, SetPriceKeeps
    <3>3. ASSUME NEW t \in Callers, NEW h \in HoldingIds, NEW a \in Accounts, NEW n \in Units,
                 NEW p \in Prices \cup {Null}, create_holding(t, h, a, n, p)
          PROVE  PriceInv'
      BY <3>3, CreateKeeps
    <3>4. ASSUME NEW t \in Callers, Refresh(t) \/ FindPoint(t) \/ PointStored(t) \/ PointLost(t) PROVE PriceInv'
      BY <3>4, RefreshKeeps, FindKeeps, StoreKeeps, LostKeeps
    <3>5. ASSUME NEW t \in Callers, NEW p \in Prices, Quote(t, p) PROVE PriceInv'
      BY <3>5, QuoteKeeps
    <3>6. ASSUME NEW t \in Callers, NoQuote(t) \/ \E a \in Accounts : SyncStart(t, a) PROVE PriceInv'
      <4>1. UNCHANGED <<now, holdings, points, loose>> BY <3>6 DEF NoQuote, SyncStart
      <4>2. \A u \in Callers : call'[u] = call[u] \/ {call[u].op, call'[u].op} \cap {"refresh", "find", "point"} = {}
        <5>1. CASE NoQuote(t)
          BY <5>1 DEF NoQuote, GoOn, Under, TypeInv, CallsFit, NoCall
        <5>2. CASE \E a \in Accounts : SyncStart(t, a)
          BY <5>2 DEF SyncStart, Idle, TypeInv, CallsFit, NoCall
        <5> QED BY <3>6, <5>1, <5>2
      <4> QED BY <1>1, <4>1, <4>2
    <3>7. CASE HoldingStep
      <4>1. \A h \in HoldingIds : (delete_holding(h) \/ ClearPrice(h) \/ \E n \in Units : SetUnits(h, n)) => PriceInv'
        BY <3>1
      <4>2. \A t \in Callers, h \in HoldingIds, p \in Prices : SetPrice(t, h, p) => PriceInv' BY <3>2
      <4>3. \A t \in Callers, h \in HoldingIds, a \in Accounts, n \in Units, p \in Prices \cup {Null} :
              create_holding(t, h, a, n, p) => PriceInv'
        BY <3>3
      <4>4. \A t \in Callers : (Refresh(t) \/ FindPoint(t) \/ PointStored(t) \/ PointLost(t)) => PriceInv' BY <3>4
      <4> QED BY <3>7, <4>1, <4>2, <4>3, <4>4 DEF HoldingStep
    <3>8. CASE SyncStep BY <3>5, <3>6, <3>8 DEF SyncStep
    <3> QED BY <1>4, <3>7, <3>8
  <2> QED BY <2>1, <2>2
<1>5. CASE ((LogStep \/ MeterStep \/ NextDay) /\ UNCHANGED wealthVars) \/ UNCHANGED vars
  <2>1. UNCHANGED wealthVars /\ (now' = now \/ now' = now + 1) BY <1>5, ElseFits
  <2> QED BY <1>1, <2>1 DEF wealthVars
<1> QED BY <1>2, <1>3, <1>4, <1>5 DEF Next

\* Without points and calls there is nothing to disagree.
LEMMA PricesInit == ASSUME Init PROVE CallsDated /\ PriceInv
<1>1. points = <<>> /\ \A t \in Callers : call[t] = NoCall BY DEF Init
<1>2. \A t \in Callers, h \in HoldingIds : ~PricingOf(t, h) /\ call[t].op # "point" BY <1>1 DEF PricingOf, NoCall
<1>3. \A h \in HoldingIds : PointsOf(h) = {} BY <1>1 DEF PointsOf
<1>4. \A h \in HoldingIds : h \notin loose => holdings[h].price = Null BY DEF Init
<1>5. CallsDated BY <1>1 DEF CallsDated, NoCall
<1>6. PointsRight BY <1>1 DEF PointsRight
<1>7. \A h \in HoldingIds : CleanKnows(h) BY <1>2 DEF CleanKnows
<1>8. \A h \in HoldingIds : PointsAgree(h) BY <1>3, <1>4 DEF PointsAgree
<1> QED BY <1>5, <1>6, <1>7, <1>8 DEF PriceInv

-----------------------------------------------------------------------------
(* Figures.                                                                   *)

\* Every day comes before the end of its month.
LEMMA MonthEnds ==
  ASSUME NEW n \in Nat, NEW m \in Nat \ {0}
  PROVE  n < (n \div m + 1) * m /\ (n \div m + 1) * m \in Nat
<1>1. PICK q \in Nat : q = n \div m OBVIOUS
<1>2. n = m * q + (n % m) /\ (n % m) \in 0..(m - 1) BY <1>1
<1>3. (q + 1) * m = m * q + m BY <1>1
<1>4. m * q \in Nat BY <1>1
<1> QED BY <1>1, <1>2, <1>3, <1>4

\* Without a balance in the future, the balance as of a day to come is the latest.
LEMMA AsOfLatest ==
  ASSUME BalancesFit, NEW a \in Accounts, ~Ahead(a), NEW end \in Nat, now < end
  PROVE  balance_as_of(a, end) = latest_balance(a)
<1>1. \A i \in Snapshots(a) : balances[i].date \in Nat
  <2>1. \A i \in Snapshots(a) : balances[i] \in Row BY DEF Snapshots, BalancesFit
  <2> QED BY <2>1 DEF Row
<1>2. \A i \in Snapshots(a) : balances[i].date < end BY <1>1 DEF Ahead, BalancesFit
<1>3. {i \in Snapshots(a) : balances[i].date < end} = Snapshots(a) BY <1>2
<1> QED BY <1>3 DEF balance_as_of, latest_balance

\* The total of savings is what the chart's last month adds up.
LEMMA SavingsHold == ASSUME TypeInv PROVE SavingsAgree
<1> SUFFICES ASSUME \A a \in Savings : ~Ahead(a) PROVE total_savings = month_total(MonthOf(now))
  BY DEF SavingsAgree
<1>1. PICK end \in Nat : end = (MonthOf(now) + 1) * MonthLength /\ now < end
  BY AssetsAssumption, MonthEnds DEF MonthOf, TypeInv, BalancesFit
<1>2. \A a \in Savings : balance_as_of(a, end) = latest_balance(a)
  BY <1>1, AsOfLatest DEF Savings, TypeInv
<1>3. [a \in Savings |-> ToBase(a, latest_balance(a))] = [a \in Savings |-> ToBase(a, balance_as_of(a, end))]
  BY <1>2
<1> QED BY <1>1, <1>3 DEF total_savings, month_total

\* The price of a holding as of a day is on the newest of its points until then.
PointsUntil(h, d) == {i \in DOMAIN points : points[i].h = h /\ points[i].date <= d}
\* The price as of a day is that of the last point until then.
LEMMA AsOfIs ==
  ASSUME HoldingsFit, NEW h \in HoldingIds, NEW d
  PROVE  /\ PointsUntil(h, d) = {} => holding_price_as_of(h, d) = Null
         /\ PointsUntil(h, d) # {} => holding_price_as_of(h, d) \in Prices
         /\ \A i \in PointsUntil(h, d) :
              (\A j \in PointsUntil(h, d) : \/ points[j].date < points[i].date
                                            \/ points[j].date = points[i].date /\ j <= i)
              => holding_price_as_of(h, d) = points[i].price
<1>1. PICK S : S = PointsUntil(h, d) OBVIOUS
<1>2. PICK last : last = {i \in S : \A j \in S : points[j].date <= points[i].date} OBVIOUS
<1>3. holding_price_as_of(h, d) = IF S = {} THEN Null ELSE points[Max(last)].price
  BY <1>1, <1>2 DEF holding_price_as_of, PointsUntil
<1>4. PICK n \in Nat : DOMAIN points = 1..n BY DEF HoldingsFit
<1>5. S \in SUBSET (1..n) /\ last \in SUBSET (0..n) BY <1>1, <1>2, <1>4 DEF PointsUntil
<1>6. \A i \in 1..n : points[i].date \in Nat /\ points[i].price \in Prices BY <1>4, PointIs
<1>7. ASSUME S # {} PROVE last # {}
  <2>1. PICK dates : dates = [i \in 1..n |-> points[i].date] OBVIOUS
  <2>2. dates \in [1..n -> Nat] BY <1>6, <2>1
  <2>3. PICK i \in S : Latest(dates, S, i) BY <1>5, <1>7, <2>2, LatestExists
  <2>4. \A j \in S : dates[j] = points[j].date /\ points[j].date \in Nat BY <1>5, <1>6, <2>1
  <2>5. i \in last BY <1>2, <2>3, <2>4 DEF Latest
  <2> QED BY <2>5
<1>8. ASSUME S # {} PROVE Max(last) \in last /\ \A k \in last : k <= Max(last)
  BY <1>5, <1>7, <1>8, MaxProperties
<1>9. S # {} => holding_price_as_of(h, d) \in Prices BY <1>2, <1>3, <1>5, <1>6, <1>8
<1>10. ASSUME NEW i \in S, \A j \in S : points[j].date < points[i].date \/ (points[j].date = points[i].date /\ j <= i)
       PROVE  holding_price_as_of(h, d) = points[i].price
  <2>1. \A j \in S : points[j].date \in Nat /\ j \in Nat BY <1>5, <1>6
  <2>2. i \in last BY <1>2, <1>10, <2>1
  <2>3. Max(last) \in S /\ i <= Max(last) /\ points[i].date <= points[Max(last)].date BY <1>2, <1>8, <1>10, <2>2
  <2>4. Max(last) = i BY <1>10, <2>1, <2>3
  <2> QED BY <1>3, <1>10, <2>4
<1> QED BY <1>1, <1>3, <1>9, <1>10

\* The price of a holding that is not loose is the one as of today.
LEMMA PriceToday ==
  ASSUME TypeInv, PriceInv, NEW h \in HoldingIds, Held(h), h \notin loose, ~Pricing(h)
  PROVE  holdings[h].price = holding_price_as_of(h, now)
<1>1. PointsUntil(h, now) = PointsOf(h) BY DEF PointsUntil, PointsOf, PriceInv, PointsRight
<1>2. CASE holdings[h].price = Null
  <2>1. PointsOf(h) = {} BY <1>2 DEF PriceInv, PointsAgree
  <2> QED BY <1>1, <1>2, <2>1, AsOfIs DEF TypeInv
<1>3. CASE holdings[h].price # Null
  <2>1. PICK i \in PointsOf(h) : NewestPoint(h, i) /\ points[i].price = holdings[h].price
    BY <1>3 DEF PriceInv, PointsAgree
  <2> QED BY <1>1, <2>1, AsOfIs DEF NewestPoint, TypeInv
<1> QED BY <1>2, <1>3

\* The same prices give the same value.
LEMMA ValueSame ==
  ASSUME NEW a, NEW p, NEW q, NEW b, \A h \in Of(a) : p[h] = q[h]
  PROVE  ValueWith(a, p, b) = ValueWith(a, q, b)
<1>1. PICK P : P = {h \in Of(a) : p[h] # Null} OBVIOUS
<1>2. P = {h \in Of(a) : q[h] # Null} BY <1>1
<1>3. [h \in P |-> Worth(h, p[h])] = [h \in P |-> Worth(h, q[h])] BY <1>1
<1> QED BY <1>1, <1>2, <1>3 DEF ValueWith

\* A point for today's price makes an account's value the chart's last.
LEMMA PortfolioHolds == ASSUME TypeInv, PriceInv PROVE PortfolioAgrees
<1> SUFFICES ASSUME NEW a \in Invested, ~Ahead(a), \A h \in Of(a) : h \notin loose /\ ~Pricing(h)
             PROVE  current_value(a) = account_value_as_of(a, now)
  BY DEF PortfolioAgrees
<1>1. a \in Accounts /\ now \in Nat /\ now + 1 \in Nat /\ now < now + 1 BY DEF Invested, TypeInv, BalancesFit
<1>2. balance_as_of(a, now + 1) = latest_balance(a) BY <1>1, AsOfLatest DEF TypeInv
<1>3. \A h \in Of(a) : h \in HoldingIds /\ Held(h) BY DEF Of
<1>4. \A h \in Of(a) : [k \in HoldingIds |-> holdings[k].price][h] = [k \in HoldingIds |-> holding_price_as_of(k, now)][h]
  BY <1>3, PriceToday
<1> QED BY <1>2, <1>4, ValueSame DEF current_value, account_value_as_of

\* What has a price, or a balance, has it a day later too.
LEMMA PricedLater ==
  ASSUME HoldingsFit, now \in Nat, NEW h \in HoldingIds, holding_price_as_of(h, now - 1) # Null
  PROVE  holding_price_as_of(h, now) # Null
<1>1. PointsUntil(h, now - 1) # {} BY AsOfIs
<1>2. \A i \in DOMAIN points : points[i].date \in Nat BY PointIs
<1>3. PointsUntil(h, now) # {} BY <1>1, <1>2 DEF PointsUntil
<1>4. Null \notin Prices BY WealthAssumption
<1> QED BY <1>3, <1>4, AsOfIs

\* What an account is worth on a day is its last balance by then.
LEMMA BalanceAsOf ==
  ASSUME BalancesFit, NEW a \in Accounts, NEW end
  PROVE  /\ balance_as_of(a, end) \in Int \cup {Null}
         /\ balance_as_of(a, end) = Null <=> {i \in Snapshots(a) : balances[i].date < end} = {}
<1>1. {i \in Snapshots(a) : balances[i].date < end} \in SUBSET (DOMAIN balances) BY DEF Snapshots
<1>2. Null \notin Int BY WealthAssumption
<1> QED BY <1>1, <1>2, LatestFits DEF balance_as_of

\* An account that had a balance by a day has one by every later day.
LEMMA BalanceLater ==
  ASSUME BalancesFit, NEW a \in Accounts, balance_as_of(a, now) # Null
  PROVE  balance_as_of(a, now + 1) # Null
<1>1. \A i \in Snapshots(a) : balances[i].date \in Nat
  <2>1. \A i \in Snapshots(a) : balances[i] \in Row BY DEF Snapshots, BalancesFit
  <2> QED BY <2>1 DEF Row
<1>2. now \in Nat BY DEF BalancesFit
<1>3. {i \in Snapshots(a) : balances[i].date < now} # {} BY BalanceAsOf
<1>4. {i \in Snapshots(a) : balances[i].date < now + 1} # {} BY <1>1, <1>2, <1>3
<1> QED BY <1>4, BalanceAsOf

\* What some holdings are worth is a number.
LEMMA WorthFits ==
  ASSUME HoldingsFit, NEW P \in SUBSET HoldingIds, NEW p, \A h \in P : p[h] \in Prices
  PROVE  /\ Sum([h \in P |-> Worth(h, p[h])], P) \in Int
         /\ P = {} => Sum([h \in P |-> Worth(h, p[h])], P) = 0
<1>1. IsFiniteSet(P) BY WealthAssumption, FS_Subset
<1>2. PICK f : f = [h \in P |-> Worth(h, p[h])] OBVIOUS
<1>3. ASSUME NEW h \in P PROVE f[h] \in Int
  <2>1. holdings[h].units \in Nat BY HeldIs
  <2>2. p[h] \in Nat BY WealthAssumption
  <2>3. f[h] = holdings[h].units * p[h] BY <1>2 DEF Worth
  <2> QED BY <2>1, <2>2, <2>3
<1> QED BY <1>1, <1>2, <1>3, SumFits

\* A conversion yields a number.
LEMMA ToBaseFits ==
  ASSUME NEW a \in Accounts, NEW n \in Int \cup {Null}
  PROVE  ToBase(a, n) \in Int /\ ToBase(a, 0) = 0 /\ ToBase(a, Null) = 0
<1>1. Rate[a] \in Nat \cup {Null} BY WealthAssumption
<1>2. Rate[a] # Null /\ n # Null => n * Rate[a] \in Int /\ 0 * Rate[a] = 0 BY <1>1
<1>3. Rate[a] # Null => 0 * Rate[a] = 0 BY <1>1
<1> QED BY <1>1, <1>2, <1>3 DEF ToBase

\* The value of an account as of a day, from its holdings if it has any.
AsOf(d) == [h \in HoldingIds |-> holding_price_as_of(h, d)]
PricedOn(a, d) == {h \in Of(a) : holding_price_as_of(h, d) # Null}
\* What an account is worth on a day is nothing or a number.
LEMMA ValueAsOf ==
  ASSUME TypeInv, NEW a \in Accounts, NEW d
  PROVE  /\ account_value_as_of(a, d) \in Int \cup {Null}
         /\ account_value_as_of(a, d) =
              IF Of(a) = {} THEN balance_as_of(a, d + 1)
              ELSE IF PricedOn(a, d) = {} THEN Null
              ELSE Sum([h \in PricedOn(a, d) |-> Worth(h, holding_price_as_of(h, d))], PricedOn(a, d))
<1>1. PICK P : P = PricedOn(a, d) OBVIOUS
<1>2. P \in SUBSET HoldingIds BY <1>1 DEF PricedOn, Of
<1>3. {h \in Of(a) : AsOf(d)[h] # Null} = P BY <1>1 DEF AsOf, PricedOn, Of
<1>4. [h \in P |-> Worth(h, AsOf(d)[h])] = [h \in P |-> Worth(h, holding_price_as_of(h, d))] BY <1>2 DEF AsOf
<1>5. account_value_as_of(a, d) = ValueWith(a, AsOf(d), balance_as_of(a, d + 1)) BY DEF account_value_as_of, AsOf
<1>6. account_value_as_of(a, d) =
        IF Of(a) = {} THEN balance_as_of(a, d + 1)
        ELSE IF P = {} THEN Null ELSE Sum([h \in P |-> Worth(h, AsOf(d)[h])], P)
  BY <1>3, <1>5 DEF ValueWith
<1>7. \A h \in P : AsOf(d)[h] \in Prices
  <2>1. ASSUME NEW h \in P PROVE AsOf(d)[h] \in Prices
    <3>1. h \in HoldingIds /\ holding_price_as_of(h, d) # Null BY <1>1, <2>1 DEF PricedOn, Of
    <3> QED BY <3>1, AsOfIs DEF AsOf, TypeInv
  <2> QED BY <2>1
<1>8. Sum([h \in P |-> Worth(h, AsOf(d)[h])], P) \in Int BY <1>2, <1>7, WorthFits DEF TypeInv
<1>9. balance_as_of(a, d + 1) \in Int \cup {Null} BY BalanceAsOf DEF TypeInv
<1> QED BY <1>1, <1>4, <1>6, <1>8, <1>9

\* What an account gained since yesterday is what lies between its two values.
LEMMA GainIs ==
  ASSUME TypeInv, now > 0, NEW a \in Accounts,
         account_value_as_of(a, now) # Null => account_value_as_of(a, now - 1) # Null,
         \A h \in Of(a) : holding_price_as_of(h, now) # Null => holding_price_as_of(h, now - 1) # Null
  PROVE  /\ ToBase(a, Legs(a, now - 1, now).to) = ToBase(a, account_value_as_of(a, now))
         /\ ToBase(a, Legs(a, now - 1, now).from) = ToBase(a, account_value_as_of(a, now - 1))
<1>1. now \in Nat /\ now - 1 + 1 = now BY DEF TypeInv, BalancesFit
<1>2. PICK v \in Int \cup {Null} : v = account_value_as_of(a, now) BY ValueAsOf
<1>3. PICK w \in Int \cup {Null} : w = account_value_as_of(a, now - 1) BY ValueAsOf
<1>4. PICK l : l = Legs(a, now - 1, now) OBVIOUS
<1>5. CASE Of(a) # {}
  <2>1. PICK both : both = {h \in Of(a) : holding_price_as_of(h, now - 1) # Null /\ holding_price_as_of(h, now) # Null}
    OBVIOUS
  <2>2. both = PricedOn(a, now) BY <2>1 DEF PricedOn
  <2>3. both = PricedOn(a, now - 1)
    <3>1. \A h \in Of(a) : h \in HoldingIds BY DEF Of
    <3>2. \A h \in Of(a) : holding_price_as_of(h, now - 1) # Null => holding_price_as_of(h, now) # Null
      BY <1>1, <3>1, PricedLater DEF TypeInv
    <3> QED BY <2>1, <3>2 DEF PricedOn
  <2>4. /\ l.from = Sum([h \in both |-> Worth(h, holding_price_as_of(h, now - 1))], both)
        /\ l.to = Sum([h \in both |-> Worth(h, holding_price_as_of(h, now))], both)
    BY <1>4, <1>5, <2>1 DEF Legs
  <2>5. CASE both = {}
    <3>1. \A f : Sum(f, {}) = 0
      <4> SUFFICES ASSUME NEW f PROVE Sum(f, {}) = 0 OBVIOUS
      <4>1. \A x \in {} : f[x] \in Int OBVIOUS
      <4> QED BY <4>1, FS_EmptySet, SumFits
    <3>2. l.from = 0 /\ l.to = 0 BY <2>4, <2>5, <3>1
    <3>3. v = Null /\ w = Null BY <1>2, <1>3, <1>5, <2>2, <2>3, <2>5, ValueAsOf
    <3> QED BY <1>2, <1>3, <1>4, <3>2, <3>3, ToBaseFits
  <2>6. CASE both # {}
    <3>1. v = l.to BY <1>2, <1>5, <2>2, <2>4, <2>6, ValueAsOf
    <3>2. w = l.from BY <1>3, <1>5, <2>3, <2>4, <2>6, ValueAsOf
    <3> QED BY <1>2, <1>3, <1>4, <3>1, <3>2
  <2> QED BY <2>5, <2>6
<1>6. CASE Of(a) = {}
  <2>1. v = balance_as_of(a, now + 1) /\ w = balance_as_of(a, now) BY <1>1, <1>2, <1>3, <1>6, ValueAsOf
  <2>2. w # Null => v # Null BY <2>1, BalanceLater DEF TypeInv
  <2>3. l = IF Null \in {w, v} THEN [from |-> 0, to |-> 0] ELSE [from |-> w, to |-> v]
    BY <1>2, <1>3, <1>4, <1>6 DEF Legs
  <2>4. CASE v = Null
    <3>1. w = Null /\ l.from = 0 /\ l.to = 0 BY <2>2, <2>3, <2>4
    <3> QED BY <1>2, <1>3, <1>4, <2>4, <3>1, ToBaseFits
  <2>5. CASE v # Null
    <3>1. w # Null BY <1>2, <1>3, <2>5
    <3>2. l.from = w /\ l.to = v BY <2>3, <2>5, <3>1
    <3> QED BY <1>2, <1>3, <1>4, <3>2
  <2> QED BY <2>4, <2>5
<1> QED BY <1>5, <1>6

\* The legs that both days have add up to the change between the totals.
LEMMA ChangeHolds == ASSUME TypeInv PROVE ChangeAgrees
<1> SUFFICES ASSUME now > 0,
                    \A a \in Invested : /\ account_value_as_of(a, now) # Null => account_value_as_of(a, now - 1) # Null
                                        /\ \A h \in Of(a) : holding_price_as_of(h, now) # Null =>
                                                              holding_price_as_of(h, now - 1) # Null
             PROVE  comparable_change(now - 1, now) = total_value_as_of(now) - total_value_as_of(now - 1)
  BY DEF ChangeAgrees
<1>1. IsFiniteSet(Invested) /\ Invested \subseteq Accounts BY WealthAssumption, FS_Subset DEF Invested
<1>2. PICK f : f = [a \in Invested |-> ToBase(a, account_value_as_of(a, now))] OBVIOUS
<1>3. PICK g : g = [a \in Invested |-> ToBase(a, account_value_as_of(a, now - 1))] OBVIOUS
<1>4. PICK h : h = [a \in Invested |-> LET l == Legs(a, now - 1, now) IN ToBase(a, l.to) - ToBase(a, l.from)] OBVIOUS
<1>5. ASSUME NEW a \in Invested PROVE f[a] \in Int /\ g[a] \in Int /\ h[a] = f[a] - g[a]
  <2>1. a \in Accounts BY <1>1
  <2>2. f[a] \in Int /\ g[a] \in Int BY <1>2, <1>3, <2>1, ValueAsOf, ToBaseFits
  <2>3. h[a] = ToBase(a, Legs(a, now - 1, now).to) - ToBase(a, Legs(a, now - 1, now).from) BY <1>4
  <2>4. h[a] = f[a] - g[a] BY <1>2, <1>3, <2>1, <2>3, GainIs
  <2> QED BY <2>2, <2>4
<1>6. Sum(h, Invested) = Sum(f, Invested) - Sum(g, Invested) BY <1>1, <1>5, SumOfDifferences
<1> QED BY <1>2, <1>3, <1>4, <1>6 DEF comparable_change, total_value_as_of

\* The figures of one page agree, whatever is typed in, quoted, stored and deleted, and
\* in whatever order two commits of a price come: the total of savings, the values of
\* accounts and the change since yesterday are those of the charts.
THEOREM FiguresTheorem == Spec => []FiguresAgree
<1>1. Init => TypeInv /\ DepositInv /\ CallsDated /\ PriceInv BY TypesInit, DepositsInit, PricesInit
<1>2. TypeInv /\ DepositInv /\ CallsDated /\ PriceInv /\ [Next]_vars
        => (TypeInv /\ DepositInv /\ CallsDated /\ PriceInv)'
  BY BalancesStep, PricesStep
<1>3. TypeInv /\ PriceInv => FiguresAgree
  BY SavingsHold, PortfolioHolds, ChangeHolds DEF FiguresAgree
<1> QED BY <1>1, <1>2, <1>3, PTL DEF Spec

-----------------------------------------------------------------------------
(* Forecasts.                                                                 *)

\* Rounding up.
LEMMA RoundedUp ==
  ASSUME NEW x \in Int, NEW n \in Nat \ {0}, NEW d \in Int
  PROVE  (x + n - 1) \div n \in Int /\ ((x + n - 1) \div n <= d <=> x <= n * d)
<1>1. PICK q \in Int : q = (x + n - 1) \div n OBVIOUS
<1>2. PICK y \in Int : y = n * q OBVIOUS
<1>3. y <= x + n - 1 /\ x + n - 1 < y + n BY <1>1, <1>2
<1>4. PICK z \in Int : z = n * d OBVIOUS
<1>5. q <= d => y <= z BY <1>2, <1>4
<1>6. q > d => y >= z + n
  <2>1. ASSUME q > d PROVE n * q >= n * (d + 1) BY <2>1
  <2>2. n * (d + 1) = z + n BY <1>4
  <2> QED BY <1>2, <2>1, <2>2
<1> QED BY <1>1, <1>3, <1>4, <1>5, <1>6

\* What an account has gained and since when are numbers.
LEMMA RateFits ==
  ASSUME BalancesFit, NEW a \in Accounts, Snapshots(a) # {}
  PROVE  Gained(a) \in Int /\ Elapsed(a) \in Int
<1>1. Snapshots(a) \in SUBSET (DOMAIN balances) BY DEF Snapshots
<1>2. \A i \in DOMAIN balances : balances[i].date \in Nat /\ balances[i].amount \in Int
  <2>1. \A i \in DOMAIN balances : balances[i] \in Row BY DEF BalancesFit
  <2> QED BY <2>1 DEF Row
<1>3. Oldest(a) \in Snapshots(a)
  <2>1. PICK k \in Nat : DOMAIN balances = 1..k BY DEF BalancesFit
  <2>2. PICK dates : dates = [i \in 1..k |-> balances[i].date] OBVIOUS
  <2>3. dates \in [1..k -> Nat] BY <1>2, <2>1, <2>2
  <2>4. \E i \in Snapshots(a) : First(dates, Snapshots(a), i) BY <1>1, <2>1, <2>3, FirstExists
  <2>5. \A i \in Snapshots(a) : dates[i] = balances[i].date BY <1>1, <2>1, <2>2
  <2>6. \E i \in Snapshots(a) : \A j \in Snapshots(a) :
          balances[i].date < balances[j].date \/ (balances[i].date = balances[j].date /\ i <= j)
    BY <2>4, <2>5 DEF First
  <2> QED BY <2>6 DEF Oldest
<1>4. Newest(Snapshots(a)) \in Snapshots(a) BY <1>1, NewestIs
<1>5. latest_balance(a) \in Int BY LatestOf
<1> QED BY <1>1, <1>2, <1>3, <1>4, <1>5 DEF Gained, Elapsed

\* A goal is said to be on track just when the rate of its account carries it there.
LEMMA ForecastIs == ASSUME TypeInv PROVE ForecastHolds
<1> SUFFICES ASSUME NEW g \in Goals, goals[g] # NoGoal, goals[g].date # Null,
                    goals[g].target > 0, goals[g].target > goal_current(g), HasRate(g),
                    goals[g].date - now \in 0..MAX_FORECAST_DAYS
             PROVE  forecast_goal(g) = "on_track" <=>
                      goal_current(g) * Elapsed(goals[g].account) + Gained(goals[g].account) * (goals[g].date - now)
                        >= goals[g].target * Elapsed(goals[g].account)
  BY DEF ForecastHolds
<1>1. goals[g] \in Goal BY DEF TypeInv, GoalsFit
<1>2. PICK a \in Accounts : a = goals[g].account BY <1>1 DEF Goal, HasRate
<1>3. Snapshots(a) # {} /\ Elapsed(a) > 0 BY <1>2 DEF HasRate
<1>4. PICK e \in Nat \ {0} : e = Elapsed(a) BY <1>3, RateFits DEF TypeInv
<1>5. PICK n \in Int : n = Gained(a) BY <1>3, RateFits DEF TypeInv
<1>6. PICK target \in Int : target = goals[g].target /\ target > 0 BY <1>1 DEF Goal
<1>7. goal_current(g) = latest_balance(a)
  <2>1. a # Null BY WealthAssumption
  <2> QED BY <1>2, <1>3, <2>1 DEF goal_current
<1>8. PICK current \in Int : current = goal_current(g) /\ current < target
  BY <1>3, <1>6, <1>7, LatestOf DEF TypeInv
<1>9. PICK date \in Nat : date = goals[g].date BY <1>1 DEF Goal
<1>10. now \in Nat /\ MAX_FORECAST_DAYS \in Nat BY WealthAssumption DEF TypeInv, BalancesFit
<1>11. PICK days \in Nat : days = date - now /\ days <= MAX_FORECAST_DAYS BY <1>9, <1>10
<1>12. PICK x \in Int : x = (target - current) * e OBVIOUS
<1>13. x > 0 /\ target * e = current * e + x BY <1>4, <1>6, <1>8, <1>12
<1>14. date # Null BY <1>9, WealthAssumption
<1>15. forecast_goal(g) = IF n <= 0 THEN "not_progressing"
                          ELSE IF (x + n - 1) \div n > MAX_FORECAST_DAYS THEN "beyond_horizon"
                          ELSE IF now + (x + n - 1) \div n <= date THEN "on_track" ELSE "behind"
  <2>1. DaysToTarget(g) = (x + n - 1) \div n BY <1>2, <1>4, <1>5, <1>6, <1>8, <1>12 DEF DaysToTarget
  <2>2. ~(target <= 0) /\ ~(current >= target) BY <1>6, <1>8
  <2> QED BY <1>2, <1>5, <1>6, <1>8, <1>9, <1>14, <2>1, <2>2 DEF forecast_goal
<1>16. (current * e + n * days >= target * e) <=> x <= n * days
  <2>1. PICK y \in Int : y = n * days OBVIOUS
  <2>2. PICK z \in Int : z = current * e OBVIOUS
  <2> QED BY <1>13, <2>1, <2>2
<1>17. forecast_goal(g) = "on_track" <=> x <= n * days
  <2>1. CASE n <= 0
    <3>1. n * days <= 0 BY <2>1
    <3> QED BY <1>13, <1>15, <2>1, <3>1
  <2>2. CASE n > 0
    <3>1. n \in Nat \ {0} BY <2>2
    <3>2. PICK q \in Int : q = (x + n - 1) \div n /\ (q <= days <=> x <= n * days) BY <3>1, RoundedUp
    <3> QED BY <1>9, <1>10, <1>11, <1>15, <2>2, <3>2
  <2> QED BY <2>1, <2>2
<1> QED BY <1>2, <1>4, <1>5, <1>6, <1>8, <1>9, <1>11, <1>16, <1>17

\* Whatever balances, deposits and goals there are, a goal with a date is said to be on
\* track just when the rate of its account carries it there by then (_dated_forecast).
THEOREM ForecastTheorem == Spec => []ForecastHolds
<1>1. Init => TypeInv /\ DepositInv BY TypesInit, DepositsInit
<1>2. TypeInv /\ DepositInv /\ [Next]_vars => (TypeInv /\ DepositInv)' BY BalancesStep
<1>3. TypeInv => ForecastHolds BY ForecastIs
<1> QED BY <1>1, <1>2, <1>3, PTL DEF Spec

-----------------------------------------------------------------------------
(* What a meter showed.                                                       *)

Meter == [shows : Nat, made : Nat, replaced : Nat]
Places == Sources \cup {"off"}
Sample == [day : Nat, value : Nat, source : Places, at : Meter]
Reading == [step : {"read"}, source : Places, value : Nat, at : Meter]

EnergyFit ==
  /\ now \in Nat /\ meter \in Meter /\ samples \in Seq(Sample)
  /\ reading \in [Callers -> Reading \cup {NotReading}]
  /\ energy \in [source : Places, semantics : {"cumulative", "interval"}]

\* y came after x: the same meter went on, or one that was new by then.
After(x, y) ==
  /\ x.made <= y.made /\ x.replaced <= y.replaced
  /\ x.replaced = y.replaced => y.shows - x.shows = y.made - x.made
  /\ x.replaced < y.replaced => y.shows <= y.made - x.made

\* Of what samples and readings have seen, one came after the other, and now comes after both.
Seen == {samples[i].at : i \in DOMAIN samples} \cup {reading[t].at : t \in {u \in Callers : reading[u].step = "read"}}
MeterRuns == \A x \in Seen : After(x, meter) /\ \A y \in Seen : After(x, y) \/ After(y, x)

\* Samples are in the order of their days.
DaysRise == \A j \in DOMAIN samples : samples[j].day <= now /\ \A i \in 1..j : samples[i].day <= samples[j].day

\* Unless one is astray, a sample is what the meter showed, and the next was read later.
InOrder ==
  astray \/ \A j \in DOMAIN samples :
    /\ samples[j].value = samples[j].at.shows
    /\ \A i \in 1..j : samples[i].at.made <= samples[j].at.made /\ samples[i].at.replaced <= samples[j].at.replaced

MeterInv == EnergyFit /\ MeterRuns /\ DaysRise /\ InOrder

\* The readings and samples there are were seen by a meter.
LEMMA SeenFit == ASSUME EnergyFit PROVE Seen \in SUBSET Meter
<1>1. \A i \in DOMAIN samples : samples[i] \in Sample BY DEF EnergyFit
<1>2. \A t \in Callers : reading[t].step = "read" => reading[t] \in Reading BY DEF EnergyFit, NotReading
<1>3. \A i \in DOMAIN samples : samples[i].at \in Meter BY <1>1 DEF Sample
<1>4. \A t \in Callers : reading[t].step = "read" => reading[t].at \in Meter BY <1>2 DEF Reading
<1> QED BY <1>3, <1>4 DEF Seen

\* At the beginning nothing was read.
LEMMA MeterInit == ASSUME Init PROVE MeterInv
<1>1. PICK h \in Homes : InitAssets(h) BY DEF Init
<1>2. now = 0 /\ samples = <<>> /\ energy = h.energy /\ reading = [t \in Callers |-> NotReading]
      /\ meter = [shows |-> 1, made |-> 1, replaced |-> 0]
  BY <1>1 DEF InitAssets
<1>3. energy \in [source : Places, semantics : {"cumulative", "interval"}] BY <1>2, AssetsAssumption DEF Places
<1>4. meter \in Meter BY <1>2 DEF Meter
<1>5. samples \in Seq(Sample) /\ DOMAIN samples = {} BY <1>2
<1>6. EnergyFit BY <1>2, <1>3, <1>4, <1>5 DEF EnergyFit
<1>7. Seen = {} BY <1>2, <1>5 DEF Seen, NotReading
<1> QED BY <1>5, <1>6, <1>7 DEF MeterInv, MeterRuns, DaysRise, InOrder

\* What the samples and the meter are stays, and the days only go on.
LEMMA MeterStays ==
  ASSUME MeterInv, UNCHANGED <<energy, samples, meter, reading, astray>>, now' = now \/ now' = now + 1
  PROVE  MeterInv'
<1>1. now \in Nat /\ now' \in Nat BY DEF MeterInv, EnergyFit
<1>2. \A j \in DOMAIN samples : samples[j].day \in Nat
  <2>1. \A j \in DOMAIN samples : samples[j] \in Sample BY DEF MeterInv, EnergyFit
  <2> QED BY <2>1 DEF Sample
<1>3. DaysRise' BY <1>1, <1>2 DEF MeterInv, DaysRise
<1> QED BY <1>1, <1>3 DEF MeterInv, EnergyFit, MeterRuns, Seen, InOrder

\* The meter goes on, or is replaced, under what was seen of it.
LEMMA MeterMoves ==
  ASSUME MeterInv, Produce \/ ReplaceMeter
  PROVE  MeterInv'
<1>1. meter \in Meter /\ Seen \in SUBSET Meter BY SeenFit DEF MeterInv, EnergyFit
<1>2. UNCHANGED <<now, energy, samples, reading, astray>> BY DEF Produce, ReplaceMeter
<1>3. /\ meter' \in Meter
      /\ \/ /\ meter'.shows = meter.shows + 1 /\ meter'.made = meter.made + 1 /\ meter'.replaced = meter.replaced
         \/ /\ meter'.shows = 0 /\ meter'.made = meter.made /\ meter'.replaced = meter.replaced + 1
  <2>1. CASE Produce
    <3>1. meter' = [meter EXCEPT !.shows = meter.shows + 1, !.made = meter.made + 1] BY <2>1 DEF Produce
    <3>2. meter'.shows = meter.shows + 1 /\ meter'.made = meter.made + 1 /\ meter'.replaced = meter.replaced
      BY <1>1, <3>1 DEF Meter
    <3>3. meter.shows + 1 \in Nat /\ meter.made + 1 \in Nat BY <1>1 DEF Meter
    <3>4. meter' \in Meter BY <1>1, <3>1, <3>3 DEF Meter
    <3> QED BY <3>2, <3>4
  <2>2. CASE ReplaceMeter
    <3>1. meter' = [meter EXCEPT !.shows = 0, !.replaced = meter.replaced + 1] BY <2>2 DEF ReplaceMeter
    <3>2. meter'.shows = 0 /\ meter'.made = meter.made /\ meter'.replaced = meter.replaced + 1
      BY <1>1, <3>1 DEF Meter
    <3>3. meter.replaced + 1 \in Nat BY <1>1 DEF Meter
    <3>4. meter' \in Meter BY <1>1, <3>1, <3>3 DEF Meter
    <3> QED BY <3>2, <3>4
  <2> QED BY <2>1, <2>2
<1>4. \A x \in Seen : After(x, meter) BY DEF MeterInv, MeterRuns
<1>5. ASSUME NEW x \in Seen PROVE After(x, meter')
  <2>1. x \in Meter BY <1>1
  <2> QED BY <1>1, <1>3, <1>4, <2>1 DEF After, Meter
<1>6. Seen' = Seen BY <1>2 DEF Seen
<1>7. MeterRuns' BY <1>5, <1>6 DEF MeterInv, MeterRuns
<1> QED BY <1>2, <1>3, <1>7 DEF MeterInv, EnergyFit, DaysRise, InOrder

\* A reading that begins sees the meter as it is.
LEMMA ReadKeeps ==
  ASSUME MeterInv, NEW t \in Callers, ReadMeter(t)
  PROVE  MeterInv'
<1>1. UNCHANGED <<now, energy, samples, meter, astray>> BY DEF ReadMeter
<1>2. PICK v \in {0, meter.shows} :
        reading' = [reading EXCEPT ![t] = [step |-> "read", source |-> energy.source, value |-> v, at |-> meter]]
  BY DEF ReadMeter
<1>3. v \in Nat /\ energy.source \in Places /\ meter \in Meter BY DEF MeterInv, EnergyFit, Meter
<1>4. PICK r \in Reading : r = [step |-> "read", source |-> energy.source, value |-> v, at |-> meter]
  BY <1>3 DEF Reading
<1>5. reading' = [reading EXCEPT ![t] = r] /\ r.at = meter BY <1>2, <1>4
<1>6. EnergyFit' BY <1>1, <1>5 DEF MeterInv, EnergyFit
<1>7. Seen' \in SUBSET (Seen \cup {meter}) BY <1>1, <1>5 DEF Seen, MeterInv, EnergyFit
<1>8. After(meter, meter) BY <1>3 DEF After, Meter
<1>9. MeterRuns' BY <1>1, <1>7, <1>8 DEF MeterInv, MeterRuns
<1> QED BY <1>1, <1>6, <1>9 DEF MeterInv, DaysRise, InOrder

\* A reading that is dropped was seen, and nothing else.
LEMMA DroppedKeeps ==
  ASSUME MeterInv, NEW t \in Callers, SampleDropped(t)
  PROVE  MeterInv'
<1>1. UNCHANGED <<now, energy, samples, meter, astray>> /\ reading' = [reading EXCEPT ![t] = NotReading]
  BY DEF SampleDropped
<1>2. EnergyFit' BY <1>1 DEF MeterInv, EnergyFit
<1>3. Seen' \in SUBSET Seen BY <1>1 DEF Seen, NotReading, MeterInv, EnergyFit
<1>4. MeterRuns' BY <1>1, <1>3 DEF MeterInv, MeterRuns
<1> QED BY <1>1, <1>2, <1>4 DEF MeterInv, DaysRise, InOrder

\* A reading that is stored is the last sample, and astray if it is not the last that was seen.
LEMMA KeptKeeps ==
  ASSUME MeterInv, NEW t \in Callers, SampleKept(t)
  PROVE  MeterInv'
<1>1. UNCHANGED <<now, energy, meter>> /\ reading' = [reading EXCEPT ![t] = NotReading] /\ reading[t].step = "read"
  BY DEF SampleKept
<1>2. PICK r \in Reading : r = reading[t] BY <1>1 DEF MeterInv, EnergyFit, NotReading
<1>3. r.value \in Nat /\ r.source \in Places /\ r.at \in Meter /\ now \in Nat BY <1>2 DEF Reading, MeterInv, EnergyFit
<1>4. PICK s \in Sample : s = [day |-> now, value |-> r.value, source |-> r.source, at |-> r.at]
  BY <1>3 DEF Sample
<1>5. samples' = Append(samples, s) BY <1>2, <1>4 DEF SampleKept
<1>6. s.day = now /\ s.value = r.value /\ s.at = r.at BY <1>4
<1>7. PICK n \in Nat : n = Len(samples) /\ DOMAIN samples = 1..n BY DEF MeterInv, EnergyFit
<1>8. /\ samples' \in Seq(Sample) /\ DOMAIN samples' = 1..(n + 1) /\ samples'[n + 1] = s
      /\ \A i \in 1..n : samples'[i] = samples[i]
  BY <1>5, <1>7 DEF MeterInv, EnergyFit
<1>9. EnergyFit' BY <1>1, <1>8 DEF MeterInv, EnergyFit
<1>10. Seen' \in SUBSET Seen
  <2>1. r.at \in Seen BY <1>1, <1>2 DEF Seen
  <2>2. \A i \in DOMAIN samples' : samples'[i].at \in Seen
    <3>1. \A i \in 1..n : samples[i].at \in Seen BY <1>7 DEF Seen
    <3> QED BY <1>6, <1>8, <2>1, <3>1
  <2>3. \A u \in Callers : reading'[u].step = "read" => reading'[u] = reading[u]
    BY <1>1 DEF NotReading, MeterInv, EnergyFit
  <2> QED BY <2>2, <2>3 DEF Seen
<1>11. MeterRuns' BY <1>1, <1>10 DEF MeterInv, MeterRuns
<1>12. \A i \in 1..n : samples[i].day \in Nat /\ samples[i].at.made \in Nat /\ samples[i].at.replaced \in Nat
  <2>1. \A i \in 1..n : samples[i] \in Sample BY <1>7 DEF MeterInv, EnergyFit
  <2>2. \A i \in 1..n : samples[i].day \in Nat /\ samples[i].at \in Meter BY <2>1 DEF Sample
  <2> QED BY <2>2 DEF Meter
<1>13. DaysRise'
  <2>1. \A j \in 1..n : samples[j].day <= now /\ \A i \in 1..j : samples[i].day <= samples[j].day
    BY <1>7 DEF MeterInv, DaysRise
  <2>2. ASSUME NEW j \in 1..n
        PROVE  samples'[j].day <= now /\ \A i \in 1..j : samples'[i].day <= samples'[j].day
    BY <1>8, <2>1
  <2>3. samples'[n + 1].day <= now /\ \A i \in 1..(n + 1) : samples'[i].day <= samples'[n + 1].day
    BY <1>3, <1>6, <1>8, <2>1
  <2>4. \A j \in 1..(n + 1) : j \in 1..n \/ j = n + 1 OBVIOUS
  <2> QED BY <1>1, <1>8, <2>2, <2>3, <2>4 DEF DaysRise
<1>14. InOrder'
  <2> SUFFICES ASSUME ~astray' PROVE InOrder' BY DEF InOrder
  <2>1. ~astray /\ r.value = r.at.shows /\ (n # 0 => ~Older(r.at, samples[n].at))
    BY <1>2, <1>7 DEF SampleKept, Last, MeterInv, EnergyFit
  <2>2. \A j \in 1..n :
          /\ samples[j].value = samples[j].at.shows
          /\ \A i \in 1..j : /\ samples[i].at.made <= samples[j].at.made
                             /\ samples[i].at.replaced <= samples[j].at.replaced
    BY <1>7, <2>1 DEF MeterInv, InOrder
  <2>3. \A i \in 1..n : samples[i].at.made <= r.at.made /\ samples[i].at.replaced <= r.at.replaced
    <3> SUFFICES ASSUME NEW i \in 1..n
                 PROVE  samples[i].at.made <= r.at.made /\ samples[i].at.replaced <= r.at.replaced
      OBVIOUS
    <3>1. n \in 1..n /\ n # 0 OBVIOUS
    <3>2. samples[i].at.made <= samples[n].at.made /\ samples[i].at.replaced <= samples[n].at.replaced BY <2>2, <3>1
    <3>3. samples[n].at.made <= r.at.made /\ samples[n].at.replaced <= r.at.replaced
      BY <1>3, <1>12, <2>1, <3>1 DEF Older, Meter
    <3>4. r.at.made \in Nat /\ r.at.replaced \in Nat BY <1>3 DEF Meter
    <3> QED BY <1>12, <3>1, <3>2, <3>3, <3>4
  <2>4. r.at.made <= r.at.made /\ r.at.replaced <= r.at.replaced BY <1>3 DEF Meter
  <2>5. ASSUME NEW j \in 1..(n + 1)
        PROVE  /\ samples'[j].value = samples'[j].at.shows
               /\ \A i \in 1..j : /\ samples'[i].at.made <= samples'[j].at.made
                                  /\ samples'[i].at.replaced <= samples'[j].at.replaced
    <3>1. CASE j = n + 1
      <4>1. \A i \in 1..j : i \in 1..n \/ i = n + 1 BY <3>1
      <4> QED BY <1>6, <1>8, <2>1, <2>3, <2>4, <3>1, <4>1
    <3>2. CASE j # n + 1
      <4>1. j \in 1..n /\ \A i \in 1..j : i \in 1..n BY <3>2
      <4> QED BY <1>8, <2>2, <4>1
    <3> QED BY <3>1, <3>2
  <2> QED BY <1>8, <2>5 DEF InOrder
<1> QED BY <1>9, <1>11, <1>13, <1>14 DEF MeterInv

\* Every step of Wealth keeps what is known of the meter.
LEMMA MeterKept ==
  ASSUME MeterInv, [Next]_vars
  PROVE  MeterInv'
<1>1. CASE \/ UNCHANGED vars \/ BalanceStep \/ GoalStep \/ HoldingStep \/ SyncStep
  <2>1. UNCHANGED <<now, energy, samples, meter, reading, astray>>
    <3>1. CASE UNCHANGED vars BY <3>1 DEF vars, assetVars
    <3>2. CASE BalanceStep BY <3>2 DEF BalanceStep, record_balance, AdjustCommit, AdjustStart, Stored, assetVars
    <3>3. CASE GoalStep BY <3>3 DEF GoalStep, create_goal, update_goal, delete_goal, assetVars
    <3>4. CASE HoldingStep
      <4> DEFINE Rests == UNCHANGED <<now, energy, samples, meter, reading, astray>>
      <4>1. \A h \in HoldingIds : (delete_holding(h) \/ ClearPrice(h) \/ \E n \in Units : SetUnits(h, n)) => Rests
        BY DEF delete_holding, ClearPrice, SetUnits, assetVars
      <4>2. \A t, h, a, n, p : SetPrice(t, h, p) \/ create_holding(t, h, a, n, p) => Rests
        BY DEF SetPrice, create_holding, assetVars
      <4>3. \A t \in Callers : (Refresh(t) \/ FindPoint(t) \/ PointStored(t) \/ PointLost(t)) => Rests
        BY DEF Refresh, FindPoint, PointStored, PointLost, assetVars
      <4> HIDE DEF Rests
      <4>4. Rests BY <3>4, <4>1, <4>2, <4>3 DEF HoldingStep
      <4> QED BY <4>4 DEF Rests
    <3>5. CASE SyncStep BY <3>5 DEF SyncStep, NoQuote, SyncStart, Quote, assetVars
    <3> QED BY <1>1, <3>1, <3>2, <3>3, <3>4, <3>5
  <2> QED BY <2>1, MeterStays
<1>2. CASE LogStep
  <2>1. UNCHANGED <<now, energy, samples, meter, reading, astray>> BY <1>2 DEF LogStep, add_log, delete_log
  <2> QED BY <2>1, MeterStays
<1>3. CASE MeterStep
  <2>1. CASE Produce \/ ReplaceMeter BY <2>1, MeterMoves
  <2>2. CASE \E s \in Sources \cup {"off"}, k \in {"cumulative", "interval"} : Configure(s, k)
    <3>1. PICK s \in Places, k \in {"cumulative", "interval"} : Configure(s, k) BY <2>2 DEF Places
    <3>2. UNCHANGED <<now, samples, meter, reading, astray>> /\ energy' = [source |-> s, semantics |-> k]
      BY <3>1 DEF Configure
    <3> QED BY <3>2 DEF MeterInv, EnergyFit, MeterRuns, Seen, DaysRise, InOrder
  <2>3. CASE \E t \in Callers : ReadMeter(t) \/ SampleKept(t) \/ SampleDropped(t)
    BY <2>3, ReadKeeps, KeptKeeps, DroppedKeeps
  <2> QED BY <1>3, <2>1, <2>2, <2>3 DEF MeterStep
<1>4. CASE NextDay
  <2>1. UNCHANGED <<energy, samples, meter, reading, astray>> /\ now' = now + 1 BY <1>4 DEF NextDay, assetVars
  <2> QED BY <2>1, MeterStays
<1> QED BY <1>1, <1>2, <1>3, <1>4 DEF Next

-----------------------------------------------------------------------------
(* What the months produced.                                                  *)

\* Later days are of later months.
LEMMA MonthRises ==
  ASSUME NEW a \in Nat, NEW b \in Nat, a <= b
  PROVE  MonthOf(a) \in Nat /\ MonthOf(b) \in Nat /\ MonthOf(a) <= MonthOf(b)
<1>1. PICK m \in Nat \ {0} : m = MonthLength BY AssetsAssumption
<1>2. PICK q \in Nat : q = a \div m OBVIOUS
<1>3. PICK r \in Nat : r = b \div m OBVIOUS
<1>4. PICK x \in Nat : x = m * q /\ x <= a BY <1>2
<1>5. PICK y \in Nat : y = m * r /\ b < y + m BY <1>3
<1>6. q > r => x >= y + m
  <2>1. ASSUME q > r PROVE m * q >= m * (r + 1) BY <2>1
  <2>2. m * (r + 1) = y + m BY <1>5
  <2> QED BY <1>4, <2>1, <2>2
<1>7. q <= r BY <1>4, <1>5, <1>6
<1> QED BY <1>1, <1>2, <1>3, <1>7 DEF MonthOf

\* The least of some numbers is one of them, and below the others.
LEMMA MinProperties ==
  ASSUME NEW S \in SUBSET Nat, S # {}
  PROVE  Min(S) \in S /\ \A k \in S : Min(S) <= k
BY LeastNumber DEF Min

\* Of two samples in order, the value rises by what was produced, or by no more when
\* the meter was replaced.
LEMMA RiseIs ==
  ASSUME MeterInv, ~astray, NEW i \in DOMAIN samples, NEW j \in DOMAIN samples, i <= j
  PROVE  /\ samples[i].value \in Nat /\ samples[j].value \in Nat
         /\ samples[i].at.made \in Nat /\ samples[j].at.made \in Nat
         /\ Risen(samples[j].value - samples[i].value) <= samples[j].at.made - samples[i].at.made
         /\ meter.replaced = 0 =>
              Risen(samples[j].value - samples[i].value) = samples[j].at.made - samples[i].at.made
<1>1. PICK n \in Nat : DOMAIN samples = 1..n BY DEF MeterInv, EnergyFit
<1>2. samples[i] \in Sample /\ samples[j] \in Sample /\ meter \in Meter BY DEF MeterInv, EnergyFit
<1>3. PICK x \in Meter : x = samples[i].at BY <1>2 DEF Sample
<1>4. PICK y \in Meter : y = samples[j].at BY <1>2 DEF Sample
<1>5. samples[i].value = x.shows /\ samples[j].value = y.shows /\ x.made <= y.made /\ x.replaced <= y.replaced
  <2>1. i \in 1..j /\ i \in 1..i BY <1>1
  <2> QED BY <1>3, <1>4, <2>1 DEF MeterInv, InOrder
<1>6. x \in Seen /\ y \in Seen BY <1>3, <1>4 DEF Seen
<1>7. After(x, meter) /\ After(y, meter) /\ (After(x, y) \/ After(y, x)) BY <1>6 DEF MeterInv, MeterRuns
<1>8. /\ x.shows \in Nat /\ x.made \in Nat /\ x.replaced \in Nat /\ meter.replaced \in Nat
      /\ y.shows \in Nat /\ y.made \in Nat /\ y.replaced \in Nat
  BY <1>2 DEF Meter
<1>9. After(x, y) BY <1>5, <1>7, <1>8 DEF After
<1>10. Risen(y.shows - x.shows) <= y.made - x.made BY <1>5, <1>8, <1>9 DEF After, Risen
<1>11. meter.replaced = 0 => Risen(y.shows - x.shows) = y.made - x.made
  BY <1>5, <1>7, <1>8, <1>9 DEF After, Risen
<1> QED BY <1>3, <1>4, <1>5, <1>8, <1>10, <1>11

\* The sample a month begins with: the last one before it, or the first there is.
Base(m) == IF Before(m) = {} THEN 1 ELSE Max(Before(m))

\* A month begins where the one before it ends.
LEMMA BasesAre ==
  ASSUME MeterInv, samples # <<>>, energy.semantics = "cumulative", NEW m \in Nat
  PROVE  /\ Base(m) \in DOMAIN samples /\ Base(m + 1) \in DOMAIN samples /\ Base(m) <= Base(m + 1)
         /\ produced_in_bucket(m) = IF Within(m) = {} THEN 0
                                    ELSE Risen(samples[Base(m + 1)].value - samples[Base(m)].value)
         /\ Within(m) = {} => Base(m + 1) = Base(m)
         /\ Within(m) # {} => Max(Within(m)) = Base(m + 1)
<1>1. PICK n \in Nat : DOMAIN samples = 1..n /\ n > 0 BY DEF MeterInv, EnergyFit
<1>2. PICK month : month = [i \in 1..n |-> MonthOf(samples[i].day)] OBVIOUS
<1>3. \A i, j \in 1..n : i <= j => month[i] \in Nat /\ month[j] \in Nat /\ month[i] <= month[j]
  <2>1. \A i \in 1..n : samples[i].day \in Nat
    <3>1. \A i \in 1..n : samples[i] \in Sample BY <1>1 DEF MeterInv, EnergyFit
    <3> QED BY <3>1 DEF Sample
  <2>2. \A j \in 1..n : \A i \in 1..j : samples[i].day <= samples[j].day BY <1>1 DEF MeterInv, DaysRise
  <2>3. \A i, j \in 1..n : i <= j => samples[i].day <= samples[j].day BY <2>2
  <2> QED BY <1>2, <2>1, <2>3, MonthRises
<1>4. \A k \in Nat : Before(k) = {i \in 1..n : month[i] < k} BY <1>1, <1>2 DEF Before
<1>5. Within(m) = {i \in 1..n : month[i] = m} BY <1>1, <1>2 DEF Within
<1>6. n \in Nat /\ Before(m) \in SUBSET (0..n) /\ Before(m + 1) \in SUBSET (0..n) /\ Within(m) \in SUBSET (0..n)
  BY <1>4, <1>5
<1>7. Before(m) # {} => Max(Before(m)) \in Before(m) /\ \A k \in Before(m) : k <= Max(Before(m))
  BY <1>6, MaxProperties
<1>8. Before(m + 1) # {} => Max(Before(m + 1)) \in Before(m + 1) /\ \A k \in Before(m + 1) : k <= Max(Before(m + 1))
  BY <1>6, MaxProperties
<1>9. Within(m) # {} => Max(Within(m)) \in Within(m) /\ \A k \in Within(m) : k <= Max(Within(m))
  BY <1>6, MaxProperties
<1>10. Within(m) # {} /\ Before(m) = {} => Min(Within(m)) = 1
  <2> SUFFICES ASSUME Within(m) # {}, Before(m) = {} PROVE Min(Within(m)) = 1 OBVIOUS
  <2>1. PICK i \in 1..n : month[i] = m BY <1>5
  <2>2. month[1] <= m /\ ~(month[1] < m) /\ month[1] \in Nat /\ 1 \in 1..n BY <1>1, <1>3, <1>4, <2>1
  <2>3. 1 \in Within(m) BY <1>5, <2>2
  <2>4. Within(m) \in SUBSET Nat /\ \A k \in Within(m) : 1 <= k BY <1>5
  <2>5. Min(Within(m)) \in Within(m) /\ Min(Within(m)) <= 1 BY <2>3, <2>4, MinProperties
  <2> QED BY <2>4, <2>5
<1>11. Base(m) \in 1..n /\ Base(m + 1) \in 1..n BY <1>1, <1>4, <1>7, <1>8 DEF Base
<1>12. Before(m + 1) = Before(m) \cup Within(m) BY <1>3, <1>4, <1>5
<1>13. ASSUME Within(m) # {} PROVE Max(Within(m)) = Base(m + 1)
  <2>1. PICK w \in 1..n : w = Max(Within(m)) /\ month[w] = m BY <1>5, <1>9, <1>13
  <2>2. \A k \in Within(m) : k <= w BY <1>9, <1>13, <2>1
  <2>3. \A k \in Before(m) : k <= w
    <3>1. \A k \in Before(m) : k \in 1..n /\ month[k] < month[w] BY <1>4, <2>1
    <3> QED BY <1>3, <2>1, <3>1
  <2>4. w \in Before(m + 1) /\ \A k \in Before(m + 1) : k <= w BY <1>9, <1>12, <1>13, <2>1, <2>2, <2>3
  <2>5. Max(Before(m + 1)) \in 1..n /\ Max(Before(m + 1)) <= w /\ w <= Max(Before(m + 1)) BY <1>4, <1>8, <2>4
  <2> QED BY <2>1, <2>4, <2>5 DEF Base
<1>14. Within(m) = {} => Base(m + 1) = Base(m) BY <1>12 DEF Base
<1>15. Base(m) <= Base(m + 1)
  <2>1. CASE Within(m) = {} BY <1>11, <1>14, <2>1
  <2>2. CASE Within(m) # {}
    <3>1. CASE Before(m) = {} BY <1>11, <3>1 DEF Base
    <3>2. CASE Before(m) # {}
      <4>1. Max(Before(m)) \in Before(m + 1) /\ Before(m + 1) # {} BY <1>7, <1>12, <3>2
      <4> QED BY <1>8, <3>2, <4>1 DEF Base
    <3> QED BY <3>1, <3>2
  <2> QED BY <2>1, <2>2
<1>16. produced_in_bucket(m) = IF Within(m) = {} THEN 0
                               ELSE Risen(samples[Base(m + 1)].value - samples[Base(m)].value)
  BY <1>10, <1>13 DEF produced_in_bucket, Base
<1> QED BY <1>1, <1>11, <1>13, <1>14, <1>15, <1>16

\* The months add up to what lies between the first sample and the last.
LEMMA MonthsAddUp ==
  ASSUME MeterInv, samples # <<>>, energy.semantics = "cumulative", ~astray
  PROVE  /\ SumFunction(production_history) <= Last(samples).at.made - Head(samples).at.made
         /\ meter.replaced = 0 =>
              SumFunction(production_history) = Last(samples).at.made - Head(samples).at.made
<1>1. PICK n \in Nat : n = Len(samples) /\ DOMAIN samples = 1..n /\ n > 0 BY DEF MeterInv, EnergyFit
<1>2. PICK M \in Nat : M = MonthOf(now) BY MonthRises DEF MeterInv, EnergyFit
<1>3. PICK P : P = [m \in 0..(M + 1) |-> samples[Base(m)].at.made] OBVIOUS
<1>4. \A m \in Nat : Base(m) \in 1..n BY <1>1, BasesAre
<1>5. \A i \in 1..n : samples[i].at.made \in Nat BY <1>1, RiseIs
<1>6. P \in [0..(M + 1) -> Int]
  <2>1. \A m \in 0..(M + 1) : samples[Base(m)].at.made \in Int BY <1>4, <1>5
  <2> QED BY <1>3, <2>1
<1>7. ASSUME NEW m \in 0..M
      PROVE  /\ produced_in_bucket(m) \in Int /\ produced_in_bucket(m) <= P[m + 1] - P[m]
             /\ meter.replaced = 0 => produced_in_bucket(m) = P[m + 1] - P[m]
  <2>0. m \in Nat OBVIOUS
  <2>1. PICK i \in 1..n : i = Base(m) BY <1>4
  <2>2. PICK j \in 1..n : j = Base(m + 1) BY <1>4
  <2>3. P[m] = samples[i].at.made /\ P[m + 1] = samples[j].at.made BY <1>3, <2>1, <2>2
  <2>4. i <= j /\ (Within(m) = {} => i = j) BY <2>0, <2>1, <2>2, BasesAre
  <2>5. /\ samples[i].value \in Nat /\ samples[j].value \in Nat
        /\ Risen(samples[j].value - samples[i].value) <= samples[j].at.made - samples[i].at.made
        /\ meter.replaced = 0 =>
              Risen(samples[j].value - samples[i].value) = samples[j].at.made - samples[i].at.made
    BY <1>1, <2>4, RiseIs
  <2>6. produced_in_bucket(m) = IF Within(m) = {} THEN 0 ELSE Risen(samples[j].value - samples[i].value)
    BY <2>0, <2>1, <2>2, BasesAre
  <2>7. Risen(samples[j].value - samples[i].value) \in Int BY <2>5 DEF Risen
  <2> QED BY <1>5, <2>3, <2>4, <2>5, <2>6, <2>7
<1>8. PICK d : d = production_history OBVIOUS
<1>9. d \in [0..M -> Int] /\ \A m \in 0..M : d[m] = produced_in_bucket(m)
  BY <1>2, <1>7, <1>8 DEF production_history
<1>10. SumFunction(production_history) = Sum(d, 0..M) BY <1>8, <1>9 DEF SumFunction, Sum
<1>11. P[0] = Head(samples).at.made
  <2>1. \A i \in 1..n : MonthOf(samples[i].day) \in Nat
    <3>1. \A i \in 1..n : samples[i] \in Sample BY <1>1 DEF MeterInv, EnergyFit
    <3>2. \A i \in 1..n : samples[i].day \in Nat BY <3>1 DEF Sample
    <3> QED BY <3>2, MonthRises
  <2>2. Before(0) = {} BY <1>1, <2>1 DEF Before
  <2>3. Base(0) = 1 BY <2>2 DEF Base
  <2> QED BY <1>3, <2>3
<1>12. P[M + 1] = Last(samples).at.made
  <2>1. samples[n].day \in Nat /\ samples[n].day <= now /\ now \in Nat
    <3>1. samples[n] \in Sample BY <1>1 DEF MeterInv, EnergyFit
    <3> QED BY <1>1, <3>1 DEF Sample, MeterInv, EnergyFit, DaysRise
  <2>2. MonthOf(samples[n].day) < M + 1
    <3>1. MonthOf(samples[n].day) \in Nat /\ MonthOf(samples[n].day) <= MonthOf(now) BY <2>1, MonthRises
    <3> QED BY <1>2, <3>1
  <2>3. n \in Before(M + 1) BY <1>1, <2>2 DEF Before
  <2>4. Before(M + 1) \in SUBSET (0..n) BY <1>1 DEF Before
  <2>5. Max(Before(M + 1)) \in Before(M + 1) /\ n <= Max(Before(M + 1)) BY <2>3, <2>4, MaxProperties
  <2>6. Base(M + 1) = n BY <2>3, <2>4, <2>5 DEF Base
  <2> QED BY <1>1, <1>3, <2>6 DEF Last
<1>13. /\ Sum(d, 0..M) <= P[M + 1] - P[0]
       /\ meter.replaced = 0 => Sum(d, 0..M) = P[M + 1] - P[0]
  BY <1>6, <1>7, <1>9, Telescope
<1> QED BY <1>10, <1>11, <1>12, <1>13

\* And the sensor tells what the chart tells of the month of the last sample.
LEMMA ProductionHolds == ASSUME MeterInv PROVE ProductionAddsUp
<1> SUFFICES ASSUME samples # <<>>, energy.semantics = "cumulative" PROVE ProductionAddsUp BY DEF ProductionAddsUp
<1>1. PICK n \in Nat : n = Len(samples) /\ DOMAIN samples = 1..n /\ n > 0 BY DEF MeterInv, EnergyFit
<1>2. Last(samples) = samples[n] BY <1>1 DEF Last
<1>3. meter.replaced \in Nat BY DEF MeterInv, EnergyFit, Meter
<1>4. PICK m \in Nat : m = MonthOf(samples[n].day)
  <2>1. samples[n] \in Sample BY <1>1 DEF MeterInv, EnergyFit
  <2>2. samples[n].day \in Nat BY <2>1 DEF Sample
  <2> QED BY <2>2, MonthRises
<1>5. ASSUME energy.source # "off", Before(m) # {} PROVE last_production = produced_in_bucket(m)
  <2>1. n \in Within(m) /\ Within(m) \in SUBSET (0..n) BY <1>1, <1>4 DEF Within
  <2>2. Max(Within(m)) \in Within(m) /\ n <= Max(Within(m)) BY <2>1, MaxProperties
  <2>3. Max(Within(m)) = n BY <2>1, <2>2
  <2>4. Base(m + 1) = n /\ Within(m) # {} BY <2>1, <2>3, BasesAre
  <2>5. produced_in_bucket(m) = Risen(samples[n].value - samples[Base(m)].value) BY <2>4, BasesAre
  <2>6. last_production = Risen(samples[n].value - samples[Max(Before(m))].value)
    BY <1>2, <1>4, <1>5 DEF last_production, month_production
  <2> QED BY <1>5, <2>5, <2>6 DEF Base
<1>6. ~astray =>
        IF meter.replaced > 0
          THEN SumFunction(production_history) <= Last(samples).at.made - Head(samples).at.made
          ELSE SumFunction(production_history) = Last(samples).at.made - Head(samples).at.made
  BY <1>3, MonthsAddUp
<1> QED BY <1>2, <1>4, <1>5, <1>6 DEF ProductionAddsUp

\* However often and by whichever thread a meter is read, whenever it is replaced and
\* whichever readings are lost: unless one is stored late or for a source that did not
\* answer, the months add up to what the meter rose by, and the sensor tells of the
\* month of the last sample what the chart tells.
THEOREM ProductionTheorem == Spec => []ProductionAddsUp
<1>1. Init => MeterInv BY MeterInit
<1>2. MeterInv /\ [Next]_vars => MeterInv' BY MeterKept
<1>3. MeterInv => ProductionAddsUp BY ProductionHolds
<1> QED BY <1>1, <1>2, <1>3, PTL DEF Spec
-----------------------------------------------------------------------------
(* What was logged.                                                           *)

\* The rows are finitely many, each has an id of its own, and none was refused.
LogsFit ==
  /\ logs \subseteq Log /\ IsFiniteSet(logs)
  /\ \A l \in logs : ValidEntry(l)
  /\ \A l, k \in logs : l.id = k.id => l = k

\* A sum of what is not negative is at least the sum of less of it.
LEMMA SumGrows ==
  ASSUME NEW S, IsFiniteSet(S), NEW T \in SUBSET S, NEW f, NEW g,
         \A x \in S : g[x] \in Nat, \A x \in T : f[x] \in Int /\ f[x] <= g[x]
  PROVE  Sum(f, T) \in Int /\ Sum(g, S) \in Nat /\ Sum(f, T) <= Sum(g, S)
<1>1. IsFiniteSet(T) BY FS_Subset
<1>2. PICK F : Folded(f, T, F) BY <1>1, FoldedExists
<1>3. PICK G : Folded(g, S, G) BY FoldedExists
<1>4. Sum(f, T) = F[T] /\ F[T] \in Int
  <2>1. T \in SUBSET T OBVIOUS
  <2>2. Sum(f, T) = F[T] BY <1>1, <1>2, <2>1, SumIs
  <2>3. F[T] \in Int BY <1>2, <2>1 DEF Folded
  <2> QED BY <2>2, <2>3
<1>5. Sum(g, S) = G[S] BY <1>3, SumIs
<1>6. \A u \in SUBSET S : IsFiniteSet(u) /\ Cardinality(u) \in Nat BY FS_Subset, FS_CardinalityType
<1>7. PICK W : W = {n \in Nat : \E u \in SUBSET S : Cardinality(u) = n /\ ~(G[u] \in Nat /\ (u \in SUBSET T => F[u] <= G[u])
                                                                              /\ (T \subseteq u => G[T] <= G[u]))}
  OBVIOUS
<1>8. ASSUME W # {} PROVE FALSE
  <2>1. W \in SUBSET Nat BY <1>7
  <2>2. PICK n \in W : \A m \in W : n <= m BY <1>8, <2>1, LeastNumber
  <2>3. PICK u \in SUBSET S : Cardinality(u) = n /\ ~(G[u] \in Nat /\ (u \in SUBSET T => F[u] <= G[u])
                                                      /\ (T \subseteq u => G[T] <= G[u]))
    BY <1>7, <2>2
  <2>4. \A y \in u : /\ u \ {y} \in SUBSET S /\ G[u \ {y}] \in Nat
                     /\ u \ {y} \in SUBSET T => F[u \ {y}] <= G[u \ {y}]
                     /\ T \subseteq u \ {y} => G[T] <= G[u \ {y}]
    <3> SUFFICES ASSUME NEW y \in u
                 PROVE  /\ u \ {y} \in SUBSET S /\ G[u \ {y}] \in Nat
                        /\ u \ {y} \in SUBSET T => F[u \ {y}] <= G[u \ {y}]
                        /\ T \subseteq u \ {y} => G[T] <= G[u \ {y}]
      OBVIOUS
    <3>1. u \ {y} \in SUBSET S /\ Cardinality(u \ {y}) = n - 1 /\ n - 1 \in Nat
      BY <1>6, <2>3, FS_RemoveElement
    <3>2. n - 1 \notin W BY <2>1, <2>2
    <3> QED BY <1>7, <3>1, <3>2
  <2>5. \A y \in u : G[u] = g[y] + G[u \ {y}] /\ g[y] \in Nat
    <3>1. \A x \in S : g[x] \in Int OBVIOUS
    <3>2. \A y \in u : G[u] = g[y] + G[u \ {y}] BY <1>3, <3>1, AnyOrder
    <3> QED BY <3>2
  <2>6. G[u] \in Nat
    <3>1. CASE u = {}
      <4>1. G[u] = 0 BY <1>3, <3>1 DEF Folded
      <4> QED BY <4>1
    <3>2. CASE u # {}
      <4>1. PICK y \in u : TRUE BY <3>2
      <4>2. G[u] = g[y] + G[u \ {y}] /\ g[y] \in Nat /\ G[u \ {y}] \in Nat BY <2>4, <2>5
      <4> QED BY <4>2
    <3> QED BY <3>1, <3>2
  <2>7. ASSUME u \in SUBSET T PROVE F[u] <= G[u]
    <3>1. CASE u = {}
      <4>1. F[u] = 0 BY <1>2, <2>7, <3>1 DEF Folded
      <4>2. G[u] = 0 BY <1>3, <3>1 DEF Folded
      <4> QED BY <4>1, <4>2
    <3>2. CASE u # {}
      <4>1. PICK y : y = Pick(u) OBVIOUS
      <4>2. y \in u /\ u \ {y} \in SUBSET T /\ y \in T BY <2>7, <3>2, <4>1 DEF Pick
      <4>3. F[u] = f[y] + F[u \ {y}] /\ F[u \ {y}] \in Int BY <1>2, <2>7, <3>2, <4>1, <4>2 DEF Folded
      <4>4. G[u] = g[y] + G[u \ {y}] /\ g[y] \in Nat /\ G[u \ {y}] \in Nat BY <2>4, <2>5, <4>2
      <4>5. f[y] \in Int /\ f[y] <= g[y] /\ F[u \ {y}] <= G[u \ {y}] BY <2>4, <4>2
      <4> QED BY <4>3, <4>4, <4>5
    <3> QED BY <3>1, <3>2
  <2>8. ASSUME T \subseteq u PROVE G[T] <= G[u]
    <3>1. CASE u = T BY <2>6, <3>1
    <3>2. CASE u # T
      <4>1. PICK y \in u : y \notin T BY <2>8, <3>2
      <4>2. G[u] = g[y] + G[u \ {y}] /\ g[y] \in Nat /\ G[u \ {y}] \in Nat BY <2>4, <2>5, <4>1
      <4>3. G[T] <= G[u \ {y}] BY <2>4, <2>8, <4>1
      <4>4. G[T] \in Int BY <1>3 DEF Folded
      <4> QED BY <4>2, <4>3, <4>4
    <3> QED BY <3>1, <3>2
  <2> QED BY <2>3, <2>6, <2>7, <2>8
<1>9. \A u \in SUBSET S : G[u] \in Nat /\ (u \in SUBSET T => F[u] <= G[u]) /\ (T \subseteq u => G[T] <= G[u])
  BY <1>6, <1>7, <1>8
<1>10. G[T] \in Nat /\ G[S] \in Nat /\ F[T] <= G[T] /\ G[T] <= G[S] BY <1>9
<1> QED BY <1>4, <1>5, <1>10

\* The sum of one number is that number.
LEMMA SumOfOne == ASSUME NEW y, NEW f, f[y] \in Int PROVE Sum(f, {y}) = f[y]
<1>1. IsFiniteSet({y}) /\ \A x \in {y} : f[x] \in Int BY FS_Singleton
<1>2. PICK e : e = {y} \ {y} OBVIOUS
<1>3. Sum(f, {y}) = f[y] + Sum(f, e) BY <1>1, <1>2, SumWithout
<1>4. Sum(f, e) = 0
  <2>1. e = {} BY <1>2
  <2>2. IsFiniteSet(e) /\ \A x \in e : f[x] \in Int BY <2>1, FS_EmptySet
  <2> QED BY <2>1, <2>2, SumFits
<1>5. PICK n \in Int : n = f[y] OBVIOUS
<1>6. Sum(f, {y}) = n + 0 BY <1>3, <1>4, <1>5
<1> QED BY <1>5, <1>6

\* No id is above the sum of all, so that the next one is free.
LEMMA NextIdFree ==
  ASSUME NEW S \in SUBSET Log, IsFiniteSet(S)
  PROVE  NextId(S) \in Nat /\ \A l \in S : l.id # NextId(S)
<1>1. PICK f : f = [l \in S |-> l.id] OBVIOUS
<1>2. \A l \in S : f[l] \in Nat BY <1>1 DEF Log
<1>3. Sum(f, S) \in Nat BY <1>2, SumGrows
<1>4. ASSUME NEW l \in S PROVE f[l] <= Sum(f, S)
  <2>1. {l} \in SUBSET S /\ \A x \in {l} : f[x] \in Int /\ f[x] <= f[x] BY <1>2
  <2>2. Sum(f, {l}) <= Sum(f, S) BY <1>2, <2>1, SumGrows
  <2>3. Sum(f, {l}) = f[l] BY <1>2, SumOfOne
  <2> QED BY <2>2, <2>3
<1>5. PICK ids : ids = {0} \cup {l.id : l \in S} OBVIOUS
<1>6. PICK n \in Nat : n = Sum(f, S) BY <1>3
<1>7. ids \in SUBSET (0..n)
  <2>1. \A l \in S : l.id \in 0..n BY <1>1, <1>2, <1>4, <1>6
  <2> QED BY <1>5, <1>6, <2>1
<1>8. Max(ids) \in ids /\ \A k \in ids : k <= Max(ids) BY <1>5, <1>6, <1>7, MaxProperties
<1>9. PICK x \in Nat : x = Max(ids)
  <2>1. Max(ids) \in 0..n BY <1>7, <1>8
  <2>2. Max(ids) \in Nat BY <2>1
  <2> QED BY <2>2
<1>10. NextId(S) = 1 + x BY <1>5, <1>9 DEF NextId
<1>11. \A l \in S : l.id \in Nat /\ l.id <= x BY <1>5, <1>7, <1>8, <1>9
<1> QED BY <1>9, <1>10, <1>11

\* Nothing is logged at first; an entry that is added is valid and has a new id.
LEMMA LogsInit == ASSUME Init PROVE LogsFit
<1>1. logs = {} BY DEF Init, InitAssets
<1> QED BY <1>1, FS_EmptySet DEF LogsFit

\* Every step keeps the rows fit.
LEMMA LogsKept == ASSUME LogsFit, [Next]_vars PROVE LogsFit'
<1>1. CASE UNCHANGED logs BY <1>1 DEF LogsFit
<1>2. ASSUME NEW e \in Entries, add_log(e) PROVE LogsFit'
  <2>1. ValidEntry(e) /\ e \in Log /\ logs' = logs \cup {[e EXCEPT !.id = NextId(logs)]}
    BY <1>2, AssetsAssumption DEF add_log
  <2>2. PICK n \in Nat : n = NextId(logs) /\ \A l \in logs : l.id # n BY NextIdFree DEF LogsFit
  <2>3. PICK r \in Log : r = [e EXCEPT !.id = n] BY <2>1 DEF Log
  <2>4. r.id = n /\ ValidEntry(r) BY <2>1, <2>3 DEF Log, ValidEntry
  <2>5. logs' = logs \cup {r} BY <2>1, <2>2, <2>3
  <2>6. IsFiniteSet(logs') BY <2>5, FS_AddElement DEF LogsFit
  <2> QED BY <2>2, <2>4, <2>5, <2>6 DEF LogsFit
<1>3. ASSUME NEW l \in logs, delete_log(l) PROVE LogsFit'
  <2>1. logs' = logs \ {l} BY <1>3 DEF delete_log
  <2>2. IsFiniteSet(logs') BY <2>1, FS_Subset DEF LogsFit
  <2> QED BY <2>1, <2>2 DEF LogsFit
<1>4. UNCHANGED logs \/ LogStep
  <2>1. MeterStep => UNCHANGED logs
    BY DEF MeterStep, Produce, ReplaceMeter, Configure, ReadMeter, SampleKept, SampleDropped
  <2>2. NextDay => UNCHANGED logs BY DEF NextDay, assetVars
  <2>3. BalanceStep => UNCHANGED logs
    BY DEF BalanceStep, record_balance, AdjustStart, AdjustCommit, assetVars
  <2>4. GoalStep => UNCHANGED logs
    BY DEF GoalStep, create_goal, update_goal, delete_goal, assetVars
  <2>5. HoldingStep => UNCHANGED logs
    <3>1. \A h \in HoldingIds : delete_holding(h) \/ ClearPrice(h) => UNCHANGED logs
      BY DEF delete_holding, ClearPrice, assetVars
    <3>2. \A h \in HoldingIds, n \in Units : SetUnits(h, n) => UNCHANGED logs BY DEF SetUnits, assetVars
    <3>3. \A t \in Callers, h \in HoldingIds, p \in Prices : SetPrice(t, h, p) => UNCHANGED logs
      BY DEF SetPrice, assetVars
    <3>4. \A t \in Callers, h \in HoldingIds, a \in Accounts, n \in Units :
            \A p : create_holding(t, h, a, n, p) => UNCHANGED logs
      BY DEF create_holding, assetVars
    <3>5. \A t \in Callers : Refresh(t) \/ FindPoint(t) \/ PointLost(t) => UNCHANGED logs
      BY DEF Refresh, FindPoint, PointLost, assetVars
    <3>6. \A t \in Callers : PointStored(t) => UNCHANGED logs BY DEF PointStored, assetVars
    <3> QED BY <3>1, <3>2, <3>3, <3>4, <3>5, <3>6 DEF HoldingStep
  <2>6. SyncStep => UNCHANGED logs BY DEF SyncStep, NoQuote, SyncStart, Quote, assetVars
  <2>7. UNCHANGED vars => UNCHANGED logs BY DEF vars, assetVars
  <2> QED BY <2>1, <2>2, <2>3, <2>4, <2>5, <2>6, <2>7 DEF Next
<1> QED BY <1>1, <1>2, <1>3, <1>4 DEF LogStep

\* A row that is not the first has one before it.
LEMMA PreviousIs ==
  ASSUME LogsFit, NEW S \in SUBSET logs, NEW l \in Following(S)
  PROVE  /\ Previous(S, l) \in S /\ Earlier(Previous(S, l), l)
         /\ \A m \in S : Earlier(m, l) => m = Previous(S, l) \/ Earlier(m, Previous(S, l))
<1>0. \A k \in logs : k.date \in Nat /\ k.id \in Nat BY DEF LogsFit, Log
<1>1. \A k, m \in S : k = m \/ Earlier(k, m) \/ Earlier(m, k) BY <1>0 DEF Earlier, LogsFit
<1>2. \A k, m, n \in S : Earlier(k, m) /\ Earlier(m, n) => Earlier(k, n) BY <1>0 DEF Earlier
<1>3. \A k \in S : ~Earlier(k, k) BY <1>0 DEF Earlier
<1>4. PICK B : B = {k \in S : Earlier(k, l)} OBVIOUS
<1>5. IsFiniteSet(S)
  BY FS_Subset DEF LogsFit
<1>6. PICK A : A = [k \in B |-> {m \in B : Earlier(k, m)}] OBVIOUS
<1>7. \A k \in B : IsFiniteSet(A[k]) /\ Cardinality(A[k]) \in Nat
  <2>1. \A k \in B : A[k] \in SUBSET S BY <1>4, <1>6
  <2> QED BY <1>5, <2>1, FS_Subset, FS_CardinalityType
<1>8. PICK N : N = {Cardinality(A[k]) : k \in B} OBVIOUS
<1>9. N \in SUBSET Nat /\ N # {} BY <1>4, <1>7, <1>8 DEF Following
<1>10. PICK n \in N : \A m \in N : n <= m BY <1>9, LeastNumber
<1>11. PICK k \in B : Cardinality(A[k]) = n BY <1>8, <1>10
<1>12. ASSUME NEW m \in B, m # k, ~Earlier(m, k) PROVE FALSE
  <2>1. Earlier(k, m) BY <1>1, <1>4, <1>12
  <2>2. A[m] \in SUBSET A[k] /\ m \in A[k] /\ m \notin A[m] BY <1>2, <1>3, <1>4, <1>6, <1>12, <2>1
  <2>3. Cardinality(A[m]) < Cardinality(A[k])
    <3>1. A[m] # A[k] BY <2>2
    <3>2. Cardinality(A[m]) <= Cardinality(A[k]) /\ (Cardinality(A[m]) = Cardinality(A[k]) => A[m] = A[k])
      BY <1>7, <2>2, FS_Subset
    <3> QED BY <1>7, <3>1, <3>2
  <2>4. n <= Cardinality(A[m]) BY <1>8, <1>10
  <2> QED BY <1>7, <1>11, <2>3, <2>4
<1>13. \E p \in S : Earlier(p, l) /\ \A m \in S : Earlier(m, l) => m = p \/ Earlier(m, p) BY <1>4, <1>11, <1>12
<1> QED BY <1>13 DEF Previous

\* Costs of rows are numbers, and of fewer rows no more.
LEMMA CostsFit ==
  ASSUME LogsFit, NEW S \in SUBSET logs, NEW T \in SUBSET S
  PROVE  CostOf(S) \in Nat /\ CostOf(T) \in Nat /\ CostOf(T) <= CostOf(S)
<1>1. PICK f : f = [l \in S |-> IF l.cost = Null THEN 0 ELSE l.cost] OBVIOUS
<1>2. PICK g : g = [l \in T |-> IF l.cost = Null THEN 0 ELSE l.cost] OBVIOUS
<1>3. \A l \in S : f[l] \in Nat
  <2>1. \A l \in S : l \in Log /\ (l.cost # Null => l.cost >= 0) BY DEF LogsFit, ValidEntry
  <2>2. \A l \in S : l.cost = Null \/ l.cost \in Int BY <2>1 DEF Log, Numbers
  <2> QED BY <1>1, <2>1, <2>2
<1>4. \A l \in T : g[l] \in Nat /\ g[l] <= f[l] BY <1>1, <1>2, <1>3
<1>5. IsFiniteSet(S) /\ IsFiniteSet(T) BY FS_Subset DEF LogsFit
<1>6. Sum(f, S) \in Nat /\ Sum(g, T) <= Sum(f, S) BY <1>3, <1>4, <1>5, SumGrows
<1>7. Sum(g, T) \in Nat BY <1>4, <1>5, SumGrows
<1> QED BY <1>1, <1>2, <1>6, <1>7 DEF CostOf

\* Only the fill itself comes after the fill before it and no later.
LEMMA TanksHold == ASSUME LogsFit, NEW a PROVE TankToTank(a)
<1> SUFFICES ASSUME \A l \in Refuels(a) : Null \notin {l.odometer, l.litres}, NEW l \in Segments(a)
             PROVE  LET since == {k \in Refuels(a) : Earlier(Previous(Fills(a), l), k) /\ ~Earlier(l, k)}
                    IN l.litres = Sum([k \in since |-> k.litres], since)
  BY DEF TankToTank
<1>0. \A k \in logs : k.date \in Nat /\ k.id \in Nat BY DEF LogsFit, Log
<1>1. Fills(a) = Refuels(a) BY DEF Fills
<1>2. Refuels(a) \in SUBSET logs /\ l \in Following(Refuels(a)) /\ l \in Refuels(a)
  BY <1>1 DEF Refuels, LogsOf, Segments, Following
<1>3. PICK p : p = Previous(Fills(a), l) OBVIOUS
<1>4. p \in Refuels(a) /\ Earlier(p, l) /\ \A m \in Refuels(a) : Earlier(m, l) => m = p \/ Earlier(m, p)
  BY <1>1, <1>2, <1>3, PreviousIs
<1>5. \A k \in Refuels(a) : k = l \/ Earlier(k, l) \/ Earlier(l, k) BY <1>0, <1>2 DEF Earlier, LogsFit
<1>6. \A k \in Refuels(a) : ~(Earlier(p, k) /\ Earlier(k, p)) /\ ~Earlier(k, k) BY <1>0, <1>2, <1>4 DEF Earlier
<1>7. {k \in Refuels(a) : Earlier(p, k) /\ ~Earlier(l, k)} = {l} BY <1>2, <1>4, <1>5, <1>6
<1>8. l.litres \in Int BY <1>2 DEF LogsFit, Log, Numbers
<1>9. PICK f : f = [k \in {l} |-> k.litres] OBVIOUS
<1>10. Sum(f, {l}) = l.litres BY <1>8, <1>9, SumOfOne
<1> QED BY <1>3, <1>7, <1>9, <1>10

\* Usage that is counted is a number, and so is what was paid for; with one meter in each
\* home the second is a part of the first.
LEMMA UsageFits ==
  ASSUME LogsFit, NEW r \in SUBSET logs, \A l \in r : l.reading \in Int
  PROVE  /\ \A l \in Following(r) : Usage(r, l) \in Int
         /\ UsageOf(r, Counted(r)) \in Nat /\ UsageOf(r, PaidUsage(r)) \in Int
         /\ UsageOf(r, PaidUsage(r)) <= UsageOf(r, Counted(r))
         /\ CostOf(Counted(r)) \in Nat /\ CostOf(PaidUsage(r)) <= CostOf(Counted(r))
         /\ CostOf(PaidUsage(r)) \in Nat
<1>1. ASSUME NEW l \in Following(r) PROVE Usage(r, l) \in Int
  <2>1. Previous(r, l) \in r /\ l \in r BY PreviousIs DEF Following
  <2>2. l.reading \in Int /\ Previous(r, l).reading \in Int BY <2>1
  <2> QED BY <2>2 DEF Usage
<1>2. PICK f : f = [l \in Counted(r) |-> Usage(r, l)] OBVIOUS
<1>3. PICK g : g = [l \in PaidUsage(r) |-> Usage(r, l)] OBVIOUS
<1>4. PaidUsage(r) \in SUBSET Counted(r) /\ Counted(r) \in SUBSET logs
  BY <1>1 DEF PaidUsage, Counted, Following
<1>5. IsFiniteSet(Counted(r)) /\ IsFiniteSet(PaidUsage(r)) BY <1>4, FS_Subset DEF LogsFit
<1>6. \A l \in Counted(r) : f[l] \in Nat BY <1>1, <1>2 DEF Counted
<1>7. \A l \in PaidUsage(r) : g[l] \in Int /\ g[l] <= f[l]
  <2>1. \A l \in PaidUsage(r) : l \in Counted(r) /\ g[l] = f[l] BY <1>2, <1>3, <1>4
  <2> QED BY <1>6, <2>1
<1>8. Sum(g, PaidUsage(r)) \in Int /\ Sum(f, Counted(r)) \in Nat /\ Sum(g, PaidUsage(r)) <= Sum(f, Counted(r))
  BY <1>4, <1>5, <1>6, <1>7, SumGrows
<1>9. UsageOf(r, Counted(r)) = Sum(f, Counted(r)) /\ UsageOf(r, PaidUsage(r)) = Sum(g, PaidUsage(r))
  BY <1>2, <1>3 DEF UsageOf
<1>10. CostOf(Counted(r)) \in Nat /\ CostOf(PaidUsage(r)) <= CostOf(Counted(r)) /\ CostOf(PaidUsage(r)) \in Nat
  BY <1>4, CostsFit
<1> QED BY <1>1, <1>8, <1>9, <1>10

\* The readings of a meter are numbers.
LEMMA ReadingsFit ==
  ASSUME LogsFit, NEW a, NEW meters
  PROVE  Readings(a, meters) \in SUBSET logs /\ \A l \in Readings(a, meters) : l.reading \in Int
<1>1. \A l \in logs : l.reading = Null \/ l.reading \in Int BY DEF LogsFit, Log, Numbers
<1> QED BY <1>1 DEF Readings, LogsOf

\* No row comes after another where there is none.
LEMMA NothingRead == ASSUME NEW r, r = {} PROVE UsageOf(r, PaidUsage(r)) = 0 /\ CostOf(PaidUsage(r)) = 0
<1>1. PaidUsage(r) = {} BY DEF PaidUsage, Following
<1>2. \A f : Sum(f, {}) = 0
  <2>1. ASSUME NEW f PROVE Sum(f, {}) = 0
    <3>1. IsFiniteSet({}) /\ \A x \in {} : f[x] \in Int BY FS_EmptySet
    <3> QED BY <3>1, SumFits
  <2> QED BY <2>1
<1> QED BY <1>1, <1>2 DEF UsageOf, CostOf

\* What was paid for in a home is a part of what its meters counted.
LEMMA HomePaid ==
  ASSUME LogsFit, OneMeter, NEW a, NEW u, NEW c,
         u = [m \in Electric |-> meter_stats(a, m).usage], c = [m \in Electric |-> meter_stats(a, m).cost]
  PROVE  LET r == Readings(a, Electric) IN
         /\ UsageOf(r, PaidUsage(r)) \in Int /\ CostOf(PaidUsage(r)) \in Int
         /\ Sum(u, Electric) \in Nat /\ Sum(c, Electric) \in Nat
         /\ UsageOf(r, PaidUsage(r)) <= Sum(u, Electric) /\ CostOf(PaidUsage(r)) <= Sum(c, Electric)
<1>1. PICK r : r = Readings(a, Electric) OBVIOUS
<1>2. r \in SUBSET logs /\ \A l \in r : l.reading \in Int BY <1>1, ReadingsFit
<1>3. UsageOf(r, PaidUsage(r)) \in Int /\ CostOf(PaidUsage(r)) \in Nat BY <1>2, UsageFits
<1>4. \A m \in Electric : u[m] \in Nat /\ c[m] \in Nat
  <2> SUFFICES ASSUME NEW m \in Electric PROVE u[m] \in Nat /\ c[m] \in Nat OBVIOUS
  <2>1. PICK q : q = Readings(a, {m}) OBVIOUS
  <2>2. q \in SUBSET logs /\ \A l \in q : l.reading \in Int BY <2>1, ReadingsFit
  <2>3. UsageOf(q, Counted(q)) \in Nat /\ CostOf(Counted(q)) \in Nat BY <2>2, UsageFits
  <2> QED BY <2>1, <2>3 DEF meter_stats
<1>5. IsFiniteSet(Electric)
  <2>1. IsFiniteSet({"electricity"}) BY FS_Singleton
  <2>2. IsFiniteSet({"electricity"} \cup {"electric heating"}) BY <2>1, FS_AddElement
  <2>3. Electric = {"electricity"} \cup {"electric heating"} BY DEF Electric
  <2> QED BY <2>2, <2>3
<1>6. Sum(u, Electric) \in Nat /\ Sum(c, Electric) \in Nat BY <1>4, <1>5, SumGrows
<1>7. UsageOf(r, PaidUsage(r)) <= Sum(u, Electric) /\ CostOf(PaidUsage(r)) <= Sum(c, Electric)
  <2>1. CASE r = {} BY <1>6, <2>1, NothingRead
  <2>2. CASE r # {}
    <3>1. PICK l \in r : TRUE BY <2>2
    <3>2. PICK m \in Electric : m = l.meter BY <1>1, <3>1 DEF Readings
    <3>3. r = Readings(a, {m})
      <4>1. \A k \in r : k.meter = m
        <5>1. \A k \in r : k \in logs /\ k.asset = a /\ k.meter \in Electric BY <1>1 DEF Readings, LogsOf
        <5> QED BY <3>1, <3>2, <5>1 DEF OneMeter
      <4> QED BY <1>1, <3>2, <4>1 DEF Readings
    <3>4. u[m] = UsageOf(r, Counted(r)) /\ c[m] = CostOf(Counted(r)) BY <3>3 DEF meter_stats
    <3>5. UsageOf(r, PaidUsage(r)) <= u[m] /\ CostOf(PaidUsage(r)) <= c[m] BY <1>2, <3>4, UsageFits
    <3>6. Sum(u, {m}) <= Sum(u, Electric) /\ Sum(c, {m}) <= Sum(c, Electric)
      <4>1. {m} \in SUBSET Electric OBVIOUS
      <4>2. Sum(u, {m}) <= Sum(u, Electric) BY <1>4, <1>5, <4>1, SumGrows
      <4>3. Sum(c, {m}) <= Sum(c, Electric) BY <1>4, <1>5, <4>1, SumGrows
      <4> QED BY <4>2, <4>3
    <3>7. Sum(u, {m}) = u[m] /\ Sum(c, {m}) = c[m] BY <1>4, SumOfOne
    <3> QED BY <1>3, <1>4, <1>6, <3>5, <3>6, <3>7
  <2> QED BY <2>1, <2>2
<1> QED BY <1>1, <1>3, <1>6, <1>7

\* The price of electricity is of usage the homes have counted.
LEMMA PriceHolds == ASSUME LogsFit, OneMeter PROVE PriceOfUsage
<1>1. PICK r : r = [a \in Assets |-> Readings(a, Electric)] OBVIOUS
<1>2. PICK f : f = [a \in Assets |-> UsageOf(r[a], PaidUsage(r[a]))] OBVIOUS
<1>3. PICK g : g = [a \in Assets |-> Sum([m \in Electric |-> meter_stats(a, m).usage], Electric)] OBVIOUS
<1>4. PICK p : p = [a \in Assets |-> CostOf(PaidUsage(r[a]))] OBVIOUS
<1>5. PICK q : q = [a \in Assets |-> Sum([m \in Electric |-> meter_stats(a, m).cost], Electric)] OBVIOUS
<1>6. ASSUME NEW a \in Assets
      PROVE  f[a] \in Int /\ g[a] \in Nat /\ p[a] \in Int /\ q[a] \in Nat /\ f[a] <= g[a] /\ p[a] <= q[a]
  <2>1. PICK u : u = [m \in Electric |-> meter_stats(a, m).usage] OBVIOUS
  <2>2. PICK c : c = [m \in Electric |-> meter_stats(a, m).cost] OBVIOUS
  <2>3. PICK x : x = Readings(a, Electric) OBVIOUS
  <2>4. f[a] = UsageOf(x, PaidUsage(x)) /\ p[a] = CostOf(PaidUsage(x)) BY <1>1, <1>2, <1>4, <2>3
  <2>5. g[a] = Sum(u, Electric) /\ q[a] = Sum(c, Electric) BY <1>3, <1>5, <2>1, <2>2
  <2> QED BY <2>1, <2>2, <2>3, <2>4, <2>5, HomePaid
<1>7. IsFiniteSet(Assets) /\ Assets \in SUBSET Assets BY AssetsAssumption
<1>8. Sum(f, Assets) <= Sum(g, Assets) BY <1>6, <1>7, SumGrows
<1>9. Sum(p, Assets) <= Sum(q, Assets) BY <1>6, <1>7, SumGrows
<1>10. derive_unit_price.usage = Sum(f, Assets) /\ derive_unit_price.cost = Sum(p, Assets)
  BY <1>1, <1>2, <1>4 DEF derive_unit_price
<1> QED BY <1>3, <1>5, <1>8, <1>9, <1>10 DEF PriceOfUsage

\* Whatever entries come and go, in whatever order, the segments of a car are whole and
\* cost no more than its fuel, and the price of electricity is of usage that was counted
\* (car_stats, derive_unit_price).
THEOREM LogsTheorem == Spec => []LogsAddUp
<1>1. Init => LogsFit BY LogsInit
<1>2. LogsFit /\ [Next]_vars => LogsFit' BY LogsKept
<1>3. LogsFit => LogsAddUp
  <2> SUFFICES ASSUME LogsFit PROVE LogsAddUp OBVIOUS
  <2>1. ASSUME NEW a \in Assets
        PROVE  car_stats(a).segment_cost <= car_stats(a).fuel_cost /\ car_stats(a).fuel_cost <= CostOf(LogsOf(a))
    <3>1. LogsOf(a) \in SUBSET logs /\ Refuels(a) \in SUBSET LogsOf(a) /\ Refuels(a) \in SUBSET logs
      BY DEF Refuels, LogsOf
    <3>2. Segments(a) \in SUBSET Refuels(a) BY DEF Segments, Following, Fills
    <3>3. CostOf(Segments(a)) <= CostOf(Refuels(a)) BY <3>1, <3>2, CostsFit
    <3>4. CostOf(Refuels(a)) <= CostOf(LogsOf(a)) BY <3>1, CostsFit
    <3>5. car_stats(a).segment_cost = CostOf(Segments(a)) /\ car_stats(a).fuel_cost = CostOf(Refuels(a))
      BY DEF car_stats
    <3> QED BY <3>3, <3>4, <3>5
  <2> QED BY <2>1, TanksHold, PriceHolds DEF LogsAddUp
<1> QED BY <1>1, <1>2, <1>3, PTL DEF Spec
===============================================================================
