------------------------------ MODULE NatFacts ------------------------------
(* Facts about natural numbers, and about sums over finite sets, that the   *)
(* proofs of several modules cite.                                         *)
EXTENDS Integers, FiniteSetsExt, FiniteSetTheorems, WellFoundedInduction, TLAPS

\* A nonempty set of natural numbers has a least element.
LEMMA LeastElement ==
  ASSUME NEW T \in SUBSET Nat, T # {}
  PROVE  \E x \in T : \A y \in T : x <= y
<1>1. \E R : IsWellFoundedOn(R, Nat) /\ \A x, y \in Nat : y < x => <<y, x>> \in R
  <2>1. IsWellFoundedOn(OpToRel(<, Nat), Nat)
    BY NatLessThanWellFounded
  <2>2. \A x, y \in Nat : y < x => <<y, x>> \in OpToRel(<, Nat)
    BY DEF OpToRel
  <2> WITNESS OpToRel(<, Nat)
  <2> QED
    BY <2>1, <2>2
<1>2. PICK R : IsWellFoundedOn(R, Nat) /\ \A x, y \in Nat : y < x => <<y, x>> \in R
  BY <1>1
<1>3. PICK x \in T : \A y \in T : ~(<<y, x>> \in R)
  BY <1>2, WFMin
<1>4. \A y \in T : x <= y
  <2> TAKE y \in T
  <2>1. x \in Nat /\ y \in Nat
    OBVIOUS
  <2>2. ~(y < x)
    BY <1>2, <1>3, <2>1, Zenon
  <2> QED
    BY <2>1, <2>2
<1> QED
  BY <1>4

\* A nonempty set of natural numbers with a bound has a greatest element.
LEMMA GreatestElement ==
  ASSUME NEW T \in SUBSET Nat, T # {}, NEW b \in Nat, \A x \in T : x <= b
  PROVE  \E x \in T : \A y \in T : y <= x
<1> DEFINE W == {n \in Nat : b - n \in T}
<1>1. PICK x : x \in T
  OBVIOUS
<1>2. b - x \in W
  BY <1>1
<1>3. PICK n \in W : \A m \in W : n <= m
  BY <1>2, LeastElement, W \in SUBSET Nat
<1>4. ASSUME NEW y \in T PROVE y <= b - n
  <2>1. b - y \in W
    OBVIOUS
  <2>2. n <= b - y
    BY <1>3, <2>1
  <2> QED
    BY <2>2
<1> QED
  BY <1>4

\* Quotient and remainder.
LEMMA DivMod ==
  ASSUME NEW a \in Nat, NEW q \in Nat \ {0}
  PROVE  /\ a \div q \in Nat /\ (a % q) \in 0 .. q - 1
         /\ a = (q * (a \div q)) + (a % q)
OBVIOUS

\* A multiple leaves no remainder.
LEMMA MultipleMod ==
  ASSUME NEW k \in Nat, NEW q \in Nat \ {0}
  PROVE  ((q * k) % q) = 0
<1> DEFINE r == (q * k) % q
           d == (q * k) \div q
<1>1. q * k \in Nat
  OBVIOUS
<1>2. d \in Nat /\ r \in 0 .. q - 1 /\ q * k = (q * d) + r
  BY <1>1, DivMod
<1> HIDE DEF r, d
<1>3. q * (k - d) = r
  BY <1>2
<1>4. ~(k - d >= 1)
  BY <1>2, <1>3
<1>5. ~(k - d <= -1)
  BY <1>2, <1>3
<1>6. r = 0
  BY <1>2, <1>3, <1>4, <1>5
<1> QED
  BY <1>6 DEF r

\* What multiples sum to.
LEMMA SumMod ==
  ASSUME NEW a \in Nat, NEW b \in Nat, NEW q \in Nat \ {0}, (a % q) = 0, (b % q) = 0
  PROVE  ((a + b) % q) = 0
<1> DEFINE i == a \div q
           j == b \div q
<1>1. i \in Nat /\ j \in Nat /\ a = q * i /\ b = q * j
  BY DivMod
<1>2. a + b = q * (i + j) /\ i + j \in Nat
  BY <1>1
<1> HIDE DEF i, j
<1> QED
  BY <1>2, MultipleMod

\* A multiple of a multiple.
LEMMA ProductMod ==
  ASSUME NEW a \in Nat, NEW k \in Nat, NEW q \in Nat \ {0}, (a % q) = 0
  PROVE  ((a * k) % q) = 0
<1> DEFINE i == a \div q
<1>1. i \in Nat /\ a = q * i
  BY DivMod
<1>2. i * k \in Nat /\ a * k = q * (i * k)
  BY <1>1
<1> HIDE DEF i
<1> QED
  BY <1>2, MultipleMod

\* There is one quotient.
LEMMA QuotientUnique ==
  ASSUME NEW a \in Nat, NEW q \in Nat \ {0}, NEW k \in Nat, NEW r \in 0 .. q - 1, a = (q * k) + r
  PROVE  a \div q = k
<1> DEFINE d == a \div q
           m == a % q
<1>1. d \in Nat /\ m \in 0 .. q - 1 /\ a = (q * d) + m
  BY DivMod
<1> HIDE DEF d, m
<1>2. q * (k - d) = m - r
  BY <1>1
<1>3. ~(k - d >= 1)
  BY <1>1, <1>2
<1>4. ~(k - d <= -1)
  BY <1>1, <1>2
<1> QED
  BY <1>1, <1>3, <1>4 DEF d

----------------------------------------------------------------------------
(* Sums over finite sets.  MapThenSumSet picks the elements one by one with  *)
(* CHOOSE, by recursion on the set; what follows is by induction on the      *)
(* number of elements, that is, from a least counterexample.                 *)

Pick(s) == CHOOSE x \in s : TRUE

SumOver(f, S) == MapThenSumSet(LAMBDA x : f[x], S)

\* g is the recursive function of the fold, on the subsets of D.
Adds(f, D, g) ==
  g = [s \in SUBSET D |-> IF s = {} THEN 0 ELSE f[Pick(s)] + g[s \ {Pick(s)}]]

LEMMA SumIsFold ==
  ASSUME NEW f, NEW S
  PROVE  SumOver(f, S) = (CHOOSE k : Adds(f, S, k))[S]
BY DEF SumOver, MapThenSumSet, MapThenFoldSet, Adds, Pick

LEMMA PickIn ==
  ASSUME NEW s, s # {}
  PROVE  Pick(s) \in s
BY DEF Pick

\* The recursion on the subsets of at most n elements.
UpTo(D, n) == {s \in SUBSET D : Cardinality(s) <= n}

AddsUpTo(f, D, n, g) ==
  g = [s \in UpTo(D, n) |-> IF s = {} THEN 0 ELSE f[Pick(s)] + g[s \ {Pick(s)}]]

LEMMA SmallerSet ==
  ASSUME NEW D, IsFiniteSet(D), NEW s \in SUBSET D, s # {}
  PROVE  /\ s \ {Pick(s)} \in SUBSET D
         /\ Cardinality(s) \in Nat \ {0}
         /\ Cardinality(s \ {Pick(s)}) = Cardinality(s) - 1
<1>1. IsFiniteSet(s) /\ Pick(s) \in s
  BY FS_Subset, PickIn
<1> QED
  BY <1>1, FS_RemoveElement, FS_CardinalityType, FS_EmptySet

LEMMA FoldExistsUpTo ==
  ASSUME NEW D, IsFiniteSet(D), NEW f
  PROVE  \A n \in Nat : \E g : AddsUpTo(f, D, n, g)
<1> DEFINE W == {n \in Nat : ~\E g : AddsUpTo(f, D, n, g)}
<1> SUFFICES ASSUME W # {} PROVE FALSE
  OBVIOUS
<1>1. PICK n \in W : \A m \in W : n <= m
  BY LeastElement, W \in SUBSET Nat
<1>2. CASE n = 0
  <2> DEFINE g == [s \in UpTo(D, 0) |-> 0]
  <2>1. ASSUME NEW s \in UpTo(D, 0) PROVE s = {}
    <3>1. s \in SUBSET D /\ Cardinality(s) <= 0
      BY DEF UpTo
    <3>2. IsFiniteSet(s) /\ Cardinality(s) \in Nat
      BY <3>1, FS_Subset, FS_CardinalityType
    <3> QED
      BY <3>1, <3>2, FS_EmptySet
  <2>2. AddsUpTo(f, D, 0, g)
    BY <2>1 DEF AddsUpTo
  <2> QED
    BY <1>2, <2>2
<1>3. CASE n # 0
  <2>1. n - 1 \in Nat /\ n \in Nat /\ n - 1 \notin W
    BY <1>1, <1>3
  <2>2. PICK h : AddsUpTo(f, D, n - 1, h)
    BY <2>1
  <2> DEFINE g == [s \in UpTo(D, n) |-> IF s = {} THEN 0 ELSE f[Pick(s)] + h[s \ {Pick(s)}]]
  <2>3. ASSUME NEW s \in UpTo(D, n - 1) PROVE g[s] = h[s]
    <3>1. s \in UpTo(D, n)
      BY <2>1, FS_CardinalityType, FS_Subset DEF UpTo
    <3>2. h[s] = IF s = {} THEN 0 ELSE f[Pick(s)] + h[s \ {Pick(s)}]
      BY <2>2 DEF AddsUpTo
    <3> QED
      BY <3>1, <3>2
  <2>4. ASSUME NEW s \in UpTo(D, n), s # {} PROVE s \ {Pick(s)} \in UpTo(D, n - 1)
    BY <2>1, <2>4, SmallerSet DEF UpTo
  <2>5. ASSUME NEW s \in UpTo(D, n), s # {} PROVE g[s \ {Pick(s)}] = h[s \ {Pick(s)}]
    BY <2>3, <2>4, <2>5
  <2>6. AddsUpTo(f, D, n, g)
    BY <2>5 DEF AddsUpTo
  <2> QED
    BY <1>1, <2>6
<1> QED
  BY <1>2, <1>3

LEMMA FoldExists ==
  ASSUME NEW D, IsFiniteSet(D), NEW f
  PROVE  \E g : Adds(f, D, g)
<1>1. Cardinality(D) \in Nat
  BY FS_CardinalityType
<1>2. UpTo(D, Cardinality(D)) = SUBSET D
  BY FS_Subset DEF UpTo
<1>3. PICK g : AddsUpTo(f, D, Cardinality(D), g)
  BY <1>1, FoldExistsUpTo
<1> QED
  BY <1>2, <1>3 DEF Adds, AddsUpTo

\* The folds of two sets agree on the subsets they share.
LEMMA FoldsAgree ==
  ASSUME NEW f, NEW D, NEW E, IsFiniteSet(D), IsFiniteSet(E),
         NEW g, NEW h, Adds(f, D, g), Adds(f, E, h), NEW S, S \subseteq D, S \subseteq E
  PROVE  g[S] = h[S]
<1> DEFINE Bad == {t \in SUBSET S : g[t] # h[t]}
<1> DEFINE W == {n \in Nat : \E t \in Bad : Cardinality(t) = n}
<1> SUFFICES ASSUME S \in Bad PROVE FALSE
  OBVIOUS
<1>1. \A t \in SUBSET S : Cardinality(t) \in Nat
  BY FS_Subset, FS_CardinalityType
<1>2. W # {} /\ W \in SUBSET Nat
  BY <1>1
<1>3. PICK n \in W : \A m \in W : n <= m
  BY <1>2, LeastElement
<1>4. PICK t \in Bad : Cardinality(t) = n
  BY <1>3
<1>5. t \in SUBSET D /\ t \in SUBSET E
  OBVIOUS
<1>6. t # {}
  BY <1>4, <1>5 DEF Adds
<1> DEFINE r == t \ {Pick(t)}
<1>7. r \in SUBSET S /\ Cardinality(r) = n - 1 /\ n - 1 \in Nat
  BY <1>4, <1>5, <1>6, SmallerSet
<1>8. r \notin Bad
  BY <1>3, <1>7
<1>9. g[r] = h[r]
  BY <1>7, <1>8
<1>10. g[t] = f[Pick(t)] + g[r] /\ h[t] = f[Pick(t)] + h[r]
  BY <1>5, <1>6 DEF Adds
<1> QED
  BY <1>4, <1>9, <1>10

LEMMA SumEmpty ==
  ASSUME NEW f
  PROVE  SumOver(f, {}) = 0
<1>1. Adds(f, {}, CHOOSE k : Adds(f, {}, k))
  BY FoldExists, FS_EmptySet
<1> QED
  BY <1>1, SumIsFold DEF Adds

LEMMA SumPick ==
  ASSUME NEW f, NEW S, IsFiniteSet(S), S # {}
  PROVE  SumOver(f, S) = f[Pick(S)] + SumOver(f, S \ {Pick(S)})
<1> DEFINE r == S \ {Pick(S)}
<1> DEFINE g == CHOOSE k : Adds(f, S, k)
<1> DEFINE h == CHOOSE k : Adds(f, r, k)
<1>1. IsFiniteSet(r)
  BY FS_Subset
<1>2. Adds(f, S, g) /\ Adds(f, r, h)
  BY <1>1, FoldExists
<1>3. SumOver(f, S) = g[S] /\ SumOver(f, r) = h[r]
  BY SumIsFold
<1> HIDE DEF g, h
<1>4. g[r] = h[r]
  BY <1>1, <1>2, FoldsAgree
<1>5. g[S] = f[Pick(S)] + g[r]
  BY <1>2 DEF Adds
<1> QED
  BY <1>3, <1>4, <1>5

LEMMA SumNat ==
  ASSUME NEW D, NEW f \in [D -> Nat], NEW S \in SUBSET D, IsFiniteSet(S)
  PROVE  SumOver(f, S) \in Nat
<1> DEFINE W == {n \in Nat : \E t \in SUBSET S : Cardinality(t) = n /\ SumOver(f, t) \notin Nat}
<1> SUFFICES ASSUME SumOver(f, S) \notin Nat PROVE FALSE
  OBVIOUS
<1>1. W # {} /\ W \in SUBSET Nat
  BY FS_CardinalityType
<1>2. PICK n \in W : \A m \in W : n <= m
  BY <1>1, LeastElement
<1>3. PICK t \in SUBSET S : Cardinality(t) = n /\ SumOver(f, t) \notin Nat
  BY <1>2
<1>4. t # {} /\ IsFiniteSet(t)
  <2>1. SumOver(f, {}) \in Nat
    BY SumEmpty
  <2>2. t # {}
    BY <1>3, <2>1
  <2> QED
    BY <2>2, FS_Subset
<1> DEFINE r == t \ {Pick(t)}
<1>5. r \in SUBSET S /\ Cardinality(r) = n - 1 /\ n - 1 \in Nat
  BY <1>3, <1>4, SmallerSet
<1>6. SumOver(f, r) \in Nat
  BY <1>2, <1>5
<1>7. f[Pick(t)] \in Nat
  BY <1>4, PickIn
<1> QED
  BY <1>3, <1>4, <1>6, <1>7, SumPick

\* The order in which the elements are taken does not matter.
LEMMA SumRemove ==
  ASSUME NEW D, NEW f \in [D -> Nat], NEW S \in SUBSET D, IsFiniteSet(S), NEW x \in S
  PROVE  SumOver(f, S) = f[x] + SumOver(f, S \ {x})
<1> DEFINE Bad(t) == \E y \in t : SumOver(f, t) # f[y] + SumOver(f, t \ {y})
<1> DEFINE W == {n \in Nat : \E t \in SUBSET S : Cardinality(t) = n /\ Bad(t)}
<1> SUFFICES ASSUME Bad(S) PROVE FALSE
  OBVIOUS
<1>1. W # {} /\ W \in SUBSET Nat
  BY FS_CardinalityType
<1>2. PICK n \in W : \A m \in W : n <= m
  BY <1>1, LeastElement
<1>3. PICK t \in SUBSET S : Cardinality(t) = n /\ Bad(t)
  BY <1>2
<1>4. PICK y \in t : SumOver(f, t) # f[y] + SumOver(f, t \ {y})
  BY <1>3
<1> DEFINE p == Pick(t)
<1>5. t # {} /\ IsFiniteSet(t) /\ p \in t
  BY <1>4, FS_Subset, PickIn
<1>6. SumOver(f, t) = f[p] + SumOver(f, t \ {p})
  BY <1>5, SumPick
<1>7. p # y
  BY <1>4, <1>6
<1> DEFINE r == t \ {p}
<1>8. r \in SUBSET S /\ Cardinality(r) = n - 1 /\ n - 1 \in Nat /\ IsFiniteSet(r)
  BY <1>3, <1>5, SmallerSet, FS_Subset
<1>9. ~Bad(r)
  BY <1>2, <1>8
<1> DEFINE q == t \ {y}
<1>10. q \in SUBSET S /\ Cardinality(q) = n - 1 /\ IsFiniteSet(q)
  BY <1>3, <1>4, <1>5, FS_RemoveElement, FS_Subset
<1>11. ~Bad(q)
  BY <1>2, <1>8, <1>10
<1> HIDE DEF p
<1>12. SumOver(f, r) = f[y] + SumOver(f, r \ {y})
  BY <1>7, <1>9
<1>13. SumOver(f, q) = f[p] + SumOver(f, q \ {p})
  BY <1>5, <1>7, <1>11
<1>14. r \ {y} = q \ {p}
  OBVIOUS
<1>15. SumOver(f, r \ {y}) \in Nat
  BY <1>8, SumNat, FS_Subset, r \ {y} \in SUBSET D
<1>16. f[p] \in Nat /\ f[y] \in Nat
  BY <1>4, <1>5
<1> DEFINE rest == SumOver(f, r \ {y})
<1>17. rest \in Nat /\ SumOver(f, r) = f[y] + rest /\ SumOver(f, q) = f[p] + rest
  BY <1>12, <1>13, <1>14, <1>15
<1>18. SumOver(f, t) = f[p] + SumOver(f, r) /\ SumOver(f, t) # f[y] + SumOver(f, q)
  BY <1>4, <1>6
<1> HIDE DEF rest, r, q
<1> QED
  BY <1>16, <1>17, <1>18

LEMMA SumAdd ==
  ASSUME NEW D, NEW f \in [D -> Nat], NEW S \in SUBSET D, IsFiniteSet(S), NEW x \in D \ S
  PROVE  SumOver(f, S \cup {x}) = f[x] + SumOver(f, S)
<1>1. S \cup {x} \in SUBSET D /\ IsFiniteSet(S \cup {x}) /\ (S \cup {x}) \ {x} = S
  BY FS_AddElement
<1> QED
  BY <1>1, SumRemove

\* A set is worth what a part of it is and what is left.
LEMMA SumSplit ==
  ASSUME NEW D, NEW f \in [D -> Nat], NEW S \in SUBSET D, IsFiniteSet(S), NEW T \in SUBSET S
  PROVE  SumOver(f, S) = SumOver(f, T) + SumOver(f, S \ T)
<1> DEFINE Bad(t) == SumOver(f, S) # SumOver(f, t) + SumOver(f, S \ t)
<1> DEFINE W == {n \in Nat : \E t \in SUBSET S : Cardinality(t) = n /\ Bad(t)}
<1> SUFFICES ASSUME Bad(T) PROVE FALSE
  OBVIOUS
<1>0. IsFiniteSet(T)
  BY FS_Subset
<1>1. W # {} /\ W \in SUBSET Nat
  BY <1>0, FS_CardinalityType
<1>2. PICK n \in W : \A m \in W : n <= m
  BY <1>1, LeastElement
<1>3. PICK t \in SUBSET S : Cardinality(t) = n /\ Bad(t)
  BY <1>2
<1>4. t # {}
  BY <1>3, SumEmpty, SumNat, S \ {} = S
<1> DEFINE p == Pick(t)
<1> DEFINE r == t \ {p}
<1>5. IsFiniteSet(t) /\ p \in t /\ p \in S /\ p \in D
  BY <1>4, FS_Subset, PickIn
<1>6. r \in SUBSET S /\ Cardinality(r) = n - 1 /\ n - 1 \in Nat
  BY <1>3, <1>4, SmallerSet
<1>7. ~Bad(r)
  <2>1. n - 1 \notin W
    <3> HIDE DEF W, r
    <3>1. W \in SUBSET Nat /\ n \in Nat /\ n - 1 \in Nat
      BY <1>1, <1>6
    <3>2. ~(n <= n - 1)
      BY <3>1
    <3> QED
      BY <1>2, <3>2
  <2> HIDE DEF Bad
  <2> QED
    BY <1>6, <2>1
<1> HIDE DEF p
<1>8. SumOver(f, t) = f[p] + SumOver(f, r)
  BY <1>5, SumRemove
<1>9. S \ r \in SUBSET D /\ IsFiniteSet(S \ r) /\ p \in S \ r /\ (S \ r) \ {p} = S \ t
  BY <1>5, FS_Subset
<1>10. SumOver(f, S \ r) = f[p] + SumOver(f, S \ t)
  BY <1>9, SumRemove
<1>11. f[p] \in Nat /\ SumOver(f, r) \in Nat /\ SumOver(f, S \ t) \in Nat
  <2>1. r \in SUBSET D /\ IsFiniteSet(r) /\ S \ t \in SUBSET D /\ IsFiniteSet(S \ t)
    BY <1>6, FS_Subset
  <2> QED
    BY <2>1, <1>5, SumNat
<1> QED
  BY <1>3, <1>7, <1>8, <1>10, <1>11
=============================================================================
