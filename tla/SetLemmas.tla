----------------------------- MODULE SetLemmas -----------------------------
(***************************************************************************)
(* Facts about sets of numbers and sequences that the proofs of several    *)
(* components rest on.                                                     *)
(***************************************************************************)
EXTENDS Integers, Sequences, FiniteSetTheorems, WellFoundedInduction, TLAPS

(* Every non-empty set of naturals has a least element.                    *)
LEMMA LeastElement ==
    ASSUME NEW S \in SUBSET Nat, S # {}
    PROVE  \E m \in S : \A x \in S : m <= x
<1> DEFINE R == OpToRel(<, Nat)
<1>1. IsWellFoundedOn(R, Nat)
  BY NatLessThanWellFounded
<1>2. \A x, y \in Nat : x < y => <<x, y>> \in R
  BY DEF OpToRel
<1> HIDE DEF R
<1>3. PICK m \in S : \A y \in S : ~(<<y, m>> \in R)
  BY <1>1, WFMin
<1>4. \A x \in S : m <= x
  <2> TAKE x \in S
  <2>1. ~(x < m)
    BY <1>2, <1>3
  <2>2. x \in Nat /\ m \in Nat
    OBVIOUS
  <2> QED BY <2>1, <2>2
<1> QED BY <1>4

(* Every non-empty set of naturals with an upper bound has a greatest      *)
(* element: the one whose distance from the bound is the least.            *)
LEMMA GreatestElement ==
    ASSUME NEW n \in Nat, NEW S \in SUBSET Nat, S # {}, \A x \in S : x <= n
    PROVE  \E m \in S : \A x \in S : x <= m
<1> DEFINE D == {n - x : x \in S}
<1>1. /\ \A x \in S : n - x \in Nat
      /\ D \in SUBSET Nat /\ D # {}
  <2>1. \A x \in S : x \in Nat /\ x <= n
    OBVIOUS
  <2>2. \A x \in S : n - x \in Nat
    BY <2>1
  <2> QED BY <2>2
<1>2. PICK d \in D : \A y \in D : d <= y
  <2> HIDE DEF D
  <2> QED BY <1>1, LeastElement
<1>3. PICK m \in S : d = n - m
  OBVIOUS
<1>4. \A x \in S : x <= m
  <2> TAKE x \in S
  <2>1. n - m <= n - x
    BY <1>2, <1>3 DEF D
  <2>2. x \in Nat /\ m \in Nat
    OBVIOUS
  <2> QED BY <2>1, <2>2
<1> QED BY <1>4

-----------------------------------------------------------------------------
(***************************************************************************)
(* Finite sets in order.                                                   *)
(***************************************************************************)

(* R, a set of pairs, orders S strictly and without ties.                  *)
Orders(R, S) ==
    /\ \A x, y \in S : x # y => <<x, y>> \in R \/ <<y, x>> \in R
    /\ \A x, y, z \in S : <<x, y>> \in R /\ <<y, z>> \in R => <<x, z>> \in R
    /\ \A x \in S : <<x, x>> \notin R

(* A function that lists n elements without repeating one lists every      *)
(* element of a set of n.                                                  *)
LEMMA ListsAll ==
    ASSUME NEW S, IsFiniteSet(S), NEW s \in [1..Cardinality(S) -> S],
           \A i, j \in 1..Cardinality(S) : i < j => s[i] # s[j]
    PROVE  \A x \in S : \E i \in 1..Cardinality(S) : s[i] = x
<1> DEFINE n == Cardinality(S)
<1>1. n \in Nat
  BY FS_CardinalityType
<1>2. s \in Injection(1..n, S)
  <2>1. ASSUME NEW i \in 1..n, NEW j \in 1..n, s[i] = s[j]
        PROVE  i = j
    <3>1. ~(i < j) /\ ~(j < i)
      BY <2>1
    <3>2. i \in Int /\ j \in Int
      BY <1>1
    <3> QED BY <3>1, <3>2
  <2> QED BY <2>1 DEF Injection, IsInjective
<1>3. IsFiniteSet(1..n) /\ Cardinality(1..n) = n
  BY <1>1, FS_Interval
<1>4. s \in Surjection(1..n, S)
  BY <1>2, <1>3, FS_Injection
<1> QED BY <1>4 DEF Surjection

(* Every finite set has an enumeration in a strict order: an element comes *)
(* after as many others as precede it.                                     *)
LEMMA Enumeration ==
    ASSUME NEW S, IsFiniteSet(S), NEW R, Orders(R, S)
    PROVE  \E s \in [1..Cardinality(S) -> S] :
             \A i, j \in 1..Cardinality(S) : i < j => <<s[i], s[j]>> \in R
<1> DEFINE n == Cardinality(S)
           Less(x) == {y \in S : <<y, x>> \in R}
           rank == [x \in S |-> Cardinality(Less(x)) + 1]
<1>1. n \in Nat /\ IsFiniteSet(1..n) /\ Cardinality(1..n) = n
  BY FS_CardinalityType, FS_Interval
<1>2. ASSUME NEW x \in S
      PROVE  /\ IsFiniteSet(Less(x)) /\ Cardinality(Less(x)) \in Nat
             /\ Cardinality(Less(x)) < n
  <2>1. /\ IsFiniteSet(Less(x)) /\ Cardinality(Less(x)) <= n
        /\ (Cardinality(S) = Cardinality(Less(x)) => S = Less(x))
    BY FS_Subset
  <2>2. Cardinality(Less(x)) \in Nat
    BY <2>1, FS_CardinalityType
  <2>3. x \notin Less(x)
    BY DEF Orders
  <2>4. Cardinality(Less(x)) # n
    BY <2>1, <2>3
  <2> QED BY <2>1, <2>2, <2>4, <1>1
<1>3. ASSUME NEW x \in S, NEW y \in S, <<x, y>> \in R
      PROVE  Cardinality(Less(x)) < Cardinality(Less(y))
  <2>1. Less(x) \subseteq Less(y) /\ x \in Less(y) /\ x \notin Less(x)
    BY <1>3 DEF Orders
  <2>2. /\ Cardinality(Less(x)) <= Cardinality(Less(y))
        /\ (Cardinality(Less(y)) = Cardinality(Less(x)) => Less(y) = Less(x))
    <3>1. IsFiniteSet(Less(y)) /\ Less(x) \in SUBSET Less(y)
      BY <2>1, <1>2
    <3> HIDE DEF Less
    <3> QED BY <3>1, FS_Subset
  <2>3. Less(y) # Less(x)
    BY <2>1
  <2>4. Cardinality(Less(x)) \in Nat /\ Cardinality(Less(y)) \in Nat
    BY <1>2
  <2> HIDE DEF Less
  <2> QED BY <2>2, <2>3, <2>4
<1> HIDE DEF Less
<1>4. rank \in [S -> 1..n]
  BY <1>1, <1>2
<1>5. \A x, y \in S : <<x, y>> \in R => rank[x] < rank[y]
  BY <1>2, <1>3
<1>6. \A x \in S : rank[x] \in Nat
  BY <1>2
<1> HIDE DEF rank
<1>7. rank \in Injection(S, 1..n)
  <2>1. ASSUME NEW x \in S, NEW y \in S, rank[x] = rank[y]
        PROVE  x = y
    <3>1. ~(rank[x] < rank[y]) /\ ~(rank[y] < rank[x])
      BY <2>1, <1>6
    <3>2. <<x, y>> \notin R /\ <<y, x>> \notin R
      BY <3>1, <1>5
    <3> QED BY <3>2 DEF Orders
  <2>2. DOMAIN rank = S
    BY <1>4
  <2> QED BY <1>4, <2>1, <2>2 DEF Injection, IsInjective
<1>8. \A i \in 1..n : \E x \in S : rank[x] = i
  <2>1. rank \in Surjection(S, 1..n)
    BY <1>1, <1>7, FS_Injection
  <2> QED BY <2>1 DEF Surjection
<1> DEFINE s == [i \in 1..n |-> CHOOSE x \in S : rank[x] = i]
<1>9. \A i \in 1..n : s[i] \in S /\ rank[s[i]] = i
  BY <1>8
<1>10. s \in [1..n -> S]
  BY <1>9
<1> HIDE DEF s
<1>11. ASSUME NEW i \in 1..n, NEW j \in 1..n, i < j
       PROVE  <<s[i], s[j]>> \in R
  <2>1. /\ s[i] \in S /\ s[j] \in S /\ rank[s[i]] = i /\ rank[s[j]] = j
    BY <1>9
  <2>2. ~(<<s[j], s[i]>> \in R) /\ s[i] # s[j]
    BY <2>1, <1>5, <1>11, <1>1
  <2> QED BY <2>1, <2>2 DEF Orders
<1> QED BY <1>10, <1>11

(* A non-empty finite set of naturals has a greatest element.              *)
LEMMA GreatestOfFinite ==
    ASSUME NEW S \in SUBSET Nat, S # {}, IsFiniteSet(S)
    PROVE  \E m \in S : \A x \in S : x <= m
<1> DEFINE n == Cardinality(S)
           R == {xy \in S \X S : xy[1] < xy[2]}
<1>1. \A x, y \in S : <<x, y>> \in R <=> x < y
  OBVIOUS
<1> HIDE DEF R
<1>2. Orders(R, S)
  BY <1>1 DEF Orders
<1>3. PICK s \in [1..n -> S] : \A i, j \in 1..n : i < j => <<s[i], s[j]>> \in R
  BY <1>2, Enumeration
<1>4. n \in Nat /\ n # 0
  BY FS_CardinalityType, FS_EmptySet
<1>5. \A i, j \in 1..n : i < j => s[i] < s[j]
  BY <1>1, <1>3
<1>6. \A x \in S : \E i \in 1..n : s[i] = x
  <2>1. \A i, j \in 1..n : i < j => s[i] # s[j]
    <3>1. \A i \in 1..n : s[i] \in Nat
      BY <1>3
    <3>2. \A a, b \in Nat : a < b => a # b
      OBVIOUS
    <3> HIDE DEF n
    <3> QED BY <3>1, <3>2, <1>5
  <2> QED BY <2>1, ListsAll
<1>7. n \in 1..n /\ s[n] \in S
  BY <1>4
<1>8. \A x \in S : x <= s[n]
  <2> SUFFICES ASSUME NEW x \in S PROVE x <= s[n]
    OBVIOUS
  <2>1. PICK i \in 1..n : s[i] = x
    BY <1>6
  <2>2. i < n \/ i = n
    BY <1>4
  <2>3. x \in Nat /\ s[n] \in Nat
    BY <1>7
  <2> QED BY <2>1, <2>2, <2>3, <1>5, <1>7
<1> QED BY <1>7, <1>8

(* A list is as long as the set of what it lists, at least ...             *)
LEMMA ListBound ==
    ASSUME NEW n \in Nat, NEW f, NEW S, \A x \in S : \E i \in 1..n : f[i] = x
    PROVE  IsFiniteSet(S) /\ Cardinality(S) <= n
<1> DEFINE T == {f[i] : i \in 1..n}
           g == [i \in 1..n |-> f[i]]
<1>1. IsFiniteSet(1..n) /\ Cardinality(1..n) = n
  BY FS_Interval
<1>2. g \in Surjection(1..n, T)
  BY DEF Surjection
<1>3. IsFiniteSet(T) /\ Cardinality(T) <= n
  <2> HIDE DEF T, g
  <2> QED BY <1>1, <1>2, FS_Surjection
<1>4. S \in SUBSET T
  OBVIOUS
<1> HIDE DEF T
<1>5. IsFiniteSet(S) /\ Cardinality(S) <= Cardinality(T)
  BY <1>3, <1>4, FS_Subset
<1>6. Cardinality(S) \in Nat /\ Cardinality(T) \in Nat
  BY <1>3, <1>5, FS_CardinalityType
<1> QED BY <1>3, <1>5, <1>6

(* ... and not longer, if it lists nothing twice.                          *)
LEMMA ListInjective ==
    ASSUME NEW n \in Nat, NEW f, NEW S, IsFiniteSet(S),
           \A i \in 1..n : f[i] \in S,
           \A i, j \in 1..n : i < j => f[i] # f[j]
    PROVE  n <= Cardinality(S)
<1> DEFINE g == [i \in 1..n |-> f[i]]
<1>1. IsFiniteSet(1..n) /\ Cardinality(1..n) = n
  BY FS_Interval
<1>2. g \in Injection(1..n, S)
  <2>1. g \in [1..n -> S] /\ \A i \in 1..n : g[i] = f[i]
    OBVIOUS
  <2>2. \A i, j \in 1..n : i < j \/ j < i \/ i = j
    OBVIOUS
  <2> HIDE DEF g
  <2>3. ASSUME NEW i \in 1..n, NEW j \in 1..n, g[i] = g[j]
        PROVE  i = j
    BY <2>1, <2>2, <2>3
  <2> QED BY <2>1, <2>3 DEF Injection, IsInjective
<1> HIDE DEF g
<1> QED BY <1>1, <1>2, FS_Injection

=============================================================================
