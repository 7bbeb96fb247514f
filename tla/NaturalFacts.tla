---------------------------- MODULE NaturalFacts ----------------------------
(***************************************************************************)
(* Induction over the natural numbers in the form the proofs use it: a set *)
(* of them that is not empty has a least element, and a largest one if it  *)
(* is bounded.                                                             *)
(***************************************************************************)
EXTENDS Integers, FiniteSetTheorems, WellFoundedInduction, TLAPS

(* The intervals below the members of the set are finite, and among finite *)
(* sets inclusion is well founded: one of them includes no other.          *)
LEMMA LeastNumber ==
  ASSUME NEW S \in SUBSET Nat, S # {}
  PROVE  \E n \in S : \A m \in S : n <= m
  <1> DEFINE Below == {0..n : n \in S}
             Order == StrictSubsetOrdering(Nat)
  <1>1. Below \subseteq FiniteSubsetsOf(Nat)
    <2>1. ASSUME NEW n \in S PROVE 0..n \in SUBSET Nat /\ IsFiniteSet(0..n)
      <3>1. 0 \in Int /\ n \in Int
        OBVIOUS
      <3> QED BY <3>1, FS_Interval
    <2> QED BY <2>1 DEF FiniteSubsetsOf
  <1>2. IsWellFoundedOn(Order, FiniteSubsetsOf(Nat))
    BY FS_StrictSubsetOrderingWellFounded
  <1>3. Below # {}
    OBVIOUS
  <1>4. PICK I \in Below : \A J \in Below : <<J, I>> \notin Order
    <2> HIDE DEF Below, Order
    <2> QED BY <1>1, <1>2, <1>3, WFMin
  <1>5. PICK n \in S : I = 0..n
    BY <1>4
  <1>6. ASSUME NEW m \in S, m < n PROVE FALSE
    <2>1. 0..m \in Below /\ 0..m \subseteq 0..n /\ n \in 0..n /\ n \notin 0..m
      BY <1>6
    <2>2. <<0..m, I>> \in Order
      BY <1>5, <2>1 DEF StrictSubsetOrdering
    <2> QED BY <1>4, <2>1, <2>2
  <1> QED BY <1>6

LEMMA LargestNumber ==
  ASSUME NEW k \in Nat, NEW S \in SUBSET (1..k), S # {}
  PROVE  \E n \in S : \A m \in S : m <= n
  <1> DEFINE Rest == {k - n : n \in S}
  <1>1. PICK r \in Rest : \A q \in Rest : r <= q
    <2>1. Rest \in SUBSET Nat
      <3>1. ASSUME NEW n \in S PROVE k - n \in Nat
        <4>1. n \in 1..k
          OBVIOUS
        <4> QED BY <4>1
      <3> QED BY <3>1
    <2>2. Rest # {}
      <3>1. PICK n \in S : TRUE
        OBVIOUS
      <3>2. k - n \in Rest
        OBVIOUS
      <3> QED BY <3>2
    <2> HIDE DEF Rest
    <2> QED BY <2>1, <2>2, LeastNumber
  <1>2. PICK n \in S : r = k - n
    BY <1>1
  <1>3. ASSUME NEW m \in S PROVE m <= n
    <2>1. r <= k - m
      BY <1>1
    <2> QED BY <1>2, <2>1
  <1> QED BY <1>3

(* A finite set of numbers can be listed from its least member up, and a   *)
(* list of as many members as it has is of all of them.                    *)
LEMMA Listing ==
  ASSUME NEW S \in SUBSET Nat, IsFiniteSet(S)
  PROVE  \E f \in [1..Cardinality(S) -> S] :
            \A i, j \in 1..Cardinality(S) : i < j => f[i] < f[j]
  <1> DEFINE Listed(T) == \E f \in [1..Cardinality(T) -> T] :
                             \A i, j \in 1..Cardinality(T) : i < j => f[i] < f[j]
             Unlisted(n) == {T \in SUBSET Nat : IsFiniteSet(T) /\ Cardinality(T) = n /\ ~Listed(T)}
             Bad == {n \in Nat : Unlisted(n) # {}}
  <1> SUFFICES ASSUME ~Listed(S) PROVE FALSE
    OBVIOUS
  <1>1. Cardinality(S) \in Nat
    BY FS_CardinalityType
  <1>2. Bad \in SUBSET Nat /\ Bad # {}
    <2>1. S \in Unlisted(Cardinality(S))
      OBVIOUS
    <2> HIDE DEF Unlisted
    <2> QED BY <1>1, <2>1
  <1>3. PICK n \in Bad : \A m \in Bad : n <= m
    <2> HIDE DEF Bad
    <2> QED BY <1>2, LeastNumber
  <1>4. PICK T \in SUBSET Nat : IsFiniteSet(T) /\ Cardinality(T) = n /\ ~Listed(T)
    OBVIOUS
  <1>5. n \in Nat
    BY <1>3
  <1>6. CASE n = 0
    <2>1. T = {}
      BY <1>4, <1>6, FS_EmptySet
    <2>2. 1..0 = {}
      OBVIOUS
    <2>3. [i \in {} |-> 0] \in [{} -> {}]
      OBVIOUS
    <2>4. \E f \in [{} -> {}] : \A i, j \in {} : i < j => f[i] < f[j]
      BY <2>3
    <2> QED BY <1>4, <1>6, <2>1, <2>2, <2>4
  <1>7. CASE n # 0
    <2>1. T # {}
      BY <1>4, <1>7, FS_EmptySet
    <2>2. PICK least \in T : \A m \in T : least <= m
      BY <2>1, LeastNumber
    <2> DEFINE U == T \ {least}
    <2>3. IsFiniteSet(U) /\ Cardinality(U) = n - 1 /\ U \in SUBSET Nat
      BY <1>4, FS_RemoveElement
    <2>4. Listed(U)
      <3>1. n - 1 \in Nat /\ n - 1 \notin Bad
        BY <1>3, <1>5, <1>7
      <3> HIDE DEF Listed, U
      <3> QED BY <2>3, <3>1
    <2>5. PICK g \in [1..(n - 1) -> U] : \A i, j \in 1..(n - 1) : i < j => g[i] < g[j]
      BY <2>3, <2>4
    <2> DEFINE f == [i \in 1..n |-> IF i = 1 THEN least ELSE g[i - 1]]
    <2>6. \A i \in 1..n : i # 1 => i - 1 \in 1..(n - 1) /\ g[i - 1] \in U
      BY <1>5, <2>5
    <2>7. f \in [1..n -> T]
      BY <2>6
    <2>8. ASSUME NEW i \in 1..n, NEW j \in 1..n, i < j PROVE f[i] < f[j]
      <3>1. j # 1 /\ f[j] = g[j - 1] /\ j - 1 \in 1..(n - 1) /\ g[j - 1] \in U
        BY <1>5, <2>6, <2>8
      <3>2. CASE i = 1
        <4>1. f[i] = least
          BY <3>2
        <4>2. least <= g[j - 1] /\ g[j - 1] # least /\ g[j - 1] \in Nat /\ least \in Nat
          BY <2>2, <3>1
        <4>3. least < g[j - 1]
          BY <4>2
        <4> QED BY <3>1, <4>1, <4>3
      <3>3. CASE i # 1
        <4>1. i - 1 \in 1..(n - 1) /\ i - 1 < j - 1 /\ f[i] = g[i - 1]
          BY <1>5, <2>6, <2>8, <3>3
        <4> QED BY <2>5, <3>1, <4>1
      <3> QED BY <3>2, <3>3
    <2> HIDE DEF f
    <2> QED BY <1>4, <2>7, <2>8
  <1> QED BY <1>6, <1>7

LEMMA ListsAll ==
  ASSUME NEW S \in SUBSET Nat, IsFiniteSet(S), NEW f \in [1..Cardinality(S) -> S],
         \A i, j \in 1..Cardinality(S) : i < j => f[i] < f[j]
  PROVE  \A s \in S : \E i \in 1..Cardinality(S) : f[i] = s
  <1>1. Cardinality(S) \in Nat
    BY FS_CardinalityType
  <1>2. ASSUME NEW i \in 1..Cardinality(S), NEW j \in 1..Cardinality(S), f[i] = f[j]
        PROVE  i = j
    <2>1. f[i] \in Nat /\ f[j] \in Nat
      OBVIOUS
    <2> DEFINE a == f[i]  b == f[j]
    <2>2. ~(a < b) /\ ~(b < a)
      <3>1. a \in Nat /\ a = b
        BY <1>2, <2>1
      <3> HIDE DEF a, b
      <3> QED BY <3>1
    <2>3. ~(i < j) /\ ~(j < i)
      BY <2>2
    <2> QED BY <1>1, <2>3
  <1>3. f \in Injection(1..Cardinality(S), S)
    BY <1>2 DEF Injection, IsInjective
  <1>4. Cardinality(1..Cardinality(S)) = Cardinality(S)
    BY <1>1, FS_Interval
  <1>5. f \in Surjection(1..Cardinality(S), S)
    BY <1>3, <1>4, FS_Injection
  <1> QED BY <1>5 DEF Surjection

=============================================================================
