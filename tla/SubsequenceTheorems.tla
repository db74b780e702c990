------------------------- MODULE SubsequenceTheorems -------------------------
(***************************************************************************)
(* What AtPlaces gives: the elements at the places asked for, each once    *)
(* and in their order; and what it gives for a sequence that grew.         *)
(***************************************************************************)
EXTENDS Subsequences, FiniteSetTheorems, WellFoundedInduction, TLAPS

(* A non-empty set of numbers has a least element.                         *)
LEMMA LeastPlace ==
    ASSUME NEW T \in SUBSET Nat, T # {}
    PROVE  \E m \in T : \A n \in T : m <= n
<1> DEFINE R == OpToRel(<, Nat)
<1>1. IsWellFoundedOn(R, Nat)
  BY NatLessThanWellFounded
<1>2. PICK m \in T : \A n \in T : ~ (<<n, m>> \in R)
  <2> HIDE DEF R
  <2> QED BY <1>1, WFMin
<1>3. \A n \in T : ~ (n < m)
  BY <1>2 DEF OpToRel
<1> QED BY <1>3

(* Ranks are numbers, grow with the place, and grow at the places of K.    *)
LEMMA RankType ==
    ASSUME NEW n \in Nat, NEW K \in SUBSET (1..n)
    PROVE  /\ IsFiniteSet(K) /\ Cardinality(K) \in Nat /\ Cardinality(K) <= n
           /\ \A i \in Int : Rank(K, i) \in Nat /\ Rank(K, i) <= Cardinality(K)
           /\ \A i \in Int : i >= n => Rank(K, i) = Cardinality(K)
           /\ \A i \in Int : i < 1 => Rank(K, i) = 0
<1>0. \A j \in K : j \in Int /\ 1 <= j /\ j <= n
  OBVIOUS
<1>1. IsFiniteSet(1..n) /\ Cardinality(1..n) = n
  BY FS_Interval
<1>2. IsFiniteSet(K) /\ Cardinality(K) <= n /\ Cardinality(K) \in Nat
  BY <1>1, FS_Subset, FS_CardinalityType
<1>3. ASSUME NEW i \in Int
      PROVE  Rank(K, i) \in Nat /\ Rank(K, i) <= Cardinality(K)
  <2> DEFINE S == {j \in K : j <= i}
  <2>1. S \in SUBSET K
    OBVIOUS
  <2> HIDE DEF S
  <2>2. IsFiniteSet(S) /\ Cardinality(S) <= Cardinality(K)
    BY <1>2, <2>1, FS_Subset
  <2>3. Cardinality(S) \in Nat
    BY <2>2, FS_CardinalityType
  <2> QED
    BY <2>2, <2>3 DEF Rank, S
<1>4. ASSUME NEW i \in Int, i >= n
      PROVE  Rank(K, i) = Cardinality(K)
  <2>0. ASSUME NEW j \in K
        PROVE  j <= i
    BY <1>0, <1>4
  <2>1. {j \in K : j <= i} = K
    BY <2>0, Zenon
  <2> QED
    BY <2>1 DEF Rank
<1>5. ASSUME NEW i \in Int, i < 1
      PROVE  Rank(K, i) = 0
  <2>0. ASSUME NEW j \in K, j <= i
        PROVE  FALSE
    BY <1>0, <1>5, <2>0
  <2>1. {j \in K : j <= i} = {}
    BY <2>0, Zenon
  <2> QED
    BY <2>1, FS_EmptySet DEF Rank
<1> QED
  BY <1>2, <1>3, <1>4, <1>5

LEMMA RankGrows ==
    ASSUME NEW n \in Nat, NEW K \in SUBSET (1..n), NEW i \in Int, NEW j \in Int, i <= j
    PROVE  /\ Rank(K, i) <= Rank(K, j)
           /\ j \in K /\ i < j => Rank(K, i) < Rank(K, j)
<1> DEFINE S == {m \in K : m <= i}
           T == {m \in K : m <= j}
<1>0. \A m \in K : m \in Int
  OBVIOUS
<1>1. IsFiniteSet(K)
  BY RankType
<1>2. S \in SUBSET T /\ T \in SUBSET K
  <2>1. ASSUME NEW m \in K, m <= i
        PROVE  m <= j
    BY <1>0, <2>1
  <2> QED
    BY <2>1, Zenon
<1>3. j \in K /\ i < j => S # T
  OBVIOUS
<1> HIDE DEF S, T
<1>4. IsFiniteSet(T)
  BY <1>1, <1>2, FS_Subset
<1>5. /\ Cardinality(S) <= Cardinality(T)
      /\ Cardinality(T) = Cardinality(S) => T = S
  BY <1>2, <1>4, FS_Subset
<1>6. Rank(K, i) = Cardinality(S) /\ Rank(K, j) = Cardinality(T)
  BY DEF Rank, S, T
<1>7. Rank(K, i) \in Nat /\ Rank(K, j) \in Nat
  BY RankType
<1> QED
  BY <1>3, <1>5, <1>6, <1>7

LEMMA RankStep ==
    ASSUME NEW n \in Nat, NEW K \in SUBSET (1..n), NEW i \in Int
    PROVE  Rank(K, i) = IF i \in K THEN Rank(K, i - 1) + 1 ELSE Rank(K, i - 1)
<1> DEFINE S == {m \in K : m <= i - 1}
           T == {m \in K : m <= i}
<1>0. \A m \in K : m \in Int
  OBVIOUS
<1>1. IsFiniteSet(K)
  BY RankType
<1>2. S \in SUBSET K /\ i \notin S /\ T = IF i \in K THEN S \cup {i} ELSE S
  <2>1. S \in SUBSET K /\ i \notin S
    OBVIOUS
  <2>2. \A m \in K : m <= i <=> m <= i - 1 \/ m = i
    BY <1>0
  <2> QED
    BY <2>1, <2>2
<1> HIDE DEF S, T
<1>3. IsFiniteSet(S)
  BY <1>1, <1>2, FS_Subset
<1>4. Cardinality(S \cup {i}) = Cardinality(S) + 1
  BY <1>2, <1>3, FS_AddElement
<1> QED
  BY <1>2, <1>4 DEF Rank, S, T

(* There is a kth place, one only, and later ones are higher.              *)
LEMMA PlaceIs ==
    ASSUME NEW n \in Nat, NEW K \in SUBSET (1..n), NEW i \in K
    PROVE  Rank(K, i) \in 1..Cardinality(K) /\ Place(K, Rank(K, i)) = i
<1>1. Rank(K, i) \in Nat /\ Rank(K, i) <= Cardinality(K) /\ Cardinality(K) \in Nat
  BY RankType
<1>2. Rank(K, i) >= 1
  <2>1. Rank(K, 0) = 0 /\ i \in Int /\ 0 < i /\ 0 <= i
    BY RankType
  <2>2. Rank(K, 0) < Rank(K, i)
    BY <2>1, RankGrows
  <2> QED
    BY <1>1, <2>1, <2>2
<1>3. ASSUME NEW j \in K, j # i
      PROVE  Rank(K, j) # Rank(K, i)
  <2>1. i \in Int /\ j \in Int
    OBVIOUS
  <2>2. Rank(K, j) \in Nat
    BY <2>1, RankType
  <2>3. CASE j < i
    <3>1. Rank(K, j) < Rank(K, i)
      BY <2>1, <2>3, RankGrows
    <3> QED
      BY <1>1, <2>2, <3>1
  <2>4. CASE i < j
    <3>1. Rank(K, i) < Rank(K, j)
      BY <2>1, <2>4, RankGrows
    <3> QED
      BY <1>1, <2>2, <3>1
  <2> QED
    BY <1>3, <2>1, <2>3, <2>4
<1>4. Place(K, Rank(K, i)) = i
  BY <1>3 DEF Place
<1> QED
  BY <1>1, <1>2, <1>4

LEMMA PlaceType ==
    ASSUME NEW n \in Nat, NEW K \in SUBSET (1..n), NEW k \in 1..Cardinality(K)
    PROVE  Place(K, k) \in K /\ Rank(K, Place(K, k)) = k
<1> DEFINE T == {i \in 1..n : Rank(K, i) >= k}
<1>1. /\ Cardinality(K) \in Nat /\ Cardinality(K) <= n
      /\ Rank(K, n) = Cardinality(K) /\ Rank(K, 0) = 0
      /\ \A i \in Int : Rank(K, i) \in Nat
  BY RankType
<1>2. n \in T
  <2>1. n \in 1..n
    BY <1>1
  <2> QED
    BY <1>1, <2>1
<1>3. PICK m \in T : \A i \in T : m <= i
  <2>1. T \in SUBSET Nat /\ T # {}
    BY <1>2
  <2> HIDE DEF T
  <2> QED
    BY <2>1, LeastPlace
<1>4. ~(Rank(K, m - 1) >= k)
  <2>1. CASE m = 1
    BY <1>1, <2>1
  <2>2. CASE m # 1
    BY <1>3, <2>2
  <2> QED
    BY <2>1, <2>2
<1>5. Rank(K, m) = k /\ m \in K
  <2>1. m \in Int /\ m - 1 \in Int /\ k \in Int /\ Rank(K, m) >= k
    OBVIOUS
  <2>2. Rank(K, m) = IF m \in K THEN Rank(K, m - 1) + 1 ELSE Rank(K, m - 1)
    BY <2>1, RankStep
  <2>3. Rank(K, m) \in Int /\ Rank(K, m - 1) \in Int
    BY <1>1, <2>1
  <2> QED
    BY <1>4, <2>1, <2>2, <2>3
<1> QED
  BY <1>5, PlaceIs

LEMMA PlaceGrows ==
    ASSUME NEW n \in Nat, NEW K \in SUBSET (1..n),
           NEW k \in 1..Cardinality(K), NEW l \in 1..Cardinality(K), k < l
    PROVE  Place(K, k) < Place(K, l)
<1>1. /\ Place(K, k) \in K /\ Rank(K, Place(K, k)) = k
      /\ Place(K, l) \in K /\ Rank(K, Place(K, l)) = l
  BY PlaceType
<1> DEFINE p == Place(K, k)
           q == Place(K, l)
<1> HIDE DEF p, q
<1>2. p \in Int /\ q \in Int
  <2>1. p \in K /\ q \in K
    BY <1>1 DEF p, q
  <2> QED
    BY <2>1
<1>3. ASSUME q <= p
      PROVE  FALSE
  <2>1. Rank(K, q) <= Rank(K, p)
    BY <1>2, <1>3, RankGrows
  <2>2. Rank(K, q) = l /\ Rank(K, p) = k
    BY <1>1 DEF p, q
  <2> QED
    BY <2>1, <2>2
<1>4. p < q
  BY <1>2, <1>3
<1> QED
  BY <1>4 DEF p, q
-----------------------------------------------------------------------------
(* What is at some places of a sequence is a sequence of its elements.     *)
LEMMA AtPlacesType ==
    ASSUME NEW T, NEW s \in Seq(T), NEW K \in SUBSET DOMAIN s
    PROVE  /\ AtPlaces(s, K) \in Seq(T)
           /\ Len(AtPlaces(s, K)) = Cardinality(K)
           /\ DOMAIN AtPlaces(s, K) = 1..Cardinality(K)
           /\ \A k \in 1..Cardinality(K) : AtPlaces(s, K)[k] = s[Place(K, k)]
<1>1. Len(s) \in Nat /\ DOMAIN s = 1..Len(s) /\ K \in SUBSET (1..Len(s))
  OBVIOUS
<1>2. Cardinality(K) \in Nat
  BY <1>1, RankType
<1>3. ASSUME NEW k \in 1..Cardinality(K)
      PROVE  s[Place(K, k)] \in T
  <2>1. Place(K, k) \in K
    BY <1>1, PlaceType
  <2> QED
    BY <2>1
<1> QED
  BY <1>2, <1>3 DEF AtPlaces

LEMMA AtNoPlace ==
    ASSUME NEW s
    PROVE  AtPlaces(s, {}) = <<>>
<1>1. Cardinality({}) = 0
  BY FS_EmptySet
<1>2. 1..0 = {}
  OBVIOUS
<1> QED
  BY <1>1, <1>2 DEF AtPlaces

(* A higher place has been added.                                          *)
LEMMA PlaceAdded ==
    ASSUME NEW n \in Nat, NEW K \in SUBSET (1..n), NEW L, L = K \cup {n + 1}
    PROVE  /\ Cardinality(L) = Cardinality(K) + 1
           /\ \A k \in 1..Cardinality(K) : Place(L, k) = Place(K, k)
           /\ Place(L, Cardinality(K) + 1) = n + 1
<1>1. /\ n + 1 \in Nat /\ n + 1 \in Int /\ n + 1 \notin K /\ n + 1 \in L
      /\ L \in SUBSET (1..(n + 1)) /\ K \subseteq L
  OBVIOUS
<1>2. IsFiniteSet(K) /\ Cardinality(K) \in Nat
  BY RankType
<1>3. Cardinality(L) = Cardinality(K) + 1
  BY <1>1, <1>2, FS_AddElement
<1>4. ASSUME NEW k \in 1..Cardinality(K)
      PROVE  Place(L, k) = Place(K, k)
  <2>1. Place(K, k) \in K /\ Rank(K, Place(K, k)) = k
    BY PlaceType
  <2>2. {j \in L : j <= Place(K, k)} = {j \in K : j <= Place(K, k)}
    <3>1. Place(K, k) \in Int /\ Place(K, k) <= n
      <4> HIDE DEF Place
      <4>1. \A i \in K : i \in Int /\ i <= n
        OBVIOUS
      <4> QED
        BY <2>1, <4>1, Zenon
    <3>2. ~(n + 1 <= Place(K, k))
      BY <3>1
    <3> QED
      BY <3>2
  <2>3. Rank(L, Place(K, k)) = k
    BY <2>1, <2>2 DEF Rank
  <2>4. Place(K, k) \in L
    BY <1>1, <2>1
  <2>5. Place(L, Rank(L, Place(K, k))) = Place(K, k)
    BY <1>1, <2>4, PlaceIs
  <2> QED
    BY <2>3, <2>5
<1>5. Rank(L, n + 1) = Cardinality(L)
  BY <1>1, RankType
<1>6. Place(L, Rank(L, n + 1)) = n + 1
  BY <1>1, PlaceIs
<1> QED
  BY <1>3, <1>4, <1>5, <1>6

(* A sequence has grown by one element, which is asked for or not.         *)
LEMMA AtPlacesAppend ==
    ASSUME NEW T, NEW s \in Seq(T), NEW x \in T, NEW K \in SUBSET DOMAIN s
    PROVE  /\ AtPlaces(Append(s, x), K) = AtPlaces(s, K)
           /\ AtPlaces(Append(s, x), K \cup {Len(s) + 1}) = Append(AtPlaces(s, K), x)
<1> DEFINE r == Append(s, x)
           L == K \cup {Len(s) + 1}
           a == AtPlaces(s, K)
           b == AtPlaces(r, L)
           c == Cardinality(K)
<1>1. /\ Len(s) \in Nat /\ DOMAIN s = 1..Len(s) /\ K \in SUBSET (1..Len(s))
      /\ r \in Seq(T) /\ DOMAIN r = 1..(Len(s) + 1) /\ L \in SUBSET DOMAIN r
      /\ r[Len(s) + 1] = x /\ \A i \in 1..Len(s) : r[i] = s[i]
  OBVIOUS
<1> HIDE DEF r
<1>2. c \in Nat
  BY <1>1, RankType
<1>3. ASSUME NEW k \in 1..c
      PROVE  r[Place(K, k)] = s[Place(K, k)]
  <2>1. Place(K, k) \in K
    BY <1>1, PlaceType
  <2> QED
    BY <1>1, <2>1
<1>4. AtPlaces(r, K) = a
  BY <1>3 DEF AtPlaces
<1>5. /\ Cardinality(L) = c + 1
      /\ \A k \in 1..c : Place(L, k) = Place(K, k)
      /\ Place(L, c + 1) = Len(s) + 1
  BY <1>1, PlaceAdded
<1>6. a \in Seq(T) /\ Len(a) = c /\ \A k \in 1..c : a[k] = s[Place(K, k)]
  BY AtPlacesType
<1> HIDE DEF L
<1>7. b \in Seq(T) /\ Len(b) = Cardinality(L)
      /\ \A k \in 1..Cardinality(L) : b[k] = r[Place(L, k)]
  BY <1>1, AtPlacesType
<1> HIDE DEF a, b, c
<1>8. b[c + 1] = x /\ \A k \in 1..c : b[k] = a[k]
  <2>1. /\ c + 1 \in 1..Cardinality(L)
        /\ \A k \in 1..c : k \in 1..Cardinality(L)
    BY <1>2, <1>5
  <2>2. b[c + 1] = x
    BY <1>1, <1>5, <1>7, <2>1
  <2>3. ASSUME NEW k \in 1..c
        PROVE  b[k] = a[k]
    BY <1>3, <1>5, <1>6, <1>7, <2>1, <2>3
  <2> QED
    BY <2>2, <2>3
<1>9. b = Append(a, x)
  BY <1>2, <1>5, <1>6, <1>7, <1>8
<1> QED
  BY <1>4, <1>9 DEF a, b, r, L
=============================================================================
