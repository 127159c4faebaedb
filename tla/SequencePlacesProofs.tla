------------------------ MODULE SequencePlacesProofs ------------------------
(***************************************************************************)
(* What the operators of SequencePlaces return: the least place, and the   *)
(* elements at a set of places in their order.  A set of numbers has a     *)
(* least member, from which whatever needs an induction is proved here and *)
(* in the modules that extend this one.                                    *)
(***************************************************************************)
EXTENDS SequencePlaces, FiniteSetTheorems, SequenceTheorems, TLAPS

\* A set of natural numbers that is not empty has a least one: of the intervals up to
\* its members one contains no other.
LEMMA LeastNatural ==
  ASSUME NEW S \in SUBSET Nat, S # {}
  PROVE  Least(S) \in S /\ \A j \in S : Least(S) <= j
<1> DEFINE T == {0..n : n \in S}
<1>1. T \subseteq FiniteSubsetsOf(Nat) /\ T # {}
  <2>1. \A n \in S : IsFiniteSet(0..n) /\ 0..n \subseteq Nat
    BY FS_Interval
  <2> QED BY <2>1 DEF FiniteSubsetsOf
<1>2. PICK A \in T : \A B \in T : <<B, A>> \notin StrictSubsetOrdering(Nat)
  <2> HIDE DEF T
  <2> QED BY <1>1, FS_StrictSubsetOrderingWellFounded, WFMin
<1>3. PICK a \in S : A = 0..a
  OBVIOUS
<1>4. ASSUME NEW x \in S, x < a PROVE FALSE
  <2>1. 0..x \subseteq 0..a /\ a \in 0..a /\ a \notin 0..x
    BY <1>4
  <2>2. 0..x \in SUBSET Nat /\ 0..a \in SUBSET Nat
    OBVIOUS
  <2>3. <<0..x, A>> \in StrictSubsetOrdering(Nat)
    BY <1>3, <2>1, <2>2 DEF StrictSubsetOrdering
  <2> QED BY <1>2, <2>3
<1>5. \A x \in S : a <= x
  BY <1>4
<1> QED BY <1>5 DEF Least

\* Every number up to the size of a finite set of numbers is the place of a member.
LEMMA PlaceIn ==
  ASSUME NEW S \in SUBSET Nat, IsFiniteSet(S), NEW k \in 1..Cardinality(S)
  PROVE  Place(S, k) \in S /\ Cardinality({j \in S : j <= Place(S, k)}) = k
<1> DEFINE UpTo(i) == {j \in S : j <= i}
           Bad == {n \in Nat : n \in 1..Cardinality(S) /\ \A i \in S : Cardinality(UpTo(i)) # n}
<1>0. Cardinality(S) \in Nat
  BY FS_CardinalityType
<1>a. \A n \in 1..Cardinality(S) : n \notin Bad => \E i \in S : Cardinality(UpTo(i)) = n
  <2> HIDE DEF UpTo
  <2> QED BY <1>0
<1>1. ASSUME Bad # {} PROVE FALSE
  <2> DEFINE n == Least(Bad)
  <2>1. n \in Bad /\ \A m \in Bad : n <= m
    BY <1>1, LeastNatural
  <2> HIDE DEF n
  <2>2. PICK P \in SUBSET S : /\ IsFiniteSet(P) /\ Cardinality(P) = n - 1
                              /\ \A i \in P, j \in S : j <= i => j \in P
    <3>1. CASE n = 1
      <4>1. IsFiniteSet({}) /\ Cardinality({}) = 0
        BY FS_EmptySet
      <4> QED BY <3>1, <4>1
    <3>2. CASE n # 1
      <4>1. n - 1 \notin Bad /\ n - 1 \in 1..Cardinality(S)
        BY <1>0, <2>1, <3>2
      <4>2. PICK i \in S : Cardinality(UpTo(i)) = n - 1
        BY <1>a, <4>1
      <4>3. IsFiniteSet(UpTo(i))
        BY FS_Subset
      <4>4. \A a \in UpTo(i), j \in S : j <= a => j \in UpTo(i)
        OBVIOUS
      <4> HIDE DEF UpTo
      <4>5. UpTo(i) \in SUBSET S
        BY DEF UpTo
      <4> QED BY <4>2, <4>3, <4>4, <4>5
    <3> QED BY <3>1, <3>2
  <2>3. S \ P # {}
    <3>1. ASSUME S = P PROVE FALSE
      BY <1>0, <2>1, <2>2, <3>1
    <3> QED BY <2>2, <3>1
  <2> DEFINE i == Least(S \ P)
  <2>4. i \in S \ P /\ \A j \in S \ P : i <= j
    BY <2>3, LeastNatural
  <2> HIDE DEF i
  <2>5. UpTo(i) = P \cup {i}
    <3>1. \A j \in S : j \in P => j <= i
      BY <2>2, <2>4
    <3>2. \A j \in S : j <= i => j \in P \/ j = i
      BY <2>4
    <3> QED BY <2>2, <2>4, <3>1, <3>2
  <2>6. Cardinality(P \cup {i}) = n
    <3>1. Cardinality(P \cup {i}) = (n - 1) + 1
      BY <2>2, <2>4, FS_AddElement
    <3> QED BY <2>1, <3>1
  <2> QED BY <2>1, <2>4, <2>5, <2>6
<1>2. \E i \in S : Cardinality(UpTo(i)) = k
  BY <1>0, <1>1
<1> QED BY <1>2 DEF Place

\* Only keeps elements, and no element twice.
LEMMA OnlyKeeps ==
  ASSUME NEW X, NEW seq \in Seq(X), NEW S \in SUBSET DOMAIN seq
  PROVE  /\ Only(seq, S) \in Seq(X)
         /\ \A k \in DOMAIN Only(seq, S) : Place(S, k) \in S /\ Only(seq, S)[k] = seq[Place(S, k)]
         /\ \A k, l \in DOMAIN Only(seq, S) : Place(S, k) = Place(S, l) => k = l
<1>1. DOMAIN seq = 1..Len(seq) /\ Len(seq) \in Nat /\ \A i \in DOMAIN seq : seq[i] \in X
  OBVIOUS
<1>2. IsFiniteSet(S) /\ S \in SUBSET Nat
  <2>1. IsFiniteSet(1..Len(seq))
    BY <1>1, FS_Interval
  <2>2. S \in SUBSET (1..Len(seq))
    BY <1>1
  <2>3. IsFiniteSet(S)
    BY <2>1, <2>2, FS_Subset
  <2> QED BY <1>1, <2>2, <2>3
<1>3. Cardinality(S) \in Nat
  BY <1>2, FS_CardinalityType
<1>4. \A k \in 1..Cardinality(S) : Place(S, k) \in S /\ Cardinality({j \in S : j <= Place(S, k)}) = k
  BY <1>2, PlaceIn
<1>5. DOMAIN Only(seq, S) = 1..Cardinality(S)
  BY DEF Only
<1>6. \A k \in 1..Cardinality(S) : Only(seq, S)[k] = seq[Place(S, k)]
  BY DEF Only
<1>7. Only(seq, S) \in [1..Cardinality(S) -> X]
  BY <1>1, <1>4 DEF Only
<1>8. Only(seq, S) \in Seq(X)
  BY <1>3, <1>7
<1>9. \A k, l \in 1..Cardinality(S) : Place(S, k) = Place(S, l) => k = l
  BY <1>4
<1> QED BY <1>4, <1>5, <1>6, <1>8, <1>9

\* Only keeps every element at a place of S, and their order.
LEMMA OnlyInOrder ==
  ASSUME NEW X, NEW seq \in Seq(X), NEW S \in SUBSET DOMAIN seq
  PROVE  /\ \A j \in S : \E k \in DOMAIN Only(seq, S) : Place(S, k) = j
         /\ \A k, l \in DOMAIN Only(seq, S) : Place(S, k) < Place(S, l) => k < l
<1> DEFINE UpTo(i) == {j \in S : j <= i}
<1>1. IsFiniteSet(S) /\ S \in SUBSET Nat
  <2>1. DOMAIN seq = 1..Len(seq) /\ Len(seq) \in Nat
    OBVIOUS
  <2>2. IsFiniteSet(1..Len(seq)) /\ S \in SUBSET (1..Len(seq))
    BY <2>1, FS_Interval
  <2> QED BY <2>1, <2>2, FS_Subset
<1>2. ASSUME NEW i \in S, NEW j \in S, i < j PROVE Cardinality(UpTo(i)) < Cardinality(UpTo(j))
  <2>1. UpTo(i) \subseteq UpTo(j) /\ j \in UpTo(j) /\ j \notin UpTo(i)
    BY <1>1, <1>2
  <2>2. IsFiniteSet(UpTo(j))
    BY <1>1, FS_Subset
  <2> HIDE DEF UpTo
  <2>3. /\ IsFiniteSet(UpTo(i)) /\ Cardinality(UpTo(i)) <= Cardinality(UpTo(j))
        /\ Cardinality(UpTo(i)) # Cardinality(UpTo(j))
    BY <2>1, <2>2, FS_Subset
  <2> QED BY <2>2, <2>3, FS_CardinalityType
<1>3. Cardinality(S) \in Nat /\ DOMAIN Only(seq, S) = 1..Cardinality(S)
  BY <1>1, FS_CardinalityType DEF Only
<1>4. \A k \in 1..Cardinality(S) : Place(S, k) \in S /\ Cardinality(UpTo(Place(S, k))) = k
  BY <1>1, PlaceIn
<1>5. ASSUME NEW j \in S PROVE \E k \in DOMAIN Only(seq, S) : Place(S, k) = j
  <2> DEFINE k == Cardinality(UpTo(j))
  <2>1. k \in 1..Cardinality(S)
    <3>1. UpTo(j) \subseteq S /\ j \in UpTo(j)
      BY <1>1
    <3>2. IsFiniteSet(UpTo(j)) /\ Cardinality(UpTo(j)) <= Cardinality(S)
      BY <1>1, <3>1, FS_Subset
    <3>3. Cardinality(UpTo(j)) \in Nat /\ Cardinality(UpTo(j)) # 0
      BY <3>1, <3>2, FS_CardinalityType, FS_EmptySet
    <3> QED BY <1>3, <3>2, <3>3
  <2>2. Place(S, k) \in S /\ Cardinality(UpTo(Place(S, k))) = k
    BY <1>4, <2>1
  <2> HIDE DEF UpTo
  <2>3. ~(Place(S, k) < j) /\ ~(j < Place(S, k))
    BY <1>2, <2>1, <2>2
  <2> QED BY <1>1, <1>3, <2>1, <2>2, <2>3
<1>6. ASSUME NEW k \in DOMAIN Only(seq, S), NEW l \in DOMAIN Only(seq, S), Place(S, k) < Place(S, l)
      PROVE  k < l
  <2> HIDE DEF UpTo
  <2> QED BY <1>2, <1>3, <1>4, <1>6
<1> QED BY <1>5, <1>6

\* The places of a sequence.
LEMMA AllPlaces ==
  ASSUME NEW X, NEW seq \in Seq(X)
  PROVE  /\ DOMAIN seq = 1..Len(seq) /\ Len(seq) \in Nat
         /\ DOMAIN seq \in SUBSET Nat
         /\ \A i \in DOMAIN seq : seq[i] \in X
         /\ \A S : S \subseteq DOMAIN seq /\ S # {} => Least(S) \in S /\ \A j \in S : Least(S) <= j
<1>1. DOMAIN seq = 1..Len(seq) /\ Len(seq) \in Nat /\ \A i \in DOMAIN seq : seq[i] \in X
  OBVIOUS
<1>2. DOMAIN seq \in SUBSET Nat
  BY <1>1
<1> QED BY <1>1, <1>2, LeastNatural

-----------------------------------------------------------------------------
(* Orders and sorted sequences.                                            *)

\* R puts the members of S in an order.
Orders(R, S) ==
  /\ \A x \in S : <<x, x>> \notin R
  /\ \A x, y, z \in S : <<x, y>> \in R /\ <<y, z>> \in R => <<x, z>> \in R
  /\ \A x, y \in S : x = y \/ <<x, y>> \in R \/ <<y, x>> \in R

\* How many members are ahead of x.
Rank(S, R, x) == Cardinality({y \in S : <<y, x>> \in R})

\* The further back a member of a finite set is, the higher its rank.
LEMMA RankRises ==
  ASSUME NEW S, IsFiniteSet(S), NEW R, Orders(R, S)
  PROVE  /\ \A x \in S : Rank(S, R, x) \in 0..Cardinality(S) - 1
         /\ \A x, z \in S : <<x, z>> \in R => Rank(S, R, x) < Rank(S, R, z)
<1> DEFINE Ahead(x) == {y \in S : <<y, x>> \in R}
<1>1. \A x \in S : IsFiniteSet(Ahead(x)) /\ Cardinality(Ahead(x)) \in Nat
  <2>1. \A x \in S : Ahead(x) \subseteq S
    OBVIOUS
  <2> HIDE DEF Ahead
  <2> QED BY <2>1, FS_Subset, FS_CardinalityType
<1>2. Cardinality(S) \in Nat
  BY FS_CardinalityType
<1>3. ASSUME NEW T, NEW U, IsFiniteSet(U), T \subseteq U, NEW u \in U, u \notin T
      PROVE  Cardinality(T) < Cardinality(U)
  BY <1>3, FS_Subset, FS_CardinalityType
<1>4. ASSUME NEW x \in S PROVE Cardinality(Ahead(x)) \in 0..Cardinality(S) - 1
  <2>1. Ahead(x) \subseteq S /\ x \in S /\ x \notin Ahead(x)
    BY DEF Orders
  <2> HIDE DEF Ahead
  <2>2. Cardinality(Ahead(x)) < Cardinality(S)
    BY <1>3, <2>1
  <2> QED BY <1>1, <1>2, <2>2
<1>5. ASSUME NEW x \in S, NEW z \in S, <<x, z>> \in R
      PROVE  Cardinality(Ahead(x)) < Cardinality(Ahead(z))
  <2>1. Ahead(x) \subseteq Ahead(z) /\ x \in Ahead(z) /\ x \notin Ahead(x)
    BY <1>5 DEF Orders
  <2> HIDE DEF Ahead
  <2> QED BY <1>1, <1>3, <2>1
<1> QED BY <1>4, <1>5 DEF Rank

\* Members of different rank fill all the ranks: an arranged set has each of its members
\* once, in the order.
LEMMA ArrangedIs ==
  ASSUME NEW S, IsFiniteSet(S), NEW R, Orders(R, S)
  PROVE  /\ Cardinality(S) \in Nat
         /\ Arranged(S, R) \in [1..Cardinality(S) -> S]
         /\ \A x \in S : \E n \in 1..Cardinality(S) : Arranged(S, R)[n] = x
         /\ \A m, n \in 1..Cardinality(S) : m < n => <<Arranged(S, R)[m], Arranged(S, R)[n]>> \in R
<1> DEFINE N == Cardinality(S)
           order == Arranged(S, R)
<1>1. N \in Nat
  BY FS_CardinalityType
<1>2. /\ \A x \in S : Rank(S, R, x) \in 0..N - 1
      /\ \A x, z \in S : <<x, z>> \in R => Rank(S, R, x) < Rank(S, R, z)
  BY RankRises
<1>3. \A x, z \in S : Rank(S, R, x) = Rank(S, R, z) => x = z
  <2> SUFFICES ASSUME NEW x \in S, NEW z \in S, Rank(S, R, x) = Rank(S, R, z), x # z PROVE FALSE
    OBVIOUS
  <2>1. <<x, z>> \in R \/ <<z, x>> \in R
    BY DEF Orders
  <2>2. Rank(S, R, x) \in Nat /\ Rank(S, R, z) \in Nat
    BY <1>1, <1>2
  <2> QED BY <1>2, <2>1, <2>2
<1>4. ASSUME NEW n \in 1..N PROVE \E x \in S : Rank(S, R, x) = n - 1
  <2> SUFFICES ASSUME \A x \in S : Rank(S, R, x) # n - 1 PROVE FALSE
    OBVIOUS
  <2> DEFINE T == (0..N - 1) \ {n - 1}
             f == [x \in S |-> Rank(S, R, x)]
  <2>1. IsFiniteSet(T) /\ Cardinality(T) < N
    <3>1. IsFiniteSet(0..N - 1) /\ Cardinality(0..N - 1) = N
      <4>1. 0 \in Int /\ N - 1 \in Int /\ (0 > N - 1 => N = 0) /\ (N - 1) - 0 + 1 = N
        BY <1>1
      <4> HIDE DEF N
      <4> QED BY <4>1, FS_Interval
    <3>2. n - 1 \in 0..N - 1
      BY <1>1
    <3>3. Cardinality(T) = Cardinality(0..N - 1) - 1 /\ IsFiniteSet(T)
      BY <3>1, <3>2, FS_RemoveElement
    <3> QED BY <1>1, <3>1, <3>3
  <2>2. f \in [S -> T]
    BY <1>2
  <2> HIDE DEF T, N, f
  <2>3. \E x, y \in S : x # y /\ f[x] = f[y]
    BY <2>1, <2>2, FS_PigeonHole DEF N
  <2> QED BY <1>3, <2>3 DEF f
<1>5. \A n \in 1..N : order[n] \in S /\ Rank(S, R, order[n]) = n - 1
  BY <1>4 DEF Arranged, Rank
<1>6. order \in [1..N -> S]
  BY <1>5 DEF Arranged
<1> HIDE DEF order, N
<1>7. \A x \in S : \E n \in 1..N : order[n] = x
  <2> SUFFICES ASSUME NEW x \in S PROVE \E n \in 1..N : order[n] = x
    OBVIOUS
  <2>1. Rank(S, R, x) + 1 \in 1..N /\ Rank(S, R, x) \in Nat
    BY <1>1, <1>2
  <2>2. order[Rank(S, R, x) + 1] \in S /\ Rank(S, R, order[Rank(S, R, x) + 1]) = Rank(S, R, x)
    BY <1>5, <2>1
  <2> QED BY <1>3, <2>1, <2>2
<1>8. \A m, n \in 1..N : m < n => <<order[m], order[n]>> \in R
  <2> SUFFICES ASSUME NEW m \in 1..N, NEW n \in 1..N, m < n, <<order[m], order[n]>> \notin R PROVE FALSE
    OBVIOUS
  <2>1. order[m] \in S /\ order[n] \in S /\ Rank(S, R, order[m]) = m - 1 /\ Rank(S, R, order[n]) = n - 1
    BY <1>5
  <2>2. order[m] = order[n] \/ <<order[n], order[m]>> \in R
    BY <2>1 DEF Orders
  <2> QED BY <1>1, <1>2, <2>1, <2>2
<1> QED BY <1>1, <1>6, <1>7, <1>8 DEF N, order

\* order puts the places of a sequence by their keys, equal keys as they are.
PutsByKey(order, places, keys) ==
  /\ order \in [places -> places]
  /\ \A i \in places : \E n \in places : order[n] = i
  /\ \A m, n \in places : m < n =>
       keys[order[m]] < keys[order[n]] \/ (keys[order[m]] = keys[order[n]] /\ order[m] < order[n])

\* A sorted sequence has the same elements, each at another place.
LEMMA SortedIs ==
  ASSUME NEW X, NEW seq \in Seq(X), NEW keys \in [DOMAIN seq -> Int]
  PROVE  /\ Sorted(seq, keys) \in Seq(X)
         /\ DOMAIN Sorted(seq, keys) = DOMAIN seq
         /\ \E order : /\ PutsByKey(order, DOMAIN seq, keys)
                       /\ \A n \in DOMAIN seq : Sorted(seq, keys)[n] = seq[order[n]]
<1> DEFINE D == DOMAIN seq
           R == ByKey(D, keys)
           order == Arranged(D, R)
<1>1. D = 1..Len(seq) /\ Len(seq) \in Nat /\ \A i \in D : seq[i] \in X
  OBVIOUS
<1>2. \A i, j \in D : <<i, j>> \in R <=> keys[i] < keys[j] \/ (keys[i] = keys[j] /\ i < j)
  BY DEF ByKey
<1>3. Sorted(seq, keys) = [n \in D |-> seq[order[n]]]
  BY DEF Sorted
<1> HIDE DEF D, R, order
<1>4. Orders(R, D)
  <2>1. \A i \in D : i \in Int /\ keys[i] \in Int
    BY <1>1 DEF D
  <2>2. \A i \in D : <<i, i>> \notin R
    BY <1>2, <2>1
  <2>3. ASSUME NEW i \in D, NEW j \in D, NEW k \in D, <<i, j>> \in R, <<j, k>> \in R
        PROVE  <<i, k>> \in R
    BY <1>2, <2>1, <2>3
  <2>4. ASSUME NEW i \in D, NEW j \in D PROVE i = j \/ <<i, j>> \in R \/ <<j, i>> \in R
    <3>1. i \in Int /\ j \in Int /\ keys[i] \in Int /\ keys[j] \in Int
      BY <2>1
    <3> QED BY <1>2, <3>1
  <2> QED BY <2>2, <2>3, <2>4 DEF Orders
<1>5. IsFiniteSet(D) /\ Cardinality(D) = Len(seq)
  <2>1. 1 \in Int /\ Len(seq) \in Int /\ (1 > Len(seq) => Len(seq) = 0) /\ Len(seq) - 1 + 1 = Len(seq)
    BY <1>1
  <2> QED BY <1>1, <2>1, FS_Interval
<1>6. /\ order \in [D -> D]
      /\ \A i \in D : \E n \in D : order[n] = i
      /\ \A m, n \in D : m < n => <<order[m], order[n]>> \in R
  <2>1. 1..Cardinality(D) = D
    BY <1>1, <1>5
  <2>2. /\ order \in [1..Cardinality(D) -> D]
        /\ \A i \in D : \E n \in 1..Cardinality(D) : order[n] = i
        /\ \A m, n \in 1..Cardinality(D) : m < n => <<order[m], order[n]>> \in R
    BY <1>4, <1>5, ArrangedIs DEF order
  <2> QED BY <2>1, <2>2
<1>7. PutsByKey(order, D, keys)
  BY <1>2, <1>6 DEF PutsByKey
<1>8. Sorted(seq, keys) \in Seq(X)
  <2>1. Sorted(seq, keys) \in [1..Len(seq) -> X]
    BY <1>1, <1>3, <1>6
  <2> QED BY <1>1, <2>1
<1>9. DOMAIN Sorted(seq, keys) = D /\ \A n \in D : Sorted(seq, keys)[n] = seq[order[n]]
  BY <1>3
<1> QED BY <1>7, <1>8, <1>9 DEF D

\* The first elements with each key: every key of the sequence once.
LEMMA FirstsAre ==
  ASSUME NEW X, NEW seq \in Seq(X), NEW keys, NEW S,
         \A i : i \in S <=> i \in DOMAIN seq /\ \A j \in 1..i - 1 : keys[j] # keys[i]
  PROVE  /\ Only(seq, S) \in Seq(X)
         /\ \A n \in DOMAIN Only(seq, S) : Place(S, n) \in S /\ Only(seq, S)[n] = seq[Place(S, n)]
         /\ \A m, n \in DOMAIN Only(seq, S) : m < n => Place(S, m) < Place(S, n)
         /\ \A i \in DOMAIN seq : \E n \in DOMAIN Only(seq, S) : keys[Place(S, n)] = keys[i]
<1> DEFINE firsts == Only(seq, S)
<1>1. DOMAIN seq = 1..Len(seq) /\ Len(seq) \in Nat
  OBVIOUS
<1>2. S \in SUBSET DOMAIN seq
  OBVIOUS
<1>3. ASSUME NEW i \in DOMAIN seq PROVE \E j \in S : keys[j] = keys[i]
  <2> DEFINE T == {j \in DOMAIN seq : keys[j] = keys[i]}
             j == Least(T)
  <2>1. T \in SUBSET Nat /\ T # {}
    BY <1>1
  <2>2. j \in T /\ \A k \in T : j <= k
    <3> HIDE DEF T
    <3> QED BY <2>1, LeastNatural
  <2> HIDE DEF j
  <2>3. \A k \in 1..j - 1 : k \in DOMAIN seq /\ ~(j <= k)
    BY <1>1, <2>2
  <2>4. j \in S
    BY <2>2, <2>3
  <2> QED BY <2>2, <2>4
<1>4. /\ firsts \in Seq(X)
      /\ \A n \in DOMAIN firsts : Place(S, n) \in S /\ firsts[n] = seq[Place(S, n)]
      /\ \A m, n \in DOMAIN firsts : Place(S, m) = Place(S, n) => m = n
      /\ \A j \in S : \E n \in DOMAIN firsts : Place(S, n) = j
      /\ \A m, n \in DOMAIN firsts : Place(S, m) < Place(S, n) => m < n
  BY <1>2, OnlyKeeps, OnlyInOrder
<1> HIDE DEF firsts
<1>5. ASSUME NEW m \in DOMAIN firsts, NEW n \in DOMAIN firsts, m < n PROVE Place(S, m) < Place(S, n)
  <2>1. m \in Nat /\ n \in Nat
    BY <1>4
  <2>2. Place(S, m) \in Nat /\ Place(S, n) \in Nat
    <3>1. Place(S, m) \in S /\ Place(S, n) \in S
      BY <1>4
    <3>2. S \in SUBSET Nat
      BY <1>1, <1>2
    <3> QED BY <3>1, <3>2
  <2> QED BY <1>4, <1>5, <2>1, <2>2
<1>6. \A i \in DOMAIN seq : \E n \in DOMAIN firsts : keys[Place(S, n)] = keys[i]
  <2> SUFFICES ASSUME NEW i \in DOMAIN seq PROVE \E n \in DOMAIN firsts : keys[Place(S, n)] = keys[i]
    OBVIOUS
  <2>1. PICK j \in S : keys[j] = keys[i]
    BY <1>3
  <2>2. PICK n \in DOMAIN firsts : Place(S, n) = j
    BY <1>4
  <2> QED BY <2>1, <2>2
<1> QED BY <1>4, <1>5, <1>6 DEF firsts
=============================================================================
