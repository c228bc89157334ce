--------------------------- MODULE PositionsProofs ---------------------------
(***************************************************************************)
(* Facts about Positions: places run from 1 to the number of indices, each *)
(* is taken once, and an entry appended to a sequence is picked last or    *)
(* not at all.                                                             *)
(***************************************************************************)
EXTENDS Positions, Sequences, FiniteSetTheorems, SequenceTheorems,
        NaturalsInduction, WellFoundedInduction, TLAPS

\* A set of natural numbers that is not empty has a least element.
LEMMA LeastElement ==
    ASSUME NEW S \in SUBSET Nat, S # {}
    PROVE  \E f \in S : \A g \in S : f <= g
<1>1. PICK f \in S : \A g \in S : ~(<<g, f>> \in OpToRel(<, Nat))
  BY WFMin, NatLessThanWellFounded, Zenon
<1>2. \A g \in S : ~(g < f)
  BY <1>1, Zenon DEF OpToRel
<1> QED
  BY <1>2

\* Index sets are finite, and the part up to i has at most i members.
LEMMA Indices ==
    ASSUME NEW m \in Nat, NEW S \in SUBSET (1..m)
    PROVE  /\ IsFiniteSet(S)
           /\ Cardinality(S) \in 0..m
           /\ \A i \in Int : IsFiniteSet({j \in S : j <= i})
           /\ \A i \in Int : Place(S, i) \in 0..Cardinality(S)
           /\ Place(S, m) = Cardinality(S)
           /\ Place(S, 0) = 0
<1>1. IsFiniteSet(1..m) /\ Cardinality(1..m) = m
  BY FS_Interval
<1>2. IsFiniteSet(S) /\ Cardinality(S) <= m /\ Cardinality(S) \in Nat
  BY <1>1, FS_Subset, FS_CardinalityType
<1>3. ASSUME NEW i \in Int
      PROVE  IsFiniteSet({j \in S : j <= i}) /\ Place(S, i) \in 0..Cardinality(S)
  <2>1. {j \in S : j <= i} \in SUBSET S
    OBVIOUS
  <2>2. /\ IsFiniteSet({j \in S : j <= i})
        /\ Cardinality({j \in S : j <= i}) <= Cardinality(S)
    BY <1>2, <2>1, FS_Subset
  <2>3. Cardinality({j \in S : j <= i}) \in Nat
    BY <2>2, FS_CardinalityType
  <2> QED
    BY <1>2, <2>2, <2>3 DEF Place
<1>0. \A j \in S : j \in Nat /\ j <= m /\ ~(j <= 0)
  OBVIOUS
<1>4. {j \in S : j <= m} = S
  BY <1>0
<1>5. {j \in S : j <= 0} = {}
  BY <1>0
<1>6. Cardinality({}) = 0
  BY FS_EmptySet
<1> QED
  BY <1>2, <1>3, <1>4, <1>5, <1>6 DEF Place

\* The next index adds itself, if it is in the set.
LEMMA NextPlace ==
    ASSUME NEW m \in Nat, NEW S \in SUBSET (1..m), NEW i \in Int
    PROVE  Place(S, i) = IF i \in S THEN Place(S, i - 1) + 1 ELSE Place(S, i - 1)
<1> DEFINE Before == {j \in S : j <= i - 1}
<1>0. \A j \in S : j <= i <=> j <= i - 1 \/ j = i
  OBVIOUS
<1>1. IsFiniteSet(Before)
  <2>1. i - 1 \in Int
    OBVIOUS
  <2> QED
    BY <2>1, Indices
<1>2. CASE i \in S
  <2>2. i \notin Before /\ i <= i
    OBVIOUS
  <2>1. {j \in S : j <= i} = Before \cup {i}
    BY <1>0, <1>2, <2>2
  <2>3. Cardinality(Before \cup {i}) = Cardinality(Before) + 1
    BY <1>1, <2>2, FS_AddElement
  <2> QED
    BY <1>2, <2>1, <2>3 DEF Place
<1>3. CASE i \notin S
  <2>1. {j \in S : j <= i} = Before
    BY <1>0, <1>3
  <2> QED
    BY <1>3, <2>1 DEF Place
<1> QED
  BY <1>2, <1>3

\* A later index of the set has a later place.
LEMMA PlacesAscend ==
    ASSUME NEW m \in Nat, NEW S \in SUBSET (1..m), NEW i \in S, NEW k \in S, i < k
    PROVE  Place(S, i) < Place(S, k)
<1> DEFINE Upto(n) == {j \in S : j <= n}
<1>1. IsFiniteSet(Upto(k - 1)) /\ IsFiniteSet(Upto(i))
  <2>1. k - 1 \in Int /\ i \in Int
    OBVIOUS
  <2> QED
    BY <2>1, Indices
<1>0. k \in Int /\ i \in Int /\ \A j \in S : j <= i => j <= k - 1
  OBVIOUS
<1>2. Upto(i) \in SUBSET Upto(k - 1)
  BY <1>0
<1>3. Cardinality(Upto(i)) <= Cardinality(Upto(k - 1))
  BY <1>1, <1>2, FS_Subset
<1>4. Place(S, k) = Place(S, k - 1) + 1
  BY <1>0, NextPlace
<1>5. Place(S, k - 1) \in Nat /\ Place(S, i) \in Nat
  <2>1. Cardinality(S) \in Nat /\ k - 1 \in Int /\ i \in Int
    BY Indices
  <2> QED
    BY <2>1, Indices
<1> QED
  BY <1>3, <1>4, <1>5 DEF Place

\* Nth finds the index at a place.
LEMMA NthIsThere ==
    ASSUME NEW m \in Nat, NEW S \in SUBSET (1..m), NEW n \in 1..Cardinality(S)
    PROVE  Nth(S, n) \in S /\ Place(S, Nth(S, n)) = n
<1> DEFINE Far == {k \in 0..m : Place(S, k) >= n}
<1>1. Cardinality(S) \in 0..m /\ Place(S, m) = Cardinality(S) /\ Place(S, 0) = 0
  BY Indices
<1>2. m \in Far
  BY <1>1
<1>3. PICK k \in Far : \A g \in Far : k <= g
  <2>1. Far \in SUBSET Nat /\ Far # {}
    BY <1>2
  <2> QED
    BY <2>1, LeastElement
<1>4. k > 0
  BY <1>1, <1>3
<1>5. k - 1 \notin Far /\ k - 1 \in 0..m
  BY <1>3, <1>4
<1>6. Place(S, k - 1) < n /\ Place(S, k - 1) \in Nat /\ Place(S, k) \in Nat
  BY <1>1, <1>5, Indices
<1>7. k \in S /\ Place(S, k) = n
  <2>1. k \in Int /\ Place(S, k) >= n
    BY <1>3
  <2>2. Place(S, k) = IF k \in S THEN Place(S, k - 1) + 1 ELSE Place(S, k - 1)
    BY <2>1, NextPlace
  <2> QED
    BY <1>6, <2>1, <2>2
<1>8. k \in {j \in S : Place(S, j) = n}
  BY <1>7
<1> QED
  BY <1>8 DEF Nth

\* ... and no other index has it.
LEMMA NthOfPlace ==
    ASSUME NEW m \in Nat, NEW S \in SUBSET (1..m), NEW i \in S
    PROVE  Place(S, i) \in 1..Cardinality(S) /\ Nth(S, Place(S, i)) = i
<1>1. Cardinality(S) \in Nat /\ Place(S, i) \in 0..Cardinality(S)
      /\ Place(S, i - 1) \in 0..Cardinality(S)
  <2>1. i \in Int /\ i - 1 \in Int
    OBVIOUS
  <2> QED
    BY <2>1, Indices
<1>2. Place(S, i) = Place(S, i - 1) + 1
  BY NextPlace, SMTT(30)
<1>3. Place(S, i) \in 1..Cardinality(S)
  BY <1>1, <1>2
<1> DEFINE k == Nth(S, Place(S, i))
<1>4. k \in S /\ Place(S, k) = Place(S, i)
  BY <1>3, NthIsThere
<1>5. ~(i < k)
  <2> SUFFICES ASSUME i < k PROVE FALSE
    OBVIOUS
  <2>1. Place(S, i) < Place(S, k)
    BY <1>4, PlacesAscend
  <2> QED
    BY <1>1, <1>4, <2>1
<1>6. ~(k < i)
  <2> SUFFICES ASSUME k < i PROVE FALSE
    OBVIOUS
  <2>1. Place(S, k) < Place(S, i)
    BY <1>4, PlacesAscend
  <2> QED
    BY <1>1, <1>4, <2>1
<1>7. k \in Int /\ i \in Int
  <2>1. \A j \in S : j \in Int
    OBVIOUS
  <2> QED
    BY <1>4, <2>1, Zenon
<1>8. k = i
  BY <1>5, <1>6, <1>7
<1> QED
  BY <1>3, <1>8

\* The picked entries stay in their order.
LEMMA NthAscends ==
    ASSUME NEW m \in Nat, NEW S \in SUBSET (1..m),
           NEW p \in 1..Cardinality(S), NEW q \in 1..Cardinality(S), p < q
    PROVE  Nth(S, p) < Nth(S, q)
<1>1. /\ Nth(S, p) \in S /\ Place(S, Nth(S, p)) = p
      /\ Nth(S, q) \in S /\ Place(S, Nth(S, q)) = q
  BY NthIsThere
<1>2. ~(Nth(S, q) < Nth(S, p))
  <2> SUFFICES ASSUME Nth(S, q) < Nth(S, p) PROVE FALSE
    OBVIOUS
  <2>1. Place(S, Nth(S, q)) < Place(S, Nth(S, p))
    BY <1>1, PlacesAscend
  <2>2. Cardinality(S) \in Nat
    BY Indices
  <2> QED
    BY <1>1, <2>1, <2>2
<1>3. Nth(S, p) # Nth(S, q)
  <2>1. Cardinality(S) \in Nat
    BY Indices
  <2> QED
    BY <1>1, <2>1
<1>4. Nth(S, p) \in Int /\ Nth(S, q) \in Int
  <2>1. \A j \in S : j \in Int
    OBVIOUS
  <2> QED
    BY <1>1, <2>1, Zenon
<1> QED
  BY <1>2, <1>3, <1>4

\* What is picked is a sequence of entries of s.
LEMMA PickedType ==
    ASSUME NEW T, NEW s \in Seq(T), NEW S \in SUBSET (1..Len(s))
    PROVE  /\ Picked(s, S) \in Seq(T)
           /\ Len(Picked(s, S)) = Cardinality(S)
           /\ Cardinality(S) \in Nat
           /\ DOMAIN Picked(s, S) = 1..Cardinality(S)
<1>1. Len(s) \in Nat /\ Cardinality(S) \in Nat
  BY Indices
<1>2. \A n \in 1..Cardinality(S) : s[Nth(S, n)] \in T
  <2> TAKE n \in 1..Cardinality(S)
  <2>1. Nth(S, n) \in S
    BY <1>1, NthIsThere
  <2>2. \A j \in S : j \in 1..Len(s)
    OBVIOUS
  <2>3. \A j \in 1..Len(s) : s[j] \in T
    BY ElementOfSeq
  <2> QED
    BY <2>1, <2>2, <2>3, Zenon
<1> QED
  BY <1>1, <1>2 DEF Picked

\* An index beyond all others comes last ...
LEMMA LastPlace ==
    ASSUME NEW m \in Nat, NEW S \in SUBSET (1..m), NEW k \in Nat, k > m
    PROVE  /\ Cardinality(S \cup {k}) = Cardinality(S) + 1
           /\ \A n \in 1..Cardinality(S) : Nth(S \cup {k}, n) = Nth(S, n)
           /\ Nth(S \cup {k}, Cardinality(S) + 1) = k
<1> DEFINE All == S \cup {k}
<1>1. IsFiniteSet(S) /\ Cardinality(S) \in Nat
  BY Indices
<1>2. Cardinality(All) = Cardinality(S) + 1
  <2>1. k \notin S
    OBVIOUS
  <2> QED
    BY <1>1, <2>1, FS_AddElement
<1>3. All \in SUBSET (1..k)
  OBVIOUS
<1>4. \A j \in S : Place(All, j) = Place(S, j)
  <2> TAKE j \in S
  <2>1. {i \in All : i <= j} = {i \in S : i <= j}
    OBVIOUS
  <2> QED
    BY <2>1 DEF Place
<1>5. Place(All, k) = Cardinality(All)
  BY <1>3, Indices
<1>6. ASSUME NEW n \in 1..Cardinality(S) PROVE Nth(All, n) = Nth(S, n)
  <2>1. Nth(S, n) \in S /\ Place(S, Nth(S, n)) = n
    BY NthIsThere
  <2>2. Nth(S, n) \in All /\ Place(All, Nth(S, n)) = n
    BY <1>4, <2>1
  <2>3. Nth(All, Place(All, Nth(S, n))) = Nth(S, n)
    BY <1>3, <2>2, NthOfPlace, Zenon
  <2> QED
    BY <2>2, <2>3
<1>7. Nth(All, Cardinality(S) + 1) = k
  <2>1. k \in All
    OBVIOUS
  <2> QED
    BY <1>2, <1>3, <1>5, <2>1, NthOfPlace
<1> QED
  BY <1>2, <1>6, <1>7

\* ... so the entry there is picked last ...
LEMMA PickedNext ==
    ASSUME NEW T, NEW s \in Seq(T), NEW m \in Nat, m < Len(s), NEW S \in SUBSET (1..m)
    PROVE  Picked(s, S \cup {m + 1}) = Append(Picked(s, S), s[m + 1])
<1> DEFINE k == m + 1
           All == S \cup {k}
<1>1. Cardinality(S) \in Nat /\ S \in SUBSET (1..Len(s)) /\ s[k] \in T
  <2>1. Cardinality(S) \in Nat
    BY Indices
  <2>2. \A j \in 1..m : j \in 1..Len(s)
    OBVIOUS
  <2>3. S \in SUBSET (1..Len(s))
    BY <2>2, Zenon
  <2>4. k \in 1..Len(s)
    OBVIOUS
  <2>5. s[k] \in T
    BY <2>4, ElementOfSeq
  <2> QED
    BY <2>1, <2>3, <2>5
<1>2. /\ Cardinality(All) = Cardinality(S) + 1
      /\ \A n \in 1..Cardinality(S) : Nth(All, n) = Nth(S, n)
      /\ Nth(All, Cardinality(S) + 1) = k
  <2>1. k \in Nat /\ k > m
    OBVIOUS
  <2> QED
    BY <2>1, LastPlace
<1>3. Picked(s, S) \in Seq(T) /\ Len(Picked(s, S)) = Cardinality(S)
  BY <1>1, PickedType
<1> DEFINE old == Picked(s, S)
           new == Picked(s, All)
<1>4. new = [n \in 1..(Cardinality(S) + 1) |-> s[Nth(All, n)]]
  BY <1>2, Zenon DEF Picked
<1>5. old = [n \in 1..Cardinality(S) |-> s[Nth(S, n)]]
  BY Zenon DEF Picked
<1>6. new \in Seq(T) /\ Len(new) = Cardinality(S) + 1
  <2>1. \A j \in S \cup {k} : j \in 1..Len(s)
    OBVIOUS
  <2>2. All \in SUBSET (1..Len(s))
    BY <2>1, Zenon
  <2> QED
    BY <1>2, <2>2, PickedType
<1> HIDE DEF new, old, All, k
<1>7. \A n \in 1..(Cardinality(S) + 1) :
         new[n] = IF n = Cardinality(S) + 1 THEN s[k] ELSE old[n]
  <2> TAKE n \in 1..(Cardinality(S) + 1)
  <2>1. CASE n = Cardinality(S) + 1
    BY <1>2, <1>4, <2>1
  <2>2. CASE n # Cardinality(S) + 1
    <3>1. n \in 1..Cardinality(S)
      BY <1>1, <2>2
    <3> QED
      BY <1>2, <1>4, <1>5, <2>2, <3>1
  <2> QED
    BY <2>1, <2>2
<1>8. /\ Append(old, s[k]) \in Seq(T)
      /\ Len(Append(old, s[k])) = Cardinality(S) + 1
      /\ \A n \in 1..(Cardinality(S) + 1) :
            Append(old, s[k])[n] = IF n = Cardinality(S) + 1 THEN s[k] ELSE old[n]
  <2>1. old \in Seq(T) /\ Len(old) = Cardinality(S)
    BY <1>3 DEF old
  <2> QED
    BY <1>1, <2>1
<1>9. new = Append(old, s[k])
  BY <1>6, <1>7, <1>8, SeqEqual
<1> QED
  BY <1>9 DEF new, old, All, k

\* ... and an appended entry is picked last, or not at all.
LEMMA PickedAppend ==
    ASSUME NEW T, NEW s \in Seq(T), NEW x \in T, NEW S \in SUBSET (1..Len(s))
    PROVE  /\ Picked(Append(s, x), S) = Picked(s, S)
           /\ Picked(Append(s, x), S \cup {Len(s) + 1}) = Append(Picked(s, S), x)
<1> DEFINE both == Append(s, x)
<1>1. /\ Len(s) \in Nat
      /\ both \in Seq(T) /\ Len(s) < Len(both)
      /\ both[Len(s) + 1] = x
      /\ \A i \in 1..Len(s) : both[i] = s[i]
  OBVIOUS
<1>2. \A n \in 1..Cardinality(S) : Nth(S, n) \in 1..Len(s)
  BY <1>1, NthIsThere
<1>3. Picked(both, S) = Picked(s, S)
  BY <1>1, <1>2 DEF Picked
<1> HIDE DEF both
<1>4. Picked(both, S \cup {Len(s) + 1}) = Append(Picked(both, S), both[Len(s) + 1])
  BY <1>1, PickedNext
<1> QED
  BY <1>1, <1>3, <1>4 DEF both

=============================================================================
