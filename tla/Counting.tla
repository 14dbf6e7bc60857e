------------------------------ MODULE Counting ------------------------------
(***************************************************************************)
(* How often a value occurs in a list: what appending, taking off the      *)
(* front, erasing an element and concatenating do to the count.  The lock  *)
(* tables and the loads of the workers are counts of this kind.            *)
(***************************************************************************)
EXTENDS Integers, Sequences, FiniteSets, SequenceTheorems, FiniteSetTheorems,
        WellFoundedInduction, TLAPS

PlacesOf(list, v) == {i \in DOMAIN list : list[i] = v}
Occurrences(list, v) == Cardinality(PlacesOf(list, v))

\* The list without its element at place k.
Erased(list, k) == [j \in 1 .. Len(list) - 1 |-> IF j < k THEN list[j] ELSE list[j + 1]]

\* The places of a value in a list are finitely many, and none when it does not occur.
LEMMA OccurrencesNumber ==
    ASSUME NEW S, NEW list \in Seq(S), NEW v
    PROVE  /\ IsFiniteSet(PlacesOf(list, v)) /\ Occurrences(list, v) = Cardinality(PlacesOf(list, v))
           /\ Occurrences(list, v) \in Nat
           /\ Occurrences(list, v) = 0 <=> \A i \in DOMAIN list : list[i] # v
<1>1. DOMAIN list = 1 .. Len(list) /\ Len(list) \in Nat OBVIOUS
<1>2. IsFiniteSet(DOMAIN list) BY <1>1, FS_Interval
<1>3. PlacesOf(list, v) \in SUBSET DOMAIN list BY DEF PlacesOf
<1>4. IsFiniteSet(PlacesOf(list, v)) BY <1>2, <1>3, FS_Subset
<1>5. Cardinality(PlacesOf(list, v)) \in Nat BY <1>4, FS_CardinalityType
<1>6. Cardinality(PlacesOf(list, v)) = 0 <=> PlacesOf(list, v) = {} BY <1>4, FS_EmptySet
<1>7. PlacesOf(list, v) = {} <=> \A i \in DOMAIN list : list[i] # v BY DEF PlacesOf
<1> QED BY <1>4, <1>5, <1>6, <1>7 DEF Occurrences

\* What erasing one element leaves.
LEMMA ErasedElements ==
    ASSUME NEW S, NEW list \in Seq(S), NEW i \in DOMAIN list
    PROVE  /\ Erased(list, i) \in Seq(S)
           /\ Len(Erased(list, i)) = Len(list) - 1
           /\ \A j \in DOMAIN Erased(list, i) :
                Erased(list, i)[j] = list[IF j < i THEN j ELSE j + 1]
<1>1. Len(list) \in Nat /\ i \in 1 .. Len(list) /\ DOMAIN list = 1 .. Len(list)
  OBVIOUS
<1>2. \A j \in 1 .. Len(list) - 1 :
         (IF j < i THEN list[j] ELSE list[j + 1]) \in S
  BY <1>1
<1>3. Erased(list, i) \in [1 .. Len(list) - 1 -> S]
  BY <1>2 DEF Erased
<1>4. Erased(list, i) \in Seq(S) /\ Len(Erased(list, i)) = Len(list) - 1
  <2>1. Len(list) - 1 \in Nat
    BY <1>1
  <2>2. Erased(list, i) \in Seq(S)
    BY <1>3, <2>1, SeqDef
  <2>3. QED
    BY <1>3, <2>1, <2>2
<1>5. QED
  BY <1>1, <1>3, <1>4 DEF Erased

One(b) == IF b THEN 1 ELSE 0

\* What Append adds to the count.
LEMMA OccurrencesAppend ==
    ASSUME NEW S, NEW list \in Seq(S), NEW x \in S, NEW v
    PROVE  Occurrences(Append(list, x), v) = Occurrences(list, v) + One(x = v)
<1> DEFINE new == Append(list, x)
           n == Len(list) + 1
<1>1. new \in Seq(S) /\ DOMAIN new = 1 .. n /\ DOMAIN list = 1 .. Len(list) /\ Len(list) \in Nat
  OBVIOUS
<1>2. \A i \in DOMAIN list : new[i] = list[i] OBVIOUS
<1>3. new[n] = x OBVIOUS
<1>4. \A i \in DOMAIN new : i = n \/ i \in DOMAIN list BY <1>1
<1>5. n \in DOMAIN new /\ n \notin DOMAIN list /\ \A i \in DOMAIN list : i \in DOMAIN new BY <1>1
<1> HIDE DEF new, n
<1>6. IsFiniteSet(PlacesOf(list, v)) /\ Occurrences(list, v) = Cardinality(PlacesOf(list, v))
      /\ Occurrences(list, v) \in Nat
  BY OccurrencesNumber
<1>7. Occurrences(new, v) = Cardinality(PlacesOf(new, v)) BY <1>1, OccurrencesNumber
<1>8. n \notin PlacesOf(list, v) BY <1>5 DEF PlacesOf
<1>9. CASE x = v
  <2>1. PlacesOf(new, v) = PlacesOf(list, v) \cup {n} BY <1>2, <1>3, <1>4, <1>5, <1>9 DEF PlacesOf
  <2>2. Cardinality(PlacesOf(list, v) \cup {n}) = Cardinality(PlacesOf(list, v)) + 1
    BY <1>6, <1>8, FS_AddElement
  <2> QED BY <1>6, <1>7, <1>9, <2>1, <2>2 DEF One, new
<1>10. CASE x # v
  <2>1. PlacesOf(new, v) = PlacesOf(list, v) BY <1>2, <1>3, <1>4, <1>5, <1>10 DEF PlacesOf
  <2> QED BY <1>6, <1>7, <1>10, <2>1 DEF One, new
<1> QED BY <1>9, <1>10

\* What erasing an element takes from the count.
LEMMA OccurrencesErased ==
    ASSUME NEW S, NEW list \in Seq(S), NEW k \in DOMAIN list, NEW v
    PROVE  Occurrences(Erased(list, k), v) = Occurrences(list, v) - One(list[k] = v)
<1> DEFINE new == Erased(list, k)
           old(j) == IF j < k THEN j ELSE j + 1
           P == PlacesOf(new, v)
           Q == PlacesOf(list, v) \ {k}
           f == [j \in P |-> old(j)]
<1>1. new \in Seq(S) /\ Len(new) = Len(list) - 1 /\ \A j \in DOMAIN new : new[j] = list[old(j)]
  BY ErasedElements
<1>2. Len(list) \in Nat /\ DOMAIN list = 1 .. Len(list) /\ DOMAIN new = 1 .. Len(list) - 1 /\ k \in Int
  BY <1>1
<1>3. \A j \in DOMAIN new : old(j) \in DOMAIN list /\ old(j) # k BY <1>1, <1>2
<1>4. \A i, j \in DOMAIN new : i # j => old(i) # old(j) BY <1>2
<1>5. ASSUME NEW i \in DOMAIN list, i # k PROVE \E j \in DOMAIN new : old(j) = i
  <2>1. i \in Int /\ k \in 1 .. Len(list) /\ i \in 1 .. Len(list) BY <1>2
  <2>2. CASE i < k
    <3>1. i \in DOMAIN new /\ old(i) = i BY <1>2, <2>1, <2>2
    <3> QED BY <3>1
  <2>3. CASE i > k
    <3>1. i - 1 \in DOMAIN new /\ old(i - 1) = i BY <1>2, <2>1, <2>3
    <3> QED BY <3>1
  <2> QED BY <1>5, <2>1, <2>2, <2>3
<1> HIDE DEF new, old
<1>6. P \subseteq DOMAIN new /\ \A j \in P : old(j) \in Q BY <1>1, <1>3 DEF PlacesOf
<1>7. ASSUME NEW i \in Q PROVE \E j \in P : old(j) = i
  <2>1. i \in DOMAIN list /\ list[i] = v /\ i # k BY DEF PlacesOf
  <2>2. PICK j \in DOMAIN new : old(j) = i BY <1>5, <2>1
  <2>3. j \in P BY <1>1, <2>1, <2>2 DEF PlacesOf
  <2> QED BY <2>2, <2>3
<1>8. \A i, j \in P : i # j => old(i) # old(j) BY <1>4, <1>6
<1>9. IsFiniteSet(P) /\ Occurrences(new, v) = Cardinality(P) BY <1>1, OccurrencesNumber
<1>10. IsFiniteSet(PlacesOf(list, v)) /\ Occurrences(list, v) = Cardinality(PlacesOf(list, v))
       /\ Occurrences(list, v) \in Nat
  BY OccurrencesNumber
<1>11. Cardinality(Q) = IF k \in PlacesOf(list, v) THEN Cardinality(PlacesOf(list, v)) - 1
                        ELSE Cardinality(PlacesOf(list, v))
  BY <1>10, FS_RemoveElement
<1>12. k \in PlacesOf(list, v) <=> list[k] = v BY DEF PlacesOf
<1> HIDE DEF P, Q
<1>13. f \in [P -> Q] BY <1>6
<1>14. f \in Injection(P, Q) BY <1>8, <1>13 DEF Injection, IsInjective
<1>15. f \in Surjection(P, Q) BY <1>7, <1>13 DEF Surjection
<1>16. f \in Bijection(P, Q) BY <1>14, <1>15 DEF Bijection
<1>17. ExistsBijection(P, Q) BY <1>16 DEF ExistsBijection
<1>18. Cardinality(Q) = Cardinality(P) BY <1>9, <1>17, FS_Bijection
<1> QED BY <1>9, <1>10, <1>11, <1>12, <1>18 DEF One, new

\* The tail of a list is the list without its first element.
LEMMA OccurrencesTail ==
    ASSUME NEW S, NEW list \in Seq(S), list # <<>>, NEW v
    PROVE  Occurrences(Tail(list), v) = Occurrences(list, v) - One(Head(list) = v)
<1>1. Len(list) \in Nat /\ Len(list) > 0 /\ DOMAIN list = 1 .. Len(list) OBVIOUS
<1>2. 1 \in DOMAIN list /\ list[1] = Head(list) BY <1>1
<1>3. Erased(list, 1) \in Seq(S) /\ Len(Erased(list, 1)) = Len(list) - 1
      /\ \A j \in DOMAIN Erased(list, 1) : Erased(list, 1)[j] = list[IF j < 1 THEN j ELSE j + 1]
  BY <1>2, ErasedElements
<1>4. Tail(list) \in Seq(S) /\ Len(Tail(list)) = Len(list) - 1 OBVIOUS
<1>5. \A j \in 1 .. Len(list) - 1 : Tail(list)[j] = list[j + 1] BY <1>1
<1>6. \A j \in 1 .. Len(list) - 1 : Erased(list, 1)[j] = list[j + 1] BY <1>1, <1>3
<1>7. Tail(list) = Erased(list, 1) BY <1>3, <1>4, <1>5, <1>6, SeqEqual
<1>8. Occurrences(Erased(list, 1), v) = Occurrences(list, v) - One(list[1] = v) BY <1>2, OccurrencesErased
<1> QED BY <1>2, <1>7, <1>8

\* The count in a concatenation.
LEMMA OccurrencesConcat ==
    ASSUME NEW S, NEW a \in Seq(S), NEW b \in Seq(S), NEW v
    PROVE  Occurrences(a \o b, v) = Occurrences(a, v) + Occurrences(b, v)
<1> DEFINE new == a \o b
           n == Len(a)
           P == PlacesOf(b, v)
           Q == {i \in PlacesOf(new, v) : i > n}
           f == [j \in P |-> j + n]
<1>1. new \in Seq(S) /\ Len(new) = n + Len(b) /\ n \in Nat /\ Len(b) \in Nat
      /\ DOMAIN a = 1 .. n /\ DOMAIN b = 1 .. Len(b) /\ DOMAIN new = 1 .. n + Len(b)
  OBVIOUS
<1>2. \A i \in 1 .. n + Len(b) : new[i] = IF i <= n THEN a[i] ELSE b[i - n] BY <1>1
<1> HIDE DEF new, n
<1>3. IsFiniteSet(P) /\ Occurrences(b, v) = Cardinality(P) BY OccurrencesNumber
<1>4. IsFiniteSet(PlacesOf(a, v)) /\ Occurrences(a, v) = Cardinality(PlacesOf(a, v)) BY OccurrencesNumber
<1>5. IsFiniteSet(PlacesOf(new, v)) /\ Occurrences(new, v) = Cardinality(PlacesOf(new, v))
  BY <1>1, OccurrencesNumber
<1>6. ASSUME NEW j \in P PROVE j + n \in Q /\ j \in Int
  <2>1. j \in 1 .. Len(b) /\ b[j] = v BY <1>1 DEF PlacesOf
  <2>2. j + n \in 1 .. n + Len(b) /\ ~(j + n <= n) /\ (j + n) - n = j BY <1>1, <2>1
  <2>3. new[j + n] = v BY <1>2, <2>1, <2>2
  <2> QED BY <1>1, <2>1, <2>2, <2>3 DEF PlacesOf
<1>7. ASSUME NEW i \in Q PROVE \E j \in P : j + n = i
  <2>1. i \in 1 .. n + Len(b) /\ new[i] = v /\ i > n BY <1>1 DEF PlacesOf
  <2>2. i - n \in 1 .. Len(b) /\ (i - n) + n = i /\ ~(i <= n) BY <1>1, <2>1
  <2>3. b[i - n] = v BY <1>2, <2>1, <2>2
  <2> QED BY <1>1, <2>2, <2>3 DEF PlacesOf
<1>8. \A i, j \in P : i # j => i + n # j + n BY <1>1, <1>6
<1>9. PlacesOf(new, v) = PlacesOf(a, v) \cup Q
  <2>1. ASSUME NEW i \in PlacesOf(a, v) PROVE i \in PlacesOf(new, v) /\ i <= n /\ i \in Int
    <3>1. i \in 1 .. n /\ a[i] = v BY <1>1 DEF PlacesOf
    <3>2. i \in 1 .. n + Len(b) /\ i <= n BY <1>1, <3>1
    <3> QED BY <1>1, <1>2, <3>1, <3>2 DEF PlacesOf
  <2>2. ASSUME NEW i \in PlacesOf(new, v), i \notin Q PROVE i \in PlacesOf(a, v)
    <3>1. i \in 1 .. n + Len(b) /\ new[i] = v /\ ~(i > n) BY <1>1, <2>2 DEF PlacesOf
    <3>2. i \in 1 .. n /\ i <= n BY <1>1, <3>1
    <3> QED BY <1>1, <1>2, <3>1, <3>2 DEF PlacesOf
  <2> QED BY <2>1, <2>2
<1>10. PlacesOf(a, v) \cap Q = {}
  <2>1. ASSUME NEW i \in PlacesOf(a, v) PROVE ~(i > n)
    <3>1. i \in 1 .. n BY <1>1 DEF PlacesOf
    <3> QED BY <1>1, <3>1
  <2> QED BY <2>1
<1>11. IsFiniteSet(Q) BY <1>5, FS_Subset
<1> HIDE DEF P, Q
<1>12. f \in [P -> Q] BY <1>6
<1>13. f \in Injection(P, Q) BY <1>8, <1>12 DEF Injection, IsInjective
<1>14. f \in Surjection(P, Q) BY <1>7, <1>12 DEF Surjection
<1>15. ExistsBijection(P, Q) BY <1>13, <1>14 DEF Bijection, ExistsBijection
<1>16. Cardinality(Q) = Cardinality(P) BY <1>3, <1>15, FS_Bijection
<1>17. Cardinality(PlacesOf(new, v)) = Cardinality(PlacesOf(a, v)) + Cardinality(Q)
                                     - Cardinality(PlacesOf(a, v) \cap Q)
  BY <1>4, <1>9, <1>11, FS_Union
<1>18. Cardinality(PlacesOf(a, v) \cap Q) = 0 BY <1>10, FS_EmptySet
<1>19. Cardinality(PlacesOf(a, v)) \in Nat /\ Cardinality(P) \in Nat
  BY <1>3, <1>4, FS_CardinalityType
<1> QED BY <1>3, <1>4, <1>5, <1>16, <1>17, <1>18, <1>19 DEF new

\* A set of numbers that is not empty has a least one.
LEMMA LeastNumber ==
    ASSUME NEW T, T \subseteq Nat, T # {}
    PROVE  \E x \in T : \A y \in T : x <= y
<1> DEFINE R == OpToRel(<, Nat)
<1>1. IsWellFoundedOn(R, Nat) BY NatLessThanWellFounded, Zenon
<1>2. \A x, y \in Nat : <<x, y>> \in R <=> x < y BY DEF OpToRel
<1> HIDE DEF R
<1>3. PICK x \in T : \A y \in T : ~ (<<y, x>> \in R) BY <1>1, WFMin
<1>4. \A y \in T : ~(y < x) BY <1>2, <1>3
<1>5. \A y \in T : x <= y BY <1>4
<1> QED BY <1>5

\* The size of a set of which only the membership of one element may change.
LEMMA CountChange ==
    ASSUME NEW T, IsFiniteSet(T), NEW t \in T, NEW A \in SUBSET T, NEW B \in SUBSET T,
           \A u \in T : u # t => (u \in A <=> u \in B)
    PROVE  /\ Cardinality(A) \in Nat /\ Cardinality(B) \in Nat
           /\ Cardinality(B) = Cardinality(A) + One(t \in B) - One(t \in A)
<1>1. IsFiniteSet(A) /\ IsFiniteSet(B) BY FS_Subset
<1>2. Cardinality(A) \in Nat /\ Cardinality(B) \in Nat BY <1>1, FS_CardinalityType
<1>3. CASE t \in A <=> t \in B
  <2>1. A = B BY <1>3
  <2> QED BY <1>2, <2>1 DEF One
<1>4. CASE t \in A /\ t \notin B
  <2>1. B = A \ {t} BY <1>4
  <2>2. Cardinality(A \ {t}) = Cardinality(A) - 1 BY <1>1, <1>4, FS_RemoveElement
  <2> QED BY <1>2, <1>4, <2>1, <2>2 DEF One
<1>5. CASE t \notin A /\ t \in B
  <2>1. B = A \cup {t} BY <1>5
  <2>2. Cardinality(A \cup {t}) = Cardinality(A) + 1 BY <1>1, <1>5, FS_AddElement
  <2> QED BY <1>2, <1>5, <2>1, <2>2 DEF One
<1> QED BY <1>3, <1>4, <1>5
=============================================================================
