----------------------------- MODULE ListsProofs -----------------------------
(***************************************************************************)
(* Facts about lists (Lists and the sequence modules) and induction over   *)
(* the naturals, as the proofs about surfaces and editors need them.       *)
(***************************************************************************)
EXTENDS Lists, SequencesExt, SequenceTheorems, FiniteSetTheorems, FunctionTheorems,
        WellFoundedInduction, TLAPS

-----------------------------------------------------------------------------
(* Sequences.                                                              *)

\* The front of a sequence and its last entry.
LEMMA FrontAndLast ==
  ASSUME NEW S, NEW s \in Seq(S), s # <<>>
  PROVE  Front(s) \in Seq(S) /\ Last(s) \in S
<1>1. Len(s) \in Nat /\ Len(s) >= 1
  BY EmptySeq, LenProperties
<1>2. Last(s) \in S
  BY <1>1, ElementOfSeq DEF Last
<1>3. PICK n \in Int : n = Len(s) - 1
  BY <1>1
<1>4. \A i \in 1..n : s[i] \in S
  BY <1>1, <1>3, ElementOfSeq
<1>5. SubSeq(s, 1, n) \in Seq(S)
  BY <1>3, <1>4, SubSeqProperties
<1>6. QED
  BY <1>2, <1>3, <1>5 DEF Front

\* What two parts of a sequence, a part of it left out, hold.
LEMMA RemovedAt ==
  ASSUME NEW S, NEW s \in Seq(S), NEW k \in DOMAIN s
  PROVE  /\ RemoveAt(s, k) \in Seq(S)
         /\ Len(RemoveAt(s, k)) = Len(s) - 1
         /\ \A i \in 1..Len(s) - 1 : RemoveAt(s, k)[i] = IF i < k THEN s[i] ELSE s[i + 1]
<1>1. /\ Len(s) \in Nat /\ k \in 1..Len(s) /\ \A i \in 1..Len(s) : s[i] \in S
  BY LenProperties, ElementOfSeq
<1>2. PICK a : a = SubSeq(s, 1, k - 1)
  OBVIOUS
<1>3. PICK b : b = SubSeq(s, k + 1, Len(s))
  OBVIOUS
<1>4. /\ a \in Seq(S) /\ Len(a) = k - 1 /\ \A i \in 1..k - 1 : a[i] = s[i]
  <2>1. /\ 1 \in Int /\ k - 1 \in Int /\ \A i \in 1..k - 1 : s[i] \in S
        /\ (IF 1 <= k - 1 THEN k - 1 - 1 + 1 ELSE 0) = k - 1
    BY <1>1
  <2>2. \A i \in 1..k - 1 - 1 + 1 : a[i] = s[1 + i - 1]
    BY <1>2, <2>1, SubSeqProperties
  <2>3. a \in Seq(S) /\ Len(a) = IF 1 <= k - 1 THEN k - 1 - 1 + 1 ELSE 0
    BY <1>2, <2>1, SubSeqProperties
  <2>4. QED
    BY <1>1, <2>1, <2>2, <2>3
<1>5. /\ b \in Seq(S) /\ Len(b) = Len(s) - k /\ \A i \in 1..Len(s) - k : b[i] = s[k + i]
  <2>1. /\ k + 1 \in Int /\ Len(s) \in Int /\ \A i \in k + 1..Len(s) : s[i] \in S
        /\ (IF k + 1 <= Len(s) THEN Len(s) - (k + 1) + 1 ELSE 0) = Len(s) - k
    BY <1>1
  <2>2. \A i \in 1..Len(s) - (k + 1) + 1 : b[i] = s[k + 1 + i - 1]
    BY <1>3, <2>1, SubSeqProperties
  <2>3. b \in Seq(S) /\ Len(b) = IF k + 1 <= Len(s) THEN Len(s) - (k + 1) + 1 ELSE 0
    BY <1>3, <2>1, SubSeqProperties
  <2>4. QED
    BY <1>1, <2>1, <2>2, <2>3
<1>6. /\ a \o b \in Seq(S) /\ Len(a \o b) = Len(a) + Len(b)
      /\ \A i \in 1..Len(a) + Len(b) : (a \o b)[i] = IF i <= Len(a) THEN a[i] ELSE b[i - Len(a)]
  BY <1>4, <1>5, ConcatProperties
<1>7. ASSUME NEW i \in 1..Len(s) - 1
      PROVE  (a \o b)[i] = IF i < k THEN s[i] ELSE s[i + 1]
  <2>1. (a \o b)[i] = IF i <= k - 1 THEN a[i] ELSE b[i - (k - 1)]
    <3>1. Len(a) = k - 1 /\ i \in 1..Len(a) + Len(b)
      BY <1>1, <1>4, <1>5
    <3>2. QED
      BY <1>6, <3>1
  <2>2. CASE i < k
    <3>1. i \in 1..k - 1 /\ i <= k - 1
      BY <1>1, <2>2
    <3>2. a[i] = s[i]
      BY <1>4, <3>1
    <3>3. QED
      BY <2>1, <2>2, <3>1, <3>2
  <2>3. CASE ~(i < k)
    <3>1. i - (k - 1) \in 1..Len(s) - k /\ k + (i - (k - 1)) = i + 1
      BY <1>1, <2>3
    <3>2. b[i - (k - 1)] = s[i + 1]
      BY <1>5, <3>1
    <3>3. QED
      BY <1>1, <2>1, <2>3, <3>2
  <2>4. QED
    BY <2>2, <2>3
<1>8. RemoveAt(s, k) = a \o b
  BY <1>2, <1>3 DEF RemoveAt
<1>9. Len(a \o b) = Len(s) - 1
  BY <1>1, <1>4, <1>5, <1>6
<1>10. QED
  BY <1>6, <1>7, <1>8, <1>9

\* A function of the first numbers is a sequence.
LEMMA FunctionIsSeq ==
  ASSUME NEW S, NEW n \in Nat, NEW f \in [1..n -> S]
  PROVE  f \in Seq(S) /\ Len(f) = n
<1>1. f \in UNION {[1..m -> S] : m \in Nat}
  OBVIOUS
<1>2. f \in Seq(S)
  BY <1>1, SeqDef
<1>3. QED
  BY <1>2, LenProperties

\* A sequence of one element.
LEMMA OneElementSeq ==
  ASSUME NEW S, NEW e \in S
  PROVE  <<e>> \in Seq(S) /\ <<e>> # <<>>
<1>1. Len(<<e>>) = 1 /\ Len(<<>>) = 0
  OBVIOUS
<1>2. <<e>> \in Seq(S)
  OBVIOUS
<1>3. QED
  BY <1>1, <1>2

\* What an insertion keeps.
LEMMA InsertedAt ==
  ASSUME NEW S, NEW s \in Seq(S), NEW k \in 1..Len(s) + 1, NEW e \in S
  PROVE  InsertAt(s, k, e) \in Seq(S) /\ InsertAt(s, k, e) # <<>>
<1>1. Len(s) \in Nat /\ \A i \in 1..Len(s) : s[i] \in S
  BY LenProperties, ElementOfSeq
<1>2. SubSeq(s, 1, k - 1) \in Seq(S)
  <2>1. 1 \in Int /\ k - 1 \in Int /\ \A i \in 1..k - 1 : s[i] \in S
    BY <1>1
  <2>2. QED
    BY <2>1, SubSeqProperties
<1>3. SubSeq(s, k, Len(s)) \in Seq(S)
  <2>1. k \in Int /\ Len(s) \in Int /\ \A i \in k..Len(s) : s[i] \in S
    BY <1>1
  <2>2. QED
    BY <2>1, SubSeqProperties
<1>4. PICK a \in Seq(S), b \in Seq(S) : InsertAt(s, k, e) = a \o <<e>> \o b
  BY <1>2, <1>3 DEF InsertAt
<1>5. <<e>> \in Seq(S) /\ Len(<<e>>) = 1
  OBVIOUS
<1>6. a \o <<e>> \in Seq(S) /\ Len(a \o <<e>>) = Len(a) + 1
  BY <1>5, ConcatProperties
<1>7. a \o <<e>> \o b \in Seq(S) /\ Len(a \o <<e>> \o b) = Len(a) + 1 + Len(b)
  BY <1>6, ConcatProperties
<1>8. Len(a) \in Nat /\ Len(b) \in Nat
  BY LenProperties
<1>9. Len(a \o <<e>> \o b) # 0
  BY <1>7, <1>8
<1>10. QED
  BY <1>4, <1>7, <1>9

-----------------------------------------------------------------------------
(* Enumerations.                                                           *)

\* The members of a finite set in the order that the pairs of R give them.
Enumerated(S, R) ==
  [k \in 1..Cardinality(S) |->
     CHOOSE i \in S : Cardinality({j \in S : <<j, i>> \in R}) = k - 1]

\* A strict total order.
Orders(R, S) ==
  /\ \A i \in S : <<i, i>> \notin R
  /\ \A i, j \in S : i # j => <<i, j>> \in R \/ <<j, i>> \in R
  /\ \A i, j, k \in S : <<i, j>> \in R /\ <<j, k>> \in R => <<i, k>> \in R

\* An enumeration has every member once, in its order.
LEMMA EnumeratedInOrder ==
  ASSUME NEW S, IsFiniteSet(S), NEW R, Orders(R, S)
  PROVE  /\ Cardinality(S) \in Nat
         /\ Enumerated(S, R) \in [1..Cardinality(S) -> S]
         /\ \A i \in S : \E k \in 1..Cardinality(S) : Enumerated(S, R)[k] = i
         /\ \A k, l \in 1..Cardinality(S) :
              k # l => Enumerated(S, R)[k] # Enumerated(S, R)[l]
<1> DEFINE Below(i) == {j \in S : <<j, i>> \in R}
           n == Cardinality(S)
<1>1. n \in Nat
  BY FS_CardinalityType
<1>2. ASSUME NEW i \in S
      PROVE  IsFiniteSet(Below(i)) /\ Cardinality(Below(i)) \in 0..(n - 1)
  <2>1. Below(i) \in SUBSET S /\ Below(i) # S
    BY DEF Orders
  <2> HIDE DEF Below
  <2>2. IsFiniteSet(Below(i)) /\ Cardinality(Below(i)) <= n /\ Cardinality(Below(i)) # n
    BY <2>1, FS_Subset
  <2>3. Cardinality(Below(i)) \in Nat
    BY <2>2, FS_CardinalityType
  <2>4. QED
    BY <1>1, <2>2, <2>3
<1>3. ASSUME NEW i \in S, NEW j \in S, <<i, j>> \in R
      PROVE  Cardinality(Below(i)) < Cardinality(Below(j))
  <2>1. Below(i) \in SUBSET Below(j) /\ Below(i) # Below(j)
    BY <1>3 DEF Orders
  <2> HIDE DEF Below
  <2>2. Cardinality(Below(i)) <= Cardinality(Below(j)) /\ Cardinality(Below(j)) # Cardinality(Below(i))
    BY <1>2, <2>1, FS_Subset
  <2>3. QED
    BY <1>2, <2>2
<1>4. PICK r : r = [i \in S |-> Cardinality(Below(i)) + 1]
  OBVIOUS
<1>5. \A i \in S : r[i] = Cardinality(Below(i)) + 1
  BY <1>4
<1>6. \A i \in S : Cardinality(Below(i)) + 1 \in 1..n
  <2> HIDE DEF Below
  <2>1. QED
    BY <1>1, <1>2
<1>7. \A i, j \in S : i # j => r[i] # r[j]
  <2> SUFFICES ASSUME NEW i \in S, NEW j \in S, i # j PROVE r[i] # r[j]
    OBVIOUS
  <2>1. <<i, j>> \in R \/ <<j, i>> \in R
    BY DEF Orders
  <2>2. Cardinality(Below(i)) # Cardinality(Below(j))
    <3> HIDE DEF Below
    <3>1. QED
      BY <1>2, <1>3, <2>1
  <2>3. QED
    <3> HIDE DEF Below
    <3>1. QED
      BY <1>2, <1>5, <2>2
<1> HIDE DEF Below
<1>8. r \in [S -> 1..n]
  BY <1>4, <1>6
<1>9. r \in Surjection(S, 1..n)
  <2>1. r \in Injection(S, 1..n)
    BY <1>7, <1>8, Fun_IsInj
  <2>2. IsFiniteSet(1..n) /\ Cardinality(1..n) = n
    BY <1>1, FS_Interval
  <2> HIDE DEF n
  <2>3. r \in Surjection(S, 1..n) <=> Cardinality(S) = Cardinality(1..n)
    BY <2>1, <2>2, FS_Injection
  <2>4. QED
    BY <2>2, <2>3 DEF n
<1>10. \A k \in 1..n : \E i \in S : r[i] = k
  BY <1>9 DEF Surjection
<1>11. PICK e : e = Enumerated(S, R)
  OBVIOUS
<1>12. /\ e = [k \in 1..n |-> CHOOSE i \in S : Cardinality(Below(i)) = k - 1]
  BY <1>11 DEF Enumerated, Below
<1>13. ASSUME NEW k \in 1..n PROVE e[k] \in S /\ r[e[k]] = k
  <2>1. e[k] = CHOOSE i \in S : Cardinality(Below(i)) = k - 1
    BY <1>12
  <2>2. PICK i \in S : r[i] = k
    BY <1>10
  <2>3. Cardinality(Below(i)) = k - 1
    BY <1>2, <1>5, <2>2
  <2>4. e[k] \in S /\ Cardinality(Below(e[k])) = k - 1
    BY <2>1, <2>3
  <2>5. QED
    BY <1>1, <1>5, <2>4
<1>14. e \in [1..n -> S]
  BY <1>12, <1>13
<1>15. \A i \in S : r[i] \in 1..n /\ e[r[i]] = i
  BY <1>7, <1>8, <1>13
<1>16. \A k, l \in 1..n : k # l => e[k] # e[l]
  BY <1>13
<1> HIDE DEF n
<1>17. QED
  <2>1. /\ n \in Nat /\ e \in [1..n -> S]
        /\ \A i \in S : \E k \in 1..n : e[k] = i
        /\ \A k, l \in 1..n : k # l => e[k] # e[l]
    BY <1>1, <1>14, <1>15, <1>16
  <2>2. QED
    BY <1>11, <2>1 DEF n

\* The members of a finite set of numbers, the least one first.
LEMMA AscendingInOrder ==
  ASSUME NEW S \in SUBSET Nat, IsFiniteSet(S)
  PROVE  /\ Cardinality(S) \in Nat
         /\ Ascending(S) \in [1..Cardinality(S) -> S]
         /\ \A i \in S : \E k \in 1..Cardinality(S) : Ascending(S)[k] = i
         /\ \A k, l \in 1..Cardinality(S) : k # l => Ascending(S)[k] # Ascending(S)[l]
<1> DEFINE R == {pair \in S \X S : pair[1] < pair[2]}
<1>1. \A i, j \in S : <<i, j>> \in R <=> i < j
  OBVIOUS
<1> HIDE DEF R
<1>2. Orders(R, S)
  BY <1>1 DEF Orders
<1>3. ASSUME NEW i \in S PROVE {j \in S : <<j, i>> \in R} = {j \in S : j < i}
  BY <1>1
<1>4. Enumerated(S, R) = Ascending(S)
  <2> DEFINE first(k) == CHOOSE i \in S : Cardinality({j \in S : <<j, i>> \in R}) = k - 1
             second(k) == CHOOSE i \in S : Cardinality({j \in S : j < i}) = k - 1
  <2>1. \A k \in 1..Cardinality(S) : first(k) = second(k)
    BY <1>3
  <2>2. /\ Enumerated(S, R) = [k \in 1..Cardinality(S) |-> first(k)]
        /\ Ascending(S) = [k \in 1..Cardinality(S) |-> second(k)]
    BY DEF Enumerated, Ascending
  <2> HIDE DEF first, second
  <2>3. QED
    BY <2>1, <2>2
<1>5. QED
  BY <1>2, <1>4, EnumeratedInOrder

\* A filtered list has the entries of the places that stay, each once.
LEMMA PickedEntries ==
  ASSUME NEW V, NEW list \in Seq(V), NEW places \in SUBSET (1..Len(list))
  PROVE  /\ Picked(list, places) \in Seq(V)
         /\ \A k \in 1..Len(Picked(list, places)) :
              \E i \in places : Picked(list, places)[k] = list[i]
         /\ \A i \in places : \E k \in 1..Len(Picked(list, places)) :
              Picked(list, places)[k] = list[i]
         /\ (\A i, j \in places : list[i] = list[j] => i = j) =>
              \A k, l \in 1..Len(Picked(list, places)) :
                Picked(list, places)[k] = Picked(list, places)[l] => k = l
<1>1. /\ Len(list) \in Nat /\ DOMAIN list = 1..Len(list)
      /\ \A i \in 1..Len(list) : list[i] \in V
  BY LenProperties, ElementOfSeq
<1>2. places \in SUBSET Nat /\ IsFiniteSet(places)
  <2>1. IsFiniteSet(1..Len(list))
    BY <1>1, FS_Interval
  <2>2. IsFiniteSet(places)
    BY <2>1, FS_Subset
  <2>3. QED
    BY <1>1, <2>2
<1> DEFINE n == Cardinality(places)
           at == Ascending(places)
           p == Picked(list, places)
<1>3. /\ n \in Nat /\ at \in [1..n -> places]
      /\ \A i \in places : \E k \in 1..n : at[k] = i
      /\ \A k, l \in 1..n : k # l => at[k] # at[l]
  BY <1>2, AscendingInOrder
<1>4. p = [k \in 1..n |-> list[at[k]]]
  BY DEF Picked
<1> HIDE DEF n, at, p
<1>5. \A k \in 1..n : at[k] \in places /\ p[k] = list[at[k]] /\ p[k] \in V
  BY <1>1, <1>3, <1>4
<1>6. p \in [1..n -> V]
  BY <1>1, <1>3, <1>4
<1>7. p \in Seq(V) /\ Len(p) = n
  BY <1>3, <1>6, SeqDef, LenProperties
<1>8. \A i \in places : \E k \in 1..n : p[k] = list[i]
  BY <1>3, <1>5
<1>9. ASSUME \A i, j \in places : list[i] = list[j] => i = j
      PROVE  \A k, l \in 1..n : p[k] = p[l] => k = l
  <2>1. SUFFICES ASSUME NEW k \in 1..n, NEW l \in 1..n, p[k] = p[l] PROVE k = l
    OBVIOUS
  <2>2. at[k] \in places /\ at[l] \in places /\ list[at[k]] = list[at[l]]
    BY <1>5, <2>1
  <2>3. at[k] = at[l]
    BY <1>9, <2>2
  <2>4. QED
    BY <1>3, <2>3
<1>10. QED
  BY <1>5, <1>7, <1>8, <1>9 DEF p

\* A list without some entries.
LEMMA OmitEntries ==
  ASSUME NEW V, NEW list \in Seq(V), NEW gone
  PROVE  /\ Omit(list, gone) \in Seq(V)
         /\ ToSet(Omit(list, gone)) = ToSet(list) \ gone
         /\ IsInjective(list) => IsInjective(Omit(list, gone))
<1> DEFINE places == {i \in DOMAIN list : list[i] \notin gone}
           p == Picked(list, places)
<1>1. DOMAIN list = 1..Len(list)
  BY LenProperties
<1>2. places \in SUBSET (1..Len(list))
  BY <1>1
<1>3. \A i \in DOMAIN list : i \in places <=> list[i] \notin gone
  OBVIOUS
<1>4. Omit(list, gone) = p
  BY DEF Omit
<1> HIDE DEF places, p
<1>5. /\ p \in Seq(V)
      /\ \A k \in 1..Len(p) : \E i \in places : p[k] = list[i]
      /\ \A i \in places : \E k \in 1..Len(p) : p[k] = list[i]
      /\ (\A i, j \in places : list[i] = list[j] => i = j) =>
           \A k, l \in 1..Len(p) : p[k] = p[l] => k = l
  BY <1>2, PickedEntries DEF p
<1>6. DOMAIN p = 1..Len(p)
  BY <1>5, LenProperties
<1>7. ToSet(p) = ToSet(list) \ gone
  <2>1. ASSUME NEW x \in ToSet(p) PROVE x \in ToSet(list) \ gone
    <3>1. PICK k \in 1..Len(p) : x = p[k]
      BY <1>6 DEF ToSet
    <3>2. PICK i \in places : p[k] = list[i]
      BY <1>5, <3>1
    <3>3. i \in DOMAIN list /\ list[i] \notin gone
      BY <1>1, <1>2, <1>3, <3>2
    <3>4. QED
      BY <3>1, <3>2, <3>3 DEF ToSet
  <2>2. ASSUME NEW x \in ToSet(list) \ gone PROVE x \in ToSet(p)
    <3>1. PICK i \in DOMAIN list : x = list[i]
      BY DEF ToSet
    <3>2. i \in places
      BY <1>3, <2>2, <3>1
    <3>3. PICK k \in 1..Len(p) : p[k] = list[i]
      BY <1>5, <3>2
    <3>4. QED
      BY <1>6, <3>1, <3>3 DEF ToSet
  <2>3. QED
    BY <2>1, <2>2
<1>8. IsInjective(list) => IsInjective(p)
  BY <1>1, <1>2, <1>5, <1>6 DEF IsInjective
<1>9. QED
  BY <1>4, <1>5, <1>7, <1>8

\* Two lists, one after the other.
LEMMA JoinedEntries ==
  ASSUME NEW V, NEW a \in Seq(V), NEW b \in Seq(V)
  PROVE  /\ a \o b \in Seq(V)
         /\ ToSet(a \o b) = ToSet(a) \cup ToSet(b)
         /\ IsInjective(a) /\ IsInjective(b) /\ ToSet(a) \cap ToSet(b) = {} => IsInjective(a \o b)
<1>1. PICK j : j = a \o b
  OBVIOUS
<1>2. /\ j \in Seq(V) /\ Len(j) = Len(a) + Len(b)
      /\ \A i \in 1..Len(a) + Len(b) : j[i] = IF i <= Len(a) THEN a[i] ELSE b[i - Len(a)]
  BY <1>1, ConcatProperties
<1>3. /\ Len(a) \in Nat /\ DOMAIN a = 1..Len(a) /\ Len(b) \in Nat /\ DOMAIN b = 1..Len(b)
      /\ DOMAIN j = 1..Len(a) + Len(b)
  BY <1>2, LenProperties
<1>4. \A i \in 1..Len(a) : i \in 1..Len(a) + Len(b) /\ j[i] = a[i]
  BY <1>2, <1>3
<1>5. \A i \in 1..Len(b) : Len(a) + i \in 1..Len(a) + Len(b) /\ j[Len(a) + i] = b[i]
  <2> SUFFICES ASSUME NEW i \in 1..Len(b)
               PROVE  Len(a) + i \in 1..Len(a) + Len(b) /\ j[Len(a) + i] = b[i]
    OBVIOUS
  <2>1. Len(a) + i \in 1..Len(a) + Len(b) /\ ~(Len(a) + i <= Len(a)) /\ Len(a) + i - Len(a) = i
    BY <1>3
  <2>2. QED
    BY <1>2, <2>1
<1>6. \A i \in 1..Len(a) + Len(b) :
        i \in 1..Len(a) \/ (i - Len(a) \in 1..Len(b) /\ i = Len(a) + (i - Len(a)))
  BY <1>3
<1>7. ToSet(j) = ToSet(a) \cup ToSet(b)
  <2>1. ASSUME NEW x \in ToSet(j) PROVE x \in ToSet(a) \cup ToSet(b)
    <3>1. PICK i \in 1..Len(a) + Len(b) : x = j[i]
      BY <1>3 DEF ToSet
    <3>2. CASE i \in 1..Len(a)
      BY <1>3, <1>4, <3>1, <3>2 DEF ToSet
    <3>3. CASE i - Len(a) \in 1..Len(b) /\ i = Len(a) + (i - Len(a))
      BY <1>3, <1>5, <3>1, <3>3 DEF ToSet
    <3>4. QED
      BY <1>6, <3>2, <3>3
  <2>2. ASSUME NEW x \in ToSet(a) PROVE x \in ToSet(j)
    BY <1>3, <1>4 DEF ToSet
  <2>3. ASSUME NEW x \in ToSet(b) PROVE x \in ToSet(j)
    <3>1. PICK i \in 1..Len(b) : x = b[i]
      BY <1>3 DEF ToSet
    <3>2. Len(a) + i \in DOMAIN j /\ j[Len(a) + i] = x
      BY <1>3, <1>5, <3>1
    <3>3. QED
      BY <3>2 DEF ToSet
  <2>4. QED
    BY <2>1, <2>2, <2>3
<1>8. ASSUME IsInjective(a), IsInjective(b), ToSet(a) \cap ToSet(b) = {}
      PROVE  IsInjective(j)
  <2>1. SUFFICES ASSUME NEW x \in 1..Len(a) + Len(b), NEW y \in 1..Len(a) + Len(b), j[x] = j[y]
                 PROVE  x = y
    BY <1>3 DEF IsInjective
  <2>2. CASE x \in 1..Len(a) /\ y \in 1..Len(a)
    BY <1>3, <1>4, <1>8, <2>1, <2>2 DEF IsInjective
  <2>3. ASSUME NEW u \in 1..Len(a), NEW v \in 1..Len(b) PROVE a[u] # b[v]
    BY <1>3, <1>8 DEF ToSet
  <2>4. CASE x \notin 1..Len(a) /\ y \notin 1..Len(a)
    <3>1. PICK u \in 1..Len(b), v \in 1..Len(b) : x = Len(a) + u /\ y = Len(a) + v
      BY <1>6, <2>4
    <3>2. b[u] = b[v]
      BY <1>5, <2>1, <3>1
    <3>3. u = v
      BY <1>3, <1>8, <3>2 DEF IsInjective
    <3>4. QED
      BY <3>1, <3>3
  <2>5. CASE x \in 1..Len(a) /\ y \notin 1..Len(a)
    <3>1. PICK v \in 1..Len(b) : y = Len(a) + v
      BY <1>6, <2>5
    <3>2. QED
      BY <1>4, <1>5, <2>1, <2>3, <2>5, <3>1
  <2>6. CASE x \notin 1..Len(a) /\ y \in 1..Len(a)
    <3>1. PICK v \in 1..Len(b) : x = Len(a) + v
      BY <1>6, <2>6
    <3>2. QED
      BY <1>4, <1>5, <2>1, <2>3, <2>6, <3>1
  <2>7. QED
    BY <2>2, <2>4, <2>5, <2>6
<1>9. QED
  BY <1>1, <1>2, <1>7, <1>8

\* A part of a list.
LEMMA PartEntries ==
  ASSUME NEW V, NEW s \in Seq(V), NEW k \in 1..Len(s) + 1
  PROVE  /\ SubSeq(s, 1, k - 1) \in Seq(V) /\ SubSeq(s, k, Len(s)) \in Seq(V)
         /\ ToSet(SubSeq(s, 1, k - 1)) \cup ToSet(SubSeq(s, k, Len(s))) = ToSet(s)
         /\ IsInjective(s) => /\ IsInjective(SubSeq(s, 1, k - 1)) /\ IsInjective(SubSeq(s, k, Len(s)))
                             /\ ToSet(SubSeq(s, 1, k - 1)) \cap ToSet(SubSeq(s, k, Len(s))) = {}
<1>1. Len(s) \in Nat /\ DOMAIN s = 1..Len(s) /\ \A i \in 1..Len(s) : s[i] \in V
  BY LenProperties, ElementOfSeq
<1>2. PICK a, b : a = SubSeq(s, 1, k - 1) /\ b = SubSeq(s, k, Len(s))
  OBVIOUS
<1>3. a \in Seq(V) /\ DOMAIN a = 1..k - 1 /\ \A i \in 1..k - 1 : a[i] = s[i]
  <2>1. 1 \in Int /\ k - 1 \in Int /\ (\A i \in 1..k - 1 : s[i] \in V)
        /\ (IF 1 <= k - 1 THEN k - 1 - 1 + 1 ELSE 0) = k - 1 /\ k - 1 - 1 + 1 = k - 1
        /\ \A i \in 1..k - 1 : 1 + i - 1 = i
    BY <1>1
  <2>2. a \in Seq(V) /\ Len(a) = (IF 1 <= k - 1 THEN k - 1 - 1 + 1 ELSE 0)
        /\ \A i \in 1..k - 1 - 1 + 1 : a[i] = s[1 + i - 1]
    BY <1>2, <2>1, SubSeqProperties
  <2>3. DOMAIN a = 1..k - 1
    BY <2>1, <2>2, LenProperties
  <2>4. QED
    BY <2>1, <2>2, <2>3
<1>4. b \in Seq(V) /\ DOMAIN b = 1..Len(s) - k + 1 /\ \A i \in 1..Len(s) - k + 1 : b[i] = s[k + i - 1]
  <2>1. k \in Int /\ Len(s) \in Int /\ (\A i \in k..Len(s) : s[i] \in V)
        /\ (IF k <= Len(s) THEN Len(s) - k + 1 ELSE 0) = Len(s) - k + 1
    BY <1>1
  <2>2. b \in Seq(V) /\ Len(b) = (IF k <= Len(s) THEN Len(s) - k + 1 ELSE 0)
        /\ \A i \in 1..Len(s) - k + 1 : b[i] = s[k + i - 1]
    BY <1>2, <2>1, SubSeqProperties
  <2>3. DOMAIN b = 1..Len(s) - k + 1
    BY <2>1, <2>2, LenProperties
  <2>4. QED
    BY <2>2, <2>3
<1>5. \A i \in 1..k - 1 : i \in 1..Len(s)
  BY <1>1
<1>6. \A i \in 1..Len(s) - k + 1 : k + i - 1 \in 1..Len(s) /\ k + i - 1 \notin 1..k - 1
  BY <1>1
<1>7. \A i \in 1..Len(s) : (i \in 1..k - 1) \/ (i - k + 1 \in 1..Len(s) - k + 1 /\ k + (i - k + 1) - 1 = i)
  BY <1>1
<1>8. ToSet(a) \cup ToSet(b) = ToSet(s)
  <2>1. ASSUME NEW x \in ToSet(a) \cup ToSet(b) PROVE x \in ToSet(s)
    BY <1>1, <1>3, <1>4, <1>5, <1>6, <2>1 DEF ToSet
  <2>2. ASSUME NEW x \in ToSet(s) PROVE x \in ToSet(a) \cup ToSet(b)
    <3>1. PICK i \in 1..Len(s) : x = s[i]
      BY <1>1 DEF ToSet
    <3>2. CASE i \in 1..k - 1
      BY <1>3, <3>1, <3>2 DEF ToSet
    <3>3. CASE i \notin 1..k - 1
      <4>1. PICK j \in 1..Len(s) - k + 1 : k + j - 1 = i
        BY <1>7, <3>3
      <4>2. QED
        BY <1>4, <3>1, <4>1 DEF ToSet
    <3>4. QED
      BY <3>2, <3>3
  <2>3. QED
    BY <2>1, <2>2
<1>9. ASSUME IsInjective(s)
      PROVE  IsInjective(a) /\ IsInjective(b) /\ ToSet(a) \cap ToSet(b) = {}
  <2>1. IsInjective(a)
    BY <1>1, <1>3, <1>5, <1>9 DEF IsInjective
  <2>2. ASSUME NEW x \in 1..Len(s) - k + 1, NEW y \in 1..Len(s) - k + 1, b[x] = b[y] PROVE x = y
    <3>1. s[k + x - 1] = s[k + y - 1]
      BY <1>4, <2>2
    <3>2. k + x - 1 = k + y - 1
      BY <1>1, <1>6, <1>9, <3>1 DEF IsInjective
    <3>3. QED
      BY <3>2
  <2>3. IsInjective(b)
    BY <1>4, <2>2 DEF IsInjective
  <2>4. ASSUME NEW x \in 1..k - 1, NEW y \in 1..Len(s) - k + 1 PROVE a[x] # b[y]
    BY <1>1, <1>3, <1>4, <1>5, <1>6, <1>9 DEF IsInjective
  <2>5. QED
    BY <1>3, <1>4, <2>1, <2>3, <2>4 DEF ToSet
<1>10. QED
  BY <1>2, <1>3, <1>4, <1>8, <1>9

\* A list with one entry more, somewhere.
LEMMA InsertedEntries ==
  ASSUME NEW V, NEW s \in Seq(V), NEW k \in 1..Len(s) + 1, NEW e \in V
  PROVE  /\ InsertAt(s, k, e) \in Seq(V)
         /\ ToSet(InsertAt(s, k, e)) = ToSet(s) \cup {e}
         /\ IsInjective(s) /\ e \notin ToSet(s) => IsInjective(InsertAt(s, k, e))
<1>1. PICK a, b : a = SubSeq(s, 1, k - 1) /\ b = SubSeq(s, k, Len(s))
  OBVIOUS
<1>2. /\ a \in Seq(V) /\ b \in Seq(V) /\ ToSet(a) \cup ToSet(b) = ToSet(s)
      /\ IsInjective(s) => IsInjective(a) /\ IsInjective(b) /\ ToSet(a) \cap ToSet(b) = {}
  BY <1>1, PartEntries
<1>3. PICK one : one = <<e>>
  OBVIOUS
<1>4. one \in Seq(V) /\ ToSet(one) = {e} /\ IsInjective(one)
  BY <1>3 DEF ToSet, IsInjective
<1>5. PICK head : head = a \o one
  OBVIOUS
<1>6. /\ head \in Seq(V) /\ ToSet(head) = ToSet(a) \cup {e}
      /\ IsInjective(a) /\ e \notin ToSet(a) => IsInjective(head)
  <2>1. /\ head \in Seq(V) /\ ToSet(head) = ToSet(a) \cup ToSet(one)
        /\ IsInjective(a) /\ IsInjective(one) /\ ToSet(a) \cap ToSet(one) = {} => IsInjective(head)
    BY <1>2, <1>4, <1>5, JoinedEntries
  <2>2. QED
    BY <1>4, <2>1
<1>7. /\ head \o b \in Seq(V) /\ ToSet(head \o b) = ToSet(head) \cup ToSet(b)
      /\ IsInjective(head) /\ IsInjective(b) /\ ToSet(head) \cap ToSet(b) = {} => IsInjective(head \o b)
  BY <1>2, <1>6, JoinedEntries
<1>8. InsertAt(s, k, e) = head \o b
  BY <1>1, <1>3, <1>5 DEF InsertAt
<1>9. IsInjective(s) /\ e \notin ToSet(s) => IsInjective(head \o b)
  BY <1>2, <1>6, <1>7
<1>10. ToSet(head \o b) = ToSet(s) \cup {e}
  BY <1>2, <1>6, <1>7
<1>11. QED
  BY <1>7, <1>8, <1>9, <1>10

\* A list with every entry renamed.
Renamed(s, f) == [k \in DOMAIN s |-> f[s[k]]]

LEMMA RenamedEntries ==
  ASSUME NEW V, NEW s \in Seq(V), NEW f, \A x \in ToSet(s) : f[x] \in V
  PROVE  /\ Renamed(s, f) \in Seq(V)
         /\ ToSet(Renamed(s, f)) = {f[x] : x \in ToSet(s)}
         /\ IsInjective(s) /\ (\A x, y \in ToSet(s) : f[x] = f[y] => x = y) =>
              IsInjective(Renamed(s, f))
<1>1. Len(s) \in Nat /\ DOMAIN s = 1..Len(s)
  BY LenProperties
<1>2. PICK t : t = Renamed(s, f)
  OBVIOUS
<1>3. t = [k \in 1..Len(s) |-> f[s[k]]]
  BY <1>1, <1>2 DEF Renamed
<1>4. \A k \in 1..Len(s) : s[k] \in ToSet(s) /\ t[k] = f[s[k]] /\ t[k] \in V
  BY <1>1, <1>3 DEF ToSet
<1>5. t \in [1..Len(s) -> V]
  BY <1>3, <1>4
<1>6. t \in Seq(V) /\ DOMAIN t = 1..Len(s)
  BY <1>1, <1>5, FunctionIsSeq
<1>7. ToSet(t) = {f[x] : x \in ToSet(s)}
  BY <1>1, <1>4, <1>6 DEF ToSet
<1>8. IsInjective(s) /\ (\A x, y \in ToSet(s) : f[x] = f[y] => x = y) => IsInjective(t)
  BY <1>1, <1>4, <1>6 DEF IsInjective
<1>9. QED
  BY <1>2, <1>6, <1>7, <1>8

-----------------------------------------------------------------------------
(* Induction over the natural numbers, with sets for predicates.           *)

\* A set of numbers has a least one.
LEMMA LeastOf ==
  ASSUME NEW T \in SUBSET Nat, T # {}
  PROVE  \E n \in T : \A k \in T : n <= k
<1> DEFINE R == OpToRel(<, Nat)
<1>1. IsWellFoundedOn(R, Nat)
  BY NatLessThanWellFounded
<1>2. \A a, b \in Nat : a < b => <<a, b>> \in R
  BY DEF OpToRel
<1> HIDE DEF R
<1>3. PICK n \in T : \A k \in T : ~(<<k, n>> \in R)
  BY <1>1, WFMin
<1>4. ASSUME NEW k \in T PROVE n <= k
  <2>1. k \in Nat /\ n \in Nat
    OBVIOUS
  <2>2. ~(k < n)
    BY <1>2, <1>3, <2>1
  <2>3. QED
    BY <2>1, <2>2
<1>5. QED
  BY <1>4

\* A set that has 0, and each number after one it has, has them all.
LEMMA OverNaturals ==
  ASSUME NEW T, 0 \in T, \A n \in Nat : n \in T => n + 1 \in T
  PROVE  Nat \subseteq T
<1>1. SUFFICES ASSUME NEW m \in Nat \ T PROVE FALSE
  OBVIOUS
<1>2. PICK n \in Nat \ T : \A k \in Nat \ T : n <= k
  BY LeastOf
<1>3. n # 0 /\ n - 1 \in Nat
  BY <1>2
<1>4. n - 1 \in T
  BY <1>2, <1>3
<1>5. n \in T
  BY <1>3, <1>4
<1>6. QED
  BY <1>5

\* Starting from a value, a step can be taken again and again.
LEMMA Repeated ==
  ASSUME NEW S, NEW s0 \in S, NEW step \in [S -> S]
  PROVE  \E r \in [Nat -> S] : r[0] = s0 /\ \A n \in Nat \ {0} : r[n] = step[r[n - 1]]
<1> DEFINE Upto(n, g) == /\ g \in [0..n -> S] /\ g[0] = s0
                         /\ \A k \in 1..n : g[k] = step[g[k - 1]]
           T == {n \in Nat : \E g : Upto(n, g)}
<1>1. 0 \in T
  <2>1. Upto(0, [k \in 0..0 |-> s0])
    OBVIOUS
  <2>2. QED
    BY <2>1
<1>2. ASSUME NEW n \in Nat, n \in T PROVE n + 1 \in T
  <2>1. PICK g : Upto(n, g)
    BY <1>2
  <2>2. PICK h : h = [k \in 0..(n + 1) |-> IF k = n + 1 THEN step[g[n]] ELSE g[k]]
    OBVIOUS
  <2>3. Upto(n + 1, h)
    <3>1. h \in [0..(n + 1) -> S]
      BY <2>1, <2>2
    <3>2. h[0] = s0
      BY <2>1, <2>2
    <3>3. ASSUME NEW k \in 1..(n + 1) PROVE h[k] = step[h[k - 1]]
      <4>1. CASE k = n + 1
        BY <2>2, <4>1
      <4>2. CASE k # n + 1
        BY <2>1, <2>2, <4>2
      <4>3. QED
        BY <4>1, <4>2
    <3>4. QED
      BY <3>1, <3>2, <3>3
  <2>4. QED
    BY <2>3
<1>3. Nat \subseteq T
  <2> HIDE DEF T
  <2>1. QED
    BY <1>1, <1>2, OverNaturals
<1>4. \A n \in Nat : \E g : Upto(n, g)
  BY <1>3
<1>5. ASSUME NEW m \in Nat, NEW n \in Nat, NEW g, NEW h, Upto(m, g), Upto(n, h)
      PROVE  \A k \in Nat : k <= m /\ k <= n => g[k] = h[k]
  <2> DEFINE E == {k \in Nat : k <= m /\ k <= n => g[k] = h[k]}
  <2>1. 0 \in E
    BY <1>5
  <2>2. ASSUME NEW k \in Nat, k \in E PROVE k + 1 \in E
    <3>1. SUFFICES ASSUME k + 1 <= m, k + 1 <= n PROVE g[k + 1] = h[k + 1]
      OBVIOUS
    <3>2. g[k] = h[k]
      BY <2>2, <3>1
    <3>3. k + 1 \in 1..m /\ k + 1 \in 1..n /\ (k + 1) - 1 = k
      BY <3>1
    <3>4. QED
      BY <1>5, <3>2, <3>3
  <2>3. Nat \subseteq E
    <3> HIDE DEF E
    <3>1. QED
      BY <2>1, <2>2, OverNaturals
  <2>4. QED
    BY <2>3
<1>6. PICK w : w = [n \in Nat |-> CHOOSE g : Upto(n, g)]
  OBVIOUS
<1>7. \A n \in Nat : Upto(n, w[n])
  <2> HIDE DEF Upto
  <2>1. QED
    BY <1>4, <1>6
<1>8. PICK r : r = [n \in Nat |-> w[n][n]]
  OBVIOUS
<1>9. r[0] = s0
  BY <1>7, <1>8
<1>10. ASSUME NEW n \in Nat, n # 0 PROVE r[n] = step[r[n - 1]]
  <2>1. n - 1 \in Nat /\ n \in 1..n /\ n - 1 <= n
    BY <1>10
  <2>2. Upto(n, w[n]) /\ Upto(n - 1, w[n - 1])
    BY <1>7, <2>1
  <2>3. w[n][n] = step[w[n][n - 1]]
    BY <2>1, <2>2
  <2>4. w[n][n - 1] = w[n - 1][n - 1]
    <3> HIDE DEF Upto
    <3>1. QED
      BY <1>5, <2>1, <2>2
  <2>5. QED
    BY <1>8, <2>1, <2>3, <2>4
<1>11. ASSUME NEW n \in Nat PROVE r[n] \in S
  <2>1. Upto(n, w[n])
    BY <1>7
  <2>2. QED
    BY <1>8, <2>1
<1>12. r \in [Nat -> S]
  BY <1>8, <1>11
<1>13. QED
  BY <1>9, <1>10, <1>12

-----------------------------------------------------------------------------
(* Walks.                                                                  *)

\* What a step more reaches.
Onward(next, seen) == seen \cup UNION {next[x] : x \in seen}

\* The rings of a walk, each what a step more reaches.
WalkFrom(U, c, next, n) == c \in U /\ next \in [U -> SUBSET U] /\ n \in Nat
RingsOf(r, U, c, next) ==
  /\ r \in [Nat -> SUBSET U] /\ r[0] = {c}
  /\ \A k \in Nat : r[k + 1] = Onward(next, r[k])

\* A walk is a ring of steps at a time.
LEMMA WalkRings ==
  ASSUME NEW U, NEW c, NEW next, NEW n, WalkFrom(U, c, next, n)
  PROVE  \E r : RingsOf(r, U, c, next) /\ Walk(c, next, n) = r[n]
<1>0. c \in U /\ next \in [U -> SUBSET U] /\ n \in Nat
  BY DEF WalkFrom
<1> DEFINE ring == CHOOSE g : g = [k \in Nat |->
                     IF k = 0 THEN {c} ELSE g[k - 1] \cup UNION {next[x] : x \in g[k - 1]}]
<1>1. PICK step : step = [S \in SUBSET U |-> Onward(next, S)]
  OBVIOUS
<1>2. step \in [SUBSET U -> SUBSET U]
  <2>1. \A S \in SUBSET U : Onward(next, S) \in SUBSET U
    BY <1>0 DEF Onward
  <2>2. QED
    BY <1>1, <2>1
<1>3. PICK r \in [Nat -> SUBSET U] : r[0] = {c} /\ \A k \in Nat \ {0} : r[k] = step[r[k - 1]]
  <2>1. PICK S, s0 : S = SUBSET U /\ s0 = {c}
    OBVIOUS
  <2>2. s0 \in S /\ step \in [S -> S]
    BY <1>0, <1>2, <2>1
  <2>3. \E r \in [Nat -> S] : r[0] = s0 /\ \A k \in Nat \ {0} : r[k] = step[r[k - 1]]
    BY <2>2, Repeated
  <2>4. QED
    BY <2>1, <2>3
<1>4. ASSUME NEW k \in Nat, k # 0
      PROVE  r[k] = r[k - 1] \cup UNION {next[x] : x \in r[k - 1]}
  <2>1. k - 1 \in Nat
    BY <1>4
  <2>2. r[k - 1] \in SUBSET U
    BY <1>3, <2>1
  <2>3. QED
    BY <1>1, <1>3, <1>4, <2>2 DEF Onward
<1>5. r = [k \in Nat |->
             IF k = 0 THEN {c} ELSE r[k - 1] \cup UNION {next[x] : x \in r[k - 1]}]
  BY <1>3, <1>4
<1>6. ring = [k \in Nat |->
             IF k = 0 THEN {c} ELSE ring[k - 1] \cup UNION {next[x] : x \in ring[k - 1]}]
  BY <1>5
<1>7. Walk(c, next, n) = ring[n]
  BY DEF Walk
<1> HIDE DEF ring
<1>8. ring[0] = {c}
  BY <1>6
<1>9. ASSUME NEW k \in Nat
      PROVE  ring[k + 1] = Onward(next, ring[k])
  <2>1. k + 1 \in Nat /\ k + 1 # 0 /\ (k + 1) - 1 = k
    OBVIOUS
  <2>2. ring[k + 1] = ring[(k + 1) - 1] \cup UNION {next[x] : x \in ring[(k + 1) - 1]}
    BY <1>6, <2>1
  <2>3. QED
    BY <2>1, <2>2 DEF Onward
<1>10. ring \in [Nat -> SUBSET U]
  <2>1. PICK T : T = {k \in Nat : ring[k] \subseteq U}
    OBVIOUS
  <2>2. 0 \in T
    BY <1>0, <1>8, <2>1
  <2>3. \A k \in Nat : k \in T => k + 1 \in T
    BY <1>0, <1>9, <2>1 DEF Onward
  <2>4. \A k \in Nat : ring[k] \in SUBSET U
    BY <2>1, <2>2, <2>3, OverNaturals
  <2>5. PICK q : q = [k \in Nat |->
             IF k = 0 THEN {c} ELSE ring[k - 1] \cup UNION {next[x] : x \in ring[k - 1]}]
    OBVIOUS
  <2>6. ring = q
    BY <1>6, <2>5
  <2>7. q \in [Nat -> SUBSET U]
    BY <2>4, <2>5, <2>6
  <2>8. QED
    BY <2>6, <2>7
<1>11. QED
  BY <1>7, <1>8, <1>9, <1>10 DEF RingsOf

\* A walk starts at its start, stays in every set that has the start and
\* that no step leaves, and comes to each further place from another.
LEMMA WalkReaches ==
  ASSUME NEW U, NEW c \in U, NEW next \in [U -> SUBSET U], NEW n \in Nat
  PROVE  /\ c \in Walk(c, next, n) /\ Walk(c, next, n) \in SUBSET U
         /\ \A S : c \in S /\ (\A x \in S \cap U : next[x] \subseteq S) => Walk(c, next, n) \subseteq S
         /\ \A x \in Walk(c, next, n) \ {c} : \E y \in Walk(c, next, n) : x \in next[y]
<1>1. PICK r \in [Nat -> SUBSET U] :
           /\ r[0] = {c}
           /\ \A k \in Nat : r[k + 1] = Onward(next, r[k])
           /\ Walk(c, next, n) = r[n]
  <2>1. WalkFrom(U, c, next, n)
    BY DEF WalkFrom
  <2>2. QED
    <3>1. \E r : RingsOf(r, U, c, next) /\ Walk(c, next, n) = r[n]
      BY <2>1, WalkRings
    <3>2. QED
      BY <3>1 DEF RingsOf
<1>2. ASSUME NEW S, c \in S, \A x \in S \cap U : next[x] \subseteq S
      PROVE  r[n] \subseteq S
  <2>1. PICK T : T = {k \in Nat : r[k] \subseteq S}
    OBVIOUS
  <2>2. 0 \in T
    BY <1>1, <1>2, <2>1
  <2>3. ASSUME NEW k \in Nat, k \in T PROVE k + 1 \in T
    <3>1. r[k] \subseteq S /\ r[k] \subseteq U
      BY <2>1, <2>3
    <3>2. r[k + 1] \subseteq S
      BY <1>1, <1>2, <3>1 DEF Onward
    <3>3. QED
      BY <2>1, <3>2
  <2>4. QED
    BY <2>1, <2>2, <2>3, OverNaturals
<1>3. c \in r[n] /\ \A x \in r[n] \ {c} : \E y \in r[n] : x \in next[y]
  <2>1. PICK T : T = {k \in Nat : c \in r[k] /\ \A x \in r[k] \ {c} : \E y \in r[k] : x \in next[y]}
    OBVIOUS
  <2>2. 0 \in T
    BY <1>1, <2>1
  <2>3. ASSUME NEW k \in Nat, k \in T PROVE k + 1 \in T
    <3>1. r[k + 1] = Onward(next, r[k])
      BY <1>1
    <3>2. c \in r[k] /\ \A x \in r[k] \ {c} : \E y \in r[k] : x \in next[y]
      BY <2>1, <2>3
    <3>3. c \in r[k + 1] /\ \A x \in r[k + 1] \ {c} : \E y \in r[k + 1] : x \in next[y]
      BY <3>1, <3>2 DEF Onward
    <3>4. QED
      BY <2>1, <3>3
  <2>4. QED
    BY <2>1, <2>2, <2>3, OverNaturals
<1>4. r[n] \in SUBSET U
  OBVIOUS
<1>5. QED
  BY <1>1, <1>2, <1>3, <1>4

\* When steps lead on from finitely many places only, as many steps reach all
\* there is to reach.
LEMMA WalkEnds ==
  ASSUME NEW U, NEW c \in U, NEW next \in [U -> SUBSET U], NEW F, IsFiniteSet(F),
         \A x \in U \ F : next[x] = {}
  PROVE  \A x \in Walk(c, next, Cardinality(F)) : next[x] \subseteq Walk(c, next, Cardinality(F))
<1>1. PICK n \in Nat : n = Cardinality(F)
  BY FS_CardinalityType
<1>2. PICK r \in [Nat -> SUBSET U] :
           /\ r[0] = {c}
           /\ \A k \in Nat : r[k + 1] = Onward(next, r[k])
           /\ Walk(c, next, n) = r[n]
  <2>1. WalkFrom(U, c, next, n)
    BY DEF WalkFrom
  <2>2. QED
    <3>1. \E r : RingsOf(r, U, c, next) /\ Walk(c, next, n) = r[n]
      BY <2>1, WalkRings
    <3>2. QED
      BY <3>1 DEF RingsOf
<1> DEFINE Ends(k) == \A x \in r[k] : next[x] \subseteq r[k]
           T == {k \in Nat : Ends(k) \/ Cardinality(r[k] \cap F) >= k + 1}
<1>3. \A k \in Nat : /\ IsFiniteSet(r[k] \cap F) /\ Cardinality(r[k] \cap F) \in Nat
                     /\ Cardinality(r[k] \cap F) <= n
  <2> SUFFICES ASSUME NEW k \in Nat
               PROVE  /\ IsFiniteSet(r[k] \cap F) /\ Cardinality(r[k] \cap F) \in Nat
                      /\ Cardinality(r[k] \cap F) <= n
    OBVIOUS
  <2>1. r[k] \cap F \in SUBSET F
    OBVIOUS
  <2>2. IsFiniteSet(r[k] \cap F) /\ Cardinality(r[k] \cap F) <= Cardinality(F)
    BY <2>1, FS_Subset
  <2>3. QED
    BY <1>1, <2>2, FS_CardinalityType
<1>4. 0 \in T
  <2>1. CASE c \in F
    <3>1. r[0] \cap F = {c}
      BY <1>2, <2>1
    <3>2. Cardinality(r[0] \cap F) = 1
      BY <3>1, FS_Singleton
    <3>3. QED
      BY <3>2
  <2>2. CASE c \notin F
    <3>1. next[c] = {}
      BY <2>2
    <3>2. Ends(0)
      BY <1>2, <3>1
    <3>3. QED
      BY <3>2
  <2>3. QED
    BY <2>1, <2>2
<1>5. ASSUME NEW k \in Nat, k \in T PROVE k + 1 \in T
  <2>1. r[k + 1] = Onward(next, r[k]) /\ k + 1 \in Nat
    BY <1>2
  <2>2. CASE Ends(k)
    <3>1. r[k + 1] = r[k]
      BY <2>1, <2>2 DEF Onward
    <3>2. Ends(k + 1)
      BY <2>2, <3>1
    <3>3. QED
      BY <2>1, <3>2
  <2>3. CASE ~Ends(k) /\ ~Ends(k + 1)
    <3>1. PICK x \in r[k + 1] : ~(next[x] \subseteq r[k + 1])
      BY <2>3
    <3>2. x \notin r[k]
      BY <2>1, <3>1 DEF Onward
    <3>3. x \in U
      BY <2>1, <3>1
    <3>4. x \in F
      BY <3>1, <3>3
    <3>5. (r[k] \cap F) \cup {x} \in SUBSET (r[k + 1] \cap F)
      BY <2>1, <3>1, <3>4 DEF Onward
    <3>6. PICK A, B : A = r[k] \cap F /\ B = r[k + 1] \cap F
      OBVIOUS
    <3>7. IsFiniteSet(A) /\ IsFiniteSet(B) /\ x \notin A /\ A \cup {x} \in SUBSET B
          /\ Cardinality(A) \in Nat /\ Cardinality(B) \in Nat
      BY <1>3, <2>1, <3>2, <3>5, <3>6
    <3>8. Cardinality(A \cup {x}) = Cardinality(A) + 1
      BY <3>7, FS_AddElement
    <3>9. Cardinality(A \cup {x}) <= Cardinality(B)
      BY <3>7, FS_Subset
    <3>10. Cardinality(A) >= k + 1
      BY <1>5, <2>3, <3>6
    <3>11. Cardinality(B) >= (k + 1) + 1
      BY <3>7, <3>8, <3>9, <3>10
    <3>12. QED
      BY <2>1, <3>6, <3>11
  <2>4. QED
    BY <2>1, <2>2, <2>3
<1>6. Nat \subseteq T
  <2> HIDE DEF T
  <2>1. QED
    BY <1>4, <1>5, OverNaturals
<1>7. Ends(n) \/ Cardinality(r[n] \cap F) >= n + 1
  BY <1>6
<1>8. Cardinality(r[n] \cap F) \in Nat /\ Cardinality(r[n] \cap F) <= n
  BY <1>3
<1>9. Ends(n)
  BY <1>7, <1>8
<1>10. QED
  BY <1>1, <1>2, <1>9

\* Where there is one way on, what is reached is the start or is reached from
\* the next place.
LEMMA WalkGoesOn ==
  ASSUME NEW U, NEW c \in U, NEW next \in [U -> SUBSET U], NEW n \in Nat, NEW d \in U,
         next[c] = {d}
  PROVE  Walk(c, next, n) \subseteq {c} \cup Walk(d, next, n)
<1>1. PICK r \in [Nat -> SUBSET U] :
           /\ r[0] = {c}
           /\ \A k \in Nat : r[k + 1] = Onward(next, r[k])
           /\ Walk(c, next, n) = r[n]
  <2>1. WalkFrom(U, c, next, n)
    BY DEF WalkFrom
  <2>2. QED
    <3>1. \E r : RingsOf(r, U, c, next) /\ Walk(c, next, n) = r[n]
      BY <2>1, WalkRings
    <3>2. QED
      BY <3>1 DEF RingsOf
<1>2. PICK q \in [Nat -> SUBSET U] :
           /\ q[0] = {d}
           /\ \A k \in Nat : q[k + 1] = Onward(next, q[k])
           /\ Walk(d, next, n) = q[n]
  <2>1. WalkFrom(U, d, next, n)
    BY DEF WalkFrom
  <2>2. QED
    <3>1. \E g : RingsOf(g, U, d, next) /\ Walk(d, next, n) = g[n]
      BY <2>1, WalkRings
    <3>2. QED
      BY <3>1 DEF RingsOf
<1>3. PICK T : T = {k \in Nat : r[k] \subseteq {c} \cup q[k]
                               /\ d \in q[k] /\ UNION {next[x] : x \in r[k]} \subseteq {c} \cup q[k + 1]}
  OBVIOUS
<1>4. 0 \in T
  <2>1. q[0 + 1] = q[0] \cup UNION {next[x] : x \in q[0]}
    BY <1>2 DEF Onward
  <2>2. UNION {next[x] : x \in r[0]} = {d}
    BY <1>1
  <2>3. QED
    BY <1>1, <1>2, <1>3, <2>1, <2>2
<1>5. ASSUME NEW k \in Nat, k \in T PROVE k + 1 \in T
  <2>1. /\ r[k + 1] = Onward(next, r[k])
        /\ q[k + 1] = Onward(next, q[k])
        /\ q[k + 1 + 1] = Onward(next, q[k + 1])
    BY <1>1, <1>2
  <2>2. r[k] \subseteq {c} \cup q[k] /\ d \in q[k]
        /\ UNION {next[x] : x \in r[k]} \subseteq {c} \cup q[k + 1]
    BY <1>3, <1>5
  <2>3. r[k + 1] \subseteq {c} \cup q[k + 1] /\ d \in q[k + 1]
    BY <2>1, <2>2 DEF Onward
  <2>4. UNION {next[x] : x \in r[k + 1]} \subseteq {c} \cup q[k + 1 + 1]
    <3>1. ASSUME NEW x \in r[k + 1] PROVE next[x] \subseteq q[k + 1 + 1]
      <4>1. CASE x = c
        BY <2>1, <2>3, <4>1 DEF Onward
      <4>2. CASE x \in q[k + 1]
        BY <2>1, <4>2 DEF Onward
      <4>3. QED
        BY <2>3, <3>1, <4>1, <4>2
    <3>2. QED
      BY <3>1
  <2>5. QED
    BY <1>3, <2>3, <2>4
<1>6. n \in T
  BY <1>4, <1>5, OverNaturals
<1>7. QED
  BY <1>1, <1>2, <1>3, <1>6

-----------------------------------------------------------------------------
(* Growing a set until nothing is new.                                     *)

\* A set with what its members lead to.
SpreadOnce(next, s) == s \cup UNION {next[x] : x \in s}

GrowsBy(g, U, next) ==
  g = [s \in SUBSET U |-> IF SpreadOnce(next, s) = s THEN s ELSE g[SpreadOnce(next, s)]]

LEMMA GrowthExists ==
  ASSUME NEW U, NEW next \in [U -> SUBSET U]
  PROVE  \E g : GrowsBy(g, U, next)
<1> DEFINE Least(s) == {x \in U : \A S \in SUBSET U :
                          s \subseteq S /\ (\A y \in S : next[y] \subseteq S) => x \in S}
<1>1. ASSUME NEW s \in SUBSET U
      PROVE  Least(s) = IF SpreadOnce(next, s) = s THEN s ELSE Least(SpreadOnce(next, s))
  <2>1. CASE SpreadOnce(next, s) = s
    <3>1. \A y \in s : next[y] \subseteq s
      BY <2>1 DEF SpreadOnce
    <3>2. Least(s) = s
      BY <3>1
    <3>3. QED
      BY <2>1, <3>2
  <2>2. ASSUME NEW S \in SUBSET U, \A y \in S : next[y] \subseteq S
        PROVE  s \subseteq S <=> SpreadOnce(next, s) \subseteq S
    BY <2>2 DEF SpreadOnce
  <2>3. Least(SpreadOnce(next, s)) = Least(s)
    BY <2>2
  <2>4. QED
    BY <2>1, <2>3
<1>2. PICK g : g = [s \in SUBSET U |-> Least(s)]
  OBVIOUS
<1>3. \A s \in SUBSET U : SpreadOnce(next, s) \in SUBSET U
  BY DEF SpreadOnce
<1>4. \A s \in SUBSET U : g[s] = Least(s)
  BY <1>2
<1> HIDE DEF Least
<1>5. \A s \in SUBSET U : Least(s) = IF SpreadOnce(next, s) = s THEN s ELSE g[SpreadOnce(next, s)]
  BY <1>1, <1>3, <1>4
<1>6. g = [s \in SUBSET U |-> IF SpreadOnce(next, s) = s THEN s ELSE g[SpreadOnce(next, s)]]
  BY <1>2, <1>5
<1>7. QED
  BY <1>6 DEF GrowsBy

\* It ends with the least closed set that has the first members.
ClosesOn(C, U, next, s) ==
  /\ s \subseteq C /\ C \in SUBSET U
  /\ \A x \in C : next[x] \subseteq C
  /\ \A S : s \subseteq S /\ (\A x \in S \cap U : next[x] \subseteq S) => C \subseteq S

LEMMA GrownIs ==
  ASSUME NEW U, IsFiniteSet(U), NEW next \in [U -> SUBSET U], NEW g, GrowsBy(g, U, next),
         NEW s \in SUBSET U
  PROVE  ClosesOn(g[s], U, next, s)
<1> DEFINE Bad == {t \in SUBSET U : ~ClosesOn(g[t], U, next, t)}
           Left == {Cardinality(U \ t) : t \in Bad}
<1>1. \A t \in SUBSET U : IsFiniteSet(U \ t) /\ Cardinality(U \ t) \in Nat
  BY FS_Subset, FS_CardinalityType
<1>2. SUFFICES ASSUME Bad # {} PROVE FALSE
  OBVIOUS
<1>3. Left \in SUBSET Nat /\ Left # {}
  BY <1>1, <1>2
<1>4. PICK n \in Left : \A k \in Left : n <= k
  BY <1>3, LeastOf
<1>5. PICK t \in SUBSET U : t \in Bad /\ n = Cardinality(U \ t)
  BY <1>4
<1>6. PICK more : more = SpreadOnce(next, t)
  OBVIOUS
<1>7. more \in SUBSET U /\ t \subseteq more /\ \A x \in t : next[x] \subseteq more
  BY <1>6 DEF SpreadOnce
<1>8. g[t] = IF more = t THEN t ELSE g[more]
  BY <1>6 DEF GrowsBy
<1>9. CASE more = t
  BY <1>5, <1>7, <1>8, <1>9 DEF ClosesOn
<1>10. CASE more # t
  <2>1. PICK x : x \in more \ t
    BY <1>7, <1>10
  <2>2. Cardinality((U \ t) \ {x}) = Cardinality(U \ t) - 1
    BY <1>1, <1>7, <2>1, FS_RemoveElement
  <2>3. Cardinality(U \ more) <= Cardinality((U \ t) \ {x})
    <3>1. PICK V : V = (U \ t) \ {x}
      OBVIOUS
    <3>2. U \ more \in SUBSET V /\ IsFiniteSet(V)
      BY <1>1, <1>7, <2>1, <3>1, FS_RemoveElement
    <3>3. QED
      BY <3>1, <3>2, FS_Subset
  <2>4. Cardinality(U \ more) < n
    <3>1. PICK a, b, c : a = Cardinality(U \ more) /\ b = Cardinality((U \ t) \ {x}) /\ c = Cardinality(U \ t)
      OBVIOUS
    <3>2. a \in Nat /\ c \in Nat /\ n = c /\ b = c - 1 /\ a <= b
      BY <1>1, <1>5, <1>7, <2>2, <2>3, <3>1
    <3>3. a < n
      BY <3>2
    <3>4. QED
      BY <3>1, <3>3
  <2>5. more \notin Bad
    <3>1. ASSUME more \in Bad PROVE FALSE
      <4>1. Cardinality(U \ more) \in Left
        BY <3>1
      <4>2. PICK a : a = Cardinality(U \ more)
        OBVIOUS
      <4>3. n <= a /\ n \in Nat /\ a \in Nat /\ a < n
        BY <1>1, <1>3, <1>4, <1>7, <2>4, <4>1, <4>2
      <4>4. QED
        BY <4>3
    <3>2. QED
      BY <3>1
  <2>6. ClosesOn(g[more], U, next, more)
    BY <1>7, <2>5
  <2>7. g[t] = g[more]
    BY <1>8, <1>10
  <2>8. ASSUME NEW S, t \subseteq S, \A y \in S \cap U : next[y] \subseteq S PROVE more \subseteq S
    BY <1>6, <2>8 DEF SpreadOnce
  <2>9. ClosesOn(g[t], U, next, t)
    BY <1>7, <2>6, <2>7, <2>8 DEF ClosesOn
  <2>10. QED
    BY <1>5, <2>9
<1>11. QED
  BY <1>9, <1>10
=============================================================================
