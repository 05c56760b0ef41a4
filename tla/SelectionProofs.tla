-------------------------- MODULE SelectionProofs ---------------------------
(***************************************************************************)
(* Sequences that lose elements: what Selected, Front and RemoveAt return, *)
(* and sequences that grow: what \o returns, and where the numbers of a    *)
(* set lie in their order.  The proofs about queues, listeners and texts   *)
(* cite these facts.                                                       *)
(***************************************************************************)
EXTENDS Selection, SequencesExt, FiniteSetTheorems, SequenceTheorems,
        WellFoundedInduction, TLAPS

\* The induction principle of the natural numbers in first-order form: a nonempty
\* set of natural numbers has a least element.
LEMMA LeastOf ==
  ASSUME NEW S, S \subseteq Nat, S # {}
  PROVE  \E n \in S : \A k \in S : n <= k
<1> DEFINE Less == {ss \in Nat \X Nat : ss[1] < ss[2]}
<1>1. IsWellFoundedOn(Less, Nat)
  BY NatLessThanWellFounded DEF OpToRel
<1>2. PICK n \in S : \A k \in S : ~(<<k, n>> \in Less)
  <2> HIDE DEF Less
  <2> QED BY <1>1, WFMin
<1>3. \A k \in S : ~(k < n)
  BY <1>2
<1> QED BY <1>3

\* The numbers of a set up to one of its elements: one more for each element.
LEMMA RankStep ==
  ASSUME NEW n \in Nat, NEW I \in SUBSET (1..n), NEW m \in Nat
  PROVE  /\ Cardinality({j \in I : j <= m}) \in Nat
         /\ m + 1 \in I => Cardinality({j \in I : j <= m + 1}) = Cardinality({j \in I : j <= m}) + 1
         /\ m + 1 \notin I => {j \in I : j <= m + 1} = {j \in I : j <= m}
<1> DEFINE S == {j \in I : j <= m}
           T == {j \in I : j <= m + 1}
<1>1. IsFiniteSet(S) /\ Cardinality(S) \in Nat
  <2>1. IsFiniteSet(1..n)
    BY FS_Interval
  <2>2. S \in SUBSET (1..n)
    BY Zenon
  <2> QED BY <2>1, <2>2, FS_Subset, FS_CardinalityType
<1>2. \A j \in I : j \in Nat
  OBVIOUS
<1>3. \A j \in I : j <= m + 1 <=> (j <= m \/ j = m + 1)
  BY <1>2
<1>4. ~(m + 1 <= m)
  OBVIOUS
<1>5. m + 1 \in I => T = S \cup {m + 1} /\ m + 1 \notin S
  BY <1>3, <1>4, Zenon
<1>6. m + 1 \notin I => T = S
  BY <1>3, Zenon
<1>7. m + 1 \in I => Cardinality(T) = Cardinality(S) + 1
  <2>1. Cardinality(S \cup {m + 1}) = IF m + 1 \in S THEN Cardinality(S) ELSE Cardinality(S) + 1
    BY <1>1, FS_AddElement
  <2> QED BY <2>1, <1>5
<1> QED BY <1>1, <1>6, <1>7

\* A larger element of a set has a larger rank.
LEMMA RankGrows ==
  ASSUME NEW n \in Nat, NEW I \in SUBSET (1..n), NEW k \in I, NEW l \in I, k < l
  PROVE  Cardinality({j \in I : j <= k}) < Cardinality({j \in I : j <= l})
<1> DEFINE S == {j \in I : j <= k}
           T == {j \in I : j <= l}
<1>1. k \in Nat /\ l \in Nat /\ \A j \in I : j \in Nat
  OBVIOUS
<1>2. S \subseteq T /\ l \in T /\ l \notin S
  <2>1. \A j \in I : j <= k => j <= l
    BY <1>1
  <2>2. l <= l /\ ~(l <= k)
    BY <1>1
  <2> QED BY <2>1, <2>2, Zenon
<1>3. IsFiniteSet(T)
  <2>1. IsFiniteSet(1..n)
    BY FS_Interval
  <2>2. T \in SUBSET (1..n)
    BY Zenon
  <2> QED BY <2>1, <2>2, FS_Subset
<1>4. /\ Cardinality(S) <= Cardinality(T) /\ (Cardinality(T) = Cardinality(S) => S = T)
      /\ IsFiniteSet(S)
  BY <1>2, <1>3, FS_Subset
<1>5. Cardinality(S) \in Nat /\ Cardinality(T) \in Nat
  BY <1>3, <1>4, FS_CardinalityType
<1> QED BY <1>2, <1>4, <1>5

\* The i-th element exists, and has rank i.
LEMMA NthExists ==
  ASSUME NEW n \in Nat, NEW I \in SUBSET (1..n), NEW i \in 1..Cardinality(I)
  PROVE  Nth(I, i) \in I /\ Cardinality({j \in I : j <= Nth(I, i)}) = i
<1> DEFINE Rank(m) == Cardinality({j \in I : j <= m})
           Enough == {m \in 0..n : Rank(m) >= i}
<1>1. Rank(n) = Cardinality(I)
  <2>1. \A j \in I : j <= n
    OBVIOUS
  <2>2. {j \in I : j <= n} = I
    BY <2>1, Zenon
  <2> QED BY <2>2
<1>2. Rank(0) = 0
  <2>1. \A j \in I : ~(j <= 0)
    OBVIOUS
  <2>2. {j \in I : j <= 0} = {}
    BY <2>1, Zenon
  <2> QED BY <2>2, FS_EmptySet
<1>3. IsFiniteSet(I) /\ Cardinality(I) \in Nat
  <2>1. IsFiniteSet(1..n)
    BY FS_Interval
  <2> QED BY <2>1, FS_Subset, FS_CardinalityType
<1>4. i \in Nat /\ 1 <= i /\ i <= Cardinality(I)
  BY <1>3
<1> HIDE DEF Rank
<1>5. Enough \subseteq Nat /\ n \in Enough
  BY <1>1, <1>3, <1>4
<1>6. PICK m \in Enough : \A k \in Enough : m <= k
  <2>1. Enough # {} /\ Enough \subseteq Nat
    BY <1>5
  <2> QED BY <2>1, LeastOf
<1>7. m \in 0..n /\ m # 0 /\ Rank(m) >= i
  BY <1>2, <1>4, <1>6
<1>8. m - 1 \in Nat /\ m - 1 \in 0..n /\ m - 1 + 1 = m /\ m - 1 \notin Enough
  BY <1>6, <1>7
<1>9. /\ Rank(m - 1) \in Nat
      /\ m \in I => Rank(m) = Rank(m - 1) + 1
      /\ m \notin I => Rank(m) = Rank(m - 1)
  <2>1. m - 1 + 1 = m
    BY <1>8
  <2>2. /\ Rank(m - 1) \in Nat
        /\ m - 1 + 1 \in I => Rank(m - 1 + 1) = Rank(m - 1) + 1
        /\ m - 1 + 1 \notin I => {j \in I : j <= m - 1 + 1} = {j \in I : j <= m - 1}
    BY <1>8, RankStep DEF Rank
  <2> QED BY <2>1, <2>2 DEF Rank
<1>10. Rank(m - 1) < i
  BY <1>4, <1>8, <1>9
<1>11. m \in I /\ Rank(m) = i
  BY <1>4, <1>7, <1>9, <1>10
<1>12. \E k \in I : Cardinality({j \in I : j <= k}) = i
  BY <1>11 DEF Rank
<1> QED BY <1>12 DEF Nth

\* The elements are counted in their order, and every one of them is counted.
LEMMA NthInOrder ==
  ASSUME NEW n \in Nat, NEW I \in SUBSET (1..n)
  PROVE  /\ IsFiniteSet(I) /\ Cardinality(I) \in Nat
         /\ \A i, j \in 1..Cardinality(I) : i < j => Nth(I, i) < Nth(I, j)
         /\ \A k \in I : \E i \in 1..Cardinality(I) : Nth(I, i) = k
<1>1. IsFiniteSet(I) /\ Cardinality(I) \in Nat
  <2>1. IsFiniteSet(1..n)
    BY FS_Interval
  <2> QED BY <2>1, FS_Subset, FS_CardinalityType
<1>2. ASSUME NEW i \in 1..Cardinality(I), NEW j \in 1..Cardinality(I), i < j
      PROVE  Nth(I, i) < Nth(I, j)
  <2> DEFINE a == Nth(I, i)
             b == Nth(I, j)
  <2>1. /\ a \in I /\ Cardinality({x \in I : x <= a}) = i
        /\ b \in I /\ Cardinality({x \in I : x <= b}) = j
    BY NthExists
  <2> HIDE DEF a, b
  <2>2. a \in Nat /\ b \in Nat /\ i \in Nat /\ j \in Nat
    BY <2>1, <1>1
  <2>3. b # a
    BY <1>2, <2>1, <2>2
  <2>4. ~(b < a)
    <3> SUFFICES ASSUME b < a PROVE FALSE
      OBVIOUS
    <3>1. Cardinality({x \in I : x <= b}) < Cardinality({x \in I : x <= a})
      BY <2>1, RankGrows
    <3> QED BY <3>1, <1>2, <2>1, <2>2
  <2>5. a < b
    BY <2>2, <2>3, <2>4
  <2> QED BY <2>5 DEF a, b
<1>3. ASSUME NEW k \in I
      PROVE  \E i \in 1..Cardinality(I) : Nth(I, i) = k
  <2> DEFINE i == Cardinality({x \in I : x <= k})
  <2>1. k \in 1..n /\ k \in Nat
    OBVIOUS
  <2>2. /\ IsFiniteSet({x \in I : x <= k})
        /\ Cardinality({x \in I : x <= k}) <= Cardinality(I)
    <3>1. {x \in I : x <= k} \in SUBSET I
      OBVIOUS
    <3> QED BY <3>1, <1>1, FS_Subset
  <2>3. Cardinality({x \in I : x <= k}) \in Nat /\ Cardinality({x \in I : x <= k}) # 0
    <3>1. k \in {x \in I : x <= k}
      BY <2>1
    <3> QED BY <3>1, <2>2, FS_CardinalityType, FS_EmptySet
  <2>4. i \in 1..Cardinality(I)
    BY <1>1, <2>2, <2>3
  <2> DEFINE m == Nth(I, i)
  <2>5. m \in I /\ Cardinality({x \in I : x <= m}) = i
    BY <2>4, NthExists
  <2> HIDE DEF m
  <2>6. m \in Nat /\ i \in Nat
    BY <2>3, <2>5
  <2>7. ~(m < k)
    <3> SUFFICES ASSUME m < k PROVE FALSE
      OBVIOUS
    <3>1. Cardinality({x \in I : x <= m}) < Cardinality({x \in I : x <= k})
      BY <2>5, RankGrows
    <3> QED BY <3>1, <2>5, <2>6
  <2>8. ~(k < m)
    <3> SUFFICES ASSUME k < m PROVE FALSE
      OBVIOUS
    <3>1. Cardinality({x \in I : x <= k}) < Cardinality({x \in I : x <= m})
      BY <2>5, RankGrows
    <3> QED BY <3>1, <2>5, <2>6
  <2>9. m = k
    BY <2>1, <2>6, <2>7, <2>8
  <2> QED BY <2>4, <2>9 DEF m
<1> QED BY <1>1, <1>2, <1>3

\* What Selected returns: a sequence of the elements at the places, in their order.
THEOREM SelectedFacts ==
  ASSUME NEW T, NEW s \in Seq(T), NEW I \in SUBSET (1..Len(s))
  PROVE  /\ Selected(s, I) \in Seq(T)
         /\ Len(Selected(s, I)) = Cardinality(I) /\ Cardinality(I) \in Nat
         /\ \A i \in 1..Cardinality(I) :
              /\ Nth(I, i) \in I /\ Nth(I, i) \in 1..Len(s)
              /\ Selected(s, I)[i] = s[Nth(I, i)]
              /\ \A j \in 1..Cardinality(I) : i < j => Nth(I, i) < Nth(I, j)
         /\ \A k \in I : \E i \in 1..Cardinality(I) : Selected(s, I)[i] = s[k]
<1> DEFINE n == Len(s)
           m == Cardinality(I)
<1>1. n \in Nat
  OBVIOUS
<1> HIDE DEF n
<1>2. I \in SUBSET (1..n)
  BY DEF n
<1>3. /\ m \in Nat
      /\ \A i, j \in 1..m : i < j => Nth(I, i) < Nth(I, j)
      /\ \A k \in I : \E i \in 1..m : Nth(I, i) = k
  BY <1>1, <1>2, NthInOrder
<1>4. \A i \in 1..m : Nth(I, i) \in I
  BY <1>1, <1>2, NthExists
<1> HIDE DEF m
<1>5. \A i \in 1..m : Nth(I, i) \in 1..n /\ s[Nth(I, i)] \in T
  <2>1. \A k \in 1..n : s[k] \in T
    BY DEF n
  <2> QED BY <2>1, <1>2, <1>4
<1> DEFINE e(i) == s[Nth(I, i)]
<1>6. \A i \in 1..m : e(i) \in T
  BY <1>5
<1> HIDE DEF e
<1>7. [i \in 1..m |-> e(i)] \in Seq(T)
  BY <1>3, <1>6, IsASeq
<1>8. Selected(s, I) = [i \in 1..m |-> e(i)]
  BY DEF Selected, m, e
<1>9. Len(Selected(s, I)) = m
  BY <1>3, <1>7, <1>8
<1>10. \A i \in 1..m : Selected(s, I)[i] = s[Nth(I, i)]
  BY <1>8 DEF e
<1>11. \A k \in I : \E i \in 1..m : Selected(s, I)[i] = s[k]
  BY <1>3, <1>10
<1> QED BY <1>3, <1>4, <1>5, <1>7, <1>8, <1>9, <1>10, <1>11 DEF m, n

\* What Front returns.
LEMMA FrontFacts ==
  ASSUME NEW S, NEW s \in Seq(S), s # <<>>
  PROVE  /\ Len(s) \in Nat \ {0}
         /\ Front(s) \in Seq(S) /\ Len(Front(s)) = Len(s) - 1
         /\ \A i \in 1..(Len(s) - 1) : Front(s)[i] = s[i]
         /\ Last(s) \in S /\ Last(s) = s[Len(s)]
<1>1. Len(s) \in Nat \ {0}
  BY EmptySeq
<1>2. PICK n \in Nat : Len(s) = n + 1
  <2>1. Len(s) - 1 \in Nat /\ Len(s) = (Len(s) - 1) + 1
    BY <1>1
  <2> QED BY <2>1
<1>3. \A i \in 1..n : s[i] \in S
  BY <1>2
<1>4. /\ SubSeq(s, 1, n) \in Seq(S)
      /\ Len(SubSeq(s, 1, n)) = IF 1 <= n THEN n - 1 + 1 ELSE 0
      /\ \A i \in 1..(n - 1 + 1) : SubSeq(s, 1, n)[i] = s[1 + i - 1]
  BY <1>3, SubSeqProperties
<1>5. Front(s) = SubSeq(s, 1, n)
  BY <1>2 DEF Front
<1>6. Last(s) = s[Len(s)] /\ s[Len(s)] \in S
  BY <1>1 DEF Last
<1> QED BY <1>1, <1>2, <1>4, <1>5, <1>6

\* What RemoveAt returns.
LEMMA RemoveAtFacts ==
  ASSUME NEW S, NEW s \in Seq(S), NEW i \in 1..Len(s)
  PROVE  /\ RemoveAt(s, i) \in Seq(S) /\ Len(RemoveAt(s, i)) = Len(s) - 1
         /\ \A j \in 1..(Len(s) - 1) : RemoveAt(s, i)[j] = IF j < i THEN s[j] ELSE s[j + 1]
<1> DEFINE a == SubSeq(s, 1, i - 1)
           b == SubSeq(s, i + 1, Len(s))
<1>1. a \in Seq(S) /\ Len(a) = i - 1 /\ \A j \in 1..(i - 1) : a[j] = s[j]
  OBVIOUS
<1>2. b \in Seq(S) /\ Len(b) = Len(s) - i /\ \A j \in 1..(Len(s) - i) : b[j] = s[i + j]
  OBVIOUS
<1> HIDE DEF a, b
<1>3. /\ a \o b \in Seq(S) /\ Len(a \o b) = Len(a) + Len(b)
      /\ \A j \in 1..(Len(a) + Len(b)) : (a \o b)[j] = IF j <= Len(a) THEN a[j] ELSE b[j - Len(a)]
  BY <1>1, <1>2, ConcatProperties
<1>4. RemoveAt(s, i) = a \o b
  BY DEF RemoveAt, a, b
<1>5. Len(s) \in Nat /\ i \in Nat
  OBVIOUS
<1>6. RemoveAt(s, i) \in Seq(S) /\ Len(RemoveAt(s, i)) = Len(s) - 1
  <2>1. Len(a) + Len(b) = Len(s) - 1
    <3>1. Len(a) = i - 1 /\ Len(b) = Len(s) - i
      BY <1>1, <1>2
    <3> QED BY <1>5, <3>1
  <2> QED BY <1>3, <1>4, <2>1
<1>7. ASSUME NEW j \in 1..(Len(s) - 1)
      PROVE  RemoveAt(s, i)[j] = IF j < i THEN s[j] ELSE s[j + 1]
  <2>1. RemoveAt(s, i)[j] = IF j <= i - 1 THEN a[j] ELSE b[j - (i - 1)]
    BY <1>1, <1>2, <1>3, <1>4, <1>5
  <2>2. CASE j < i
    BY <1>1, <1>5, <2>1, <2>2
  <2>3. CASE ~(j < i)
    <3>1. j - (i - 1) \in 1..(Len(s) - i) /\ i + (j - (i - 1)) = j + 1
      BY <1>5, <2>3
    <3> QED BY <1>2, <1>5, <2>1, <2>3, <3>1
  <2> QED BY <2>2, <2>3
<1> QED BY <1>6, <1>7

-----------------------------------------------------------------------------
(* Sequences that grow.                                                    *)

\* e has the numbers of I in their order.
Enumerates(e, I) ==
  /\ e \in Seq(Nat) /\ \A i \in 1..Len(e) : e[i] \in I
  /\ \A i, j \in 1..Len(e) : i < j => e[i] < e[j]
  /\ \A x \in I : \E i \in 1..Len(e) : e[i] = x

\* Only one sequence does.
LEMMA EnumeratesNth ==
  ASSUME NEW n \in Nat, NEW I \in SUBSET (1..n), NEW e, Enumerates(e, I)
  PROVE  Len(e) = Cardinality(I) /\ \A i \in 1..Len(e) : e[i] = Nth(I, i)
<1>1. /\ e \in Seq(Nat) /\ Len(e) \in Nat /\ \A i \in 1..Len(e) : e[i] \in I /\ e[i] \in Nat
      /\ \A x \in I : x \in Nat
  BY DEF Enumerates
<1>2. ASSUME NEW k \in 0..Len(e), NEW S, S = {e[i] : i \in 1..k}
      PROVE  Cardinality(S) = k
  <2> DEFINE b == [i \in 1..k |-> e[i]]
  <2>1. b \in [1..k -> S] /\ \A x \in S : \E i \in 1..k : b[i] = x
    BY <1>2
  <2>2. ASSUME NEW i \in 1..k, NEW j \in 1..k, i # j
        PROVE  b[i] # b[j]
    <3>1. i \in 1..Len(e) /\ j \in 1..Len(e) /\ (i < j \/ j < i)
      BY <1>1, <2>2
    <3>2. e[i] < e[j] \/ e[j] < e[i]
      BY <3>1 DEF Enumerates
    <3>3. e[i] \in Nat /\ e[j] \in Nat /\ b[i] = e[i] /\ b[j] = e[j]
      BY <1>1, <3>1
    <3> QED BY <3>2, <3>3
  <2>3. b \in Bijection(1..k, S)
    BY <2>1, <2>2 DEF Bijection, Injection, Surjection, IsInjective
  <2> QED BY <1>1, <2>3, FS_CountingElements DEF ExistsBijection
<1>3. I = {e[i] : i \in 1..Len(e)}
  BY <1>1 DEF Enumerates
<1>4. Len(e) = Cardinality(I)
  BY <1>1, <1>2, <1>3
<1>5. ASSUME NEW k \in 1..Len(e)
      PROVE  e[k] = Nth(I, k)
  <2>1. {j \in I : j <= e[k]} = {e[i] : i \in 1..k}
    <3>1. ASSUME NEW i \in 1..Len(e)
          PROVE  e[i] <= e[k] <=> i <= k
      <4>1. i < k => e[i] < e[k]
        BY DEF Enumerates
      <4>2. k < i => e[k] < e[i]
        BY DEF Enumerates
      <4> QED BY <1>1, <4>1, <4>2
    <3>2. 1..k = {i \in 1..Len(e) : i <= k}
      BY <1>1
    <3>3. {j \in I : j <= e[k]} = {e[i] : i \in {m \in 1..Len(e) : e[m] <= e[k]}}
      BY <1>3
    <3>4. {m \in 1..Len(e) : e[m] <= e[k]} = {i \in 1..Len(e) : i <= k}
      BY <3>1
    <3> QED BY <3>2, <3>3, <3>4
  <2>2. Cardinality({j \in I : j <= e[k]}) = k
    <3>1. k \in 0..Len(e)
      BY <1>1
    <3>2. Cardinality({e[i] : i \in 1..k}) = k
      BY <1>2, <3>1
    <3> QED BY <2>1, <3>2
  <2>3. Nth(I, k) \in I /\ Cardinality({j \in I : j <= Nth(I, k)}) = k
    BY <1>4, NthExists
  <2>4. e[k] \in I /\ e[k] \in Nat /\ Nth(I, k) \in Nat
    BY <1>1, <2>3
  <2>5. ~(e[k] < Nth(I, k)) /\ ~(Nth(I, k) < e[k])
    <3>1. ASSUME NEW x \in I, NEW y \in I, x < y
          PROVE  Cardinality({j \in I : j <= x}) # Cardinality({j \in I : j <= y})
      <4>1. Cardinality({j \in I : j <= x}) < Cardinality({j \in I : j <= y})
        BY <3>1, RankGrows
      <4>2. x \in Nat /\ y \in Nat
        BY <1>1
      <4>3. Cardinality({j \in I : j <= x}) \in Nat
        BY <4>2, RankStep
      <4>4. Cardinality({j \in I : j <= y}) \in Nat
        BY <4>2, RankStep
      <4> QED BY <4>1, <4>3, <4>4
    <3>2. CASE e[k] < Nth(I, k)
      BY <2>2, <2>3, <2>4, <3>1, <3>2
    <3>3. CASE Nth(I, k) < e[k]
      BY <2>2, <2>3, <2>4, <3>1, <3>3
    <3> QED BY <3>2, <3>3
  <2> QED BY <2>4, <2>5
<1> QED BY <1>4, <1>5

\* Nth does.
LEMMA NthEnumerates ==
  ASSUME NEW n \in Nat, NEW I \in SUBSET (1..n)
  PROVE  Enumerates([i \in 1..Cardinality(I) |-> Nth(I, i)], I)
<1> DEFINE e == [i \in 1..Cardinality(I) |-> Nth(I, i)]
<1>1. /\ Cardinality(I) \in Nat
      /\ \A i \in 1..Cardinality(I) : Nth(I, i) \in I /\ Nth(I, i) \in Nat
  <2>1. \A x \in I : x \in Nat
    OBVIOUS
  <2> QED BY <2>1, NthInOrder, NthExists
<1>2. e \in Seq(Nat) /\ Len(e) = Cardinality(I)
  BY <1>1
<1>3. \A i \in 1..Len(e) : e[i] = Nth(I, i)
  BY <1>2
<1>4. /\ \A i, j \in 1..Cardinality(I) : i < j => Nth(I, i) < Nth(I, j)
      /\ \A k \in I : \E i \in 1..Cardinality(I) : Nth(I, i) = k
  BY NthInOrder
<1> HIDE DEF e
<1>5. Enumerates(e, I)
  BY <1>1, <1>2, <1>3, <1>4 DEF Enumerates
<1> QED BY <1>5 DEF e

\* v is a part of u, after its first a symbols.
IsPart(u, a, v) == a + Len(v) <= Len(u) /\ \A i \in 1..Len(v) : v[i] = u[a + i]

\* Pieces of a part are pieces of the whole.
LEMMA Shifted ==
  ASSUME NEW S, NEW u \in Seq(S), NEW v \in Seq(S), NEW a \in Nat, IsPart(u, a, v)
  PROVE  \A x \in 1..(Len(v) + 1), y \in 0..Len(v) : SubSeq(u, a + x, a + y) = SubSeq(v, x, y)
<1> SUFFICES ASSUME NEW x \in 1..(Len(v) + 1), NEW y \in 0..Len(v)
             PROVE  SubSeq(u, a + x, a + y) = SubSeq(v, x, y)
  OBVIOUS
<1>1. Len(u) \in Nat /\ Len(v) \in Nat /\ Len(v) <= Len(u) - a
  BY DEF IsPart
<1> DEFINE n == IF x <= y THEN y - x + 1 ELSE 0
<1>2. /\ SubSeq(v, x, y) \in Seq(S) /\ Len(SubSeq(v, x, y)) = n
      /\ \A k \in 1..n : SubSeq(v, x, y)[k] = v[x + k - 1]
  BY <1>1
<1>3. /\ SubSeq(u, a + x, a + y) \in Seq(S) /\ Len(SubSeq(u, a + x, a + y)) = n
      /\ \A k \in 1..n : SubSeq(u, a + x, a + y)[k] = u[a + x + k - 1]
  BY <1>1
<1>4. \A k \in 1..n : v[x + k - 1] = u[a + x + k - 1]
  <2> SUFFICES ASSUME NEW k \in 1..n
               PROVE  v[x + k - 1] = u[a + x + k - 1]
    OBVIOUS
  <2>1. x + k - 1 \in 1..Len(v) /\ a + (x + k - 1) = a + x + k - 1
    BY <1>1
  <2> QED BY <2>1 DEF IsPart
<1>5. n \in Nat
  BY <1>1
<1> HIDE DEF n
<1> DEFINE w == SubSeq(v, x, y)
           z == SubSeq(u, a + x, a + y)
<1>6. /\ w \in Seq(S) /\ Len(w) = n /\ z \in Seq(S) /\ Len(z) = n
      /\ \A k \in 1..n : z[k] = w[k]
  BY <1>2, <1>3, <1>4
<1> HIDE DEF w, z
<1>7. z = w
  BY <1>5, <1>6
<1> QED BY <1>7 DEF w, z

\* w is x, and then y.
IsJoin(w, x, y) ==
  /\ Len(w) = Len(x) + Len(y)
  /\ \A i \in 1..Len(x) : w[i] = x[i]
  /\ \A i \in 1..Len(y) : w[Len(x) + i] = y[i]

\* What \o returns, and what is such a result.
LEMMA ConcatFacts ==
  ASSUME NEW S, NEW x \in Seq(S), NEW y \in Seq(S)
  PROVE  x \o y \in Seq(S) /\ IsJoin(x \o y, x, y)
<1>1. Len(x) \in Nat /\ Len(y) \in Nat /\ x \o y \in Seq(S) /\ Len(x \o y) = Len(x) + Len(y)
  OBVIOUS
<1>2. \A i \in 1..Len(x) : (x \o y)[i] = x[i]
  OBVIOUS
<1>3. \A i \in 1..Len(y) : (x \o y)[Len(x) + i] = y[i]
  OBVIOUS
<1> QED BY <1>1, <1>2, <1>3 DEF IsJoin

\* A number that counts both counts one or the other.
LEMMA Halves ==
  ASSUME NEW n \in Nat, NEW m \in Nat
  PROVE  \A i \in 1..(n + m) : i \in 1..n \/ \E j \in 1..m : i = n + j
<1> SUFFICES ASSUME NEW i \in 1..(n + m), i \notin 1..n
             PROVE  \E j \in 1..m : i = n + j
  OBVIOUS
<1>1. i - n \in 1..m /\ i = n + (i - n)
  OBVIOUS
<1> QED BY <1>1

\* x is a list of n members.
OfLength(x, n) == x = [k \in 1..n |-> x[k]]

LEMMA IsConcat ==
  ASSUME NEW n \in Nat, NEW m \in Nat, NEW l, l = n + m, NEW x, NEW y, NEW z,
         OfLength(x, n), OfLength(y, m), OfLength(z, l),
         \A k \in 1..n : z[k] = x[k], \A k \in 1..m : z[n + k] = y[k]
  PROVE  z = x \o y
<1> DEFINE T == {z[k] : k \in 1..l}
<1>1. (\A k \in 1..n : k \in 1..l) /\ \A k \in 1..m : n + k \in 1..l
  OBVIOUS
<1>2. (\A k \in 1..n : x[k] \in T) /\ (\A k \in 1..m : y[k] \in T) /\ \A k \in 1..l : z[k] \in T
  BY <1>1
<1> HIDE DEF T
<1>3. x \in Seq(T) /\ y \in Seq(T) /\ z \in Seq(T) /\ Len(x) = n /\ Len(y) = m /\ Len(z) = l
  <2>1. x \in [1..n -> T] /\ y \in [1..m -> T] /\ z \in [1..l -> T]
    BY <1>2 DEF OfLength
  <2>2. x \in Seq(T) /\ Len(x) = n
    BY <2>1
  <2>3. y \in Seq(T) /\ Len(y) = m
    BY <2>1
  <2>4. z \in Seq(T) /\ Len(z) = l
    BY <2>1
  <2> QED BY <2>2, <2>3, <2>4
<1> DEFINE w == x \o y
<1>4. /\ w \in Seq(T) /\ Len(w) = l
      /\ \A k \in 1..n : w[k] = x[k]
      /\ \A k \in 1..m : w[n + k] = y[k]
  <2>1. w \in Seq(T) /\ IsJoin(w, x, y)
    BY <1>3, ConcatFacts
  <2> HIDE DEF w
  <2> QED BY <1>3, <2>1 DEF IsJoin
<1> HIDE DEF w
<1>5. ASSUME NEW k \in 1..l
      PROVE  z[k] = w[k]
  <2>1. CASE k \in 1..n
    BY <1>4, <2>1
  <2>2. ASSUME NEW j \in 1..m, k = n + j
        PROVE  z[k] = w[k]
    BY <1>4, <2>2
  <2> QED BY <2>1, <2>2, Halves
<1>6. z = w
  BY <1>3, <1>4, <1>5
<1> QED BY <1>6 DEF w

\* f continues e with the numbers of d, a further on.
Further(f, e, a, d) ==
  /\ f \in Seq(Nat) /\ Len(f) = Len(e) + Len(d)
  /\ \A k \in 1..Len(e) : f[k] = e[k]
  /\ \A k \in 1..Len(d) : f[Len(e) + k] = a + d[k]

LEMMA FurtherEnumerates ==
  ASSUME NEW I, NEW J, NEW a \in Nat, \A x \in I : x \in Nat /\ x <= a, \A x \in J : x \in Nat /\ 1 <= x,
         NEW e, Enumerates(e, I), NEW d, Enumerates(d, J), NEW f, Further(f, e, a, d)
  PROVE  Enumerates(f, I \cup {a + x : x \in J})
<1> DEFINE K == I \cup {a + x : x \in J}
           n == Len(e)
           m == Len(d)
<1>1. n \in Nat /\ m \in Nat /\ (\A i \in 1..n : e[i] \in I) /\ \A i \in 1..m : d[i] \in J
  BY DEF Enumerates
<1>2. /\ f \in Seq(Nat) /\ Len(f) = n + m
      /\ (\A i \in 1..n : f[i] = e[i]) /\ \A i \in 1..m : f[n + i] = a + d[i]
  BY DEF Further
<1>3. (\A i, j \in 1..n : i < j => e[i] < e[j]) /\ \A i, j \in 1..m : i < j => d[i] < d[j]
  BY DEF Enumerates
<1>4. (\A x \in I : \E i \in 1..n : e[i] = x) /\ \A x \in J : \E i \in 1..m : d[i] = x
  BY DEF Enumerates
<1> HIDE DEF n, m
<1>5. \A i \in 1..(n + m) : i \in 1..n \/ \E j \in 1..m : i = n + j
  BY <1>1, Halves
<1>6. \A i \in 1..(n + m) : f[i] \in K
  <2> SUFFICES ASSUME NEW i \in 1..(n + m)
               PROVE  f[i] \in K
    OBVIOUS
  <2>1. CASE i \in 1..n
    BY <1>1, <1>2, <2>1
  <2>2. ASSUME NEW j \in 1..m, i = n + j
        PROVE  f[i] \in K
    BY <1>1, <1>2, <2>2
  <2> QED BY <1>5, <2>1, <2>2, Zenon
<1>7. ASSUME NEW i \in 1..(n + m), NEW j \in 1..(n + m), i < j
      PROVE  f[i] < f[j]
  <2>1. CASE i \in 1..n /\ j \in 1..n
    BY <1>2, <1>3, <1>7, <2>1
  <2>2. ASSUME i \in 1..n, NEW y \in 1..m, j = n + y
        PROVE  f[i] < f[j]
    <3>1. f[i] = e[i] /\ f[j] = a + d[y] /\ e[i] \in I /\ d[y] \in J
      BY <1>1, <1>2, <2>2
    <3>2. e[i] \in Nat /\ e[i] <= a /\ d[y] \in Nat /\ 1 <= d[y]
      BY <3>1
    <3> QED BY <3>1, <3>2
  <2>3. ASSUME NEW x \in 1..m, i = n + x, NEW y \in 1..m, j = n + y
        PROVE  f[i] < f[j]
    <3>1. x < y
      BY <1>1, <1>7, <2>3
    <3>2. d[x] < d[y] /\ d[x] \in Nat /\ d[y] \in Nat
      BY <1>1, <1>3, <3>1
    <3>3. f[i] = a + d[x] /\ f[j] = a + d[y]
      BY <1>2, <2>3
    <3> QED BY <3>2, <3>3
  <2>4. ~ (j \in 1..n /\ \E x \in 1..m : i = n + x)
    BY <1>1, <1>7
  <2>5. (i \in 1..n \/ \E x \in 1..m : i = n + x) /\ (j \in 1..n \/ \E x \in 1..m : j = n + x)
    BY <1>5
  <2> QED BY <2>1, <2>2, <2>3, <2>4, <2>5, Zenon
<1>8. ASSUME NEW x \in K
      PROVE  \E i \in 1..(n + m) : f[i] = x
  <2>1. CASE x \in I
    <3>1. PICK i \in 1..n : e[i] = x
      BY <1>4, <2>1
    <3>2. i \in 1..(n + m) /\ f[i] = x
      BY <1>1, <1>2, <3>1
    <3> QED BY <3>2
  <2>2. ASSUME NEW y \in J, x = a + y
        PROVE  \E i \in 1..(n + m) : f[i] = x
    <3>1. PICK i \in 1..m : d[i] = y
      BY <1>4
    <3>2. n + i \in 1..(n + m) /\ f[n + i] = x
      BY <1>1, <1>2, <2>2, <3>1
    <3> QED BY <3>2
  <2> QED BY <2>1, <2>2
<1> HIDE DEF K
<1>9. Enumerates(f, K)
  BY <1>2, <1>6, <1>7, <1>8 DEF Enumerates
<1> QED BY <1>9 DEF K
=============================================================================
