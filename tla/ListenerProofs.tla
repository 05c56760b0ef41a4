--------------------------- MODULE ListenerProofs ---------------------------
(***************************************************************************)
(* Proofs about listeners, those of events and those of the log.           *)
(*                                                                         *)
(* The event module, for any number of threads, listeners, entries and     *)
(* nested calls: the queues stay in order, no entry is lost, and the mutex *)
(* is held exactly as long as a call is under way.                         *)
(*                                                                         *)
(* XCalls, for any calls and depth of the stack: the log's listeners do    *)
(* not run into each other, answers belong to their calls, and the code    *)
(* that runs is loaded.                                                    *)
(***************************************************************************)
EXTENDS Event, Scripting, SelectionProofs

\* The difference between an attached priority and one that compareEventListeners is
\* called for fits an int.
DifferencesFit ==
  \A p \in Priorities, q \in Priorities \ {LOWEST, HIGHEST} : p - q \in LOWEST..HIGHEST

Keys == Subjects \X Events

-----------------------------------------------------------------------------
(* Sequences.                                                              *)

\* What InsertAt returns.
LEMMA InsertAtFacts ==
  ASSUME NEW S, NEW s \in Seq(S), NEW e \in S, NEW i \in 1..(Len(s) + 1)
  PROVE  /\ InsertAt(s, i, e) \in Seq(S) /\ Len(InsertAt(s, i, e)) = Len(s) + 1
         /\ \A j \in 1..(Len(s) + 1) :
              InsertAt(s, i, e)[j] = IF j < i THEN s[j] ELSE IF j = i THEN e ELSE s[j - 1]
<1> DEFINE a == SubSeq(s, 1, i - 1)
           b == SubSeq(s, i, Len(s))
<1>1. a \in Seq(S) /\ Len(a) = i - 1 /\ \A j \in 1..(i - 1) : a[j] = s[j]
  OBVIOUS
<1>2. b \in Seq(S) /\ Len(b) = Len(s) - i + 1 /\ \A j \in 1..(Len(s) - i + 1) : b[j] = s[i + j - 1]
  OBVIOUS
<1> HIDE DEF a, b
<1> DEFINE c == a \o <<e>>
<1>3. c \in Seq(S) /\ Len(c) = i /\ c[i] = e /\ \A j \in 1..(i - 1) : c[j] = s[j]
  BY <1>1
<1> HIDE DEF c
<1>4. /\ c \o b \in Seq(S) /\ Len(c \o b) = Len(s) + 1
      /\ \A j \in 1..(Len(s) + 1) : (c \o b)[j] = IF j <= i THEN c[j] ELSE b[j - i]
  BY <1>2, <1>3
<1>5. InsertAt(s, i, e) = c \o b
  BY DEF InsertAt, a, b, c
<1> QED BY <1>2, <1>3, <1>4, <1>5

\* A set of numbers up to a bound has a largest member.
LEMMA LargestUpTo ==
  ASSUME NEW N \in Nat, NEW S \in SUBSET (0..N), 0 \in S
  PROVE  \E n \in S : \A k \in S : k <= n
<1> DEFINE T == {N - n : n \in S}
<1>1. T \subseteq Nat /\ T # {}
  <2>1. \A n \in S : N - n \in Nat
    OBVIOUS
  <2>2. N - 0 \in T
    OBVIOUS
  <2> QED BY <2>1, <2>2
<1>2. PICK x \in T : \A y \in T : x <= y
  <2> HIDE DEF T
  <2> QED BY <1>1, LeastOf
<1>3. PICK n \in S : x = N - n
  BY <1>2
<1>4. \A k \in S : N - n <= N - k
  BY <1>2, <1>3
<1>5. \A k \in S : k \in 0..N
  OBVIOUS
<1> QED BY <1>3, <1>4, <1>5

-----------------------------------------------------------------------------
(* Insertion.                                                              *)

\* r is q with e in the i-th place.
InsertedAt(q, e, r, i) ==
  /\ i \in 1..(Len(q) + 1) /\ r \in Seq(Entry) /\ Len(r) = Len(q) + 1
  /\ \A j \in 1..(Len(q) + 1) : r[j] = IF j < i THEN q[j] ELSE IF j = i THEN e ELSE q[j - 1]

\* compareEventListeners does not overflow.
LEMMA CompareFits ==
  ASSUME NEW d \in LOWEST..HIGHEST
  PROVE  AsInt(d) = d
<1>1. IntRange \in Nat \ {0}
  BY EventAssumption
<1>2. d \in Int /\ 0 <= d + IntRange /\ d + IntRange < 2 * IntRange
  BY <1>1 DEF LOWEST, HIGHEST
<1>3. (d + IntRange) % (2 * IntRange) = d + IntRange
  BY <1>1, <1>2
<1> QED BY <1>1, <1>2, <1>3 DEF AsInt

\* The entries that InsertSorted passes over.
LEMMA SortedPlace ==
  ASSUME NEW q \in Seq(Entry), NEW e \in Entry
  PROVE  \E n \in 0..Len(q) :
           /\ InsertSorted(q, e) = InsertAt(q, n + 1, e)
           /\ \A i \in 1..n : Compare(q[i], e) < 0
           /\ n < Len(q) => ~ (Compare(q[n + 1], e) < 0)
<1> DEFINE smaller == {n \in 0..Len(q) : \A i \in 1..n : Compare(q[i], e) < 0}
           N == CHOOSE n \in smaller : \A k \in smaller : k <= n
<1>1. Len(q) \in Nat /\ smaller \in SUBSET (0..Len(q)) /\ 0 \in smaller
  OBVIOUS
<1>2. N \in smaller /\ \A k \in smaller : k <= N
  <2>1. \E n \in smaller : \A k \in smaller : k <= n
    <3> HIDE DEF smaller
    <3> QED BY <1>1, LargestUpTo
  <2> HIDE DEF smaller
  <2> QED BY <2>1
<1>3. InsertSorted(q, e) = InsertAt(q, N + 1, e)
  BY DEF InsertSorted
<1> HIDE DEF N
<1>4. N \in 0..Len(q) /\ \A i \in 1..N : Compare(q[i], e) < 0
  BY <1>2
<1>5. ASSUME N < Len(q), Compare(q[N + 1], e) < 0 PROVE FALSE
  <2>1. N + 1 \in smaller
    BY <1>1, <1>4, <1>5
  <2>2. N + 1 <= N
    <3> HIDE DEF smaller
    <3> QED BY <1>2, <2>1
  <2> QED BY <2>2, <1>4
<1> QED BY <1>3, <1>4, <1>5

\* The place of an insertion.
LEMMA InsertPlace ==
  ASSUME NEW q \in Seq(Entry), NEW e \in Entry
  PROVE  \E i \in 1..(Len(q) + 1) : InsertedAt(q, e, Insert(q, e), i)
<1>1. Len(q) \in Nat /\ <<e>> \in Seq(Entry) /\ Len(<<e>>) = 1 /\ <<e>>[1] = e
  OBVIOUS
<1>2. InsertedAt(q, e, <<e>> \o q, 1)
  <2>1. /\ <<e>> \o q \in Seq(Entry) /\ Len(<<e>> \o q) = 1 + Len(q)
        /\ \A j \in 1..(1 + Len(q)) : (<<e>> \o q)[j] = IF j <= 1 THEN <<e>>[j] ELSE q[j - 1]
    BY <1>1, ConcatProperties
  <2> HIDE DEF Entry
  <2> QED BY <1>1, <2>1 DEF InsertedAt
<1>3. InsertedAt(q, e, Append(q, e), Len(q) + 1)
  <2> HIDE DEF Entry
  <2> QED BY <1>1, AppendProperties DEF InsertedAt
<1>4. \E i \in 1..(Len(q) + 1) : InsertedAt(q, e, InsertSorted(q, e), i)
  <2>1. PICK n \in 0..Len(q) : InsertSorted(q, e) = InsertAt(q, n + 1, e)
    BY SortedPlace
  <2>2. n + 1 \in 1..(Len(q) + 1)
    BY <1>1
  <2> HIDE DEF Entry
  <2>3. InsertedAt(q, e, InsertAt(q, n + 1, e), n + 1)
    BY <2>2, InsertAtFacts DEF InsertedAt
  <2> QED BY <2>1, <2>2, <2>3
<1>5. 1 \in 1..(Len(q) + 1) /\ Len(q) + 1 \in 1..(Len(q) + 1)
  BY <1>1
<1> QED BY <1>2, <1>3, <1>4, <1>5 DEF Insert

\* Priorities in an int's range lie between LOWEST and HIGHEST.
LEMMA Bounds == \A p \in Priorities : p \in Int /\ LOWEST <= p /\ p <= HIGHEST
BY EventAssumption DEF LOWEST, HIGHEST

\* An entry is inserted where the order wants it.
LEMMA InsertKeepsOrder ==
  ASSUME DifferencesFit, NEW q \in Seq(Entry), NEW e \in Entry, Sorted(q),
         e.priority \in Priorities, \A i \in 1..Len(q) : q[i].priority \in Priorities
  PROVE  Sorted(Insert(q, e))
<1> DEFINE r == Insert(q, e)
<1>1. Len(q) \in Nat /\ LOWEST # HIGHEST
  BY EventAssumption DEF LOWEST, HIGHEST
<1>2. ASSUME NEW i \in 1..(Len(q) + 1), InsertedAt(q, e, r, i),
             \A j \in 1..Len(q) : j < i => q[j].priority <= e.priority,
             \A j \in 1..Len(q) : i <= j => e.priority <= q[j].priority
      PROVE  Sorted(r)
  <2>1. DOMAIN r = 1..(Len(q) + 1)
    BY <1>2 DEF InsertedAt
  <2> SUFFICES ASSUME NEW a \in 1..(Len(q) + 1), NEW b \in 1..(Len(q) + 1), a < b
               PROVE  r[a].priority <= r[b].priority
    BY <2>1 DEF Sorted
  <2>2. /\ r[a] = IF a < i THEN q[a] ELSE IF a = i THEN e ELSE q[a - 1]
        /\ r[b] = IF b < i THEN q[b] ELSE IF b = i THEN e ELSE q[b - 1]
    BY <1>2 DEF InsertedAt
  <2>3. \A j, k \in 1..Len(q) : j < k => q[j].priority <= q[k].priority
    BY DEF Sorted
  <2> HIDE DEF r
  <2>4. CASE b < i
    BY <1>1, <2>2, <2>3, <2>4
  <2>5. CASE b = i
    BY <1>1, <1>2, <2>2, <2>5
  <2>6. CASE b > i /\ a < i
    <3>1. a \in 1..Len(q) /\ b - 1 \in 1..Len(q) /\ (a < b - 1 \/ a = b - 1)
      BY <1>1, <2>6
    <3>2. r[a] = q[a] /\ r[b] = q[b - 1]
      BY <2>2, <2>6
    <3>3. a \in 1..Len(q) /\ b - 1 \in 1..Len(q)
      BY <1>1, <2>6
    <3>4. a = b - 1 => FALSE
      BY <2>6
    <3> QED BY <2>3, <3>1, <3>2, <3>3, <3>4
  <2>7. CASE b > i /\ a = i
    <3>1. b - 1 \in 1..Len(q) /\ i <= b - 1
      BY <1>1, <2>7
    <3>2. r[a] = e /\ r[b] = q[b - 1]
      BY <2>2, <2>7
    <3> QED BY <1>2, <3>1, <3>2
  <2>8. CASE b > i /\ a > i
    <3>1. a - 1 \in 1..Len(q) /\ b - 1 \in 1..Len(q) /\ a - 1 < b - 1
      BY <1>1, <2>8
    <3>2. r[a] = q[a - 1] /\ r[b] = q[b - 1]
      BY <2>2, <2>8
    <3> QED BY <2>3, <3>1, <3>2
  <2> QED BY <2>4, <2>5, <2>6, <2>7, <2>8
<1>3. CASE e.priority = LOWEST
  <2>1. r = <<e>> \o q
    BY <1>1, <1>3 DEF Insert
  <2>2. InsertedAt(q, e, r, 1)
    <3>1. <<e>> \in Seq(Entry) /\ Len(<<e>>) = 1 /\ <<e>>[1] = e
      OBVIOUS
    <3>2. /\ <<e>> \o q \in Seq(Entry) /\ Len(<<e>> \o q) = 1 + Len(q)
          /\ \A j \in 1..(1 + Len(q)) : (<<e>> \o q)[j] = IF j <= 1 THEN <<e>>[j] ELSE q[j - 1]
      BY <3>1, ConcatProperties
    <3> HIDE DEF Entry
    <3> QED BY <1>1, <2>1, <3>1, <3>2 DEF InsertedAt
  <2>3. 1 \in 1..(Len(q) + 1)
    BY <1>1
  <2>4. \A j \in 1..Len(q) : e.priority <= q[j].priority
    BY <1>3, Bounds
  <2> HIDE DEF r
  <2>10. Sorted(r)
    BY <1>2, <2>2, <2>3, <2>4
  <2> QED BY <2>10 DEF r
<1>4. CASE e.priority # LOWEST /\ e.priority = HIGHEST
  <2>1. r = Append(q, e)
    BY <1>1, <1>4 DEF Insert
  <2>2. InsertedAt(q, e, r, Len(q) + 1)
    <3> HIDE DEF Entry
    <3> QED BY <1>1, <2>1, AppendProperties DEF InsertedAt
  <2>3. Len(q) + 1 \in 1..(Len(q) + 1) /\ \A j \in 1..Len(q) : ~ (Len(q) + 1 <= j)
    BY <1>1
  <2>4. \A j \in 1..Len(q) : q[j].priority <= e.priority
    BY <1>4, Bounds
  <2> HIDE DEF r
  <2>10. Sorted(r)
    BY <1>2, <2>2, <2>3, <2>4
  <2> QED BY <2>10 DEF r
<1>5. CASE e.priority \notin {LOWEST, HIGHEST}
  <2>1. r = InsertSorted(q, e)
    BY <1>5 DEF Insert
  <2>2. PICK n \in 0..Len(q) : /\ InsertSorted(q, e) = InsertAt(q, n + 1, e)
                               /\ \A i \in 1..n : Compare(q[i], e) < 0
                               /\ n < Len(q) => ~ (Compare(q[n + 1], e) < 0)
    BY SortedPlace
  <2>3. n + 1 \in 1..(Len(q) + 1) /\ n \in Nat
    BY <1>1
  <2>4. InsertedAt(q, e, r, n + 1)
    <3> DEFINE s == InsertAt(q, n + 1, e)
    <3>1. r = s
      BY <2>1, <2>2
    <3> HIDE DEF Entry, s, r
    <3>2. /\ s \in Seq(Entry) /\ Len(s) = Len(q) + 1
          /\ \A j \in 1..(Len(q) + 1) :
               s[j] = IF j < n + 1 THEN q[j] ELSE IF j = n + 1 THEN e ELSE q[j - 1]
      BY <2>3, InsertAtFacts DEF s
    <3> QED BY <2>3, <3>1, <3>2 DEF InsertedAt
  <2>5. \A j \in 1..Len(q) : Compare(q[j], e) = q[j].priority - e.priority
    <3> SUFFICES ASSUME NEW j \in 1..Len(q) PROVE Compare(q[j], e) = q[j].priority - e.priority
      OBVIOUS
    <3>1. q[j].priority - e.priority \in LOWEST..HIGHEST
      BY <1>5 DEF DifferencesFit
    <3> QED BY <3>1, CompareFits DEF Compare
  <2>6. \A j \in 1..Len(q) : q[j].priority \in Int
    BY Bounds
  <2>7. e.priority \in Int
    BY Bounds
  <2>8. \A j \in 1..Len(q) : j < n + 1 => q[j].priority <= e.priority
    <3> SUFFICES ASSUME NEW j \in 1..Len(q), j < n + 1 PROVE q[j].priority <= e.priority
      OBVIOUS
    <3>1. q[j].priority - e.priority < 0
      BY <2>2, <2>3, <2>5
    <3> QED BY <3>1, <2>6, <2>7
  <2>9. ASSUME NEW j \in 1..Len(q), n + 1 <= j PROVE e.priority <= q[j].priority
    <3>1. n + 1 \in 1..Len(q) /\ n < Len(q)
      BY <2>3, <2>9, <1>1
    <3>2. ~ (q[n + 1].priority - e.priority < 0)
      BY <2>2, <2>5, <3>1
    <3>3. e.priority <= q[n + 1].priority
      BY <3>1, <3>2, <2>6, <2>7
    <3>4. q[n + 1].priority <= q[j].priority
      BY <2>6, <2>9, <3>1 DEF Sorted
    <3> QED BY <2>6, <2>7, <3>1, <3>3, <3>4
  <2> HIDE DEF r
  <2>10. Sorted(r)
    BY <1>2, <2>3, <2>4, <2>8, <2>9
  <2> QED BY <2>10 DEF r
<1> QED BY <1>3, <1>4, <1>5

-----------------------------------------------------------------------------
(* The inductive invariant.                                                *)

\* Entries have the priorities that listeners are attached with.
Known == \A k \in Keys : \A i \in 1..Len(queue[k]) : queue[k][i].priority \in Priorities

\* EntriesAccounted, entry by entry.
Accounted ==
  /\ \A k \in Keys : \A i \in 1..Len(queue[k]) : queue[k][i].id \in (1..allocated) \ freed
  /\ \A n \in (1..allocated) \ freed :
       \E k \in Keys : \E i \in 1..Len(queue[k]) : queue[k][i].id = n
  /\ \A k, m \in Keys : \A i \in 1..Len(queue[k]), j \in 1..Len(queue[m]) :
       queue[k][i].id = queue[m][j].id => k = m /\ i = j

EventInv == TypeOK /\ Ordered /\ Known /\ Accounted /\ MutexHeld

\* Entries are in one place each.
LEMMA AccountedIs ==
  ASSUME TypeOK, Accounted
  PROVE  EntriesAccounted
<1> DEFINE places == UNION {{<<q, i>> : i \in DOMAIN queue[q]} : q \in Subjects \X Events}
           EntryAt(p) == queue[p[1]][p[2]].id
<1>1. \A k \in Keys : DOMAIN queue[k] = 1..Len(queue[k])
  BY DEF TypeOK, Keys
<1>2. \A p \in places : p[1] \in Keys /\ p[2] \in 1..Len(queue[p[1]]) /\ p = <<p[1], p[2]>>
  BY <1>1 DEF Keys
<1>3. \A k \in Keys : \A i \in 1..Len(queue[k]) : <<k, i>> \in places
  BY <1>1 DEF Keys
<1> HIDE DEF places
<1>4. {EntryAt(p) : p \in places} = (1..allocated) \ freed
  <2>1. \A p \in places : EntryAt(p) \in (1..allocated) \ freed
    BY <1>2 DEF Accounted
  <2>2. ASSUME NEW n \in (1..allocated) \ freed PROVE \E p \in places : EntryAt(p) = n
    <3>1. PICK k \in Keys : \E i \in 1..Len(queue[k]) : queue[k][i].id = n
      BY DEF Accounted
    <3> PICK i \in 1..Len(queue[k]) : queue[k][i].id = n
      BY <3>1
    <3>2. EntryAt(<<k, i>>) = n
      OBVIOUS
    <3> QED BY <1>3, <3>2
  <2> QED BY <2>1, <2>2
<1>5. \A p, r \in places : EntryAt(p) = EntryAt(r) => p = r
  <2> SUFFICES ASSUME NEW p \in places, NEW r \in places, EntryAt(p) = EntryAt(r) PROVE p = r
    OBVIOUS
  <2>1. p[1] = r[1] /\ p[2] = r[2]
    BY <1>2 DEF Accounted
  <2> QED BY <1>2, <2>1
<1> QED BY <1>4, <1>5 DEF EntriesAccounted, places

\* The invariant implies the property.
LEMMA EventInvImplies == EventInv => QueuesSound
BY AccountedIs DEF EventInv, QueuesSound

\* triggerEvent either finds no listener or enters a call that works on a copy of the
\* queue.
LEMMA TriggerFacts ==
  ASSUME TypeOK, MutexHeld, NEW t \in Threads, MayCall(t),
         NEW s \in Subjects, NEW e \in Events, NEW queues,
         queues[<<s, e>>] \in Seq(Entry), Trigger(t, s, e, queues)
  PROVE  /\ owner' \in Threads \cup {NoThread} /\ calls' \in Seq(TriggerCall) /\ triggers' \in Nat
         /\ MutexHeld'
         /\ Len(calls) \in Nat /\ Len(calls') \in {Len(calls), Len(calls) + 1}
         /\ \A i \in 1..Len(calls) : calls'[i] = calls[i]
         /\ \A i \in 1..Len(calls') :
              i = Len(calls) + 1 => calls'[i].list = queues[<<s, e>>] /\ calls'[i].counter = 0
<1>1. calls \in Seq(TriggerCall) /\ Len(calls) \in Nat /\ triggers \in Nat
      /\ owner \in Threads \cup {NoThread} /\ DOMAIN calls = 1..Len(calls)
  BY DEF TypeOK
<1>2. CASE queues[<<s, e>>] = <<>>
  <2>1. UNCHANGED <<owner, calls, triggers>>
    BY <1>2 DEF Trigger
  <2> QED BY <1>1, <2>1 DEF MutexHeld
<1>3. CASE queues[<<s, e>>] # <<>>
  <2> DEFINE c == [id |-> triggers + 1, subject |-> s, event |-> e, list |-> queues[<<s, e>>],
                   counter |-> 0, running |-> FALSE]
  <2>1. owner' = t /\ triggers' = triggers + 1 /\ calls' = Append(calls, c)
    BY <1>3 DEF Trigger
  <2>2. c \in TriggerCall /\ c.list = queues[<<s, e>>] /\ c.counter = 0
    BY <1>1 DEF TriggerCall
  <2> HIDE DEF c
  <2>3. /\ calls' \in Seq(TriggerCall) /\ Len(calls') = Len(calls) + 1
        /\ \A i \in 1..Len(calls) : calls'[i] = calls[i]
        /\ calls'[Len(calls) + 1] = c
    BY <1>1, <2>1, <2>2, AppendProperties
  <2>4. MutexHeld'
    <3>1. owner' # NoThread /\ calls' # <<>>
      BY <1>1, <2>1, <2>3, EventAssumption
    <3>2. \A i \in DOMAIN calls' : i < Len(calls') => calls'[i].running
      <4> SUFFICES ASSUME NEW i \in 1..Len(calls) PROVE calls[i].running
        BY <1>1, <2>3
      <4>1. CASE i < Len(calls)
        BY <1>1, <4>1 DEF MutexHeld
      <4>2. CASE ~(i < Len(calls))
        <5>1. i = Len(calls) /\ calls # <<>>
          <6>1. i = Len(calls) /\ Len(calls) # 0
            <7>1. Len(calls) \in Nat
              BY <1>1
            <7> QED BY <7>1, <4>2
          <6>2. Len(<<>>) = 0
            BY EmptySeq
          <6>3. calls # <<>>
            BY <6>1, <6>2
          <6> QED BY <6>1, <6>3
        <5>2. owner # NoThread
          BY <5>1 DEF MutexHeld
        <5> QED BY <5>1, <5>2 DEF MayCall, Last
      <4> QED BY <4>1, <4>2
    <3> QED BY <3>1, <3>2 DEF MutexHeld
  <2> QED BY <1>1, <2>1, <2>2, <2>3, <2>4
<1> QED BY <1>2, <1>3

\* What is walked over stays in order when triggerEvent takes a copy of an ordered queue.
LEMMA TriggerKeepsOrder ==
  ASSUME TypeOK, MutexHeld, Ordered, NEW t \in Threads, MayCall(t),
         NEW s \in Subjects, NEW e \in Events, NEW queues,
         queues[<<s, e>>] \in Seq(Entry), Sorted(queues[<<s, e>>]), Trigger(t, s, e, queues)
  PROVE  \A i \in DOMAIN calls' : Sorted(calls'[i].list)
<1>1. /\ calls' \in Seq(TriggerCall) /\ Len(calls) \in Nat /\ Len(calls') \in {Len(calls), Len(calls) + 1}
      /\ \A i \in 1..Len(calls) : calls'[i] = calls[i]
      /\ \A i \in 1..Len(calls') : i = Len(calls) + 1 => calls'[i].list = queues[<<s, e>>]
  BY TriggerFacts
<1>2. \A i \in 1..Len(calls) : Sorted(calls[i].list)
  BY DEF Ordered, TypeOK
<1>3. DOMAIN calls' = 1..Len(calls')
  BY <1>1
<1> SUFFICES ASSUME NEW i \in 1..Len(calls') PROVE Sorted(calls'[i].list)
  BY <1>3
<1>4. CASE i <= Len(calls)
  BY <1>1, <1>2, <1>4
<1>5. CASE i = Len(calls) + 1
  BY <1>1, <1>5
<1> QED BY <1>1, <1>4, <1>5

-----------------------------------------------------------------------------
(* The invariant holds.                                                    *)

\* The module starts with empty queues.
LEMMA InitEvent == Init => EventInv
<1> SUFFICES ASSUME Init PROVE EventInv
  OBVIOUS
<1>1. \A k \in Keys : queue[k] = <<>>
  BY DEF Init, Keys
<1>2. TypeOK
  BY DEF Init, TypeOK
<1>3. \A k \in Keys : Len(queue[k]) = 0 /\ DOMAIN queue[k] = {}
  BY <1>1
<1>4. Known /\ Accounted
  BY <1>3 DEF Known, Accounted, Init
<1>5. Ordered
  BY <1>3 DEF Ordered, Sorted, Init, Keys
<1>6. MutexHeld
  BY DEF MutexHeld, Init
<1> QED BY <1>2, <1>4, <1>5, <1>6 DEF EventInv

\* A new entry is in one place, and leaves the others in theirs.
LEMMA InsertAccounted ==
  ASSUME EventInv, NEW k \in Keys, NEW e \in Entry, NEW r \in Seq(Entry), NEW i,
         InsertedAt(queue[k], e, r, i), e.id = allocated + 1, e.priority \in Priorities,
         queue' = [queue EXCEPT ![k] = r], allocated' = allocated + 1, freed' = freed
  PROVE  Accounted' /\ Known'
<1>1. queue \in [Keys -> Seq(Entry)] /\ allocated \in Nat /\ freed \subseteq 1..allocated
  BY DEF EventInv, TypeOK, Keys
<1>2. \A m \in Keys : queue'[m] = IF m = k THEN r ELSE queue[m]
  BY <1>1
<1>3. /\ Len(queue[k]) \in Nat /\ i \in 1..(Len(queue[k]) + 1) /\ Len(r) = Len(queue[k]) + 1
      /\ \A j \in 1..Len(r) : r[j] = IF j < i THEN queue[k][j] ELSE IF j = i THEN e ELSE queue[k][j - 1]
  BY <1>1 DEF InsertedAt
<1>4. \A m \in Keys : \A j \in 1..Len(queue[m]) :
        queue[m][j].id \in (1..allocated) \ freed /\ queue[m][j].id # allocated + 1
  BY <1>1 DEF EventInv, Accounted
<1>5. \A m \in Keys : Len(queue[m]) \in Nat
  BY <1>1
\* Where an entry was before.
<1> DEFINE Old(j) == IF j < i THEN j ELSE j - 1
<1>6. ASSUME NEW j \in 1..Len(r), j # i
      PROVE  Old(j) \in 1..Len(queue[k]) /\ r[j] = queue[k][Old(j)]
  BY <1>3, <1>6
<1>7. \A j, l \in 1..Len(r) : j # i /\ l # i /\ Old(j) = Old(l) => j = l
  BY <1>3
<1>8. Known'
  <2> SUFFICES ASSUME NEW m \in Keys, NEW j \in 1..Len(queue'[m])
               PROVE  queue'[m][j].priority \in Priorities
    BY DEF Known
  <2>1. CASE m # k
    BY <1>2, <2>1 DEF EventInv, Known
  <2>2. CASE m = k /\ j = i
    BY <1>2, <1>3, <2>2
  <2>3. CASE m = k /\ j # i
    BY <1>2, <1>6, <2>3 DEF EventInv, Known
  <2> QED BY <2>1, <2>2, <2>3
<1>9. ASSUME NEW m \in Keys, NEW j \in 1..Len(queue'[m])
      PROVE  queue'[m][j].id \in (1..(allocated + 1)) \ freed
  <2>1. CASE m # k
    BY <1>1, <1>2, <1>4, <2>1
  <2>2. CASE m = k /\ j = i
    BY <1>1, <1>2, <1>3, <2>2
  <2>3. CASE m = k /\ j # i
    BY <1>1, <1>2, <1>4, <1>6, <2>3
  <2> QED BY <2>1, <2>2, <2>3
<1>10. ASSUME NEW n \in (1..(allocated + 1)) \ freed
       PROVE  \E m \in Keys : \E j \in 1..Len(queue'[m]) : queue'[m][j].id = n
  <2>1. CASE n = allocated + 1
    <3>1. i \in 1..Len(r) /\ r[i] = e
      BY <1>3
    <3> QED BY <1>2, <2>1, <3>1
  <2>2. CASE n # allocated + 1
    <3>1. PICK m \in Keys : \E j \in 1..Len(queue[m]) : queue[m][j].id = n
      BY <1>1, <2>2 DEF EventInv, Accounted
    <3> PICK j \in 1..Len(queue[m]) : queue[m][j].id = n
      BY <3>1
    <3>2. CASE m # k
      BY <1>2, <3>2
    <3>3. CASE m = k
      <4> DEFINE l == IF j < i THEN j ELSE j + 1
      <4>1. l \in 1..Len(r) /\ r[l] = queue[k][j]
        BY <1>3, <3>3
      <4> QED BY <1>2, <3>3, <4>1
    <3> QED BY <3>2, <3>3
  <2> QED BY <2>1, <2>2
<1>11. ASSUME NEW m \in Keys, NEW x \in Keys, NEW j \in 1..Len(queue'[m]), NEW l \in 1..Len(queue'[x]),
              queue'[m][j].id = queue'[x][l].id
       PROVE  m = x /\ j = l
  <2> DEFINE isNew(y, n) == y = k /\ n = i
  <2>1. ASSUME NEW y \in Keys, NEW n \in 1..Len(queue'[y])
        PROVE  /\ isNew(y, n) => queue'[y][n].id = allocated + 1
               /\ ~isNew(y, n) => queue'[y][n].id # allocated + 1
    <3>1. CASE y # k
      BY <1>2, <1>4, <3>1
    <3>2. CASE y = k /\ n # i
      BY <1>2, <1>4, <1>6, <3>2
    <3>3. CASE y = k /\ n = i
      BY <1>2, <1>3, <3>3
    <3> QED BY <3>1, <3>2, <3>3
  <2>2. CASE isNew(m, j)
    BY <1>11, <2>1, <2>2
  <2>3. CASE ~isNew(m, j)
    <3>1. ~isNew(x, l)
      BY <1>11, <2>1, <2>3
    <3> DEFINE p == IF m = k THEN Old(j) ELSE j
               q == IF x = k THEN Old(l) ELSE l
    <3>2. p \in 1..Len(queue[m]) /\ queue'[m][j] = queue[m][p]
      BY <1>2, <1>6, <2>3
    <3>3. q \in 1..Len(queue[x]) /\ queue'[x][l] = queue[x][q]
      BY <1>2, <1>6, <3>1
    <3>4. m = x /\ p = q
      <4>1. queue[m][p].id = queue[x][q].id
        BY <1>11, <3>2, <3>3
      <4>2. \A o \in 1..Len(queue[m]), t \in 1..Len(queue[x]) :
              queue[m][o].id = queue[x][t].id => m = x /\ o = t
        BY DEF EventInv, Accounted
      <4> HIDE DEF p, q
      <4> QED BY <3>2, <3>3, <4>1, <4>2
    <3>5. CASE m # k
      BY <3>4, <3>5
    <3>6. CASE m = k
      <4>1. j \in 1..Len(r) /\ l \in 1..Len(r)
        BY <1>2, <3>4, <3>6
      <4> QED BY <1>7, <2>3, <3>1, <3>4, <3>6, <4>1
    <3> QED BY <3>5, <3>6
  <2> QED BY <2>2, <2>3
<1>12. Accounted'
  BY <1>9, <1>10, <1>11 DEF Accounted
<1> QED BY <1>8, <1>12

\* Without an entry the others stay where they are, and the entry is freed.
LEMMA RemoveAccounted ==
  ASSUME EventInv, NEW k \in Keys, NEW i \in 1..Len(queue[k]),
         queue' = [queue EXCEPT ![k] = RemoveAt(queue[k], i)], allocated' = allocated,
         freed' = freed \cup {queue[k][i].id}
  PROVE  /\ Accounted' /\ Known'
         /\ RemoveAt(queue[k], i) \in Seq(Entry) /\ Sorted(RemoveAt(queue[k], i))
<1>1. queue \in [Keys -> Seq(Entry)] /\ allocated \in Nat /\ freed \subseteq 1..allocated
  BY DEF EventInv, TypeOK, Keys
<1> DEFINE r == RemoveAt(queue[k], i)
<1>2. \A m \in Keys : queue'[m] = IF m = k THEN r ELSE queue[m]
  BY <1>1
<1>3. /\ Len(queue[k]) \in Nat /\ r \in Seq(Entry) /\ Len(r) = Len(queue[k]) - 1
      /\ \A j \in 1..Len(r) : r[j] = IF j < i THEN queue[k][j] ELSE queue[k][j + 1]
  <2>1. queue[k] \in Seq(Entry)
    BY <1>1
  <2>2. /\ r \in Seq(Entry) /\ Len(r) = Len(queue[k]) - 1
        /\ \A j \in 1..(Len(queue[k]) - 1) : r[j] = IF j < i THEN queue[k][j] ELSE queue[k][j + 1]
    BY <2>1, RemoveAtFacts
  <2> HIDE DEF r
  <2> QED BY <2>1, <2>2
<1> HIDE DEF r
<1> DEFINE Old(j) == IF j < i THEN j ELSE j + 1
<1>4. ASSUME NEW j \in 1..Len(r)
      PROVE  Old(j) \in 1..Len(queue[k]) /\ r[j] = queue[k][Old(j)] /\ Old(j) # i
  BY <1>3
<1>5. \A j, l \in 1..Len(r) : Old(j) = Old(l) => j = l
  BY <1>3
<1>6. \A j, l \in 1..Len(r) : j < l => Old(j) < Old(l)
  BY <1>3
<1> DEFINE Place(m, j) == IF m = k THEN Old(j) ELSE j
<1>7. ASSUME NEW m \in Keys, NEW j \in 1..Len(queue'[m])
      PROVE  /\ Place(m, j) \in 1..Len(queue[m]) /\ queue'[m][j] = queue[m][Place(m, j)]
             /\ queue'[m][j].id # queue[k][i].id
  <2>1. Place(m, j) \in 1..Len(queue[m]) /\ queue'[m][j] = queue[m][Place(m, j)]
        /\ (m = k => Place(m, j) # i)
    BY <1>2, <1>4
  <2> HIDE DEF Place
  <2> QED BY <2>1 DEF EventInv, Accounted
<1>8. Sorted(r)
  <2>1. \A j, l \in 1..Len(queue[k]) : j < l => queue[k][j].priority <= queue[k][l].priority
    BY <1>1 DEF EventInv, Ordered, Sorted, Keys
  <2>2. DOMAIN r = 1..Len(r)
    BY <1>3
  <2> HIDE DEF Old
  <2> QED BY <1>4, <1>6, <2>1, <2>2 DEF Sorted
<1>9. Known'
  BY <1>7 DEF EventInv, Known
<1>10. ASSUME NEW m \in Keys, NEW j \in 1..Len(queue'[m])
       PROVE  queue'[m][j].id \in (1..allocated) \ freed'
  BY <1>7 DEF EventInv, Accounted
<1>11. ASSUME NEW n \in (1..allocated) \ freed'
       PROVE  \E m \in Keys : \E j \in 1..Len(queue'[m]) : queue'[m][j].id = n
  <2>1. PICK m \in Keys : \E j \in 1..Len(queue[m]) : queue[m][j].id = n
    BY DEF EventInv, Accounted
  <2> PICK j \in 1..Len(queue[m]) : queue[m][j].id = n
    BY <2>1
  <2>2. CASE m # k
    BY <1>2, <2>2
  <2>3. CASE m = k
    <3>1. j # i
      BY <2>3
    <3> DEFINE l == IF j < i THEN j ELSE j - 1
    <3>2. l \in 1..Len(r) /\ Old(l) = j
      BY <1>3, <2>3, <3>1
    <3> HIDE DEF l, Old
    <3>3. r[l] = queue[k][j]
      BY <1>4, <3>2
    <3>4. r[l].id = n /\ queue'[k] = r
      BY <1>2, <2>3, <3>3
    <3> QED BY <2>3, <3>2, <3>4
  <2> QED BY <2>2, <2>3
<1>12. ASSUME NEW m \in Keys, NEW x \in Keys, NEW j \in 1..Len(queue'[m]), NEW l \in 1..Len(queue'[x]),
              queue'[m][j].id = queue'[x][l].id
       PROVE  m = x /\ j = l
  <2>1. m = x /\ Place(m, j) = Place(x, l)
    <3>1. Place(m, j) \in 1..Len(queue[m]) /\ queue'[m][j] = queue[m][Place(m, j)]
      BY <1>7
    <3>2. Place(x, l) \in 1..Len(queue[x]) /\ queue'[x][l] = queue[x][Place(x, l)]
      BY <1>7
    <3> HIDE DEF Place
    <3>3. queue[m][Place(m, j)].id = queue[x][Place(x, l)].id
      BY <1>12, <3>1, <3>2
    <3> QED BY <3>1, <3>2, <3>3 DEF EventInv, Accounted
  <2> QED BY <1>2, <1>5, <2>1
<1>13. Accounted'
  BY <1>10, <1>11, <1>12 DEF Accounted
<1> QED BY <1>3, <1>8, <1>9, <1>13 DEF r

\* attachEventListener keeps the invariant.
LEMMA AttachInv ==
  ASSUME DifferencesFit, EventInv, NEW t \in Threads, NEW s \in Subjects, NEW e \in Events,
         NEW priority \in Priorities, NEW l \in Listeners,
         AttachEventListener(t, s, e, priority, l)
  PROVE  EventInv'
<1> DEFINE entry == [id |-> allocated + 1, listener |-> l, priority |-> priority]
           k == <<s, e>>
           r == Insert(queue[k], entry)
           queues == [queue EXCEPT ![k] = r]
<1>1. /\ MayCall(t) /\ allocated' = allocated + 1 /\ freed' = freed
      /\ queue' = queues /\ Trigger(t, s, Attached, queues)
  BY DEF AttachEventListener
<1>2. /\ queue \in [Keys -> Seq(Entry)] /\ allocated \in Nat /\ freed \subseteq 1..allocated
      /\ k \in Keys
  BY DEF EventInv, TypeOK, Keys
<1>3. entry \in Entry /\ entry.id = allocated + 1 /\ entry.priority = priority
  BY <1>2, Bounds DEF Entry
<1>4. PICK i \in 1..(Len(queue[k]) + 1) : InsertedAt(queue[k], entry, r, i)
  BY <1>2, <1>3, InsertPlace
<1> HIDE DEF entry
<1>5. r \in Seq(Entry)
  BY <1>4 DEF InsertedAt
<1>6. Sorted(r)
  <2>1. \A j \in 1..Len(queue[k]) : queue[k][j].priority \in Priorities
    BY <1>2 DEF EventInv, Known
  <2>2. Sorted(queue[k])
    BY <1>2 DEF EventInv, Ordered, Keys
  <2> QED BY <1>2, <1>3, <2>1, <2>2, InsertKeepsOrder
<1> HIDE DEF r
<1>7. Accounted' /\ Known'
  BY <1>1, <1>2, <1>3, <1>4, <1>5, InsertAccounted
<1>8. \A m \in Keys : queue'[m] = (IF m = k THEN r ELSE queue[m])
                      /\ queue'[m] \in Seq(Entry) /\ Sorted(queue'[m])
  <2>1. \A m \in Keys : Sorted(queue[m])
    BY DEF EventInv, Ordered, Keys
  <2> QED BY <1>1, <1>2, <1>5, <1>6, <2>1
<1>9. Attached \in Events /\ queues[<<s, Attached>>] \in Seq(Entry) /\ Sorted(queues[<<s, Attached>>])
  <2>1. Attached \in Events
    BY EventAssumption
  <2>2. <<s, Attached>> \in Keys
    BY <2>1 DEF Keys
  <2> QED BY <1>1, <1>8, <2>1, <2>2
<1> HIDE DEF queues
<1>10. owner' \in Threads \cup {NoThread} /\ calls' \in Seq(TriggerCall) /\ triggers' \in Nat /\ MutexHeld'
  BY <1>1, <1>9, TriggerFacts DEF EventInv
<1>11. \A j \in DOMAIN calls' : Sorted(calls'[j].list)
  BY <1>1, <1>9, TriggerKeepsOrder DEF EventInv
<1>12. queue' \in [Keys -> Seq(Entry)]
  BY <1>1, <1>2, <1>5 DEF queues
<1>13. TypeOK'
  BY <1>1, <1>2, <1>10, <1>12 DEF TypeOK, Keys
<1>14. Ordered'
  BY <1>8, <1>11 DEF Ordered, Keys
<1> QED BY <1>7, <1>10, <1>13, <1>14 DEF EventInv

\* detachEventListener keeps the invariant.
LEMMA DetachInv ==
  ASSUME EventInv, NEW t \in Threads, NEW s \in Subjects, NEW e \in Events, NEW l \in Listeners,
         DetachEventListener(t, s, e, l)
  PROVE  EventInv'
<1> DEFINE k == <<s, e>>
           matches == {i \in DOMAIN queue[k] : queue[k][i].listener = l}
           i == CHOOSE n \in matches : \A x \in matches : n <= x
           queues == [queue EXCEPT ![k] = RemoveAt(queue[k], i)]
<1>1. /\ MayCall(t) /\ allocated' = allocated /\ freed' = freed \cup {queue[k][i].id}
      /\ queue' = queues /\ Trigger(t, s, Detached, queues) /\ matches # {}
  BY DEF DetachEventListener
<1>2. /\ queue \in [Keys -> Seq(Entry)] /\ allocated \in Nat /\ freed \subseteq 1..allocated
      /\ k \in Keys
  BY DEF EventInv, TypeOK, Keys
<1>3. i \in 1..Len(queue[k])
  <2>1. matches \subseteq Nat /\ matches \subseteq 1..Len(queue[k])
    <3>1. queue[k] \in Seq(Entry)
      BY <1>2
    <3>2. Len(queue[k]) \in Nat /\ DOMAIN queue[k] = 1..Len(queue[k])
      BY <3>1, LenProperties
    <3> QED BY <3>2
  <2> HIDE DEF matches
  <2>2. \E n \in matches : \A x \in matches : n <= x
    BY <1>1, <2>1, LeastOf
  <2>3. i \in matches
    BY <2>2
  <2> QED BY <2>1, <2>3
<1> HIDE DEF i
<1>4. Accounted' /\ Known' /\ RemoveAt(queue[k], i) \in Seq(Entry) /\ Sorted(RemoveAt(queue[k], i))
  BY <1>1, <1>2, <1>3, RemoveAccounted
<1>5. queue[k][i].id \in 1..allocated
  BY <1>2, <1>3 DEF EventInv, Accounted
<1>6. /\ queues \in [Keys -> Seq(Entry)]
      /\ \A m \in Keys : queues[m] \in Seq(Entry) /\ Sorted(queues[m])
  <2>1. \A m \in Keys : Sorted(queue[m])
    BY DEF EventInv, Ordered, Keys
  <2> QED BY <1>2, <1>4, <2>1
<1>7. Detached \in Events /\ queues[<<s, Detached>>] \in Seq(Entry) /\ Sorted(queues[<<s, Detached>>])
  BY <1>6, EventAssumption DEF Keys
<1> HIDE DEF queues
<1>8. owner' \in Threads \cup {NoThread} /\ calls' \in Seq(TriggerCall) /\ triggers' \in Nat /\ MutexHeld'
  BY <1>1, <1>7, TriggerFacts DEF EventInv
<1>9. \A j \in DOMAIN calls' : Sorted(calls'[j].list)
  BY <1>1, <1>7, TriggerKeepsOrder DEF EventInv
<1>10. TypeOK'
  BY <1>1, <1>2, <1>5, <1>6, <1>8 DEF TypeOK, Keys
<1>11. Ordered'
  BY <1>1, <1>6, <1>9 DEF Ordered, Keys
<1> QED BY <1>4, <1>8, <1>10, <1>11 DEF EventInv

\* triggerEvent keeps the invariant.
LEMMA TriggerInv ==
  ASSUME EventInv, NEW t \in Threads, NEW s \in Subjects, NEW e \in Events, TriggerEvent(t, s, e)
  PROVE  EventInv'
<1>1. MayCall(t) /\ Trigger(t, s, e, queue) /\ UNCHANGED <<queue, allocated, freed>>
  BY DEF TriggerEvent
<1>2. queue[<<s, e>>] \in Seq(Entry) /\ Sorted(queue[<<s, e>>])
  BY DEF EventInv, TypeOK, Ordered
<1>3. owner' \in Threads \cup {NoThread} /\ calls' \in Seq(TriggerCall) /\ triggers' \in Nat /\ MutexHeld'
  BY <1>1, <1>2, TriggerFacts DEF EventInv
<1>4. \A j \in DOMAIN calls' : Sorted(calls'[j].list)
  BY <1>1, <1>2, TriggerKeepsOrder DEF EventInv
<1>5. TypeOK'
  BY <1>1, <1>3 DEF EventInv, TypeOK
<1>6. Ordered'
  BY <1>1, <1>4 DEF EventInv, Ordered
<1>7. Known' /\ Accounted'
  BY <1>1 DEF EventInv, Known, Accounted
<1> QED BY <1>3, <1>5, <1>6, <1>7 DEF EventInv

\* The thread that has the mutex has a call under way.
LEMMA InnermostCall ==
  ASSUME TypeOK, MutexHeld, NEW t \in Threads, owner = t
  PROVE  /\ calls \in Seq(TriggerCall) /\ calls # <<>> /\ Len(calls) \in Nat \ {0}
         /\ DOMAIN calls = 1..Len(calls) /\ Last(calls) = calls[Len(calls)] /\ Last(calls) \in TriggerCall
<1>1. calls \in Seq(TriggerCall) /\ calls # <<>>
  BY EventAssumption DEF TypeOK, MutexHeld
<1> QED BY <1>1, FrontFacts

\* A step of the loop of triggerEvent changes the innermost call only.
LEMMA LoopInv ==
  ASSUME EventInv, NEW t \in Threads, Notify(t) \/ ListenerReturns(t)
  PROVE  EventInv' /\ Len(calls') = Len(calls)
         /\ \A i \in 1..Len(calls) : /\ calls'[i].list = calls[i].list
                                     /\ calls'[i].counter \in {calls[i].counter, calls[i].counter + 1}
<1>1. /\ calls \in Seq(TriggerCall) /\ Len(calls) \in Nat \ {0}
      /\ DOMAIN calls = 1..Len(calls) /\ Last(calls) = calls[Len(calls)] /\ Last(calls) \in TriggerCall
  BY InnermostCall DEF EventInv, Notify, ListenerReturns
<1>2. UNCHANGED <<queue, allocated, freed, owner, triggers>>
  BY DEF Notify, ListenerReturns
<1>3. PICK c \in TriggerCall : /\ calls' = [calls EXCEPT ![Len(calls)] = c]
                        /\ c.list = Last(calls).list
                        /\ c.counter \in {Last(calls).counter, Last(calls).counter + 1}
  <2>1. CASE Notify(t)
    <3> DEFINE d == [Last(calls) EXCEPT !.counter = @ + 1, !.running = TRUE]
    <3>1. calls' = [calls EXCEPT ![Len(calls)] = d]
      BY <1>1, <2>1 DEF Notify
    <3>2. d \in TriggerCall /\ d.list = Last(calls).list /\ d.counter = Last(calls).counter + 1
      <4>1. Last(calls).counter \in Nat /\ Last(calls).counter + 1 \in Nat
        BY <1>1 DEF TriggerCall
      <4>2. \A x \in TriggerCall : \A m \in Nat :
              /\ [x EXCEPT !.counter = m, !.running = TRUE] \in TriggerCall
              /\ [x EXCEPT !.counter = m, !.running = TRUE].list = x.list
              /\ [x EXCEPT !.counter = m, !.running = TRUE].counter = m
        BY DEF TriggerCall
      <4> QED BY <1>1, <4>1, <4>2
    <3> QED BY <3>1, <3>2
  <2>2. CASE ListenerReturns(t)
    <3> DEFINE d == [Last(calls) EXCEPT !.running = FALSE]
    <3>1. calls' = [calls EXCEPT ![Len(calls)] = d]
      BY <1>1, <2>2 DEF ListenerReturns
    <3>2. d \in TriggerCall /\ d.list = Last(calls).list /\ d.counter = Last(calls).counter
      BY <1>1 DEF TriggerCall
    <3> QED BY <3>1, <3>2
  <2> QED BY <2>1, <2>2
<1>4. /\ calls' \in Seq(TriggerCall) /\ Len(calls') = Len(calls)
      /\ \A i \in 1..Len(calls) : calls'[i] = IF i = Len(calls) THEN c ELSE calls[i]
  BY <1>1, <1>3, ExceptSeq
<1>5. \A i \in 1..Len(calls) : calls'[i].list = calls[i].list
  BY <1>1, <1>3, <1>4
<1>6. TypeOK'
  BY <1>2, <1>4 DEF EventInv, TypeOK
<1>7. Ordered'
  <2>1. DOMAIN calls' = 1..Len(calls')
    BY <1>4
  <2> QED BY <1>1, <1>2, <1>4, <1>5, <2>1 DEF EventInv, Ordered
<1>8. MutexHeld'
  <2>1. calls # <<>> /\ calls' # <<>>
    BY <1>1, <1>4, EmptySeq
  <2>2. ASSUME NEW i \in 1..Len(calls'), i < Len(calls') PROVE calls'[i].running
    <3>1. i \in 1..Len(calls) /\ i < Len(calls) /\ i # Len(calls)
      <4>1. Len(calls) \in Nat /\ Len(calls') = Len(calls)
        BY <1>1, <1>4
      <4> QED BY <4>1, <2>2
    <3>2. calls'[i] = calls[i]
      BY <1>4, <3>1
    <3> QED BY <1>1, <3>1, <3>2 DEF EventInv, MutexHeld
  <2>3. DOMAIN calls' = 1..Len(calls')
    BY <1>4
  <2> QED BY <1>2, <2>1, <2>2, <2>3 DEF EventInv, MutexHeld
<1>9. Known' /\ Accounted'
  BY <1>2 DEF EventInv, Known, Accounted
<1> QED BY <1>1, <1>3, <1>4, <1>5, <1>6, <1>7, <1>8, <1>9 DEF EventInv

\* The end of a call gives the mutex back if it is the outermost.
LEMMA ReturnInv ==
  ASSUME EventInv, NEW t \in Threads, TriggerReturns(t)
  PROVE  EventInv' /\ calls' \in Seq(TriggerCall) /\ Len(calls') = Len(calls) - 1
         /\ \A i \in 1..Len(calls') : calls'[i] = calls[i]
<1>1. /\ calls \in Seq(TriggerCall) /\ calls # <<>> /\ Len(calls) \in Nat \ {0} /\ DOMAIN calls = 1..Len(calls)
  BY InnermostCall DEF EventInv, TriggerReturns
<1>2. /\ UNCHANGED <<queue, allocated, freed, triggers>> /\ calls' = Front(calls)
      /\ owner' = IF Len(calls) = 1 THEN NoThread ELSE owner
      /\ owner = t
  BY DEF TriggerReturns
<1>3. calls' \in Seq(TriggerCall) /\ Len(calls') = Len(calls) - 1 /\ \A i \in 1..(Len(calls) - 1) : calls'[i] = calls[i]
  BY <1>1, <1>2, FrontFacts
<1>4. DOMAIN calls' = 1..Len(calls')
  BY <1>3
<1>5. TypeOK'
  BY <1>2, <1>3 DEF EventInv, TypeOK
<1>6. Ordered'
  BY <1>1, <1>2, <1>3, <1>4 DEF EventInv, Ordered
<1>7. MutexHeld'
  <2>1. calls' = <<>> <=> Len(calls) = 1
    BY <1>1, <1>3, EmptySeq
  <2>2. owner' = NoThread <=> Len(calls) = 1
    BY <1>2, EventAssumption
  <2>3. \A i \in 1..(Len(calls) - 1) : calls'[i].running
    BY <1>1, <1>3 DEF EventInv, MutexHeld
  <2> QED BY <1>1, <1>3, <1>4, <2>1, <2>2, <2>3 DEF MutexHeld
<1>8. Known' /\ Accounted'
  BY <1>2 DEF EventInv, Known, Accounted
<1> QED BY <1>3, <1>5, <1>6, <1>7, <1>8 DEF EventInv

\* The finalizer frees every entry there is.
LEMMA FinalizeInv ==
  ASSUME EventInv, Finalize
  PROVE  EventInv'
<1>1. /\ owner = NoThread /\ queue' = [q \in Subjects \X Events |-> <<>>]
      /\ freed' = freed \cup UNION {{queue[q][i].id : i \in DOMAIN queue[q]} : q \in Subjects \X Events}
      /\ UNCHANGED <<allocated, owner, calls, triggers>>
  BY DEF Finalize
<1>2. queue \in [Keys -> Seq(Entry)] /\ allocated \in Nat /\ freed \subseteq 1..allocated
  BY DEF EventInv, TypeOK, Keys
<1>3. freed' = 1..allocated
  <2>1. \A q \in Keys : DOMAIN queue[q] = 1..Len(queue[q])
    BY <1>2
  <2>2. \A n \in freed' : n \in 1..allocated
    <3>1. \A q \in Keys : \A i \in DOMAIN queue[q] : queue[q][i].id \in 1..allocated
      BY <2>1 DEF EventInv, Accounted
    <3> QED BY <1>1, <1>2, <3>1 DEF Keys
  <2>3. ASSUME NEW n \in (1..allocated) \ freed PROVE n \in freed'
    <3>1. PICK k \in Keys : \E i \in 1..Len(queue[k]) : queue[k][i].id = n
      BY DEF EventInv, Accounted
    <3> QED BY <1>1, <2>1, <3>1 DEF Keys
  <2>4. freed \subseteq freed'
    BY <1>1
  <2> QED BY <1>2, <2>2, <2>3, <2>4
<1>4. \A k \in Keys : queue'[k] = <<>> /\ Len(queue'[k]) = 0 /\ DOMAIN queue'[k] = {}
  BY <1>1 DEF Keys
<1>5. TypeOK'
  BY <1>1, <1>2, <1>3 DEF EventInv, TypeOK
<1>6. Ordered'
  BY <1>1, <1>4 DEF EventInv, Ordered, Sorted, Keys
<1>7. Known' /\ Accounted'
  BY <1>1, <1>3, <1>4 DEF Known, Accounted
<1>8. MutexHeld'
  BY <1>1 DEF EventInv, MutexHeld
<1> QED BY <1>5, <1>6, <1>7, <1>8 DEF EventInv

\* Every step keeps the invariant.
LEMMA EventNext == DifferencesFit /\ EventInv /\ [Next]_vars => EventInv'
<1> SUFFICES ASSUME DifferencesFit, EventInv, [Next]_vars PROVE EventInv'
  OBVIOUS
<1>1. CASE Finalize
  BY <1>1, FinalizeInv
<1>2. ASSUME NEW t \in Threads, NEW s \in Subjects, NEW e \in Events,
             \/ \E l \in Listeners :
                  \/ \E priority \in Priorities : AttachEventListener(t, s, e, priority, l)
                  \/ DetachEventListener(t, s, e, l)
             \/ TriggerEvent(t, s, e)
      PROVE  EventInv'
  BY <1>2, AttachInv, DetachInv, TriggerInv
<1>3. ASSUME NEW t \in Threads, TriggerStep(t) PROVE EventInv'
  BY <1>3, LoopInv, ReturnInv DEF TriggerStep
<1>4. CASE UNCHANGED vars
  <2>1. TypeOK' /\ Ordered'
    BY <1>4 DEF vars, EventInv, TypeOK, Ordered
  <2>2. Known' /\ Accounted' /\ MutexHeld'
    BY <1>4 DEF vars, EventInv, Known, Accounted, MutexHeld
  <2> QED BY <2>1, <2>2 DEF EventInv
<1> QED BY <1>1, <1>2, <1>3, <1>4 DEF Next

\* The queues and the copies that triggerEvent walks over stay in the order of the
\* priorities, every entry is in one place or freed, and the mutex is held exactly as
\* long as a call is under way, for any number of threads, listeners and nested calls,
\* as long as no difference of two priorities overflows (compareEventListeners).
THEOREM EventQueuesSound == DifferencesFit /\ Spec => []QueuesSound
<1>1. ASSUME DifferencesFit PROVE Spec => []QueuesSound
  <2>1. EventInv /\ [Next]_vars => EventInv'
    BY <1>1, EventNext
  <2> QED BY <2>1, InitEvent, EventInvImplies, PTL DEF Spec
<1> QED BY <1>1

-----------------------------------------------------------------------------
(* Listeners that are detached.                                            *)

\* What is still to be called has not been freed.
PendingKept ==
  \A i \in 1..Len(calls) : \A j \in 1..Len(calls[i].list) :
    calls[i].counter < j => calls[i].list[j].id \in (1..allocated) \ freed

\* Entries that are attached or detached leave the ones still to be called alone.
LEMMA PendingTrigger ==
  ASSUME EventInv, PendingKept, Accounted', NEW t \in Threads, MayCall(t),
         NEW s \in Subjects, NEW e \in Events, NEW queues, queues = queue',
         queues[<<s, e>>] \in Seq(Entry), Trigger(t, s, e, queues),
         \A n \in Pending : n \in (1..allocated') \ freed'
  PROVE  PendingKept'
<1>1. /\ Len(calls) \in Nat /\ Len(calls') \in {Len(calls), Len(calls) + 1}
      /\ \A i \in 1..Len(calls) : calls'[i] = calls[i]
      /\ \A i \in 1..Len(calls') :
           i = Len(calls) + 1 => calls'[i].list = queues[<<s, e>>] /\ calls'[i].counter = 0
  BY TriggerFacts DEF EventInv
<1> SUFFICES ASSUME NEW i \in 1..Len(calls'), NEW j \in 1..Len(calls'[i].list), calls'[i].counter < j
             PROVE  calls'[i].list[j].id \in (1..allocated') \ freed'
  BY DEF PendingKept
<1>2. CASE i <= Len(calls)
  <2>1. calls'[i] = calls[i] /\ i \in 1..Len(calls)
    BY <1>1, <1>2
  <2>2. calls[i] \in TriggerCall /\ DOMAIN calls = 1..Len(calls)
    BY <2>1 DEF EventInv, TypeOK
  <2>3. calls[i].counter \in Nat /\ Len(calls[i].list) \in Nat
    BY <2>2 DEF TriggerCall
  <2>4. j \in (calls[i].counter + 1)..Len(calls[i].list)
    BY <2>1, <2>3
  <2>5. calls[i].list[j].id \in Pending
    BY <2>1, <2>2, <2>4 DEF Pending
  <2> QED BY <2>1, <2>5
<1>3. CASE i = Len(calls) + 1
  BY <1>1, <1>3 DEF Accounted, Keys
<1> QED BY <1>1, <1>2, <1>3

\* A step leaves what is still to be called alone.
LEMMA PendingNext ==
  ASSUME ~DetachPending, EventInv, EventInv', PendingKept, [Next]_vars
  PROVE  PendingKept'
<1>1. \A n \in Pending : n \in (1..allocated) \ freed
  <2> SUFFICES ASSUME NEW i \in DOMAIN calls,
                      NEW j \in (calls[i].counter + 1)..Len(calls[i].list)
               PROVE  calls[i].list[j].id \in (1..allocated) \ freed
    BY DEF Pending
  <2>1. i \in 1..Len(calls) /\ calls[i] \in TriggerCall
    BY DEF EventInv, TypeOK
  <2>2. calls[i].counter \in Nat /\ Len(calls[i].list) \in Nat
    BY <2>1 DEF TriggerCall
  <2>3. j \in 1..Len(calls[i].list) /\ calls[i].counter < j
    BY <2>2
  <2> QED BY <2>1, <2>3 DEF PendingKept
<1>2. queue' \in [Keys -> Seq(Entry)] /\ allocated \in Nat
  BY DEF EventInv, TypeOK, Keys
<1>3. CASE Finalize
  <2>1. calls = <<>> /\ calls' = calls
    BY <1>3 DEF Finalize, EventInv, MutexHeld
  <2>2. Len(calls') = 0
    BY <2>1
  <2> QED BY <2>2 DEF PendingKept
<1>4. ASSUME NEW t \in Threads, NEW s \in Subjects, NEW e \in Events, NEW l \in Listeners,
             NEW priority \in Priorities, AttachEventListener(t, s, e, priority, l)
      PROVE  PendingKept'
  <2>1. MayCall(t) /\ Trigger(t, s, Attached, queue') /\ freed' = freed /\ allocated' = allocated + 1
    BY <1>4 DEF AttachEventListener
  <2>2. \A n \in Pending : n \in (1..allocated') \ freed'
    BY <1>1, <1>2, <2>1
  <2>3. Attached \in Events /\ queue'[<<s, Attached>>] \in Seq(Entry)
    BY <1>2, EventAssumption DEF Keys
  <2> QED BY <2>1, <2>2, <2>3, PendingTrigger DEF EventInv
<1>5. ASSUME NEW t \in Threads, NEW s \in Subjects, NEW e \in Events, NEW l \in Listeners,
             DetachEventListener(t, s, e, l)
      PROVE  PendingKept'
  <2> DEFINE matches == {i \in DOMAIN queue[<<s, e>>] : queue[<<s, e>>][i].listener = l}
             i == CHOOSE n \in matches : \A x \in matches : n <= x
             id == queue[<<s, e>>][i].id
  <2>1. /\ MayCall(t) /\ Trigger(t, s, Detached, queue') /\ freed' = freed \cup {id}
        /\ allocated' = allocated /\ id \notin Pending
    BY <1>5 DEF DetachEventListener
  <2> HIDE DEF id
  <2>2. \A n \in Pending : n \in (1..allocated') \ freed'
    BY <1>1, <2>1
  <2>3. Detached \in Events /\ queue'[<<s, Detached>>] \in Seq(Entry)
    BY <1>2, EventAssumption DEF Keys
  <2> QED BY <2>1, <2>2, <2>3, PendingTrigger DEF EventInv
<1>6. ASSUME NEW t \in Threads, NEW s \in Subjects, NEW e \in Events, TriggerEvent(t, s, e)
      PROVE  PendingKept'
  <2>1. MayCall(t) /\ Trigger(t, s, e, queue') /\ freed' = freed /\ allocated' = allocated
    BY <1>6 DEF TriggerEvent
  <2>2. queue'[<<s, e>>] \in Seq(Entry)
    BY <1>2 DEF Keys
  <2> QED BY <1>1, <2>1, <2>2, PendingTrigger DEF EventInv
<1>7. ASSUME NEW t \in Threads, Notify(t) \/ ListenerReturns(t)
      PROVE  PendingKept'
  <2>1. /\ Len(calls') = Len(calls) /\ UNCHANGED <<queue, allocated, freed>>
        /\ \A i \in 1..Len(calls) : /\ calls'[i].list = calls[i].list
                                    /\ calls'[i].counter \in {calls[i].counter, calls[i].counter + 1}
    BY <1>7, LoopInv DEF Notify, ListenerReturns
  <2>2. \A i \in 1..Len(calls) : calls[i].counter \in Nat
    <3>1. \A i \in 1..Len(calls) : calls[i] \in TriggerCall
      BY DEF EventInv, TypeOK
    <3> QED BY <3>1 DEF TriggerCall
  <2> SUFFICES ASSUME NEW i \in 1..Len(calls), NEW j \in 1..Len(calls[i].list), calls'[i].counter < j
               PROVE  calls[i].list[j].id \in (1..allocated) \ freed
    BY <2>1 DEF PendingKept
  <2>3. calls[i].counter < j
    BY <2>1, <2>2
  <2> QED BY <2>3 DEF PendingKept
<1>8. ASSUME NEW t \in Threads, TriggerReturns(t)
      PROVE  PendingKept'
  <2>1. /\ UNCHANGED <<queue, allocated, freed>> /\ Len(calls') = Len(calls) - 1
        /\ \A i \in 1..Len(calls') : calls'[i] = calls[i]
    BY <1>8, ReturnInv DEF TriggerReturns
  <2>2. Len(calls) \in Nat /\ \A i \in 1..Len(calls') : i \in 1..Len(calls)
    BY <2>1 DEF EventInv, TypeOK
  <2> QED BY <2>1, <2>2 DEF PendingKept
<1>9. CASE UNCHANGED vars
  BY <1>9 DEF vars, PendingKept
<1> QED BY <1>3, <1>4, <1>5, <1>6, <1>7, <1>8, <1>9 DEF Next, TriggerStep

\* triggerEvent calls no entry that has been freed, as long as no listener is detached
\* that a call under way has still to call: the copy of the list that it makes is as good
\* as the list in every other respect.  (Without that condition a run finds the
\* property violated.)
THEOREM NoFreedEntryIsCalled == DifferencesFit /\ ~DetachPending /\ Spec => []NoFreedEntryCalled
<1>1. ASSUME DifferencesFit, ~DetachPending PROVE Spec => []NoFreedEntryCalled
  <2>1. Init => EventInv /\ PendingKept
    <3>1. Init => Len(calls) = 0
      BY DEF Init
    <3> QED BY <3>1, InitEvent DEF PendingKept
  <2>2. EventInv /\ PendingKept /\ [Next]_vars => (EventInv /\ PendingKept)'
    BY <1>1, EventNext, PendingNext
  <2>3. EventInv /\ PendingKept => NoFreedEntryCalled
    <3> SUFFICES ASSUME EventInv, PendingKept, NEW i \in DOMAIN calls,
                        calls[i].counter < Len(calls[i].list)
                 PROVE  calls[i].list[calls[i].counter + 1].id \notin freed
      BY DEF NoFreedEntryCalled
    <3>1. i \in 1..Len(calls) /\ calls[i] \in TriggerCall
      BY DEF EventInv, TypeOK
    <3>2. calls[i].counter \in Nat /\ Len(calls[i].list) \in Nat
      BY <3>1 DEF TriggerCall
    <3>3. calls[i].counter + 1 \in 1..Len(calls[i].list) /\ calls[i].counter < calls[i].counter + 1
      BY <3>2
    <3> QED BY <3>1, <3>3 DEF PendingKept
  <2> QED BY <2>1, <2>2, <2>3, PTL DEF Spec
<1> QED BY <1>1

-----------------------------------------------------------------------------
(* The stack of XCalls.                                                    *)

\* Code that can be on the stack: all but that of xcall_exec, which calls nobody.
CodeOnStack == {"xcall", "xcall_core", "lua", "lang_javascript"}

\* A frame, and the module whose code waits in it.
FrameOK(f, mods) ==
  /\ "kind" \in DOMAIN f
  /\ f.kind = "script" => /\ "lang" \in DOMAIN f /\ f.lang \in {"lua", "js"}
                          /\ Library[f.lang] \in mods
  /\ f.kind = "answer" => "library" \in DOMAIN f /\ f.library \in CodeOnStack \cap mods
  /\ f.kind \in {"log", "listener", "attach"} => "xcall_core" \in mods

\* Two frames of one call, before and after something was told to it.
Alike(f, g) ==
  DOMAIN f = DOMAIN g /\ \A k \in DOMAIN f \cap {"kind", "lang", "library"} : f[k] = g[k]

Attaches(s) == {i \in 1..Len(s) : s[i].kind = "attach"}
Listener(s) == \E i \in 1..Len(s) : s[i].kind = "listener"

\* Nothing is given to the log while a listener is waiting, and `waiting' listeners
\* are attached and not counted yet.
StackOK(s, mods, busy, waiting) ==
  /\ \E T : s \in Seq(T)
  /\ \A i \in 1..Len(s) : FrameOK(s[i], mods)
  /\ \A i, j \in 1..Len(s) :
       s[i].kind = "listener" /\ i < j => s[j].kind \notin {"log", "listener"}
  /\ busy <=> Listener(s)
  /\ waiting = Cardinality(Attaches(s))

LEMMA AlikeFrames ==
  ASSUME NEW f, NEW g, NEW mods, FrameOK(f, mods), Alike(f, g)
  PROVE  FrameOK(g, mods) /\ g.kind = f.kind
BY DEF FrameOK, Alike

LEMMA Told ==
  ASSUME NEW f
  PROVE  /\ \A v : Alike(f, [f EXCEPT !.got = v]) /\ Alike(f, [f EXCEPT !.rest = v])
         /\ \A v : Alike(f, [f EXCEPT !.freed = v])
         /\ \A v, w : Alike(f, [f EXCEPT !.asked = v, !.got = w])
BY DEF Alike

LEMMA AttachesCount ==
  ASSUME NEW T, NEW s \in Seq(T)
  PROVE  IsFiniteSet(Attaches(s)) /\ Cardinality(Attaches(s)) \in Nat
<1>1. IsFiniteSet(1..Len(s)) /\ Attaches(s) \subseteq 1..Len(s)
  BY FS_Interval DEF Attaches
<1> QED BY <1>1, FS_Subset, FS_CardinalityType

LEMMA AlikeStacks ==
  ASSUME NEW s, NEW t, NEW mods, NEW busy, NEW n, StackOK(s, mods, busy, n),
         \E T : t \in Seq(T), Len(t) = Len(s),
         \A i \in 1..Len(s) : Alike(s[i], t[i])
  PROVE  StackOK(t, mods, busy, n)
<1>1. \A i \in 1..Len(s) : FrameOK(t[i], mods) /\ t[i].kind = s[i].kind
  BY AlikeFrames DEF StackOK
<1>2. Attaches(t) = Attaches(s) /\ (Listener(t) <=> Listener(s))
  BY <1>1 DEF Attaches, Listener
<1> QED BY <1>1, <1>2 DEF StackOK

LEMMA Push ==
  ASSUME NEW s, NEW mods, NEW busy, NEW n, StackOK(s, mods, busy, n),
         NEW f, FrameOK(f, mods),
         f.kind \in {"log", "listener"} => ~ busy
  PROVE  StackOK(Append(s, f), mods, busy \/ f.kind = "listener",
                 IF f.kind = "attach" THEN n + 1 ELSE n)
<1> DEFINE a == Append(s, f)
<1>1. PICK T : s \in Seq(T)
  BY DEF StackOK
<1>2. /\ a \in Seq(T \cup {f}) /\ Len(s) \in Nat /\ Len(a) = Len(s) + 1 /\ a[Len(s) + 1] = f
      /\ \A i \in 1..Len(s) : a[i] = s[i]
  BY <1>1
<1> HIDE DEF a
<1>3. \A i \in 1..Len(a) : i \in 1..Len(s) \/ i = Len(s) + 1
  BY <1>2
<1>4. \A i \in 1..Len(a) : FrameOK(a[i], mods)
  BY <1>2, <1>3 DEF StackOK
<1>5. Listener(a) <=> Listener(s) \/ f.kind = "listener"
  BY <1>2, <1>3 DEF Listener
<1>6. \A i, j \in 1..Len(a) :
        a[i].kind = "listener" /\ i < j => a[j].kind \notin {"log", "listener"}
  <2> SUFFICES ASSUME NEW i \in 1..Len(a), NEW j \in 1..Len(a), a[i].kind = "listener", i < j
               PROVE  a[j].kind \notin {"log", "listener"}
    OBVIOUS
  <2>1. i \in 1..Len(s) /\ s[i].kind = "listener"
    BY <1>2, <1>3
  <2>2. CASE j \in 1..Len(s)
    BY <1>2, <2>1, <2>2 DEF StackOK
  <2>3. CASE j = Len(s) + 1
    BY <1>2, <2>1, <2>3 DEF StackOK, Listener
  <2> QED BY <1>3, <2>2, <2>3
<1>7. IsFiniteSet(Attaches(s)) /\ Len(s) + 1 \notin Attaches(s)
      /\ n = Cardinality(Attaches(s)) /\ n \in Nat
  BY <1>1, <1>2, AttachesCount DEF StackOK, Attaches
<1>8. CASE f.kind = "attach"
  <2>1. Attaches(a) = Attaches(s) \cup {Len(s) + 1}
    BY <1>2, <1>3, <1>8 DEF Attaches
  <2>2. Cardinality(Attaches(a)) = n + 1
    BY <1>7, <2>1, FS_AddElement
  <2> QED BY <1>2, <1>4, <1>5, <1>6, <1>8, <2>2 DEF StackOK, a
<1>9. CASE f.kind # "attach"
  <2>1. Attaches(a) = Attaches(s)
    BY <1>2, <1>3, <1>9 DEF Attaches
  <2> QED BY <1>2, <1>4, <1>5, <1>6, <1>7, <1>9, <2>1 DEF StackOK, a
<1> QED BY <1>8, <1>9

LEMMA Pop ==
  ASSUME NEW s, NEW mods, NEW busy, NEW n, StackOK(s, mods, busy, n), s # <<>>
  PROVE  /\ StackOK(Front(s), mods, busy /\ Last(s).kind # "listener",
                    IF Last(s).kind = "attach" THEN n - 1 ELSE n)
         /\ FrameOK(Last(s), mods)
         /\ Last(s).kind = "log" => ~ busy
<1> DEFINE a == Front(s)
           f == Last(s)
<1>1. PICK T : s \in Seq(T)
  BY DEF StackOK
<1>2. /\ a \in Seq(T) /\ Len(s) \in Nat \ {0} /\ Len(a) = Len(s) - 1 /\ s[Len(s)] = f
      /\ \A i \in 1..(Len(s) - 1) : a[i] = s[i]
  BY <1>1, FrontFacts DEF Last
<1> HIDE DEF a, f
<1>3. \A i \in 1..Len(s) : i \in 1..Len(a) \/ i = Len(s)
  BY <1>2
<1>4. (\A i \in 1..Len(a) : FrameOK(a[i], mods)) /\ FrameOK(f, mods)
  BY <1>2, <1>3 DEF StackOK
<1>5. (f.kind = "log" => ~ busy) /\ (Listener(a) <=> Listener(s) /\ f.kind # "listener")
  BY <1>2, <1>3 DEF StackOK, Listener
<1>6. \A i, j \in 1..Len(a) :
        a[i].kind = "listener" /\ i < j => a[j].kind \notin {"log", "listener"}
  BY <1>2 DEF StackOK
<1>7. IsFiniteSet(Attaches(s)) /\ n = Cardinality(Attaches(s)) /\ n \in Nat
  BY <1>1, AttachesCount DEF StackOK
<1>8. CASE f.kind = "attach"
  <2>1. Len(s) \in Attaches(s) /\ Attaches(a) = Attaches(s) \ {Len(s)}
    BY <1>2, <1>3, <1>8 DEF Attaches
  <2>2. Cardinality(Attaches(a)) = n - 1
    BY <1>7, <2>1, FS_RemoveElement
  <2> QED BY <1>2, <1>4, <1>5, <1>6, <1>8, <2>2 DEF StackOK, a, f
<1>9. CASE f.kind # "attach"
  <2>1. Attaches(a) = Attaches(s)
    BY <1>2, <1>3, <1>9 DEF Attaches
  <2> QED BY <1>2, <1>4, <1>5, <1>6, <1>7, <1>9, <2>1 DEF StackOK, a, f
<1> QED BY <1>8, <1>9

\* What is done to a stack.
LEMMA ToldTop ==
  ASSUME NEW s, NEW mods, NEW busy, NEW n, StackOK(s, mods, busy, n), s # <<>>,
         NEW f, Alike(Last(s), f)
  PROVE  StackOK(Append(Front(s), f), mods, busy, n)
<1> DEFINE a == Append(Front(s), f)
<1>1. PICK T : s \in Seq(T)
  BY DEF StackOK
<1>2. /\ Front(s) \in Seq(T) /\ Len(s) \in Nat \ {0} /\ Len(Front(s)) = Len(s) - 1
      /\ s[Len(s)] = Last(s) /\ \A i \in 1..(Len(s) - 1) : Front(s)[i] = s[i]
  BY <1>1, FrontFacts DEF Last
<1>3. /\ a \in Seq(T \cup {f}) /\ Len(a) = Len(s) /\ a[Len(s)] = f
      /\ \A i \in 1..(Len(s) - 1) : a[i] = s[i]
  BY <1>2
<1> HIDE DEF a
<1>4. \A i \in 1..Len(s) : i \in 1..(Len(s) - 1) \/ i = Len(s)
  BY <1>2
<1>5. \A i \in 1..Len(s) : Alike(s[i], a[i])
  BY <1>2, <1>3, <1>4 DEF Alike
<1>6. StackOK(a, mods, busy, n)
  BY <1>3, <1>5, AlikeStacks
<1> QED BY <1>6 DEF a

LEMMA Handed ==
  ASSUME NEW s, NEW mods, NEW busy, NEW n, StackOK(s, mods, busy, n)
  PROVE  /\ \A answer : StackOK(Hand(s, answer), mods, busy, n)
         /\ \A call, result : StackOK(Deliver(s, call, result), mods, busy, n)
<1>1. ASSUME NEW answer
      PROVE  StackOK(Hand(s, answer), mods, busy, n)
  <2>1. Alike(Last(s), [Last(s) EXCEPT !.got = answer])
    BY Told
  <2> QED BY <2>1, ToldTop DEF Hand
<1> QED BY <1>1 DEF Deliver

LEMMA Freed ==
  ASSUME NEW s, NEW mods, NEW busy, NEW n, StackOK(s, mods, busy, n), NEW name
  PROVE  StackOK(Free(s, name), mods, busy, n)
<1> DEFINE t == Free(s, name)
<1>1. PICK T : s \in Seq(T)
  BY DEF StackOK
<1>2. DOMAIN s = 1..Len(s) /\ Len(s) \in Nat
  BY <1>1
<1>3. \A i \in 1..Len(s) : Alike(s[i], t[i])
  <2> SUFFICES ASSUME NEW i \in 1..Len(s)
               PROVE  Alike(s[i], t[i])
    OBVIOUS
  <2>1. \/ t[i] = s[i] \/ (\E v : t[i] = [s[i] EXCEPT !.rest = v])
        \/ (\E v : t[i] = [s[i] EXCEPT !.freed = v])
    BY <1>2 DEF Free
  <2>2. Alike(s[i], s[i])
    BY DEF Alike
  <2>3. \A v : Alike(s[i], [s[i] EXCEPT !.rest = v]) /\ Alike(s[i], [s[i] EXCEPT !.freed = v])
    BY Told
  <2> HIDE DEF t
  <2> QED BY <2>1, <2>2, <2>3
<1>4. t \in Seq({t[i] : i \in 1..Len(s)}) /\ Len(t) = Len(s)
  BY <1>2 DEF Free
<1> HIDE DEF t
<1>5. StackOK(t, mods, busy, n)
  BY <1>3, <1>4, AlikeStacks
<1> QED BY <1>5 DEF t

LEMMA Message ==
  ASSUME NEW s, NEW mods, NEW busy, NEW n, StackOK(s, mods, busy, n),
         NEW names, names # <<>> => "xcall_core" \in mods, NEW how
  PROVE  StackOK(s \o LogMessage(names, how, busy), mods, busy, n)
<1> DEFINE f == [kind |-> "log", rest |-> names]
<1>1. PICK T : s \in Seq(T)
  BY DEF StackOK
<1>2. CASE LogMessage(names, how, busy) = <<>>
  BY <1>1, <1>2
<1>3. CASE ~ (LogMessage(names, how, busy) = <<>>)
  <2>1. LogMessage(names, how, busy) = <<f>> /\ ~ busy /\ names # <<>>
    BY <1>3 DEF LogMessage
  <2>2. s \o <<f>> = Append(s, f)
    BY <1>1
  <2>3. FrameOK(f, mods) /\ f.kind = "log"
    BY <2>1 DEF FrameOK
  <2>4. StackOK(Append(s, f), mods, busy \/ f.kind = "listener",
                IF f.kind = "attach" THEN n + 1 ELSE n)
    BY <2>1, <2>3, Push
  <2>5. StackOK(Append(s, f), mods, busy, n)
    BY <2>3, <2>4 DEF StackOK
  <2> QED BY <2>1, <2>2, <2>5
<1> QED BY <1>2, <1>3

\* A frame that is neither a message nor a listener.
LEMMA PushQuiet ==
  ASSUME NEW s, NEW mods, NEW busy, NEW n, StackOK(s, mods, busy, n),
         NEW f, FrameOK(f, mods), f.kind \in {"script", "answer"}
  PROVE  StackOK(Append(s, f), mods, busy, n)
<1>1. StackOK(Append(s, f), mods, busy \/ f.kind = "listener",
              IF f.kind = "attach" THEN n + 1 ELSE n)
  BY Push
<1> QED BY <1>1 DEF StackOK

LEMMA Answered ==
  ASSUME NEW s, NEW mods, NEW busy, NEW n, StackOK(s, mods, busy, n),
         NEW names, names # <<>> => "xcall_core" \in mods, NEW how,
         NEW library \in CodeOnStack \cap mods, NEW call, NEW result
  PROVE  StackOK(Answering(s, call, result, LogMessage(names, how, busy), library), mods, busy, n)
<1> DEFINE f == [kind |-> "answer", call |-> call, result |-> result, library |-> library]
<1>1. CASE LogMessage(names, how, busy) = <<>>
  BY <1>1, Handed DEF Answering
<1>2. CASE LogMessage(names, how, busy) # <<>>
  <2>1. FrameOK(f, mods) /\ f.kind = "answer"
    BY DEF FrameOK
  <2>2. StackOK(Append(s, f), mods, busy, n)
    BY <2>1, PushQuiet
  <2>3. StackOK(Append(s, f) \o LogMessage(names, how, busy), mods, busy, n)
    BY <2>2, Message
  <2> QED BY <1>2, <2>3 DEF Answering
<1> QED BY <1>1, <1>2

LEMMA Called ==
  ASSUME NEW s, NEW mods, NEW busy, NEW n, StackOK(s, mods, busy, n),
         NEW lang \in {"lua", "js"}, Library[lang] \in mods, NEW call
  PROVE  StackOK(Append(s, Script(lang, call)), mods, busy, n)
<1>1. FrameOK(Script(lang, call), mods) /\ Script(lang, call).kind = "script"
  BY DEF FrameOK, Script
<1> QED BY <1>1, PushQuiet

LEMMA EmptyStack ==
  ASSUME NEW mods, NEW n
  PROVE  StackOK(<<>>, mods, FALSE, n) <=> n = 0
<1>1. Attaches(<<>>) = {} /\ ~ Listener(<<>>)
  BY DEF Attaches, Listener
<1> QED BY <1>1, FS_EmptySet DEF StackOK

-----------------------------------------------------------------------------
(* The listeners to the log.                                               *)

\* Listeners that log_event has not counted yet.
Waiting == Len(listeners) - count

ListenersOK ==
  /\ \E T : listeners \in Seq(T)
  /\ \A i, j \in 1..Len(listeners) : listeners[i] = listeners[j] => i = j
  /\ count \in Int
  /\ listeners # <<>> => "xcall_core" \in loaded
  /\ loaded \subseteq Modules /\ "xcall" \in loaded

LEMMA ListenersStay ==
  ASSUME ListenersOK, UNCHANGED <<listeners, count>>,
         loaded' = loaded \/ (\E m \in Revocable : loaded' = loaded \cup {m})
  PROVE  ListenersOK' /\ Waiting' = Waiting
BY DEF ListenersOK, Waiting, Modules

LEMMA ListenerAdded ==
  ASSUME ListenersOK, NEW n, n \notin Range(listeners), "xcall_core" \in loaded,
         listeners' = Append(listeners, n), UNCHANGED <<count, loaded>>
  PROVE  ListenersOK' /\ Waiting' = Waiting + 1
<1>1. PICK T : listeners \in Seq(T)
  BY DEF ListenersOK
<1>2. /\ listeners' \in Seq(T \cup {n}) /\ Len(listeners) \in Nat
      /\ Len(listeners') = Len(listeners) + 1 /\ listeners'[Len(listeners) + 1] = n
      /\ \A i \in 1..Len(listeners) : listeners'[i] = listeners[i] /\ listeners[i] # n
  BY <1>1 DEF Range
<1>3. \A i \in 1..Len(listeners') : i \in 1..Len(listeners) \/ i = Len(listeners) + 1
  BY <1>2
<1>4. \A i, j \in 1..Len(listeners') : listeners'[i] = listeners'[j] => i = j
  BY <1>2, <1>3 DEF ListenersOK
<1> QED BY <1>2, <1>4 DEF ListenersOK, Waiting

LEMMA ListenerRemoved ==
  ASSUME ListenersOK, NEW n, DetachListener(n), UNCHANGED loaded
  PROVE  ListenersOK' /\ Waiting' = Waiting
<1>1. CASE n \notin Range(listeners)
  BY <1>1, ListenersStay DEF DetachListener
<1>2. CASE n \in Range(listeners)
  <2>1. PICK T : listeners \in Seq(T)
    BY DEF ListenersOK
  <2>2. PlaceOf(n) \in 1..Len(listeners)
    <3>1. DOMAIN listeners = 1..Len(listeners)
      BY <2>1
    <3>2. \E i \in DOMAIN listeners : listeners[i] = n
      BY <1>2 DEF Range
    <3> QED BY <3>1, <3>2 DEF PlaceOf
  <2> DEFINE p == PlaceOf(n)
  <2>3. listeners' = RemoveAt(listeners, p) /\ count' = count - 1
    BY <1>2 DEF DetachListener
  <2> HIDE DEF p
  <2>4. /\ listeners' \in Seq(T) /\ Len(listeners') = Len(listeners) - 1 /\ Len(listeners) \in Nat
        /\ \A j \in 1..(Len(listeners) - 1) :
             listeners'[j] = IF j < p THEN listeners[j] ELSE listeners[j + 1]
    <3>1. p \in 1..Len(listeners)
      BY <2>2 DEF p
    <3>2. /\ RemoveAt(listeners, p) \in Seq(T) /\ Len(RemoveAt(listeners, p)) = Len(listeners) - 1
          /\ \A j \in 1..(Len(listeners) - 1) :
               RemoveAt(listeners, p)[j] = IF j < p THEN listeners[j] ELSE listeners[j + 1]
      BY ONLY <2>1, <3>1, RemoveAtFacts
    <3>3. Len(listeners) \in Nat
      BY <2>1
    <3> QED BY <2>3, <3>2, <3>3
  <2>5. \A i, j \in 1..Len(listeners') : listeners'[i] = listeners'[j] => i = j
    <3> SUFFICES ASSUME NEW i \in 1..Len(listeners'), NEW j \in 1..Len(listeners'),
                        listeners'[i] = listeners'[j]
                 PROVE  i = j
      OBVIOUS
    <3>1. \A k \in 1..Len(listeners') : k \in 1..Len(listeners) /\ k + 1 \in 1..Len(listeners)
      BY <2>4
    <3>2. p \in Int
      BY <2>1, <2>2 DEF p
    <3> QED BY <2>4, <3>1, <3>2 DEF ListenersOK
  <2>6. listeners # <<>> /\ Waiting' = Waiting /\ count' \in Int
    BY <2>1, <2>2, <2>3, <2>4 DEF ListenersOK, Waiting
  <2> QED BY <2>4, <2>5, <2>6 DEF ListenersOK
<1> QED BY <1>1, <1>2

LEMMA ListenersUnloaded ==
  ASSUME ListenersOK, NEW m \in Revocable, NEW again \in BOOLEAN, UnloadModule(m, again)
  PROVE  ListenersOK' /\ Waiting' = Waiting
<1>1. loaded' \subseteq Modules /\ "xcall" \in loaded'
  BY DEF UnloadModule, ListenersOK, Revocable
<1>2. CASE m = "xcall_core"
  <2>1. listeners' = <<>> /\ count' = count - Len(listeners) /\ Len(listeners) \in Nat
    BY <1>2 DEF UnloadModule, ListenersOK
  <2> QED BY <1>1, <2>1 DEF ListenersOK, Waiting
<1>3. CASE m # "xcall_core"
  <2>1. UNCHANGED <<listeners, count>> /\ ("xcall_core" \in loaded => "xcall_core" \in loaded')
    BY <1>3 DEF UnloadModule
  <2> QED BY <1>1, <2>1 DEF ListenersOK, Waiting
<1> QED BY <1>2, <1>3

-----------------------------------------------------------------------------
(* The calls.                                                              *)

LEMMA LibrariesAre ==
  /\ Library["core"] = "xcall_core" /\ Library["lua"] = "lua" /\ Library["eval"] = "lua"
  /\ Library["js"] = "lang_javascript" /\ Library["exec"] = "xcall_exec"
  /\ Library["xcall"] = "xcall"
BY DEF Library

\* A call of a C function, by a frame or by nobody.
LEMMA Invoked ==
  ASSUME ListenersOK, NEW mods, loaded \subseteq mods, NEW frames, NEW call,
         StackOK(frames, mods, executing, Waiting), StackOK(stack, mods, executing, Waiting),
         InvokeXCallByString(frames, call)
  PROVE  ListenersOK' /\ StackOK(stack', mods, executing', Waiting')
<1>1. "xcall" \in CodeOnStack \cap mods /\ (listeners # <<>> => "xcall_core" \in mods)
      /\ (Reaches(call, "core") => "xcall_core" \in CodeOnStack \cap mods)
  BY LibrariesAre DEF ListenersOK, CodeOnStack, Reaches
<1>2. CASE \E why : Stops(why)
  BY <1>2, ListenersStay DEF Stops, logging, tables
<1>3. ASSUME UNCHANGED <<loaded, listeners, count, executing>>,
             StackOK(stack', mods, executing, Waiting)
      PROVE  ListenersOK' /\ StackOK(stack', mods, executing', Waiting')
  BY <1>3, ListenersStay
<1>4. CASE call.form = "broken" /\ stack' = Hand(frames, ErrorResult)
           /\ UNCHANGED <<tables, logging, pending, wild>>
  BY <1>3, <1>4, Handed DEF tables, logging
<1>5. CASE NoSuchFunction(frames, call)
  <2>1. StackOK(stack', mods, executing, Waiting)
    BY <1>1, <1>5, Answered DEF NoSuchFunction, Logged
  <2> QED BY <1>3, <1>5, <2>1 DEF NoSuchFunction, tables, logging
<1>6. CASE QueryFunction(frames, call)
  BY <1>3, <1>6, Handed DEF QueryFunction, tables, logging
<1>7. CASE LogFunction(frames, call)
  <2>1. StackOK(stack', mods, executing, Waiting)
    BY <1>1, <1>7, Answered, Handed DEF LogFunction, Logged
  <2> QED BY <1>3, <1>7, <2>1 DEF LogFunction, tables, logging
<1>8. CASE RequestModule(frames, call)
  <2>1. StackOK(stack', mods, executing, Waiting)
    BY <1>1, <1>8, Answered, Handed DEF RequestModule, Logged
  <2>2. UNCHANGED <<listeners, count, executing>>
        /\ (loaded' = loaded \/ \E m \in Revocable : loaded' = loaded \cup {m})
    BY <1>8 DEF RequestModule, LoadModule, tables
  <2> QED BY <2>1, <2>2, ListenersStay
<1>9. CASE RevokeModule(frames, call)
  <2>1. StackOK(stack', mods, executing, Waiting) /\ UNCHANGED executing
    BY <1>9, Handed DEF RevokeModule
  <2>2. \/ UNCHANGED <<loaded, listeners, count>>
        \/ \E m \in Revocable : UnloadModule(m, FALSE)
    BY <1>9 DEF RevokeModule, tables
  <2>3. CASE UNCHANGED <<loaded, listeners, count>>
    BY <1>3, <2>1, <2>3
  <2>4. CASE \E m \in Revocable : UnloadModule(m, FALSE)
    BY <2>1, <2>4, ListenersUnloaded
  <2> QED BY <2>2, <2>3, <2>4
<1>10. CASE AttachLog(frames, call)
  <2> DEFINE n == Param(call, "listener").string
  <2>1. UNCHANGED <<loaded, count, executing>> /\ "xcall_core" \in loaded
    BY <1>10, LibrariesAre DEF AttachLog, tables, Reaches
  <2>2. \/ \E result : stack' = Deliver(frames, call, result) /\ UNCHANGED listeners
        \/ n \notin Range(listeners) /\ AttachListener(frames, call, n)
    BY <1>10 DEF AttachLog
  <2> HIDE DEF n
  <2>3. CASE \E result : stack' = Deliver(frames, call, result) /\ UNCHANGED listeners
    BY <1>3, <2>1, <2>3, Handed
  <2>4. CASE n \notin Range(listeners) /\ AttachListener(frames, call, n)
    <3> DEFINE f == [kind |-> "attach", call |-> call]
    <3>1. ListenersOK' /\ Waiting' = Waiting + 1
      BY <2>1, <2>4, ListenerAdded DEF AttachListener
    <3>2. FrameOK(f, mods) /\ f.kind = "attach" /\ "xcall_core" \in mods
      BY <2>1 DEF FrameOK
    <3>3. StackOK(Append(frames, f), mods, executing \/ f.kind = "listener",
                  IF f.kind = "attach" THEN Waiting + 1 ELSE Waiting)
      BY <3>2, Push
    <3>4. StackOK(Append(frames, f), mods, executing, Waiting')
      BY <3>1, <3>2, <3>3 DEF StackOK
    <3>5. StackOK(Append(frames, f) \o LogMessage(listeners', handler', executing),
                  mods, executing, Waiting')
      BY <3>2, <3>4, Message
    <3>6. Append(frames, f) \o <<>> = Append(frames, f)
      BY DEF StackOK
    <3> QED BY <2>1, <2>4, <3>1, <3>4, <3>5, <3>6 DEF AttachListener
  <2> QED BY <2>2, <2>3, <2>4
<1>11. CASE DetachLog(frames, call)
  <2> DEFINE n == Param(call, "listener").string
  <2>1. UNCHANGED <<loaded, executing>> /\ Reaches(call, "core")
    BY <1>11 DEF DetachLog, tables
  <2>2. \/ \E result : stack' = Deliver(frames, call, result) /\ UNCHANGED <<listeners, count>>
        \/ /\ DetachListener(n)
           /\ \E result : \/ stack' = Deliver(frames, call, result)
                          \/ stack' = Answering(Free(frames, n), call, result,
                                        LogMessage(listeners', handler', executing), "xcall_core")
    BY <1>11 DEF DetachLog
  <2> HIDE DEF n
  <2>3. CASE \E result : stack' = Deliver(frames, call, result) /\ UNCHANGED <<listeners, count>>
    BY <1>3, <2>1, <2>3, Handed
  <2>4. ASSUME DetachListener(n), NEW result,
               \/ stack' = Deliver(frames, call, result)
               \/ stack' = Answering(Free(frames, n), call, result,
                             LogMessage(listeners', handler', executing), "xcall_core")
        PROVE  ListenersOK' /\ StackOK(stack', mods, executing', Waiting')
    <3>1. ListenersOK' /\ Waiting' = Waiting
      BY <2>1, <2>4, ListenerRemoved
    <3>2. StackOK(Free(frames, n), mods, executing, Waiting)
      BY Freed
    <3>3. StackOK(stack', mods, executing, Waiting)
      BY <1>1, <2>1, <2>4, <3>2, Handed, Answered
    <3> QED BY <2>1, <3>1, <3>3
  <2> QED BY <2>2, <2>3, <2>4
<1>12. CASE ExecFunction(frames, call)
  BY <1>2, <1>3, <1>12, Handed DEF ExecFunction, tables, logging
<1>13. CASE LuaFunction(frames, call)
  <2>1. Library["lua"] \in mods
    BY <1>13 DEF LuaFunction, Reaches
  <2>2. StackOK(stack', mods, executing, Waiting)
    BY <1>13, <2>1, Called DEF LuaFunction
  <2> QED BY <1>3, <1>13, <2>2 DEF LuaFunction, tables, logging
<1>14. CASE EvaluateLua(frames, call)
  <2>1. Library["lua"] \in mods
    BY <1>14, LibrariesAre DEF EvaluateLua, Reaches
  <2>2. StackOK(stack', mods, executing, Waiting)
    BY <1>14, <2>1, Called, Handed DEF EvaluateLua
  <2> QED BY <1>3, <1>14, <2>2 DEF EvaluateLua, tables, logging
<1>15. CASE JsFunction(frames, call)
  <2>1. CASE Stops("a freed JSFunctionInfo is used")
    BY <1>2, <2>1
  <2>2. CASE ~ Stops("a freed JSFunctionInfo is used")
    <3>1. Library["js"] \in mods
      BY <1>15 DEF JsFunction, Reaches
    <3>2. StackOK(stack', mods, executing, Waiting)
      BY <1>15, <2>2, <3>1, Called, Handed DEF JsFunction
    <3> QED BY <1>3, <1>15, <2>2, <3>2 DEF JsFunction, tables, logging
  <2> QED BY <2>1, <2>2
<1> QED BY <1>2, <1>4, <1>5, <1>6, <1>7, <1>8, <1>9, <1>10, <1>11, <1>12, <1>13, <1>14, <1>15
        DEF InvokeXCallByString, InvokeXCall, UnloadedFunction

-----------------------------------------------------------------------------
(* The steps.                                                              *)

\* What the running frame leaves behind when it is done.
LEMMA TopGone ==
  ASSUME NEW mods, StackOK(stack, mods, executing, Waiting), NEW kind, Running(kind),
         kind \in {"script", "answer", "log"}
  PROVE  /\ stack # <<>> /\ Top.kind = kind /\ FrameOK(Top, mods)
         /\ StackOK(Below, mods, executing, Waiting)
         /\ kind = "log" => ~ executing
<1>1. stack # <<>> /\ Last(stack).kind = kind
  BY DEF Running, Top
<1>2. /\ StackOK(Front(stack), mods, executing /\ Last(stack).kind # "listener",
                 IF Last(stack).kind = "attach" THEN Waiting - 1 ELSE Waiting)
      /\ FrameOK(Last(stack), mods) /\ (Last(stack).kind = "log" => ~ executing)
  BY <1>1, Pop
<1>3. StackOK(Front(stack), mods, executing, Waiting)
  BY <1>1, <1>2 DEF StackOK
<1> QED BY <1>1, <1>2, <1>3 DEF Top, Below

\* A script does something that is logged, or that changes nothing here.
LEMMA ScriptWorks ==
  ASSUME ListenersOK, NEW mods, loaded \subseteq mods, StackOK(stack, mods, executing, Waiting),
         \/ LuaCallsByTable \/ LuaAddXCallFunction \/ LuaDelXCallFunction
         \/ JsAddXCallFunction \/ JsDelXCallFunction \/ OutsideRuns \/ OutsideLogs
  PROVE  ListenersOK' /\ StackOK(stack', mods, executing', Waiting')
<1>1. listeners # <<>> => "xcall_core" \in mods
  BY DEF ListenersOK
<1>2. UNCHANGED <<loaded, listeners, count, executing>>
  BY DEF LuaCallsByTable, LuaAddXCallFunction, LuaDelXCallFunction, JsAddXCallFunction,
         JsDelXCallFunction, OutsideRuns, OutsideLogs, Stops, tables, logging
<1>3. StackOK(stack \o Logged, mods, executing, Waiting)
  BY <1>1, Message DEF Logged
<1>4. StackOK(stack', mods, executing, Waiting)
  <2>1. CASE stack' = stack \/ stack' = stack \o Logged
    BY <1>3, <2>1
  <2>2. CASE OutsideRuns
    <3>1. PICK lang \in {"lua", "js"} : Library[lang] \in loaded /\ stack' = <<Script(lang, Outside)>>
      BY <2>2 DEF OutsideRuns
    <3>2. StackOK(Append(stack, Script(lang, Outside)), mods, executing, Waiting)
      BY <3>1, Called
    <3>3. Append(stack, Script(lang, Outside)) = stack'
      BY <2>2, <3>1 DEF OutsideRuns
    <3> QED BY <3>2, <3>3
  <2>3. CASE OutsideLogs
    <3>1. stack = <<>> /\ stack' = Logged /\ stack \o Logged = Logged
      BY <2>3 DEF OutsideLogs, Logged, LogMessage
    <3> QED BY <1>3, <3>1
  <2> QED BY <2>1, <2>2, <2>3 DEF LuaCallsByTable, LuaAddXCallFunction, LuaDelXCallFunction,
             JsAddXCallFunction, JsDelXCallFunction, Stops
<1>5. ListenersOK' /\ Waiting' = Waiting
  BY <1>2, ListenersStay
<1> QED BY <1>2, <1>4, <1>5

LEMMA FrameReturns ==
  ASSUME ListenersOK, NEW mods, loaded \subseteq mods, StackOK(stack, mods, executing, Waiting),
         AnswerLogged \/ ScriptReturns
  PROVE  ListenersOK' /\ StackOK(stack', mods, executing', Waiting')
<1>1. listeners # <<>> => "xcall_core" \in mods
  BY DEF ListenersOK
<1>2. UNCHANGED <<loaded, listeners, count, executing>>
  BY DEF AnswerLogged, ScriptReturns, tables, logging
<1>3. ListenersOK' /\ Waiting' = Waiting
  BY <1>2, ListenersStay
<1>4. CASE AnswerLogged
  BY <1>2, <1>3, <1>4, TopGone, Handed DEF AnswerLogged
<1>5. CASE ScriptReturns
  <2>1. Top.lang \in {"lua", "js"} /\ Library[Top.lang] \in CodeOnStack \cap mods
        /\ StackOK(Below, mods, executing, Waiting)
    BY <1>5, TopGone, LibrariesAre DEF ScriptReturns, FrameOK, CodeOnStack
  <2>2. StackOK(Below \o Logged, mods, executing, Waiting)
    BY <1>1, <2>1, Message DEF Logged
  <2>3. StackOK(Below \o <<>>, mods, executing, Waiting)
    <3>1. Below \o <<>> = Below
      BY <2>1 DEF StackOK
    <3> QED BY <2>1, <3>1
  <2>4. \A result :
          /\ StackOK(Answering(Below, Top.call, result, Logged, Library[Top.lang]), mods, executing, Waiting)
          /\ StackOK(Answering(Below, Top.call, result, <<>>, Library[Top.lang]), mods, executing, Waiting)
    BY <1>1, <2>1, Answered, Handed DEF Logged, Answering
  <2>5. PICK ending \in Endings :
          LET log == IF ending \in {"error", "other", "unparsable"} THEN Logged ELSE <<>> IN
          stack' = IF Top.call = Outside THEN Below \o log
                   ELSE Answering(Below, Top.call, Result(Top, ending), log, Library[Top.lang])
    BY <1>5 DEF ScriptReturns
  <2>6. StackOK(stack', mods, executing, Waiting)
    BY <2>2, <2>3, <2>4, <2>5
  <2> QED BY <1>2, <1>3, <2>6
<1> QED BY <1>4, <1>5

LEMMA CountedKeeps ==
  ASSUME ListenersOK, NEW mods, loaded \subseteq mods, StackOK(stack, mods, executing, Waiting),
         ListenerAttached
  PROVE  ListenersOK' /\ StackOK(stack', mods, executing', Waiting')
<1>1. /\ stack # <<>> /\ Last(stack).kind = "attach"
      /\ count' = count + 1 /\ UNCHANGED <<loaded, listeners, executing>>
      /\ stack' = Answering(Below, Top.call, Success(1), Logged, "xcall_core")
  BY DEF ListenerAttached, Running, Top, tables
<1>2. /\ StackOK(Front(stack), mods, executing /\ Last(stack).kind # "listener",
                 IF Last(stack).kind = "attach" THEN Waiting - 1 ELSE Waiting)
      /\ FrameOK(Last(stack), mods)
  BY <1>1, Pop
<1>3. StackOK(Below, mods, executing, Waiting - 1)
  BY <1>1, <1>2 DEF StackOK, Below
<1>4. "xcall_core" \in CodeOnStack \cap mods
  BY <1>1, <1>2 DEF FrameOK, CodeOnStack
<1>5. StackOK(stack', mods, executing, Waiting - 1)
  BY <1>1, <1>3, <1>4, Answered DEF Logged
<1>6. ListenersOK' /\ Waiting' = Waiting - 1
  BY <1>1 DEF ListenersOK, Waiting
<1> QED BY <1>1, <1>5, <1>6

LEMMA CallListenerKeeps ==
  ASSUME ListenersOK, NEW mods, loaded \subseteq mods, StackOK(stack, mods, executing, Waiting),
         CallListener
  PROVE  ListenersOK' /\ StackOK(stack', mods, executing', Waiting')
<1>1. /\ stack # <<>> /\ Last(stack).kind = "log" /\ FrameOK(Last(stack), mods) /\ ~ executing
      /\ StackOK(Below, mods, executing, Waiting)
  BY TopGone DEF CallListener, Top
<1>2. UNCHANGED <<loaded, listeners, count>>
  BY DEF CallListener, Stops, tables, logging
<1>3. ListenersOK' /\ Waiting' = Waiting
  BY <1>2, ListenersStay
<1> DEFINE f == [kind |-> "listener", name |-> Head(Top.rest), freed |-> FALSE, got |-> NoAnswer]
           next == Append(Below, [Top EXCEPT !.rest = Tail(Top.rest)])
<1>4. \/ UNCHANGED executing /\ (stack' = Below \/ UNCHANGED stack)
      \/ executing' = TRUE /\ stack' = Append(next, f)
  BY DEF CallListener, Stops, logging
<1>5. FrameOK(f, mods) /\ f.kind = "listener"
  BY <1>1 DEF FrameOK
<1> HIDE DEF f
<1>6. StackOK(next, mods, executing, Waiting)
  <2>1. Alike(Last(stack), [Last(stack) EXCEPT !.rest = Tail(Top.rest)])
    BY Told
  <2> QED BY <1>1, <2>1, ToldTop DEF Top, Below
<1> HIDE DEF next
<1>7. StackOK(Append(next, f), mods, executing \/ f.kind = "listener",
              IF f.kind = "attach" THEN Waiting + 1 ELSE Waiting)
  BY <1>1, <1>5, <1>6, Push
<1>8. StackOK(Append(next, f), mods, TRUE, Waiting)
  BY <1>5, <1>7 DEF StackOK
<1> QED BY <1>1, <1>3, <1>4, <1>8

LEMMA ListenerDoneKeeps ==
  ASSUME ListenersOK, NEW mods, loaded \subseteq mods, StackOK(stack, mods, executing, Waiting),
         ListenerDone
  PROVE  ListenersOK' /\ StackOK(stack', mods, executing', Waiting')
<1>1. stack # <<>> /\ Last(stack).kind = "listener" /\ UNCHANGED loaded
  BY DEF ListenerDone, Running, Top, tables
<1>2. StackOK(Front(stack), mods, executing /\ Last(stack).kind # "listener",
              IF Last(stack).kind = "attach" THEN Waiting - 1 ELSE Waiting)
  BY <1>1, Pop
<1>3. StackOK(Below, mods, FALSE, Waiting)
  BY <1>1, <1>2 DEF StackOK, Below
<1>4. StackOK(Free(Below, Top.name), mods, FALSE, Waiting)
  BY <1>3, Freed
<1>5. \/ stack' = Below /\ executing' = FALSE /\ UNCHANGED <<listeners, count>>
      \/ UNCHANGED <<stack, executing, listeners, count>>
      \/ stack' = Free(Below, Top.name) /\ executing' = FALSE /\ DetachListener(Top.name)
  BY DEF ListenerDone, logging
<1> QED BY <1>1, <1>3, <1>4, <1>5, ListenersStay, ListenerRemoved

LEMMA TimeoutKeeps ==
  ASSUME ListenersOK, NEW mods, loaded' \subseteq mods, StackOK(stack, mods, executing, Waiting),
         TimeoutFires
  PROVE  ListenersOK' /\ StackOK(stack', mods, executing', Waiting')
<1>1. /\ stack = <<>> /\ UNCHANGED executing
      /\ stack' = LogMessage(listeners', handler', executing)
  BY DEF TimeoutFires
<1>2. \/ UNCHANGED <<loaded, listeners, count>>
      \/ \E m \in Revocable, again \in BOOLEAN : UnloadModule(m, again)
  BY DEF TimeoutFires, tables
<1>3. ListenersOK' /\ Waiting' = Waiting
  BY <1>2, ListenersStay, ListenersUnloaded
<1>4. listeners' # <<>> => "xcall_core" \in mods
  BY <1>3 DEF ListenersOK
<1>5. StackOK(stack \o LogMessage(listeners', handler', executing), mods, executing, Waiting)
  BY <1>4, Message
<1>6. stack \o LogMessage(listeners', handler', executing) = stack'
  BY <1>1 DEF LogMessage
<1> QED BY <1>1, <1>3, <1>5, <1>6

LEMMA XCallMadeKeeps ==
  ASSUME ListenersOK, NEW mods, loaded \subseteq mods, StackOK(stack, mods, executing, Waiting),
         XCallMade
  PROVE  ListenersOK' /\ StackOK(stack', mods, executing', Waiting')
<1>1. PICK i \in LuaCalls \cup JsCalls \cup OutsideCalls \cup ListenerCalls :
        InvokeXCallByString(i.frames, i.call)
  BY DEF XCallMade
<1>2. \/ Running("script") /\ \E call : i.frames = Asking(call)
      \/ stack = <<>> /\ i.frames = <<>>
      \/ i.frames = stack
  BY DEF LuaCalls, JsCalls, OutsideCalls, ListenerCalls, ScriptCalls, Invocation
<1>3. StackOK(i.frames, mods, executing, Waiting)
  <2>1. ASSUME Running("script"), NEW call, i.frames = Asking(call)
        PROVE  StackOK(i.frames, mods, executing, Waiting)
    <3>1. Alike(Last(stack), [Last(stack) EXCEPT !.asked = call, !.got = NoAnswer])
      BY Told
    <3> QED BY <2>1, <3>1, ToldTop DEF Asking, Below, Top, Running
  <2> QED BY <1>2, <2>1
<1> QED BY <1>1, <1>3, Invoked

\* Every step but that of a timeout, which unloads modules while nothing is running.
LEMMA StackKeeps ==
  ASSUME ListenersOK, NEW mods, loaded \subseteq mods, StackOK(stack, mods, executing, Waiting),
         Step, ~ TimeoutFires
  PROVE  ListenersOK' /\ StackOK(stack', mods, executing', Waiting')
<1>1. CASE AnswerLogged \/ ScriptReturns
  BY <1>1, FrameReturns
<1>2. CASE ListenerAttached
  BY <1>2, CountedKeeps
<1>3. CASE XCallMade
  BY <1>3, XCallMadeKeeps
<1>4. CASE \/ LuaCallsByTable \/ LuaAddXCallFunction \/ LuaDelXCallFunction
           \/ JsAddXCallFunction \/ JsDelXCallFunction \/ OutsideRuns \/ OutsideLogs
  BY <1>4, ScriptWorks
<1>5. CASE CallListener
  BY <1>5, CallListenerKeeps
<1>6. CASE ListenerDone
  BY <1>6, ListenerDoneKeeps
<1> QED BY <1>1, <1>2, <1>3, <1>4, <1>5, <1>6 DEF Step

\* Whatever is unloaded under the feet of the code on the stack, the flag and the count of
\* the listeners stay right.
ListenersInv == ListenersOK /\ StackOK(stack, Modules, executing, Waiting)

LEMMA NothingRegistered ==
  ASSUME ScriptingInit
  PROVE  ListenersOK /\ \A mods : StackOK(stack, mods, executing, Waiting)
<1>1. listeners \in Seq({}) /\ Len(listeners) = 0 /\ count = 0
  BY DEF ScriptingInit
<1>2. ListenersOK /\ Waiting = 0
  BY <1>1 DEF ListenersOK, Waiting, ScriptingInit, Modules
<1> QED BY <1>2, EmptyStack DEF ScriptingInit

LEMMA ListenersInvHolds ==
  ScriptingSpec => []ListenersInv
<1>1. ScriptingInit => ListenersInv
  BY NothingRegistered DEF ListenersInv
<1>2. ListenersInv /\ [ScriptingNext]_scriptingVars => ListenersInv'
  <2>1. ASSUME ListenersInv, Step, ~ TimeoutFires
        PROVE  ListenersInv'
    BY <2>1, StackKeeps DEF ListenersInv, ListenersOK, Modules
  <2>2. ASSUME ListenersInv, TimeoutFires
        PROVE  ListenersInv'
    <3>1. loaded' \subseteq Modules
      BY <2>2 DEF TimeoutFires, UnloadModule, tables, ListenersInv, ListenersOK
    <3> QED BY <2>2, <3>1, TimeoutKeeps DEF ListenersInv, Modules
  <2>3. ASSUME ListenersInv, UNCHANGED scriptingVars
        PROVE  ListenersInv'
    BY <2>3, ListenersStay DEF ListenersInv, scriptingVars, tables, logging, Modules
  <2> QED BY <2>1, <2>2, <2>3 DEF ScriptingNext
<1> QED BY <1>1, <1>2, PTL DEF ScriptingSpec

\* One listener of the log at a time waits for its function, logExecuting says so, and
\* log_event's count is right when nothing runs.
THEOREM ListenersAreConsistent ==
  ScriptingSpec => []ListenersConsistent
<1>1. ListenersInv => ListenersConsistent
  <2> SUFFICES ASSUME ListenersInv
               PROVE  ListenersConsistent
    OBVIOUS
  <2> DEFINE waiting == {i \in DOMAIN stack : stack[i].kind = "listener"}
  <2>1. PICK T : stack \in Seq(T)
    BY DEF ListenersInv, StackOK
  <2>2. DOMAIN stack = 1..Len(stack) /\ Len(stack) \in Nat
    BY <2>1
  <2>3. \A i, j \in waiting : i = j
    BY <2>2 DEF ListenersInv, StackOK
  <2>4. Cardinality(waiting) <= 1
    <3>1. CASE waiting = {}
      BY <3>1, FS_EmptySet
    <3>2. CASE \E i : i \in waiting
      <4>1. PICK i : i \in waiting
        BY <3>2
      <4> HIDE DEF waiting
      <4>2. waiting = {i}
        BY <2>3, <4>1
      <4>3. Cardinality({i}) = 1
        BY FS_Singleton
      <4> QED BY <4>2, <4>3
    <3> QED BY <3>1, <3>2
  <2>5. executing <=> \E i \in DOMAIN stack : stack[i].kind = "listener"
    BY <2>2 DEF ListenersInv, StackOK, Listener
  <2>6. stack = <<>> => count = Len(listeners)
    <3> SUFFICES ASSUME stack = <<>>
                 PROVE  count = Len(listeners)
      OBVIOUS
    <3>1. Waiting = 0
      BY <2>5, EmptyStack DEF ListenersInv, StackOK, Attaches, Listener
    <3> QED BY <3>1 DEF ListenersInv, ListenersOK, Waiting
  <2> QED BY <2>4, <2>5, <2>6 DEF ListenersConsistent, OneListener, ListenersCounted
<1> QED BY <1>1, ListenersInvHolds, PTL

-----------------------------------------------------------------------------
(* The functions that are registered, and the modules they are in.         *)

FunctionOK(n) ==
  /\ functions[n] \in DOMAIN Library
  /\ functions[n] = "lua" => "lua" \in loaded /\ n \in refs /\ n \in states
  /\ functions[n] = "eval" => "lua" \in loaded /\ n \in LuaFunctions
  /\ functions[n] = "exec" => "xcall_exec" \in loaded /\ n \in ExecFunctions
  /\ functions[n] = "core" =>
       n \in CoreFunctions /\ ("xcall_core" \in loaded \/ n = "getActiveModules")

FunctionsOK == \A n \in DOMAIN functions : FunctionOK(n)

\* Whatever runs or is registered is in a module that is loaded.
CodeInv == ListenersOK /\ FunctionsOK /\ StackOK(stack, loaded, executing, Waiting)

\* The stack is all right as long as the modules on it are loaded.
LEMMA StackStays ==
  ASSUME NEW s, NEW mods, NEW busy, NEW n, StackOK(s, mods, busy, n),
         NEW others, CodeOnStack \cap mods \subseteq others
  PROVE  StackOK(s, others, busy, n)
<1>1. ASSUME NEW f, FrameOK(f, mods)
      PROVE  FrameOK(f, others)
  BY <1>1, LibrariesAre DEF FrameOK, CodeOnStack
<1> QED BY <1>1 DEF StackOK

LEMMA LoadedFunctions ==
  ASSUME FunctionsOK, NEW m \in Revocable, m \notin loaded, LoadModule(m)
  PROVE  FunctionsOK'
<1> SUFFICES ASSUME NEW n \in DOMAIN functions'
             PROVE  FunctionOK(n)'
  BY DEF FunctionsOK
<1>1. loaded' = loaded \cup {m} /\ functions' = Registered(functions, m)
  BY DEF LoadModule
<1>2. CASE n \in DOMAIN functions /\ functions'[n] = functions[n]
  <2>1. FunctionOK(n)
    BY <1>2 DEF FunctionsOK
  <2>2. CASE m = "lua"
    BY <1>1, <1>2, <2>1, <2>2 DEF FunctionOK
  <2>3. CASE m # "lua"
    BY <1>1, <1>2, <2>1, <2>3 DEF FunctionOK, LoadModule
  <2> QED BY <2>2, <2>3
<1>3. CASE ~ (n \in DOMAIN functions /\ functions'[n] = functions[n])
  <2>1. \/ m = "xcall_core" /\ functions'[n] = "core" /\ n \in CoreFunctions
        \/ m = "lua" /\ functions'[n] = "eval" /\ n \in LuaFunctions
        \/ m = "xcall_exec" /\ functions'[n] = "exec" /\ n \in ExecFunctions
    BY <1>1, <1>3 DEF Registered, AddAll
  <2> QED BY <1>1, <2>1 DEF FunctionOK, Library
<1> QED BY <1>2, <1>3

LEMMA FinalizedFunctions ==
  ASSUME FunctionsOK, NEW m \in Revocable, NEW n \in DOMAIN Finalized(m)
  PROVE  /\ n \in DOMAIN functions /\ Finalized(m)[n] = functions[n] /\ FunctionOK(n)
         /\ m = "lua" => functions[n] \notin {"lua", "eval"}
         /\ m = "xcall_exec" => functions[n] # "exec"
         /\ m = "xcall_core" /\ functions[n] = "core" => n = "getActiveModules"
<1>1. n \in DOMAIN functions /\ Finalized(m)[n] = functions[n]
      /\ (m = "lua" => n \notin refs \cup LuaFunctions)
      /\ (m = "xcall_exec" => n \notin ExecFunctions)
      /\ (m = "xcall_core" => n \notin CoreRemoved)
  BY DEF Finalized, DelAll, Revocable
<1>2. FunctionOK(n)
  BY <1>1 DEF FunctionsOK
<1> QED BY <1>1, <1>2 DEF FunctionOK, CoreRemoved

LEMMA UnloadedFunctions ==
  ASSUME FunctionsOK, NEW m \in Revocable \cap loaded, NEW again \in BOOLEAN, UnloadModule(m, again)
  PROVE  FunctionsOK'
<1> SUFFICES ASSUME NEW n \in DOMAIN functions'
             PROVE  FunctionOK(n)'
  BY DEF FunctionsOK
<1>1. /\ loaded' = IF again THEN loaded ELSE loaded \ {m}
      /\ functions' = IF again THEN Registered(Finalized(m), m) ELSE Finalized(m)
      /\ m = "lua" \/ (refs' = refs /\ states' = states)
  BY DEF UnloadModule
<1>2. CASE n \in DOMAIN Finalized(m) /\ functions'[n] = Finalized(m)[n]
  BY <1>1, <1>2, FinalizedFunctions DEF FunctionOK, Library
<1>3. CASE ~ (n \in DOMAIN Finalized(m) /\ functions'[n] = Finalized(m)[n])
  <2>1. again /\ loaded' = loaded
    BY <1>1, <1>3
  <2>2. \/ m = "xcall_core" /\ functions'[n] = "core" /\ n \in CoreFunctions
        \/ m = "lua" /\ functions'[n] = "eval" /\ n \in LuaFunctions
        \/ m = "xcall_exec" /\ functions'[n] = "exec" /\ n \in ExecFunctions
    BY <1>1, <1>3 DEF Registered, AddAll
  <2> QED BY <2>1, <2>2 DEF FunctionOK, Library
<1> QED BY <1>2, <1>3

\* The functions that scripts register and remove.
LEMMA ScriptFunctions ==
  ASSUME CodeInv,
         LuaAddXCallFunction \/ LuaDelXCallFunction \/ JsAddXCallFunction \/ JsDelXCallFunction
  PROVE  FunctionsOK' /\ UNCHANGED loaded
<1>1. UNCHANGED loaded
  BY DEF LuaAddXCallFunction, LuaDelXCallFunction, JsAddXCallFunction, JsDelXCallFunction
<1>2. CASE LuaAddXCallFunction
  <2>1. "lua" \in loaded
    <3>1. Running("script") /\ Top.lang = "lua"
      BY <1>2 DEF LuaAddXCallFunction
    <3>2. FrameOK(Top, loaded) /\ Top.kind = "script"
      BY <3>1, TopGone DEF CodeInv
    <3> QED BY <3>1, <3>2, LibrariesAre DEF FrameOK
  <2>2. PICK n : /\ functions' = AddXCallFunction(functions, n, "lua")
                 /\ refs' = IF n \in DOMAIN functions THEN refs ELSE refs \cup {n}
                 /\ states' = IF n \in DOMAIN functions THEN states ELSE states \cup {n}
    BY <1>2 DEF LuaAddXCallFunction
  <2> QED BY <1>1, <2>1, <2>2 DEF CodeInv, FunctionsOK, FunctionOK, AddXCallFunction, With, Library
<1>3. CASE LuaDelXCallFunction
  <2>1. PICK n : LET found == n \in states \cap refs IN
                 /\ functions' = IF found THEN DelXCallFunction(functions, n) ELSE functions
                 /\ refs' = IF found THEN refs \ {n} ELSE refs
                 /\ states' = IF found THEN states \ {n} ELSE states
    BY <1>3 DEF LuaDelXCallFunction
  <2> QED BY <1>1, <2>1 DEF CodeInv, FunctionsOK, FunctionOK, DelXCallFunction, Without
<1>4. CASE JsAddXCallFunction
  <2>1. (\E n : functions' = AddXCallFunction(functions, n, "js")) /\ UNCHANGED <<refs, states>>
    BY <1>4 DEF JsAddXCallFunction
  <2> QED BY <1>1, <2>1 DEF CodeInv, FunctionsOK, FunctionOK, AddXCallFunction, With, Library
<1>5. CASE JsDelXCallFunction
  <2>1. /\ functions' = functions \/ \E n : functions' = DelXCallFunction(functions, n)
        /\ UNCHANGED <<refs, states>>
    BY <1>5 DEF JsDelXCallFunction
  <2> QED BY <1>1, <2>1 DEF CodeInv, FunctionsOK, FunctionOK, DelXCallFunction, Without
<1> QED BY <1>1, <1>2, <1>3, <1>4, <1>5

-----------------------------------------------------------------------------
(* Loading and unloading at once.                                          *)

LEMMA UnsafeCalls ==
  ASSUME SafeCalls, NEW call \in NamedCalls,
         Unsafe(call), Is(Param(call, "module"), "string"),
         Param(call, "module").string \in Revocable
  PROVE  Param(call, "module").string = "xcall_exec"
<1>1. CASE call \in Calls
  BY <1>1 DEF SafeCalls, Revocable
<1>2. CASE \E n : call = LogCall(n)
  <2>1. PICK n : call = LogCall(n)
    BY <1>2
  <2>2. Param(call, "unsafe") = Null
    BY <2>1 DEF Param, CallStore, LogCall, Call, Child, Is, With, Array
  <2> QED BY <2>2 DEF Unsafe, Is, Null
<1> QED BY <1>1, <1>2 DEF NamedCalls, AllCalls

\* What a call does to the modules that are loaded.
LEMMA CalledModules ==
  ASSUME SafeCalls, NEW frames, NEW call, InvokeXCallByString(frames, call)
  PROVE  \/ UNCHANGED tables
         \/ \E m \in Revocable \ loaded : LoadModule(m)
         \/ "xcall_exec" \in loaded /\ UnloadModule("xcall_exec", FALSE)
<1>1. CASE RequestModule(frames, call)
  BY <1>1 DEF RequestModule
<1>2. CASE RevokeModule(frames, call)
  <2> DEFINE m == Param(call, "module").string
  <2>1. call \in NamedCalls
    BY <1>2 DEF RevokeModule, Reaches
  <2>2. \/ UNCHANGED tables
        \/ /\ Unsafe(call) /\ Is(Param(call, "module"), "string")
           /\ m \in Revocable \cap loaded /\ UnloadModule(m, FALSE)
    BY <1>2 DEF RevokeModule
  <2>3. CASE /\ Unsafe(call) /\ Is(Param(call, "module"), "string")
             /\ m \in Revocable \cap loaded /\ UnloadModule(m, FALSE)
    <3>1. m = "xcall_exec"
      BY <2>1, <2>3, UnsafeCalls
    <3> QED BY <2>3, <3>1
  <2> QED BY <2>2, <2>3
<1>3. CASE ~ RequestModule(frames, call) /\ ~ RevokeModule(frames, call)
  BY <1>3 DEF InvokeXCallByString, InvokeXCall, NoSuchFunction, UnloadedFunction, QueryFunction,
     LogFunction, AttachLog, DetachLog, ExecFunction, LuaFunction, EvaluateLua, JsFunction, Stops
<1> QED BY <1>1, <1>2, <1>3

LEMMA CodeInvHolds ==
  ASSUME SafeCalls
  PROVE  ScriptingSpec => []CodeInv
<1>1. ScriptingInit => CodeInv
  <2> SUFFICES ASSUME ScriptingInit
               PROVE  CodeInv
    OBVIOUS
  <2>1. \A n \in DOMAIN functions :
          \/ functions[n] = "xcall"
          \/ functions[n] = "core" /\ n \in CoreFunctions
          \/ functions[n] = "eval" /\ n \in LuaFunctions
          \/ functions[n] = "exec" /\ n \in ExecFunctions
    <3> DEFINE own == AddAll(<<>>, {"getXCallFunctions"}, "xcall")
               core == Registered(own, "xcall_core")
               lua == Registered(core, "lua")
    <3>1. \A n \in DOMAIN own : own[n] = "xcall"
      BY DEF AddAll
    <3> HIDE DEF own
    <3>2. \A n \in DOMAIN core : core[n] = "xcall" \/ (core[n] = "core" /\ n \in CoreFunctions)
      BY <3>1 DEF Registered, AddAll
    <3> HIDE DEF core
    <3>3. \A n \in DOMAIN lua : \/ lua[n] = "xcall"
                                \/ lua[n] = "core" /\ n \in CoreFunctions
                                \/ lua[n] = "eval" /\ n \in LuaFunctions
      BY <3>2 DEF Registered, AddAll
    <3>4. functions = Registered(lua, "xcall_exec")
      BY DEF ScriptingInit, lua, core, own
    <3> HIDE DEF lua
    <3> QED BY <3>3, <3>4 DEF Registered, AddAll
  <2>2. FunctionsOK
    BY <2>1 DEF ScriptingInit, FunctionsOK, FunctionOK, Library, Modules, Revocable
  <2> QED BY <2>2, NothingRegistered DEF CodeInv
<1>2. ASSUME CodeInv, UNCHANGED tables
      PROVE  FunctionsOK' /\ UNCHANGED loaded
  BY <1>2 DEF CodeInv, FunctionsOK, FunctionOK, tables
<1>3. ASSUME CodeInv, Step, ~ TimeoutFires
      PROVE  CodeInv'
  <2>1. ListenersOK' /\ StackOK(stack', loaded, executing', Waiting')
    BY <1>3, StackKeeps DEF CodeInv
  <2>2. FunctionsOK' /\ CodeOnStack \cap loaded \subseteq loaded'
    <3>1. CASE XCallMade
      <4>1. \/ UNCHANGED tables
            \/ \E m \in Revocable \ loaded : LoadModule(m)
            \/ "xcall_exec" \in loaded /\ UnloadModule("xcall_exec", FALSE)
        BY <3>1, CalledModules DEF XCallMade
      <4>2. CASE \E m \in Revocable \ loaded : LoadModule(m)
        BY <1>3, <4>2, LoadedFunctions DEF CodeInv, LoadModule
      <4>3. CASE "xcall_exec" \in loaded /\ UnloadModule("xcall_exec", FALSE)
        <5>1. "xcall_exec" \in Revocable \cap loaded /\ loaded' = loaded \ {"xcall_exec"}
          BY <4>3 DEF Revocable, UnloadModule
        <5> QED BY <1>3, <4>3, <5>1, UnloadedFunctions DEF CodeInv, CodeOnStack
      <4> QED BY <1>2, <1>3, <4>1, <4>2, <4>3
    <3>2. CASE LuaAddXCallFunction \/ LuaDelXCallFunction \/ JsAddXCallFunction \/ JsDelXCallFunction
      BY <1>3, <3>2, ScriptFunctions
    <3>3. CASE \/ AnswerLogged \/ ListenerAttached \/ LuaCallsByTable \/ ScriptReturns
               \/ CallListener \/ ListenerDone \/ OutsideRuns \/ OutsideLogs
      <4>1. UNCHANGED tables
        BY <3>3 DEF AnswerLogged, ListenerAttached, LuaCallsByTable, ScriptReturns, CallListener,
           ListenerDone, OutsideRuns, OutsideLogs, Stops
      <4> QED BY <1>2, <1>3, <4>1
    <3> QED BY <1>3, <3>1, <3>2, <3>3 DEF Step
  <2> QED BY <2>1, <2>2, StackStays DEF CodeInv
<1>4. ASSUME CodeInv, TimeoutFires
      PROVE  CodeInv'
  <2>1. stack = <<>> /\ StackOK(stack, loaded', executing, Waiting)
    BY <1>4 DEF TimeoutFires, CodeInv, StackOK
  <2>2. ListenersOK' /\ StackOK(stack', loaded', executing', Waiting')
    BY <1>4, <2>1, TimeoutKeeps DEF CodeInv
  <2>3. \/ UNCHANGED tables
        \/ \E m \in Revocable \cap loaded, again \in BOOLEAN : UnloadModule(m, again)
    BY <1>4 DEF TimeoutFires
  <2>4. FunctionsOK'
    BY <1>2, <1>4, <2>3, UnloadedFunctions DEF CodeInv
  <2> QED BY <2>2, <2>4 DEF CodeInv
<1>5. ASSUME CodeInv, UNCHANGED scriptingVars
      PROVE  CodeInv'
  <2>1. UNCHANGED <<tables, listeners, count, stack, executing>>
    BY <1>5 DEF scriptingVars, logging
  <2>2. FunctionsOK' /\ UNCHANGED loaded
    BY <1>2, <1>5, <2>1
  <2> QED BY <1>5, <2>1, <2>2, ListenersStay DEF CodeInv
<1>6. CodeInv /\ [ScriptingNext]_scriptingVars => CodeInv'
  BY <1>3, <1>4, <1>5 DEF ScriptingNext
<1> QED BY <1>1, <1>6, PTL DEF ScriptingSpec

\* No code runs, waits or is registered whose module is not loaded, but what the finalizers
\* of xcall_core and lang_javascript forget.
THEOREM CodeIsLoaded ==
  ASSUME SafeCalls
  PROVE  ScriptingSpec => []CodeLoaded
<1>1. CodeInv => CodeLoaded
  <2> SUFFICES ASSUME CodeInv
               PROVE  CodeLoaded
    OBVIOUS
  <2>1. \A i \in DOMAIN stack : FrameOK(stack[i], loaded)
    BY DEF CodeInv, StackOK
  <2>2. \A i \in DOMAIN stack :
          CASE stack[i].kind = "script" -> Library[stack[i].lang] \in loaded
            [] stack[i].kind = "answer" -> stack[i].library \in loaded
            [] stack[i].kind \in {"listener", "attach"} -> "xcall_core" \in loaded
            [] OTHER -> TRUE
    BY <2>1 DEF FrameOK
  <2>3. \A n \in DOMAIN functions \ {"getActiveModules"} :
          functions[n] = "js" \/ Library[functions[n]] \in loaded
    BY LibrariesAre DEF CodeInv, FunctionsOK, FunctionOK, Library, ListenersOK
  <2> QED BY <2>2, <2>3 DEF CodeLoaded
<1> QED BY <1>1, CodeInvHolds, PTL

\* A name that leads to the Lua bridge leads to the Lua state and its function.
THEOREM BridgeIsFound ==
  ASSUME SafeCalls
  PROVE  ScriptingSpec => []BridgeFound
<1>1. CodeInv => BridgeFound
  BY DEF CodeInv, FunctionsOK, FunctionOK, BridgeFound
<1> QED BY <1>1, CodeInvHolds, PTL

-----------------------------------------------------------------------------
(* What an answer says.                                                    *)

IsArray(v) == DOMAIN v = {"array"}
IsResult(v) == IsArray(v) \/ Is(v, "null")

\* A copy of m, or m merged into another array.
Copy(v, m) == v = ClonedStore(m) \/ \E t : IsArray(t) /\ v = MergedStore(t, m)

LEMMA ChildOfArray ==
  ASSUME NEW v, IsArray(v), NEW k \in DOMAIN v.array
  PROVE  Child(v, k) = v.array[k]
BY DEF Child, IsArray, Is

LEMMA CopyIsArray ==
  ASSUME StoresMerge, NEW m, IsArray(m), NEW v, Copy(v, m)
  PROVE  IsArray(v)
<1>1. Is(m, "array")
  BY DEF IsArray, Is
<1>2. CASE v = ClonedStore(m)
  BY <1>1, <1>2 DEF StoresMerge, ClonedArray, IsArray, Array
<1>3. ASSUME NEW t, IsArray(t), v = MergedStore(t, m)
      PROVE  IsArray(v)
  <2>1. Mergeable(t, m) /\ Is(t, "array")
    BY <1>3 DEF Mergeable, Leaf, IsArray, Is
  <2>2. \E f : v = Array(f)
    BY <1>3, <2>1 DEF StoresMerge, MergedArray
  <2> QED BY <2>2 DEF IsArray, Array
<1> QED BY <1>2, <1>3 DEF Copy

LEMMA CopyKeeps ==
  ASSUME StoresMerge, NEW m, IsArray(m), NEW v, Copy(v, m), NEW k \in DOMAIN m.array
  PROVE  /\ IsArray(v) /\ k \in DOMAIN v.array
         /\ Leaf(m.array[k]) => v.array[k] = m.array[k]
         /\ IsArray(m.array[k]) => Copy(v.array[k], m.array[k])
<1> DEFINE w == m.array[k]
<1>1. Is(m, "array") /\ (Leaf(w) => ClonedStore(w) = w)
  BY DEF IsArray, Is, Leaf, StoresMerge
<1>2. CASE v = ClonedStore(m)
  <2>1. v = Array([j \in DOMAIN m.array |-> ClonedStore(m.array[j])])
    BY <1>1, <1>2 DEF StoresMerge, ClonedArray
  <2> QED BY <1>1, <2>1 DEF IsArray, Array, Copy
<1>3. ASSUME NEW t, IsArray(t), v = MergedStore(t, m)
      PROVE  /\ IsArray(v) /\ k \in DOMAIN v.array
             /\ Leaf(w) => v.array[k] = w
             /\ IsArray(w) => Copy(v.array[k], w)
  <2>1. Mergeable(t, m) /\ Is(t, "array")
    BY <1>3 DEF Mergeable, Leaf, IsArray, Is
  <2>2. v = MergedArray(t, m)
    BY <1>3, <2>1 DEF StoresMerge
  <2>3. IsArray(v) /\ k \in DOMAIN v.array
    BY <2>2 DEF MergedArray, IsArray, Array
  <2>4. v.array[k] = IF k \in DOMAIN t.array /\ Mergeable(t.array[k], w)
                     THEN MergedStore(t.array[k], w) ELSE ClonedStore(w)
    BY <2>2 DEF MergedArray, Array
  <2>5. Mergeable(t.array[k], w) => ~ Leaf(w) /\ (IsArray(w) => IsArray(t.array[k]))
    BY DEF Mergeable, Leaf, Is, IsArray
  <2> HIDE DEF w
  <2> QED BY <1>1, <2>3, <2>4, <2>5 DEF Copy
<1> QED BY <1>2, <1>3 DEF Copy

LEMMA FormsOfCalls ==
  ASSUME NEW call \in AllCalls
  PROVE  call.form \in Forms /\ "xcall" \notin DOMAIN call.args.array
BY ScriptingAssumption DEF AllCalls, LogCall, Call, Forms, Array

\* The meta data of a call.
LEMMA MetaSays ==
  ASSUME StoresMerge, NEW call \in AllCalls
  PROVE  LET said == Metas[call].array["xcall"] IN
         /\ IsArray(Metas[call]) /\ DOMAIN Metas[call].array = {"xcall"} /\ IsArray(said)
         /\ "params" \in DOMAIN said.array /\ IsArray(said.array["params"])
         /\ call.form \in {"direct", "meta"} =>
              "function" \in DOMAIN said.array /\ said.array["function"] = Str(call.name)
         /\ \A k \in DOMAIN call.args.array :
              /\ k \in DOMAIN said.array["params"].array
              /\ Leaf(call.args.array[k]) => said.array["params"].array[k] = call.args.array[k]
<1> DEFINE store == CallStore(call)
           name == FunctionOf(store)
           given == Array(Without(store.array, "xcall"))
           meta == Metas[call]
           said == meta.array["xcall"]
<1>1. /\ IsArray(store) /\ DOMAIN store.array = DOMAIN call.args.array \cup {"xcall"}
      /\ \A k \in DOMAIN call.args.array : store.array[k] = call.args.array[k]
  BY FormsOfCalls DEF CallStore, Array, With, IsArray
<1>2. store.array["xcall"] = CASE call.form = "direct" -> Str(call.name)
                               [] call.form = "meta" -> Array([k \in {"function"} |-> Str(call.name)])
                               [] OTHER -> EmptyArray
  BY DEF CallStore, Array, With
<1>3. /\ IsArray(given) /\ DOMAIN given.array = DOMAIN call.args.array
      /\ \A k \in DOMAIN call.args.array : given.array[k] = call.args.array[k]
  BY <1>1, FormsOfCalls DEF Array, Without, IsArray
<1>4. call.form \in {"direct", "meta"} => name = Str(call.name)
  <2>1. Child(store, "xcall") = store.array["xcall"]
    BY <1>1, ChildOfArray
  <2>2. CASE call.form = "direct"
    <3>1. Child(store, "xcall") = Str(call.name)
      BY <1>2, <2>1, <2>2
    <3> QED BY <3>1 DEF FunctionOf, Is, Str
  <2>3. CASE call.form = "meta"
    <3>1. Child(store, "xcall") = Array([k \in {"function"} |-> Str(call.name)])
      BY <1>2, <2>1, <2>3
    <3> HIDE DEF store
    <3> QED BY <3>1 DEF FunctionOf, Is, Array, Said, Child
  <2> QED BY <2>2, <2>3
<1>5. meta = MetaOf(store, name)
  BY DEF Metas, Meta
<1> HIDE DEF store, name
<1>6. /\ IsArray(meta) /\ DOMAIN meta.array = {"xcall"} /\ IsArray(said)
      /\ said.array = With(IF Is(name, "string") THEN [k \in {"function"} |-> name] ELSE EmptyArray.array,
                           "params", ClonedStore(given))
  BY <1>5 DEF MetaOf, Array, IsArray, given
<1>7. "params" \in DOMAIN said.array /\ said.array["params"] = ClonedStore(given)
  BY <1>6 DEF With
<1>8. Copy(ClonedStore(given), given)
  BY DEF Copy
<1>9. IsArray(ClonedStore(given))
  BY <1>3 DEF StoresMerge, ClonedArray, IsArray, Is, Array
<1>10. call.form \in {"direct", "meta"} =>
         "function" \in DOMAIN said.array /\ said.array["function"] = Str(call.name)
  BY <1>4, <1>6 DEF With, Is, Str
<1> HIDE DEF given, said, meta
<1>11. \A k \in DOMAIN call.args.array :
         /\ k \in DOMAIN ClonedStore(given).array
         /\ Leaf(call.args.array[k]) => ClonedStore(given).array[k] = call.args.array[k]
  BY <1>3, <1>8, CopyKeeps
<1> QED BY <1>6, <1>7, <1>9, <1>10, <1>11 DEF said, meta

\* invokeXCall's answer belongs to the call, whatever store the function returned.
LEMMA AnswerBelongs ==
  ASSUME StoresMerge, NEW call \in AllCalls, call.form # "broken", NEW result, IsResult(result)
  PROVE  IsArray(Answer(Metas[call], result)) /\ Belongs(call, Answer(Metas[call], result))
<1> DEFINE meta == Metas[call]
           said == meta.array["xcall"]
           v == Answer(meta, result)
<1>1. /\ IsArray(meta) /\ DOMAIN meta.array = {"xcall"} /\ IsArray(said)
      /\ "params" \in DOMAIN said.array /\ IsArray(said.array["params"])
      /\ call.form # "unnamed" =>
           "function" \in DOMAIN said.array /\ said.array["function"] = Str(call.name)
      /\ \A k \in DOMAIN call.args.array :
           /\ k \in DOMAIN said.array["params"].array
           /\ Leaf(call.args.array[k]) => said.array["params"].array[k] = call.args.array[k]
  BY MetaSays, FormsOfCalls DEF Forms
<1> HIDE DEF meta
<1>2. ASSUME IsArray(v), Is(v, "array"), "xcall" \in DOMAIN v.array, IsArray(v.array["xcall"]),
             call.form # "unnamed" =>
               /\ "function" \in DOMAIN v.array["xcall"].array
               /\ v.array["xcall"].array["function"] = Str(call.name),
             "params" \in DOMAIN v.array["xcall"].array,
             IsArray(v.array["xcall"].array["params"]),
             \A k \in DOMAIN call.args.array :
               /\ k \in DOMAIN v.array["xcall"].array["params"].array
               /\ Leaf(call.args.array[k]) =>
                    v.array["xcall"].array["params"].array[k] = call.args.array[k]
      PROVE  IsArray(v) /\ Belongs(call, v)
  <2>1. Child(v, "xcall") = v.array["xcall"] /\ Is(v.array["xcall"], "array")
    BY <1>2, ChildOfArray DEF IsArray, Is
  <2>2. Said(v, "params") = v.array["xcall"].array["params"]
        /\ (call.form # "unnamed" => Said(v, "function") = Str(call.name))
    BY <1>2, <2>1, ChildOfArray DEF Said
  <2> QED BY <1>2, <2>2 DEF Belongs, IsArray, Is
<1>3. CASE Is(result, "null")
  <2>1. v = Array(With(meta.array, "xcall", Array(With(said.array, "error", Error))))
    BY <1>3 DEF Answer, PutMeta, Put
  <2>2. IsArray(v) /\ Is(v, "array") /\ "xcall" \in DOMAIN v.array
        /\ v.array["xcall"] = Array(With(said.array, "error", Error))
    BY <2>1 DEF IsArray, Is, Array, With
  <2>3. /\ IsArray(v.array["xcall"])
        /\ \A k \in DOMAIN said.array \ {"error"} :
             /\ k \in DOMAIN v.array["xcall"].array
             /\ v.array["xcall"].array[k] = said.array[k]
    BY <2>2 DEF IsArray, Array, With
  <2> HIDE DEF v, said
  <2>4. IsArray(v) /\ Belongs(call, v)
    BY <1>1, <1>2, <2>2, <2>3
  <2> QED BY <2>4 DEF v, said, meta
<1>4. CASE ~ Is(result, "null")
  <2>1. Copy(v, meta) /\ IsArray(result)
    BY <1>4 DEF Answer, Copy, IsResult
  <2> HIDE DEF v
  <2>2. IsArray(v) /\ "xcall" \in DOMAIN v.array /\ Copy(v.array["xcall"], said)
    BY <1>1, <2>1, CopyKeeps
  <2>3. "params" \in DOMAIN v.array["xcall"].array /\ IsArray(v.array["xcall"])
        /\ Copy(v.array["xcall"].array["params"], said.array["params"])
    BY <1>1, <2>2, CopyKeeps
  <2>4. Leaf(Str(call.name))
    BY DEF Leaf, Is, Str
  <2>5. call.form # "unnamed" =>
          /\ "function" \in DOMAIN v.array["xcall"].array
          /\ v.array["xcall"].array["function"] = Str(call.name)
    BY <1>1, <2>2, <2>4, CopyKeeps
  <2>6. IsArray(v.array["xcall"].array["params"])
    BY <1>1, <2>3, CopyIsArray
  <2>7. \A k \in DOMAIN call.args.array :
          /\ k \in DOMAIN v.array["xcall"].array["params"].array
          /\ Leaf(call.args.array[k]) =>
               v.array["xcall"].array["params"].array[k] = call.args.array[k]
    BY <1>1, <2>3, CopyKeeps
  <2>8. Is(v, "array")
    BY <2>2 DEF IsArray, Is
  <2>9. IsArray(v) /\ Belongs(call, v)
    BY <1>2, <2>2, <2>3, <2>5, <2>6, <2>7, <2>8
  <2> QED BY <2>9 DEF v, meta
<1> QED BY <1>3, <1>4

-----------------------------------------------------------------------------
(* Every frame that answers is above the one that asked.                   *)

AnsweringKinds == {"script", "answer", "attach"}

\* A message's listeners, some of them freed.
Queue == Seq(Listening \cup {"freed"})

AnswerFrame(f) ==
  /\ "kind" \in DOMAIN f
  /\ f.kind \in AnsweringKinds => "call" \in DOMAIN f
  /\ f.kind = "script" =>
       /\ {"asked", "got"} \subseteq DOMAIN f
       /\ f.got # NoAnswer =>
            IsArray(f.got) /\ (f.asked.form # "broken" => Belongs(f.asked, f.got))
  /\ f.kind = "answer" => "result" \in DOMAIN f /\ IsResult(f.result)
  /\ f.kind = "log" => "rest" \in DOMAIN f /\ f.rest \in Queue
  /\ f.kind = "listener" => "name" \in DOMAIN f /\ f.name \in Listening

\* The top of a stack that a call is made on.
Asks(f, call) ==
  call \in AllCalls /\ call.form # "broken" /\ (f.kind = "script" => f.asked = call)
Asker(s, call) == s # <<>> => Asks(s[Len(s)], call)

CallsOK(s) ==
  /\ \E T : s \in Seq(T)
  /\ \A i \in 1..Len(s) : AnswerFrame(s[i])
  /\ \A i \in 2..Len(s) : s[i].kind \in AnsweringKinds => Asks(s[i - 1], s[i].call)

LEMMA CallsPush ==
  ASSUME NEW s, CallsOK(s), NEW f, AnswerFrame(f), f.kind \in AnsweringKinds => Asker(s, f.call)
  PROVE  CallsOK(Append(s, f))
<1> DEFINE a == Append(s, f)
<1>1. PICK T : s \in Seq(T)
  BY DEF CallsOK
<1>2. /\ a \in Seq(T \cup {f}) /\ Len(s) \in Nat /\ Len(a) = Len(s) + 1 /\ a[Len(s) + 1] = f
      /\ \A i \in 1..Len(s) : a[i] = s[i]
      /\ s = <<>> <=> Len(s) = 0
  BY <1>1
<1> HIDE DEF a
<1>3. \A i \in 1..Len(a) : i \in 1..Len(s) \/ i = Len(s) + 1
  BY <1>2
<1>4. \A i \in 1..Len(a) : AnswerFrame(a[i])
  BY <1>2, <1>3 DEF CallsOK
<1>5. ASSUME NEW i \in 2..Len(a), a[i].kind \in AnsweringKinds
      PROVE  Asks(a[i - 1], a[i].call)
  <2>1. CASE i \in 2..Len(s)
    BY <1>2, <1>5, <2>1 DEF CallsOK
  <2>2. CASE i = Len(s) + 1
    BY <1>2, <1>5, <2>2 DEF Asker
  <2> QED BY <1>2, <2>1, <2>2
<1>6. CallsOK(a)
  BY <1>2, <1>4, <1>5 DEF CallsOK
<1> QED BY <1>6 DEF a

LEMMA CallsPop ==
  ASSUME NEW s, CallsOK(s), s # <<>>
  PROVE  /\ CallsOK(Front(s)) /\ AnswerFrame(Last(s)) /\ Last(s) = s[Len(s)]
         /\ Last(s).kind \in AnsweringKinds => Asker(Front(s), Last(s).call)
<1> DEFINE a == Front(s)
<1>1. PICK T : s \in Seq(T)
  BY DEF CallsOK
<1>2. /\ a \in Seq(T) /\ Len(s) \in Nat \ {0} /\ Len(a) = Len(s) - 1 /\ s[Len(s)] = Last(s)
      /\ \A i \in 1..(Len(s) - 1) : a[i] = s[i]
      /\ a = <<>> <=> Len(a) = 0
  BY <1>1, FrontFacts DEF Last
<1> HIDE DEF a
<1>3. CallsOK(a) /\ AnswerFrame(Last(s))
  BY <1>2 DEF CallsOK
<1>4. Last(s).kind \in AnsweringKinds => Asker(a, Last(s).call)
  BY <1>2 DEF CallsOK, Asker
<1> QED BY <1>2, <1>3, <1>4 DEF a

LEMMA CallsTold ==
  ASSUME NEW s, CallsOK(s), s # <<>>, NEW f, AnswerFrame(f), f.kind = Last(s).kind,
         f.kind \in AnsweringKinds => f.call = Last(s).call
  PROVE  CallsOK(Append(Front(s), f))
BY CallsPop, CallsPush

LEMMA CallsHand ==
  ASSUME NEW s, CallsOK(s), NEW v, IsArray(v),
         s # <<>> /\ Last(s).kind = "script" /\ Last(s).asked.form # "broken" =>
           Belongs(Last(s).asked, v)
  PROVE  CallsOK(Hand(s, v))
<1>1. CASE s = <<>>
  BY <1>1 DEF Hand
<1>2. CASE s # <<>>
  <2> DEFINE f == [Last(s) EXCEPT !.got = v]
  <2>1. AnswerFrame(Last(s))
    BY <1>2, CallsPop
  <2>2. /\ DOMAIN f = DOMAIN Last(s)
        /\ \A k \in DOMAIN Last(s) \ {"got"} : f[k] = Last(s)[k]
        /\ "got" \in DOMAIN Last(s) => f["got"] = v
    OBVIOUS
  <2>3. f.kind = Last(s).kind /\ (f.kind \in AnsweringKinds => f.call = Last(s).call)
    BY <2>1, <2>2 DEF AnswerFrame
  <2>4. AnswerFrame(f)
    <3> HIDE DEF f
    <3> QED BY <1>2, <2>1, <2>2, <2>3 DEF AnswerFrame
  <2> HIDE DEF f
  <2>5. CallsOK(Append(Front(s), f))
    BY <1>2, <2>3, <2>4, CallsTold
  <2> QED BY <1>2, <2>5 DEF Hand, f
<1> QED BY <1>1, <1>2

LEMMA CallsDeliver ==
  ASSUME StoresMerge, NEW s, CallsOK(s), NEW call, Asker(s, call), NEW result, IsResult(result)
  PROVE  CallsOK(Deliver(s, call, result))
<1>1. CASE s = <<>>
  BY <1>1 DEF Deliver, Hand
<1>2. CASE s # <<>>
  <2>1. Asks(Last(s), call)
    BY <1>2, CallsPop DEF Asker
  <2>2. IsArray(Answer(Metas[call], result)) /\ Belongs(call, Answer(Metas[call], result))
    BY <2>1, AnswerBelongs DEF Asks
  <2> QED BY <2>1, <2>2, CallsHand DEF Deliver, Asks
<1> QED BY <1>1, <1>2

LEMMA CallsMessage ==
  ASSUME NEW s, CallsOK(s), NEW names \in Queue, NEW how, NEW busy
  PROVE  CallsOK(s \o LogMessage(names, how, busy))
<1> DEFINE f == [kind |-> "log", rest |-> names]
<1>1. PICK T : s \in Seq(T)
  BY DEF CallsOK
<1>2. CASE LogMessage(names, how, busy) = <<>>
  BY <1>1, <1>2
<1>3. CASE LogMessage(names, how, busy) = <<f>>
  <2>1. AnswerFrame(f) /\ f.kind \notin AnsweringKinds
    BY DEF AnswerFrame, AnsweringKinds
  <2>2. CallsOK(Append(s, f)) /\ s \o <<f>> = Append(s, f)
    BY <1>1, <2>1, CallsPush
  <2> QED BY <1>3, <2>2
<1> QED BY <1>2, <1>3 DEF LogMessage

LEMMA CallsAnswer ==
  ASSUME StoresMerge, NEW s, CallsOK(s), NEW call, Asker(s, call), NEW result, IsResult(result),
         NEW names \in Queue, NEW how, NEW busy, NEW library
  PROVE  CallsOK(Answering(s, call, result, LogMessage(names, how, busy), library))
<1> DEFINE f == [kind |-> "answer", call |-> call, result |-> result, library |-> library]
<1>1. CASE LogMessage(names, how, busy) = <<>>
  BY <1>1, CallsDeliver DEF Answering
<1>2. CASE LogMessage(names, how, busy) # <<>>
  <2>1. AnswerFrame(f) /\ f.call = call
    BY DEF AnswerFrame
  <2>2. CallsOK(Append(s, f))
    BY <2>1, CallsPush
  <2>3. CallsOK(Append(s, f) \o LogMessage(names, how, busy))
    BY <2>2, CallsMessage
  <2> QED BY <1>2, <2>3 DEF Answering
<1> QED BY <1>1, <1>2

LEMMA CallsScript ==
  ASSUME NEW s, CallsOK(s), NEW call, Asker(s, call), NEW lang
  PROVE  CallsOK(Append(s, Script(lang, call)))
<1>1. AnswerFrame(Script(lang, call)) /\ Script(lang, call).call = call
  BY DEF AnswerFrame, Script
<1> QED BY <1>1, CallsPush

LEMMA CallsFree ==
  ASSUME NEW s, CallsOK(s), NEW name
  PROVE  CallsOK(Free(s, name)) /\ \A call : Asker(s, call) => Asker(Free(s, name), call)
<1> DEFINE t == Free(s, name)
<1>1. PICK T : s \in Seq(T)
  BY DEF CallsOK
<1>2. DOMAIN s = 1..Len(s) /\ Len(s) \in Nat
  BY <1>1
<1>3. ASSUME NEW i \in 1..Len(s)
      PROVE  AnswerFrame(t[i]) /\ t[i].kind = s[i].kind /\ (t[i].kind \in AnsweringKinds => t[i] = s[i])
  <2>1. AnswerFrame(s[i])
    BY DEF CallsOK
  <2> DEFINE q == s[i].rest
             rest == [j \in DOMAIN q |-> IF q[j] = name THEN "freed" ELSE q[j]]
  <2>2. \/ t[i] = s[i]
        \/ s[i].kind = "log" /\ t[i] = [s[i] EXCEPT !.rest = rest]
        \/ s[i].kind = "listener" /\ \E v : t[i] = [s[i] EXCEPT !.freed = v]
    BY <1>2 DEF Free
  <2>3. s[i].kind = "log" => rest \in Queue
    <3> SUFFICES ASSUME s[i].kind = "log"
                 PROVE  rest \in Queue
      OBVIOUS
    <3>1. q \in Queue
      BY <2>1 DEF AnswerFrame
    <3> HIDE DEF q
    <3>2. DOMAIN q = 1..Len(q) /\ Len(q) \in Nat
          /\ \A j \in DOMAIN q : q[j] \in Listening \cup {"freed"}
      BY <3>1 DEF Queue
    <3> QED BY <3>2 DEF Queue
  <2> HIDE DEF t, rest
  <2>4. CASE s[i].kind = "log" /\ t[i] = [s[i] EXCEPT !.rest = rest]
    BY <2>1, <2>3, <2>4 DEF AnswerFrame, AnsweringKinds
  <2>5. CASE s[i].kind = "listener" /\ \E v : t[i] = [s[i] EXCEPT !.freed = v]
    BY <2>1, <2>5 DEF AnswerFrame, AnsweringKinds
  <2> QED BY <2>1, <2>2, <2>4, <2>5
<1>4. t \in Seq({t[i] : i \in 1..Len(s)}) /\ Len(t) = Len(s)
  BY <1>2 DEF Free
<1> HIDE DEF t
<1>5. \A i \in 2..Len(s) : i - 1 \in 1..Len(s) /\ i \in 1..Len(s)
  BY <1>2
<1>6. \A i \in 1..Len(s) : \A call : Asks(s[i], call) => Asks(t[i], call)
  BY <1>3 DEF Asks, AnsweringKinds
<1>7. CallsOK(t)
  BY <1>3, <1>4, <1>5, <1>6 DEF CallsOK
<1>8. (t # <<>> => s # <<>>) /\ (s # <<>> => Len(s) \in 1..Len(s))
  BY <1>1, <1>4
<1>9. \A call : Asker(s, call) => Asker(t, call)
  BY <1>4, <1>6, <1>8 DEF Asker
<1> QED BY <1>7, <1>9 DEF t

-----------------------------------------------------------------------------
(* The calls, and what they are answered.                                  *)

LEMMA ResultsAre ==
  /\ \A v, key, w : IsArray(Put(v, key, w)) /\ IsArray(PutMeta(v, key, w))
  /\ \A n : IsArray(Success(n))
  /\ IsArray(Unread) /\ IsArray(NewResult) /\ IsArray(ErrorResult) /\ IsArray(EmptyArray)
  /\ IsResult(Null) /\ \A v : IsArray(v) => IsResult(v)
BY DEF Put, PutMeta, Success, Unread, NewResult, ErrorResult, EmptyArray, Array, IsArray, IsResult,
       Null, Is

LEMMA QueriesAnswer ==
  ASSUME NEW call
  PROVE  IsResult(Query(call))
<1>1. IsArray(GetModuleInfo(call))
  BY ResultsAre DEF GetModuleInfo
<1>2. IsArray(GetModuleList(call))
  BY ResultsAre DEF GetModuleList
<1>3. IsArray(GetModuleReferenceCount(call))
  BY ResultsAre DEF GetModuleReferenceCount
<1>4. IsArray(GetActiveModules) /\ IsArray(IsModuleLoaded(call)) /\ IsArray(GetXCallFunctions(functions))
  BY ResultsAre DEF GetActiveModules, IsModuleLoaded, GetXCallFunctions
<1> QED BY <1>1, <1>2, <1>3, <1>4, ResultsAre DEF Query

LEMMA CallsAttached ==
  ASSUME NEW s, CallsOK(s), NEW call, Asker(s, call)
  PROVE  CallsOK(Append(s, [kind |-> "attach", call |-> call]))
<1> DEFINE f == [kind |-> "attach", call |-> call]
<1>1. AnswerFrame(f) /\ f.call = call
  BY DEF AnswerFrame
<1> QED BY <1>1, CallsPush

\* Who listens was named in a call.
LEMMA ListenerNamed ==
  ASSUME NEW call \in AllCalls, Is(Param(call, "listener"), "string")
  PROVE  Param(call, "listener").string \in Listening
<1>1. DOMAIN CallStore(call) = {"array"}
      /\ DOMAIN CallStore(call).array = DOMAIN call.args.array \cup {"xcall"}
      /\ \A k \in DOMAIN call.args.array \ {"xcall"} : CallStore(call).array[k] = call.args.array[k]
  BY DEF CallStore, Array, With
<1>2. CASE "listener" \in DOMAIN call.args.array
  <2>1. Param(call, "listener") = call.args.array["listener"]
    BY <1>1, <1>2, ChildOfArray DEF Param, IsArray
  <2>2. call \in Calls
    BY <1>2 DEF AllCalls, LogCall, Call, Array
  <2> QED BY <1>2, <2>1, <2>2 DEF Listening
<1>3. CASE "listener" \notin DOMAIN call.args.array
  BY <1>1, <1>3 DEF Param, Child, Is, Null
<1> QED BY <1>2, <1>3

LEMMA NamesStay ==
  ASSUME listeners \in Seq(Listening)
  PROVE  /\ listeners \in Queue /\ <<>> \in Seq(Listening)
         /\ \A n : DetachListener(n) => listeners' \in Seq(Listening)
         /\ \A m, again : UnloadModule(m, again) => listeners' \in Seq(Listening)
<1>1. ASSUME NEW n, DetachListener(n)
      PROVE  listeners' \in Seq(Listening)
  <2>1. CASE n \notin Range(listeners)
    BY <1>1, <2>1 DEF DetachListener
  <2>2. CASE n \in Range(listeners)
    <3>1. PlaceOf(n) \in 1..Len(listeners)
      BY <2>2 DEF PlaceOf, Range
    <3>2. listeners' = RemoveAt(listeners, PlaceOf(n))
      BY <1>1, <2>2 DEF DetachListener
    <3> QED BY <3>1, <3>2, RemoveAtFacts
  <2> QED BY <2>1, <2>2
<1>2. listeners \in Queue
  BY DEF Queue
<1>3. ASSUME NEW m, NEW again, UnloadModule(m, again)
      PROVE  listeners' \in Seq(Listening)
  <2>1. listeners' = <<>> \/ listeners' = listeners
    BY <1>3 DEF UnloadModule
  <2>2. <<>> \in Seq(Listening)
    OBVIOUS
  <2> QED BY <2>1, <2>2
<1> QED BY <1>1, <1>2, <1>3

AnswersInv == CallsOK(stack) /\ listeners \in Seq(Listening)

LEMMA CallsName ==
  ASSUME listeners \in Seq(Listening), NEW call \in AllCalls, NEW frames,
         InvokeXCallByString(frames, call)
  PROVE  listeners' \in Seq(Listening)
<1>1. CASE AttachLog(frames, call)
  <2>1. \/ UNCHANGED listeners
        \/ Is(Param(call, "listener"), "string")
           /\ listeners' = Append(listeners, Param(call, "listener").string)
    BY <1>1 DEF AttachLog, AttachListener
  <2> QED BY <2>1, ListenerNamed
<1>2. CASE DetachLog(frames, call)
  BY <1>2, NamesStay DEF DetachLog
<1>3. CASE RequestModule(frames, call)
  BY <1>3 DEF RequestModule, LoadModule
<1>4. CASE RevokeModule(frames, call)
  BY <1>4, NamesStay DEF RevokeModule
<1>5. CASE ~ \/ AttachLog(frames, call) \/ DetachLog(frames, call)
             \/ RequestModule(frames, call) \/ RevokeModule(frames, call)
  BY <1>5 DEF InvokeXCallByString, InvokeXCall, NoSuchFunction, UnloadedFunction, QueryFunction,
     LogFunction, ExecFunction, LuaFunction, EvaluateLua, JsFunction, Stops, logging
<1> QED BY <1>1, <1>2, <1>3, <1>4, <1>5

LEMMA CallsInvoked ==
  ASSUME StoresMerge, AnswersInv, NEW frames, CallsOK(frames), NEW call \in AllCalls,
         frames # <<>> => (frames[Len(frames)].kind = "script" => frames[Len(frames)].asked = call),
         InvokeXCallByString(frames, call)
  PROVE  AnswersInv'
<1>1. listeners' \in Seq(Listening) /\ listeners' \in Queue /\ listeners \in Queue /\ CallsOK(stack)
  BY CallsName DEF AnswersInv, Queue
<1>2. CASE call.form = "broken" /\ stack' = Hand(frames, ErrorResult)
  <2>1. frames # <<>> /\ Last(frames).kind = "script" => Last(frames).asked = call
    BY CallsPop
  <2> QED BY <1>1, <1>2, <2>1, ResultsAre, CallsHand DEF AnswersInv
<1>3. CASE call.form # "broken" /\ InvokeXCall(frames, call)
  <2>1. Asker(frames, call)
    BY <1>3 DEF Asker, Asks
  <2>2. \A result : IsResult(result) =>
          /\ CallsOK(Deliver(frames, call, result))
          /\ \A library : CallsOK(Answering(frames, call, result, Logged, library))
    BY <1>1, <2>1, CallsDeliver, CallsAnswer DEF Logged
  <2>3. CASE NoSuchFunction(frames, call)
    BY <1>1, <2>2, <2>3, ResultsAre DEF NoSuchFunction, AnswersInv
  <2>4. CASE UnloadedFunction(call)
    BY <1>1, <2>4 DEF UnloadedFunction, Stops, AnswersInv
  <2>5. CASE QueryFunction(frames, call)
    BY <1>1, <2>2, <2>5, QueriesAnswer DEF QueryFunction, AnswersInv
  <2>6. CASE LogFunction(frames, call)
    BY <1>1, <2>2, <2>6, ResultsAre DEF LogFunction, AnswersInv
  <2>7. CASE RequestModule(frames, call)
    BY <1>1, <2>2, <2>7, ResultsAre DEF RequestModule, AnswersInv
  <2>8. CASE RevokeModule(frames, call)
    BY <1>1, <2>2, <2>8, ResultsAre DEF RevokeModule, AnswersInv
  <2>9. CASE AttachLog(frames, call)
    <3> DEFINE a == Append(frames, [kind |-> "attach", call |-> call])
    <3>1. \/ \E result : IsResult(result) /\ stack' = Deliver(frames, call, result)
          \/ stack' = a \o LogMessage(listeners', handler', executing)
          \/ stack' = a \o <<>>
      BY <2>9, ResultsAre DEF AttachLog, AttachListener
    <3>2. CallsOK(a)
      BY <2>1, CallsAttached
    <3> HIDE DEF a
    <3>3. a \o <<>> = a
      BY <3>2 DEF CallsOK
    <3> QED BY <1>1, <2>2, <3>1, <3>2, <3>3, CallsMessage DEF AnswersInv
  <2>10. CASE DetachLog(frames, call)
    <3>1. \/ \E result : IsResult(result) /\ stack' = Deliver(frames, call, result)
          \/ \E n, result :
               /\ IsResult(result)
               /\ stack' = Answering(Free(frames, n), call, result,
                                     LogMessage(listeners', handler', executing), "xcall_core")
      BY <2>10, ResultsAre DEF DetachLog
    <3>2. \A n : CallsOK(Free(frames, n)) /\ Asker(Free(frames, n), call)
      BY <2>1, CallsFree
    <3> QED BY <1>1, <2>2, <3>1, <3>2, CallsAnswer DEF AnswersInv
  <2>11. CASE ExecFunction(frames, call)
    <3>1. stack' = stack \/ \E result : IsResult(result) /\ stack' = Deliver(frames, call, result)
      BY <2>11, ResultsAre DEF ExecFunction, Stops
    <3> QED BY <1>1, <2>2, <3>1 DEF AnswersInv
  <2>12. CASE LuaFunction(frames, call)
    BY <1>1, <2>1, <2>12, CallsScript DEF LuaFunction, AnswersInv
  <2>13. CASE EvaluateLua(frames, call)
    BY <1>1, <2>1, <2>2, <2>13, CallsScript, ResultsAre DEF EvaluateLua, AnswersInv
  <2>14. CASE JsFunction(frames, call)
    <3>1. \/ stack' = stack \/ stack' = Deliver(frames, call, ErrorResult)
          \/ stack' = Append(frames, Script("js", call))
      BY <2>14 DEF JsFunction, Stops
    <3> QED BY <1>1, <2>1, <2>2, <3>1, CallsScript, ResultsAre DEF AnswersInv
  <2> QED BY <1>3, <2>3, <2>4, <2>5, <2>6, <2>7, <2>8, <2>9, <2>10, <2>11, <2>12, <2>13, <2>14
          DEF InvokeXCall
<1> QED BY <1>2, <1>3 DEF InvokeXCallByString

LEMMA CallsMade ==
  ASSUME StoresMerge, AnswersInv, XCallMade
  PROVE  AnswersInv'
<1> USE DEF AnswersInv
<1>1. PICK i \in LuaCalls \cup JsCalls \cup OutsideCalls \cup ListenerCalls :
        InvokeXCallByString(i.frames, i.call)
  BY DEF XCallMade
<1>2. \/ Running("script") /\ i.frames = Asking(i.call) /\ i.call \in Callable
      \/ i.frames = <<>> /\ i.call \in Calls
      \/ Running("listener") /\ i.frames = stack /\ i.call = LogCall(Top.name)
  BY DEF LuaCalls, JsCalls, OutsideCalls, ListenerCalls, ScriptCalls, Invocation
<1> DEFINE frames == i.frames
           call == i.call
<1>3. /\ CallsOK(frames) /\ call \in AllCalls
      /\ frames # <<>> => (frames[Len(frames)].kind = "script" => frames[Len(frames)].asked = call)
  <2>1. CASE Running("script") /\ frames = Asking(call) /\ call \in Callable
    <3> DEFINE f == [Last(stack) EXCEPT !.asked = call, !.got = NoAnswer]
    <3>1. stack # <<>> /\ Last(stack).kind = "script" /\ AnswerFrame(Last(stack))
      BY <2>1, CallsPop DEF Running, Top
    <3>2. AnswerFrame(f) /\ f.kind = Last(stack).kind /\ f.call = Last(stack).call /\ f.asked = call
      BY <3>1 DEF AnswerFrame, AnsweringKinds
    <3>3. frames = Append(Front(stack), f)
      BY <2>1 DEF Asking, Below, Top
    <3> HIDE DEF f
    <3>4. CallsOK(Append(Front(stack), f))
      BY <3>1, <3>2, CallsTold
    <3>5. LET a == Append(Front(stack), f) IN a[Len(a)] = f
      <4>1. \E T : Front(stack) \in Seq(T)
        BY <3>1, CallsPop DEF CallsOK
      <4> QED BY <4>1
    <3> QED BY <2>1, <3>2, <3>3, <3>4, <3>5, ScriptingAssumption DEF Callable, AllCalls
  <2>2. CASE frames = <<>> /\ call \in Calls
    <3>1. CallsOK(<<>>)
      BY DEF CallsOK
    <3> QED BY <2>2, <3>1 DEF AllCalls
  <2>3. CASE Running("listener") /\ frames = stack /\ call = LogCall(Top.name)
    <3>1. Last(stack) = stack[Len(stack)] /\ Last(stack).kind = "listener" /\ AnswerFrame(Last(stack))
      BY <2>3, CallsPop DEF Running, Top
    <3> QED BY <2>3, <3>1 DEF AnswerFrame, AllCalls, Top
  <2> QED BY <1>2, <2>1, <2>2, <2>3
<1> HIDE DEF frames, call
<1> QED BY <1>1, <1>3, CallsInvoked DEF frames, call

-----------------------------------------------------------------------------
(* The other steps.                                                        *)

LEMMA ReturnsKeep ==
  ASSUME StoresMerge, LuaTables, AnswersInv, AnswerLogged \/ ListenerAttached \/ ScriptReturns
  PROVE  AnswersInv'
<1>1. CallsOK(stack) /\ listeners \in Queue /\ UNCHANGED listeners /\ stack # <<>>
  BY DEF AnswersInv, Queue, AnswerLogged, ListenerAttached, ScriptReturns, Running, logging
<1>2. /\ CallsOK(Below) /\ AnswerFrame(Top)
      /\ Top.kind \in AnsweringKinds => Asker(Below, Top.call)
  BY <1>1, CallsPop DEF Below, Top
<1>3. CallsOK(stack')
  <2>1. CASE AnswerLogged
    <3>1. Asker(Below, Top.call) /\ IsResult(Top.result)
      BY <1>2, <2>1 DEF AnswerLogged, Running, AnswerFrame, AnsweringKinds
    <3> QED BY <1>2, <2>1, <3>1, CallsDeliver DEF AnswerLogged
  <2>2. CASE ListenerAttached
    <3>1. Asker(Below, Top.call)
      BY <1>2, <2>2 DEF ListenerAttached, Running, AnsweringKinds
    <3> QED BY <1>1, <1>2, <2>2, <3>1, CallsAnswer, ResultsAre DEF ListenerAttached, Logged
  <2>3. CASE ScriptReturns
    <3>1. Asker(Below, Top.call)
      BY <1>2, <2>3 DEF ScriptReturns, Running, AnsweringKinds
    <3>2. \A ending : IsResult(Result(Top, ending))
      <4>1. Top.got # NoAnswer => IsArray(Top.got)
        BY <1>2, <2>3 DEF ScriptReturns, Running, AnswerFrame
      <4>2. \A v : IsArray(v) => IsArray(ThroughLua(v))
        BY DEF LuaTables, IsArray
      <4> QED BY <4>1, <4>2, ResultsAre DEF Result
    <3>3. PICK ending, how, busy :
            LET log == LogMessage(IF how = "none" THEN <<>> ELSE listeners, how, busy) IN
            stack' = IF Top.call = Outside THEN Below \o log
                     ELSE Answering(Below, Top.call, Result(Top, ending), log, Library[Top.lang])
      <4>1. LogMessage(<<>>, "none", FALSE) = <<>>
        BY DEF LogMessage
      <4>2. Logged = LogMessage(IF handler = "none" THEN <<>> ELSE listeners, handler, executing)
        BY DEF Logged, LogMessage
      <4> QED BY <2>3, <4>1, <4>2 DEF ScriptReturns
    <3>4. <<>> \in Queue
      BY DEF Queue
    <3> QED BY <1>1, <1>2, <3>1, <3>2, <3>3, <3>4, CallsMessage, CallsAnswer
  <2> QED BY <2>1, <2>2, <2>3
<1> QED BY <1>1, <1>3 DEF AnswersInv

LEMMA WorkKeeps ==
  ASSUME AnswersInv,
         \/ LuaCallsByTable \/ LuaAddXCallFunction \/ LuaDelXCallFunction
         \/ JsAddXCallFunction \/ JsDelXCallFunction \/ OutsideRuns \/ OutsideLogs \/ TimeoutFires
  PROVE  AnswersInv'
<1>1. CallsOK(stack) /\ listeners \in Queue /\ listeners \in Seq(Listening) /\ CallsOK(<<>>)
  BY DEF AnswersInv, Queue, CallsOK
<1>2. CallsOK(stack \o Logged)
  BY <1>1, CallsMessage DEF Logged
<1>3. CASE OutsideRuns
  <2>1. PICK lang : stack' = <<Script(lang, Outside)>> /\ UNCHANGED listeners
    BY <1>3 DEF OutsideRuns, logging
  <2>2. CallsOK(Append(<<>>, Script(lang, Outside)))
    BY <1>1, CallsScript DEF Asker
  <2>3. Append(<<>>, Script(lang, Outside)) = stack'
    BY <2>1
  <2> QED BY <1>1, <2>1, <2>2, <2>3 DEF AnswersInv
<1>4. CASE OutsideLogs
  <2>1. stack = <<>> /\ stack' = Logged /\ UNCHANGED listeners /\ stack \o Logged = Logged
    BY <1>4 DEF OutsideLogs, Logged, LogMessage, logging
  <2> QED BY <1>1, <1>2, <2>1 DEF AnswersInv
<1>5. CASE TimeoutFires
  <2>1. listeners' \in Seq(Listening)
    BY <1>1, <1>5, NamesStay DEF TimeoutFires
  <2>2. listeners' \in Queue
    BY <2>1 DEF Queue
  <2>3. CallsOK(<<>> \o LogMessage(listeners', handler', executing))
    BY <1>1, <2>2, CallsMessage
  <2>4. stack' = <<>> \o LogMessage(listeners', handler', executing)
    BY <1>5 DEF TimeoutFires, LogMessage
  <2> QED BY <2>1, <2>3, <2>4 DEF AnswersInv
<1>6. CASE LuaCallsByTable
  BY <1>1, <1>6 DEF LuaCallsByTable, Stops, logging, AnswersInv
<1>7. CASE \/ LuaAddXCallFunction \/ LuaDelXCallFunction
           \/ JsAddXCallFunction \/ JsDelXCallFunction
  <2>1. stack' = stack \o Logged /\ UNCHANGED listeners
    BY <1>7 DEF LuaAddXCallFunction, LuaDelXCallFunction, JsAddXCallFunction, JsDelXCallFunction, logging
  <2> QED BY <1>1, <1>2, <2>1 DEF AnswersInv
<1> QED BY <1>3, <1>4, <1>5, <1>6, <1>7

LEMMA ListenersKeep ==
  ASSUME AnswersInv, CallListener \/ ListenerDone
  PROVE  AnswersInv'
<1>1. CallsOK(stack) /\ listeners \in Seq(Listening) /\ stack # <<>>
  BY DEF AnswersInv, CallListener, ListenerDone, Running
<1>2. CallsOK(Below) /\ AnswerFrame(Top) /\ Top = Last(stack) /\ Below = Front(stack)
  BY <1>1, CallsPop DEF Below, Top
<1>3. CASE CallListener
  <2> DEFINE rest == Top.rest
             f == [Top EXCEPT !.rest = Tail(rest)]
             g == [kind |-> "listener", name |-> Head(rest), freed |-> FALSE, got |-> NoAnswer]
  <2>1. Top.kind = "log" /\ UNCHANGED listeners /\ rest \in Queue
    BY <1>2, <1>3 DEF CallListener, Running, AnswerFrame, Stops, logging
  <2>2. \/ stack' = Below \/ stack' = stack
        \/ rest # <<>> /\ Head(rest) # "freed" /\ stack' = Append(Append(Below, f), g)
    BY <1>3 DEF CallListener, Stops
  <2>3. CASE rest # <<>> /\ Head(rest) # "freed" /\ stack' = Append(Append(Below, f), g)
    <3>1. Tail(rest) \in Queue /\ Head(rest) \in Listening
      BY <2>1, <2>3 DEF Queue
    <3>2. AnswerFrame(f) /\ f.kind = "log"
      BY <1>2, <2>1, <3>1 DEF AnswerFrame, AnsweringKinds
    <3>3. AnswerFrame(g) /\ g.kind = "listener"
      BY <3>1 DEF AnswerFrame, AnsweringKinds
    <3> HIDE DEF f, g
    <3>4. CallsOK(Append(Append(Below, f), g))
      BY <1>2, <3>2, <3>3, CallsPush DEF AnsweringKinds
    <3> QED BY <1>1, <2>1, <2>3, <3>4 DEF AnswersInv
  <2> QED BY <1>1, <1>2, <2>1, <2>2, <2>3 DEF AnswersInv
<1>4. CASE ListenerDone
  <2>1. /\ stack' = Below \/ stack' = stack \/ \E n : stack' = Free(Below, n)
        /\ UNCHANGED listeners \/ \E n : DetachListener(n)
    BY <1>4 DEF ListenerDone, logging
  <2> QED BY <1>1, <1>2, <2>1, CallsFree, NamesStay DEF AnswersInv
<1> QED BY <1>3, <1>4

\* An answer that a script gets is that of its call.
THEOREM AnswersBelongToCalls ==
  ASSUME StoresMerge, LuaTables
  PROVE  ScriptingSpec => []AnswersBelong
<1>1. ScriptingInit => AnswersInv
  BY DEF ScriptingInit, AnswersInv, CallsOK
<1>2. AnswersInv /\ [ScriptingNext]_scriptingVars => AnswersInv'
  <2>1. ASSUME AnswersInv, Step
        PROVE  AnswersInv'
    BY <2>1, CallsMade, ReturnsKeep, WorkKeeps, ListenersKeep DEF Step
  <2>2. ASSUME AnswersInv, UNCHANGED scriptingVars
        PROVE  AnswersInv'
    BY <2>2 DEF AnswersInv, scriptingVars, logging
  <2> QED BY <2>1, <2>2 DEF ScriptingNext
<1>3. AnswersInv => AnswersBelong
  <2>1. AnswersInv => DOMAIN stack = 1..Len(stack)
    BY DEF AnswersInv, CallsOK
  <2> QED BY <2>1 DEF AnswersInv, CallsOK, AnswerFrame, AnswersBelong
<1> QED BY <1>1, <1>2, <1>3, PTL DEF ScriptingSpec

=============================================================================
