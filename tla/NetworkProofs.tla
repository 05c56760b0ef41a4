---------------------------- MODULE NetworkProofs ----------------------------
(***************************************************************************)
(* Proofs about the network of a program: the socket module, and the       *)
(* servers that are built on it.                                           *)
(*                                                                         *)
(* Sockets, for any number of them and of descriptors, when nobody         *)
(* connects or frees a socket that is connecting: whatever listeners do    *)
(* while a poll goes through its copies, it works with live sockets, every *)
(* descriptor has one owner, and a polled socket stays polled unless its   *)
(* number is shared.                                                       *)
(*                                                                         *)
(* Servers, for any number of clients, texts and feeds: they know their    *)
(* connections, a caller is answered once and its calls are what it has    *)
(* sent, in whatever pieces, and the history of a feed is bounded and      *)
(* without repetitions.                                                    *)
(***************************************************************************)
EXTENDS SocketPoll, Servers, SelectionProofs

-----------------------------------------------------------------------------
(* Queues.                                                                 *)

Distinct(q) == \A i, j \in 1..Len(q) : q[i] = q[j] => i = j

LEMMA InQueue ==
  ASSUME NEW T, NEW q \in Seq(T)
  PROVE  \A x : x \in ToSet(q) <=> \E i \in 1..Len(q) : q[i] = x
<1>1. DOMAIN q = 1..Len(q)
  OBVIOUS
<1> QED BY <1>1 DEF ToSet

\* What Append does to a queue.
LEMMA AppendQueue ==
  ASSUME NEW T, NEW q \in Seq(T), NEW x \in T
  PROVE  /\ Append(q, x) \in Seq(T) /\ Len(Append(q, x)) = Len(q) + 1
         /\ \A i \in 1..Len(q) : Append(q, x)[i] = q[i]
         /\ Append(q, x)[Len(q) + 1] = x
         /\ ToSet(Append(q, x)) = ToSet(q) \cup {x}
         /\ Distinct(q) /\ x \notin ToSet(q) => Distinct(Append(q, x))
<1> DEFINE a == Append(q, x)
<1>1. /\ a \in Seq(T) /\ Len(a) = Len(q) + 1 /\ a[Len(q) + 1] = x
      /\ \A i \in 1..Len(q) : a[i] = q[i]
  OBVIOUS
<1> HIDE DEF a
<1>2. Len(q) \in Nat /\ \A i \in 1..(Len(q) + 1) : i \in 1..Len(q) \/ i = Len(q) + 1
  OBVIOUS
<1>3. ASSUME NEW y PROVE y \in ToSet(a) <=> y \in ToSet(q) \cup {x}
  <2>1. y \in ToSet(a) <=> \E i \in 1..(Len(q) + 1) : a[i] = y
    BY <1>1, InQueue
  <2>2. y \in ToSet(q) <=> \E i \in 1..Len(q) : q[i] = y
    BY InQueue
  <2>3. Len(q) + 1 \in 1..(Len(q) + 1) /\ \A i \in 1..Len(q) : i \in 1..(Len(q) + 1)
    BY <1>2
  <2> QED BY <2>1, <2>2, <2>3, <1>1, <1>2
<1>4. ASSUME Distinct(q), x \notin ToSet(q), NEW i \in 1..Len(a), NEW j \in 1..Len(a), a[i] = a[j]
      PROVE  i = j
  <2>1. \A k \in 1..Len(q) : q[k] # x
    BY <1>4, InQueue
  <2> QED BY <1>1, <1>2, <1>4, <2>1 DEF Distinct
<1>5. Distinct(q) /\ x \notin ToSet(q) => Distinct(a)
  BY <1>4 DEF Distinct
<1> QED BY <1>1, <1>3, <1>5 DEF a

\* What Tail does to a queue without duplicates.
LEMMA TailQueue ==
  ASSUME NEW T, NEW q \in Seq(T), q # <<>>
  PROVE  /\ Head(q) \in T /\ Head(q) = q[1] /\ Head(q) \in ToSet(q) /\ 1 \in 1..Len(q)
         /\ Tail(q) \in Seq(T) /\ ToSet(Tail(q)) \subseteq ToSet(q)
         /\ Distinct(q) => Distinct(Tail(q)) /\ Head(q) \notin ToSet(Tail(q))
<1>1. Len(q) \in Nat /\ Len(q) # 0 /\ 1 \in 1..Len(q)
  BY EmptySeq
<1>2. Head(q) = q[1] /\ q[1] \in T /\ q[1] \in ToSet(q)
  BY <1>1, InQueue
<1> DEFINE t == Tail(q)
<1>3. t \in Seq(T) /\ Len(t) = Len(q) - 1 /\ \A i \in 1..(Len(q) - 1) : t[i] = q[i + 1]
  BY <1>1
<1> HIDE DEF t
<1>4. \A i \in 1..(Len(q) - 1) : i + 1 \in 1..Len(q) /\ i + 1 # 1
  BY <1>1
<1>5. \A x : x \in ToSet(t) => \E i \in 1..(Len(q) - 1) : q[i + 1] = x
  BY <1>3, InQueue
<1>6. ToSet(t) \subseteq ToSet(q)
  BY <1>4, <1>5, InQueue
<1>7. Distinct(q) => Distinct(t)
  <2> SUFFICES ASSUME Distinct(q), NEW i \in 1..Len(t), NEW j \in 1..Len(t), t[i] = t[j]
               PROVE  i = j
    BY DEF Distinct
  <2>1. i + 1 = j + 1
    BY <1>3, <1>4 DEF Distinct
  <2> QED BY <2>1, <1>1, <1>3
<1>8. Distinct(q) => q[1] \notin ToSet(t)
  BY <1>1, <1>4, <1>5 DEF Distinct
<1> QED BY <1>1, <1>2, <1>3, <1>6, <1>7, <1>8 DEF t

\* Removed takes the first place of an element.
LEMMA RemovedIs ==
  ASSUME NEW T, NEW q \in Seq(T), NEW e \in ToSet(q)
  PROVE  \E k \in 1..Len(q) :
           /\ q[k] = e /\ \A j \in 1..Len(q) : q[j] = e => k <= j
           /\ Removed(q, e) = RemoveAt(q, k)
<1> DEFINE places == {i \in DOMAIN q : q[i] = e}
           first == CHOOSE i \in places : \A j \in places : i <= j
<1>1. DOMAIN q = 1..Len(q)
  OBVIOUS
<1>2. places # {} /\ places \subseteq Nat
  BY <1>1, InQueue
<1>3. \E i \in places : \A j \in places : i <= j
  <2> HIDE DEF places
  <2> QED BY <1>2, LeastOf
<1>4. first \in places /\ \A j \in places : first <= j
  BY <1>3
<1>5. Removed(q, e) = RemoveAt(q, first)
  BY <1>2 DEF Removed
<1> HIDE DEF first
<1>6. first \in 1..Len(q) /\ q[first] = e /\ \A j \in 1..Len(q) : q[j] = e => first <= j
  BY <1>1, <1>4
<1> QED BY <1>5, <1>6

\* The first place of an element does not move when another one is appended.
LEMMA RemovedAppend ==
  ASSUME NEW T, NEW q \in Seq(T), NEW e \in ToSet(q), NEW x \in T
  PROVE  Removed(Append(q, x), e) = Append(Removed(q, e), x)
<1> DEFINE a == Append(q, x)
<1>1. /\ a \in Seq(T) /\ Len(a) = Len(q) + 1 /\ e \in ToSet(a)
      /\ \A i \in 1..Len(q) : a[i] = q[i]
      /\ a[Len(q) + 1] = x
  BY AppendQueue
<1> HIDE DEF a
<1>2. PICK k \in 1..Len(q) : /\ q[k] = e /\ \A j \in 1..Len(q) : q[j] = e => k <= j
                             /\ Removed(q, e) = RemoveAt(q, k)
  BY RemovedIs
<1>3. PICK l \in 1..Len(a) : /\ a[l] = e /\ \A j \in 1..Len(a) : a[j] = e => l <= j
                             /\ Removed(a, e) = RemoveAt(a, l)
  BY <1>1, RemovedIs
<1>4. Len(q) \in Nat /\ k \in Nat /\ k <= Len(q) /\ 1 <= k
  OBVIOUS
<1>5. k = l
  <2>1. k \in 1..Len(a) /\ a[k] = e
    BY <1>1, <1>2, <1>4
  <2>2. l <= k
    BY <1>3, <2>1
  <2>3. l \in 1..Len(q) /\ q[l] = e
    BY <1>1, <1>3, <1>4, <2>2
  <2>4. k <= l
    BY <1>2, <2>3
  <2> QED BY <1>3, <1>4, <2>2, <2>4
<1> DEFINE r == RemoveAt(q, k)
           b == RemoveAt(a, k)
           c == Append(r, x)
<1>6. /\ r \in Seq(T) /\ Len(r) = Len(q) - 1
      /\ \A j \in 1..(Len(q) - 1) : r[j] = IF j < k THEN q[j] ELSE q[j + 1]
  BY RemoveAtFacts
<1>7. k \in 1..Len(a)
  BY <1>1, <1>4
<1>8. /\ b \in Seq(T) /\ Len(b) = Len(a) - 1
      /\ \A j \in 1..(Len(a) - 1) : b[j] = IF j < k THEN a[j] ELSE a[j + 1]
  BY <1>1, <1>7, RemoveAtFacts
<1> HIDE DEF r, b
<1>9. /\ c \in Seq(T) /\ Len(c) = Len(r) + 1
      /\ \A i \in 1..Len(r) : c[i] = r[i]
      /\ c[Len(r) + 1] = x
  BY <1>6, AppendQueue
<1> HIDE DEF c
<1>10. Len(b) = Len(q) /\ Len(c) = Len(q)
  BY <1>1, <1>4, <1>6, <1>8, <1>9
<1>11. ASSUME NEW j \in 1..Len(q) PROVE b[j] = c[j]
  <2>1. b[j] = IF j < k THEN a[j] ELSE a[j + 1]
    BY <1>1, <1>4, <1>8
  <2>2. CASE j = Len(q)
    BY <1>1, <1>4, <1>6, <1>9, <2>1, <2>2
  <2>3. CASE j # Len(q)
    <3>1. j \in 1..(Len(q) - 1) /\ j \in 1..Len(r) /\ j + 1 \in 1..Len(q)
      BY <1>4, <1>6, <2>3
    <3>2. c[j] = IF j < k THEN q[j] ELSE q[j + 1]
      BY <1>6, <1>9, <3>1
    <3> QED BY <1>1, <2>1, <3>1, <3>2
  <2> QED BY <2>2, <2>3
<1>12. b = c
  BY <1>8, <1>9, <1>10, <1>11, SeqEqual
<1> QED BY <1>2, <1>3, <1>5, <1>12 DEF a, b, c, r

\* An element of a queue without duplicates is gone when it is removed.
LEMMA RemovedQueue ==
  ASSUME NEW T, NEW q \in Seq(T), NEW e \in ToSet(q)
  PROVE  /\ Removed(q, e) \in Seq(T) /\ ToSet(Removed(q, e)) \subseteq ToSet(q)
         /\ Distinct(q) => /\ Distinct(Removed(q, e))
                           /\ ToSet(Removed(q, e)) = ToSet(q) \ {e}
<1>1. PICK k \in 1..Len(q) : q[k] = e /\ Removed(q, e) = RemoveAt(q, k)
  BY RemovedIs
<1> DEFINE r == RemoveAt(q, k)
<1>2. /\ r \in Seq(T) /\ Len(r) = Len(q) - 1
      /\ \A j \in 1..(Len(q) - 1) : r[j] = IF j < k THEN q[j] ELSE q[j + 1]
  BY RemoveAtFacts
<1> HIDE DEF r
<1>3. Len(q) \in Nat /\ k \in Nat /\ k <= Len(q) /\ 1 <= k
  OBVIOUS
<1> DEFINE place(j) == IF j < k THEN j ELSE j + 1
<1>4. \A j \in 1..Len(r) : place(j) \in 1..Len(q) /\ place(j) # k /\ r[j] = q[place(j)]
  BY <1>2, <1>3
<1>5. \A i, j \in 1..Len(r) : place(i) = place(j) => i = j
  BY <1>2, <1>3
<1>6. \A i \in 1..Len(q) : i # k => \E j \in 1..Len(r) : place(j) = i
  <2> TAKE i \in 1..Len(q)
  <2>1. CASE i < k
    <3>1. i \in 1..Len(r) /\ place(i) = i
      BY <1>2, <1>3, <2>1
    <3> QED BY <3>1
  <2>2. CASE k < i
    <3>1. i - 1 \in 1..Len(r) /\ place(i - 1) = i
      BY <1>2, <1>3, <2>2
    <3> QED BY <3>1
  <2> QED BY <1>3, <2>1, <2>2
<1> HIDE DEF place
<1>7. \A x : x \in ToSet(r) <=> \E j \in 1..Len(r) : r[j] = x
  BY <1>2, InQueue
<1>8. \A x : x \in ToSet(q) <=> \E j \in 1..Len(q) : q[j] = x
  BY InQueue
<1>9. ToSet(r) \subseteq ToSet(q)
  BY <1>4, <1>7, <1>8
<1>10. Distinct(q) => Distinct(r)
  BY <1>4, <1>5 DEF Distinct
<1>11. Distinct(q) => e \notin ToSet(r)
  BY <1>1, <1>4, <1>7 DEF Distinct
<1>12. \A x \in ToSet(q) : x # e => x \in ToSet(r)
  BY <1>1, <1>4, <1>6, <1>7, <1>8
<1> QED BY <1>1, <1>2, <1>9, <1>10, <1>11, <1>12 DEF r

-----------------------------------------------------------------------------
(* The invariant.                                                          *)

\* Users connect a client again after its disconnect event, but neither connect nor
\* free a socket that is connecting.
NormalUse == Liberties \subseteq {Reconnect}

\* The entry for descriptor f is removed when the outermost listeners return.
Leaving(f) ==
  events # <<>> /\ events[1].caller = "pollSocket" /\ events[1].remove /\ events[1].fd = f

\* Only the outermost call of triggerEvent comes from pollSockets, the others from
\* connectClientSocketAsync, whose socket has a descriptor until it is polled.
CallsNested ==
  \A i \in 1..Len(events) :
    /\ i > 1 => events[i].caller = "connect"
    /\ events[i].caller = "connect" => events[i].event = "connected"
    /\ events[i].caller = "pollConnecting" => events[i].event \in {"connected", "disconnect"}
    /\ events[i].caller = "pollSocket" => events[i].event # "connected"
    /\ events[i].event = "connected" => Live(events[i].sock) /\ fd[events[i].sock] \in Fds

\* The outermost call comes from the loop that is under way, which is through with
\* its socket.
OutermostCall ==
  events # <<>> =>
    /\ stage = "idle" => events[1].caller = "connect"
    /\ stage = "connecting" => events[1].caller = "pollConnecting"
    /\ stage = "sockets" => events[1].caller = "pollSocket"
    /\ stage # "idle" => events[1].sock \notin ToSet(round)
    /\ events[1].caller = "pollConnecting" => events[1].sock \in ToSet(connecting)

\* A socket that is connected is live, and one that is wanted is connected.
OnlyLive == \A s \in Sockets : (connected[s] => Live(s)) /\ (s \in wanted => connected[s])

\* Every socket that waits for its connection does so once.
WaitingSound ==
  /\ WaitingQueue \in Seq(Sockets) /\ Distinct(WaitingQueue)
  /\ \A s \in ToSet(WaitingQueue) : Live(s) /\ ~connected[s] /\ type[s] = "client" /\ custom[s]

\* What is left of the copies can be polled.
RoundSound ==
  /\ Distinct(round)
  /\ \A s \in ToSet(round) :
       /\ stage = "connecting" => Connecting(s)
       /\ stage = "sockets" => Live(s) /\ (type[s] = "client" \/ fd[s] \in Fds)

\* The table has no orphans but the entry that is about to be removed.
TableSound ==
  \A f \in Fds : poll_table[f] # NoSocket =>
    (Live(poll_table[f]) /\ fd[poll_table[f]] = f) \/ Leaving(f)

PollInv ==
  /\ TypeOK /\ CallsNested /\ OutermostCall /\ OnlyLive
  /\ WaitingSound /\ RoundSound /\ TableSound /\ DescriptorsOwned

\* The invariant implies the property that the run checks.
LEMMA PollInvImplies == PollInv => PollSound
<1> SUFFICES ASSUME PollInv PROVE PollSound
  OBVIOUS
<1> USE DEF PollInv
<1>1. TypeOK /\ DescriptorsOwned
  OBVIOUS
<1>2. stage \in {"idle", "connecting", "sockets"} /\ round \in Seq(Sockets) /\ events \in Seq(Frame)
      /\ (stage = "idle" => round = <<>>)
  BY DEF TypeOK
<1>3. round # <<>> => Head(round) \in ToSet(round)
  BY <1>2, TailQueue
<1>4. stage = "connecting" /\ events = <<>> /\ round # <<>> =>
        Head(round) \in ToSet(WaitingQueue)
  BY <1>3 DEF RoundSound, Connecting
<1>5. PolledAlive
  BY <1>2, <1>3, <1>4 DEF PolledAlive, RoundSound, WaitingSound
<1>6. AssertsHold
  BY <1>4 DEF AssertsHold, WaitingSound
<1>7. TableAlive
  <2> SUFFICES ASSUME stage = "idle", NEW f \in Fds, poll_table[f] # NoSocket
               PROVE  Live(poll_table[f]) /\ fd[poll_table[f]] = f
    BY DEF TableAlive
  <2>1. ~Leaving(f)
    BY DEF Leaving, OutermostCall
  <2> QED BY <2>1 DEF TableSound
<1> QED BY <1>1, <1>5, <1>6, <1>7 DEF PollSound

LEMMA InitPoll == Init => PollInv
<1> SUFFICES ASSUME Init PROVE PollInv
  OBVIOUS
<1> USE DEF Init
<1>1. TypeOK
  BY SocketAssumption DEF TypeOK, Fds, NoFd, NoSocket, Types
<1>2. \A T : <<>> \in Seq(T) /\ Len(<<>>) = 0 /\ 1..0 = {}
  OBVIOUS
<1>3. ToSet(<<>>) = {}
  BY DEF ToSet
<1>4. WaitingQueue = <<>>
  BY DEF WaitingQueue
<1>5. CallsNested /\ OutermostCall /\ OnlyLive
  BY <1>2 DEF CallsNested, OutermostCall, OnlyLive
<1>6. WaitingSound /\ RoundSound
  BY <1>2, <1>3, <1>4 DEF WaitingSound, RoundSound, Distinct
<1>7. TableSound
  BY DEF TableSound
<1>8. DescriptorsOwned
  BY DEF DescriptorsOwned, Live
<1> QED BY <1>1, <1>5, <1>6, <1>7, <1>8 DEF PollInv

-----------------------------------------------------------------------------
(* Which sockets wait for their connection.                                *)

\* The queue by the outermost call.
LEMMA WaitingIs ==
  /\ events = <<>> => WaitingQueue = connecting
  /\ events \in Seq(Frame) /\ events # <<>> =>
       /\ 1 \in 1..Len(events) /\ events[1] \in Frame /\ Head(events) = events[1]
       /\ WaitingQueue = IF events[1].caller = "pollConnecting"
                         THEN Removed(connecting, events[1].sock) ELSE connecting
<1>1. events \in Seq(Frame) /\ events # <<>> =>
        1 \in 1..Len(events) /\ events[1] \in Frame /\ Head(events) = events[1]
  BY TailQueue
<1> QED BY <1>1 DEF WaitingQueue

\* The same for the next state.
LEMMA WaitingIsNext ==
  /\ events' = <<>> => WaitingQueue' = connecting'
  /\ events' \in Seq(Frame) /\ events' # <<>> =>
       /\ 1 \in 1..Len(events') /\ events'[1] \in Frame /\ Head(events') = events'[1]
       /\ WaitingQueue' = IF events'[1].caller = "pollConnecting"
                          THEN Removed(connecting', events'[1].sock) ELSE connecting'
<1>1. events' \in Seq(Frame) /\ events' # <<>> =>
        1 \in 1..Len(events') /\ events'[1] \in Frame /\ Head(events') = events'[1]
  BY TailQueue
<1> QED BY <1>1 DEF WaitingQueue

\* What a call of triggerEvent adds.
LEMMA TriggerIs ==
  ASSUME TypeOK, NEW s \in Sockets, NEW event \in {"connected", "disconnect", "read", "accept", "error"},
         NEW from \in {"connect", "pollConnecting", "pollSocket"}, NEW remove \in BOOLEAN
  PROVE  LET e == [sock |-> s, event |-> event, caller |-> from, fd |-> fd[s], remove |-> remove]
             t == Trigger(s, event, from, remove)
         IN /\ e \in Frame /\ t \in Seq(Frame) /\ t # <<>> /\ Len(t) = Len(events) + 1
            /\ t[Len(t)] = e /\ \A i \in 1..Len(events) : t[i] = events[i]
            /\ events = <<>> => Len(t) = 1 /\ t[1] = e
            /\ events # <<>> => t[1] = events[1]
<1> DEFINE e == [sock |-> s, event |-> event, caller |-> from, fd |-> fd[s], remove |-> remove]
           t == Trigger(s, event, from, remove)
<1>1. e \in Frame
  BY DEF TypeOK, Frame
<1>2. events \in Seq(Frame) /\ t = Append(events, e)
  BY DEF TypeOK, Trigger
<1> HIDE DEF e, t
<1>3. t \in Seq(Frame) /\ Len(t) = Len(events) + 1 /\ t[Len(events) + 1] = e
      /\ \A i \in 1..Len(events) : t[i] = events[i]
  BY <1>1, <1>2, AppendQueue
<1>4. Len(events) \in Nat /\ (events = <<>> <=> Len(events) = 0)
  BY <1>2, EmptySeq
<1>5. t # <<>>
  <2>1. Len(t) # 0
    BY <1>3, <1>4
  <2> QED BY <1>3, <2>1, EmptySeq
<1>6. events # <<>> => 1 \in 1..Len(events)
  BY <1>4
<1> QED BY <1>1, <1>3, <1>4, <1>5, <1>6 DEF e, t

-----------------------------------------------------------------------------
(* The owners of the open descriptors.                                     *)

Owners == {s \in Sockets : Live(s) /\ (connected[s] \/ Connecting(s))}

LEMMA OwnedIs ==
  DescriptorsOwned <=> /\ open \ lost = {fd[s] : s \in Owners}
                       /\ \A s, t \in Owners : fd[s] = fd[t] => s = t
BY DEF DescriptorsOwned, Owners

LEMMA OwnedIsNext ==
  DescriptorsOwned' <=> /\ open' \ lost' = {fd'[s] : s \in Owners'}
                        /\ \A s, t \in Owners' : fd'[s] = fd'[t] => s = t
BY DEF DescriptorsOwned, Owners

\* Nobody gains or loses a descriptor.
LEMMA OwnedSame ==
  ASSUME DescriptorsOwned, Owners' = Owners, open' \ lost' = open \ lost,
         \A s \in Owners : fd'[s] = fd[s]
  PROVE  DescriptorsOwned'
<1>1. {fd'[s] : s \in Owners'} = {fd[s] : s \in Owners}
  OBVIOUS
<1> QED BY <1>1, OwnedIs, OwnedIsNext

\* A socket gets a new descriptor.
LEMMA OwnedMore ==
  ASSUME TypeOK, DescriptorsOwned, NEW s \in Sockets, NEW f \in Fds \ open, s \notin Owners,
         Owners' = Owners \cup {s}, open' = open \cup {f}, lost' = lost,
         fd' = [fd EXCEPT ![s] = f]
  PROVE  DescriptorsOwned'
<1>1. /\ open \ lost = {fd[t] : t \in Owners}
      /\ \A t, u \in Owners : fd[t] = fd[u] => t = u
  BY OwnedIs
<1>2. lost \subseteq open /\ fd'[s] = f /\ \A t \in Owners : fd'[t] = fd[t]
  BY DEF TypeOK, Owners
<1>3. open' \ lost' = (open \ lost) \cup {f}
  BY <1>2
<1>4. \A t \in Owners : fd[t] # f
  BY <1>1
<1>5. {fd'[t] : t \in Owners'} = {fd[t] : t \in Owners} \cup {f}
  BY <1>2
<1>6. \A t, u \in Owners' : fd'[t] = fd'[u] => t = u
  BY <1>1, <1>2, <1>4
<1> QED BY <1>1, <1>3, <1>5, <1>6, OwnedIsNext

\* A socket's descriptor is closed.
LEMMA OwnedLess ==
  ASSUME DescriptorsOwned, NEW s \in Owners, Owners' = Owners \ {s},
         open' = open \ {fd[s]}, lost' = lost, fd' = fd
  PROVE  DescriptorsOwned'
<1>1. /\ open \ lost = {fd[t] : t \in Owners}
      /\ \A t, u \in Owners : fd[t] = fd[u] => t = u
  BY OwnedIs
<1>2. open' \ lost' = (open \ lost) \ {fd[s]}
  OBVIOUS
<1>3. {fd[t] : t \in Owners \ {s}} = {fd[t] : t \in Owners} \ {fd[s]}
  BY <1>1
<1> QED BY <1>1, <1>2, <1>3, OwnedIsNext

\* What the invariant says of a socket with a descriptor of its own.
LEMMA OwnerFacts ==
  ASSUME PollInv
  PROVE  /\ \A s \in Owners : fd[s] \in open /\ fd[s] \notin lost /\ fd[s] \in Fds
         /\ \A s \in Sockets : connected[s] => s \in Owners /\ Live(s) /\ ~Connecting(s)
         /\ \A s : Connecting(s) => s \in Owners /\ s \in Sockets
<1> USE DEF PollInv
<1>1. \A s \in Owners : fd[s] \in open \ lost
  BY OwnedIs
<1>2. open \subseteq Fds
  BY DEF TypeOK
<1>3. \A s : s \in ToSet(WaitingQueue) => s \in Sockets
  BY InQueue DEF WaitingSound
<1>4. \A s : Connecting(s) => s \in Owners /\ s \in Sockets /\ ~connected[s]
  BY <1>3 DEF Connecting, WaitingSound, Owners
<1>5. \A s \in Sockets : connected[s] => s \in Owners /\ Live(s) /\ ~Connecting(s)
  BY <1>4 DEF OnlyLive, Owners
<1> QED BY <1>1, <1>2, <1>4, <1>5

\* The calls under way are about sockets.
LEMMA FrameOf ==
  ASSUME TypeOK
  PROVE  /\ events \in Seq(Frame) /\ Len(events) \in Nat
         /\ \A i \in 1..Len(events) : events[i] \in Frame /\ events[i].sock \in Sockets
<1>1. events \in Seq(Frame)
  BY DEF TypeOK
<1>2. \A i \in 1..Len(events) : events[i] \in Frame
  BY <1>1
<1>3. \A e \in Frame : e.sock \in Sockets
  BY DEF Frame
<1> QED BY <1>1, <1>2, <1>3

\* The innermost call comes from connectClientSocketAsync, or is the only one.
LEMMA LastCall ==
  ASSUME TypeOK, CallsNested, events # <<>>
  PROVE  /\ Len(events) \in Nat \ {0} /\ Len(events) \in 1..Len(events)
         /\ Last(events) \in Frame /\ Last(events) = events[Len(events)]
         /\ Last(events).caller # "connect" => Len(events) = 1 /\ Last(events) = events[1]
<1> DEFINE n == Len(events)
<1>1. events \in Seq(Frame)
  BY DEF TypeOK
<1>2. n \in Nat \ {0} /\ Last(events) \in Frame /\ Last(events) = events[n]
  BY <1>1, FrontFacts
<1>3. \A i \in 1..n : i > 1 => events[i].caller = "connect"
  BY DEF CallsNested
<1> HIDE DEF n
<1>4. n \in 1..n
  BY <1>2
<1>5. Last(events).caller # "connect" => n = 1
  BY <1>2, <1>3, <1>4
<1> QED BY <1>2, <1>4, <1>5 DEF n

\* A socket that may be connected is polled no more and has no descriptor of its own.
LEMMA MayConnectFacts ==
  ASSUME PollInv, NormalUse, NEW s \in Sockets, MayConnect(s)
  PROVE  /\ Live(s) /\ ~connected[s] /\ ~Connecting(s) /\ s \notin Owners /\ s \notin wanted
         /\ \A i \in 1..Len(events) : events[i].event = "connected" => events[i].sock # s
         /\ \A f \in Fds : poll_table[f] = s => Leaving(f)
         /\ s \in ToSet(round) /\ stage = "sockets" => type[s] = "client"
<1> USE DEF PollInv
<1>1. Live(s) /\ ~connected[s] /\ ~Connecting(s)
  BY DEF MayConnect, NormalUse, Reconnect, ConnectTwice
<1>2. s \notin Owners /\ s \notin wanted
  BY <1>1 DEF Owners, OnlyLive
<1>3. events \in Seq(Frame)
  BY DEF TypeOK
<1>4. \A i \in 1..Len(events) : events[i].event = "connected" => events[i].sock # s
  BY <1>3 DEF MayConnect
<1>5. \A f \in Fds : LeavesTable(f) => Leaving(f)
  BY LastCall DEF LeavesTable, Leaving
<1>6. \A f \in Fds : poll_table[f] = s => Leaving(f)
  BY <1>5 DEF MayConnect
<1>7. s \in ToSet(round) /\ stage = "sockets" => type[s] = "client"
  BY DEF RoundSound, MayConnect, Fds, NoFd
<1> QED BY <1>1, <1>2, <1>4, <1>6, <1>7

-----------------------------------------------------------------------------
(* Steps of users that trigger nothing and queue nothing.                  *)

\* Only the fields of s change.
OnlyOf(s) ==
  \A t \in Sockets \ {s} :
    /\ memory'[t] = memory[t] /\ type'[t] = type[t] /\ fd'[t] = fd[t]
    /\ connected'[t] = connected[t] /\ custom'[t] = custom[t]

\* What is under way keeps what it needs, when the fields of a socket change that
\* does not wait for its connection.
LEMMA FieldsKept ==
  ASSUME PollInv, NEW s \in Sockets, OnlyOf(s), ~Connecting(s),
         UNCHANGED <<connecting, stage, round, events>>,
         \A i \in 1..Len(events) : events[i].event = "connected" /\ events[i].sock = s =>
           memory'[s] = "live" /\ fd'[s] \in Fds,
         s \in ToSet(round) /\ stage = "sockets" =>
           memory'[s] = "live" /\ (type'[s] = "client" \/ fd'[s] \in Fds)
  PROVE  /\ CallsNested' /\ OutermostCall' /\ WaitingSound' /\ RoundSound'
         /\ \A t : Connecting(t)' <=> Connecting(t)
         /\ \A f : Leaving(f)' <=> Leaving(f)
         /\ Owners' \ {s} = Owners \ {s}
         /\ s \in Owners' <=> memory'[s] = "live" /\ connected'[s]
<1> USE DEF PollInv
<1>1. WaitingQueue' = WaitingQueue
  BY DEF WaitingQueue
<1>2. \A t : Connecting(t)' <=> Connecting(t)
  BY <1>1 DEF Connecting
<1>3. \A f : Leaving(f)' <=> Leaving(f)
  BY DEF Leaving
<1>4. \A i \in 1..Len(events) : events[i].sock \in Sockets
  BY FrameOf
<1>5. CallsNested'
  <2>1. ASSUME NEW i \in 1..Len(events), events[i].event = "connected"
        PROVE  memory'[events[i].sock] = "live" /\ fd'[events[i].sock] \in Fds
    <3>1. Live(events[i].sock) /\ fd[events[i].sock] \in Fds
      BY <2>1 DEF CallsNested
    <3>2. CASE events[i].sock = s
      BY <2>1, <3>2
    <3>3. CASE events[i].sock # s
      BY <1>4, <3>1, <3>3 DEF OnlyOf, Live
    <3> QED BY <3>2, <3>3
  <2> QED BY <2>1 DEF CallsNested, Live
<1>6. OutermostCall'
  BY DEF OutermostCall
<1>7. WaitingSound'
  <2>1. \A t \in ToSet(WaitingQueue) : t \in Sockets \ {s}
    BY OwnerFacts DEF Connecting
  <2> QED BY <1>1, <2>1 DEF WaitingSound, OnlyOf, Live
<1>8. RoundSound'
  <2>1. \A t \in ToSet(round) : t \in Sockets
    BY InQueue DEF TypeOK
  <2>2. \A t \in ToSet(round) \ {s} : stage = "sockets" =>
          memory'[t] = "live" /\ (type'[t] = "client" \/ fd'[t] \in Fds)
    BY <2>1 DEF RoundSound, OnlyOf, Live
  <2>3. \A t \in ToSet(round) : stage = "sockets" =>
          memory'[t] = "live" /\ (type'[t] = "client" \/ fd'[t] \in Fds)
    BY <2>2
  <2> QED BY <1>2, <2>3 DEF RoundSound, Live
<1>9. Owners' \ {s} = Owners \ {s}
  BY <1>2 DEF Owners, OnlyOf, Live
<1>10. s \in Owners' <=> memory'[s] = "live" /\ connected'[s]
  BY <1>2 DEF Owners, Live
<1> QED BY <1>2, <1>3, <1>5, <1>6, <1>7, <1>8, <1>9, <1>10

LEMMA CreateInv ==
  ASSUME PollInv, NEW s \in Sockets, NEW t \in Kinds, CreateSocket(s, t)
  PROVE  PollInv'
<1> USE DEF PollInv, CreateSocket, fields, kernel, poll
<1>1. TypeOK'
  BY SocketAssumption DEF TypeOK, Types
<1>2. ~Live(s) /\ ~Connecting(s) /\ ~connected[s] /\ s \notin Owners
  BY OwnerFacts DEF Live, Owners
<1>3. OnlyOf(s) /\ memory'[s] = "live"
  BY DEF OnlyOf, TypeOK
<1>4. \A i \in 1..Len(events) : events[i].event = "connected" => events[i].sock # s
  BY <1>2 DEF CallsNested
<1>5. ~(s \in ToSet(round) /\ stage = "sockets")
  BY <1>2 DEF RoundSound
<1>6. /\ CallsNested' /\ OutermostCall' /\ WaitingSound' /\ RoundSound'
      /\ \A f : Leaving(f)' <=> Leaving(f)
      /\ Owners' \ {s} = Owners \ {s}
      /\ s \in Owners' <=> memory'[s] = "live" /\ connected'[s]
  BY <1>2, <1>3, <1>4, <1>5, FieldsKept
<1>7. OnlyLive'
  BY <1>3 DEF OnlyLive, OnlyOf, Live
<1>8. TableSound'
  BY <1>2, <1>3, <1>6 DEF TableSound, OnlyOf, Live, TypeOK
<1>9. DescriptorsOwned'
  <2>1. Owners' = Owners
    BY <1>2, <1>6
  <2> QED BY <2>1, OwnedSame
<1> QED BY <1>1, <1>6, <1>7, <1>8, <1>9

LEMMA ConnectWithoutFdInv ==
  ASSUME PollInv, NormalUse, NEW s \in Sockets, ConnectWithoutFd(s)
  PROVE  PollInv'
<1> USE DEF PollInv, ConnectWithoutFd, fields, kernel, poll
<1>1. TypeOK'
  BY DEF TypeOK
<1>2. /\ Live(s) /\ ~connected[s] /\ ~Connecting(s) /\ s \notin Owners
      /\ \A i \in 1..Len(events) : events[i].event = "connected" => events[i].sock # s
      /\ \A f \in Fds : poll_table[f] = s => Leaving(f)
      /\ s \in ToSet(round) /\ stage = "sockets" => type[s] = "client"
  BY MayConnectFacts
<1>3. OnlyOf(s) /\ memory'[s] = "live"
  BY <1>2 DEF OnlyOf, TypeOK, Live
<1>4. /\ CallsNested' /\ OutermostCall' /\ WaitingSound' /\ RoundSound'
      /\ \A f : Leaving(f)' <=> Leaving(f)
      /\ Owners' \ {s} = Owners \ {s}
      /\ s \in Owners' <=> memory'[s] = "live" /\ connected'[s]
  BY <1>2, <1>3, FieldsKept
<1>5. OnlyLive'
  BY DEF OnlyLive, Live
<1>6. TableSound'
  BY <1>2, <1>3, <1>4 DEF TableSound, OnlyOf, Live, TypeOK
<1>7. DescriptorsOwned'
  <2>1. Owners' = Owners /\ \A t \in Owners : fd'[t] = fd[t]
    BY <1>2, <1>3, <1>4 DEF OnlyOf, Owners
  <2> QED BY <2>1, OwnedSame
<1> QED BY <1>1, <1>4, <1>5, <1>6, <1>7

LEMMA ConnectInv ==
  ASSUME PollInv, NormalUse, NEW s \in Sockets, NEW f \in Fds, ConnectSocket(s, f)
  PROVE  PollInv'
<1> USE DEF PollInv, ConnectSocket, fields, kernel, poll
<1>1. TypeOK' /\ f \in Fds \ open
  BY DEF TypeOK, Opens
<1>2. /\ Live(s) /\ ~connected[s] /\ ~Connecting(s) /\ s \notin Owners
      /\ \A i \in 1..Len(events) : events[i].event = "connected" => events[i].sock # s
      /\ \A g \in Fds : poll_table[g] = s => Leaving(g)
      /\ s \in ToSet(round) /\ stage = "sockets" => type[s] = "client"
  BY MayConnectFacts
<1>3. OnlyOf(s) /\ memory'[s] = "live" /\ fd'[s] = f /\ connected'[s]
  BY <1>2 DEF OnlyOf, TypeOK, Live
<1>4. /\ CallsNested' /\ OutermostCall' /\ WaitingSound' /\ RoundSound'
      /\ \A g : Leaving(g)' <=> Leaving(g)
      /\ Owners' \ {s} = Owners \ {s}
      /\ s \in Owners' <=> memory'[s] = "live" /\ connected'[s]
  BY <1>2, <1>3, FieldsKept
<1>5. OnlyLive'
  BY <1>2, <1>3 DEF OnlyLive, OnlyOf, Live
<1>6. TableSound'
  BY <1>2, <1>3, <1>4 DEF TableSound, OnlyOf, Live, TypeOK
<1>7. DescriptorsOwned'
  <2>1. Owners' = Owners \cup {s}
    BY <1>2, <1>3, <1>4
  <2> QED BY <1>1, <1>2, <2>1, OwnedMore
<1> QED BY <1>1, <1>4, <1>5, <1>6, <1>7

LEMMA ConnectFailsInv ==
  ASSUME PollInv, NormalUse, NEW s \in Sockets, NEW f \in Fds, ConnectFails(s, f)
  PROVE  PollInv'
<1> USE DEF PollInv, ConnectFails, fields, kernel, poll
<1>1. TypeOK' /\ f \in Fds \ open
  BY DEF TypeOK, Opens, Unpolled
<1>2. /\ Live(s) /\ ~connected[s] /\ ~Connecting(s) /\ s \notin Owners /\ s \notin wanted
      /\ \A i \in 1..Len(events) : events[i].event = "connected" => events[i].sock # s
      /\ \A g \in Fds : poll_table[g] = s => Leaving(g)
      /\ s \in ToSet(round) /\ stage = "sockets" => type[s] = "client"
  BY MayConnectFacts
<1>3. OnlyOf(s) /\ fd'[s] = f /\ type' = type /\ (type[s] = "client" => memory' = memory)
  BY <1>2 DEF OnlyOf, TypeOK, Live
<1>4. /\ CallsNested' /\ OutermostCall' /\ WaitingSound' /\ RoundSound'
      /\ \A g : Leaving(g)' <=> Leaving(g)
      /\ Owners' \ {s} = Owners \ {s}
      /\ s \in Owners' <=> memory'[s] = "live" /\ connected'[s]
  BY <1>2, <1>3, FieldsKept DEF Live
<1>5. OnlyLive'
  BY <1>2, <1>3 DEF OnlyLive, OnlyOf, Live
<1>6. TableSound'
  <2>1. \A g \in Fds : poll_table'[g] \in {poll_table[g], NoSocket}
    BY DEF Unpolled, TypeOK
  <2> QED BY <1>2, <1>3, <1>4, <2>1 DEF TableSound, OnlyOf, Live, TypeOK
<1>7. DescriptorsOwned'
  <2>1. Owners' = Owners /\ \A t \in Owners : fd'[t] = fd[t]
    BY <1>2, <1>3, <1>4 DEF OnlyOf, Owners
  <2>2. open' \ lost' = open \ lost
    BY <1>1 DEF TypeOK
  <2> QED BY <2>1, <2>2, OwnedSame
<1> QED BY <1>1, <1>4, <1>5, <1>6, <1>7

LEMMA DisconnectInv ==
  ASSUME PollInv, NEW s \in Sockets, DisconnectSocket(s)
  PROVE  PollInv'
<1> USE DEF PollInv, DisconnectSocket, Disconnect, fields, kernel, poll
<1>1. s \in Owners /\ ~Connecting(s) /\ Live(s) /\ fd[s] \in open \ lost
  BY OwnerFacts
<1>2. TypeOK'
  BY <1>1 DEF TypeOK
<1>3. OnlyOf(s) /\ memory' = memory /\ fd' = fd /\ type' = type /\ ~connected'[s]
  BY DEF OnlyOf, TypeOK
<1>4. /\ \A i \in 1..Len(events) : events[i].event = "connected" /\ events[i].sock = s =>
           memory'[s] = "live" /\ fd'[s] \in Fds
      /\ s \in ToSet(round) /\ stage = "sockets" =>
           memory'[s] = "live" /\ (type'[s] = "client" \/ fd'[s] \in Fds)
  BY <1>3 DEF CallsNested, RoundSound, Live
<1>5. /\ CallsNested' /\ OutermostCall' /\ WaitingSound' /\ RoundSound'
      /\ \A g : Leaving(g)' <=> Leaving(g)
      /\ Owners' \ {s} = Owners \ {s}
      /\ s \in Owners' <=> memory'[s] = "live" /\ connected'[s]
  BY <1>1, <1>3, <1>4, FieldsKept
<1>6. OnlyLive'
  BY <1>3 DEF OnlyLive, OnlyOf, Live
<1>7. TableSound'
  BY <1>3, <1>5 DEF TableSound, Live
<1>8. DescriptorsOwned'
  <2>1. Owners' = Owners \ {s}
    BY <1>3, <1>5
  <2> QED BY <1>1, <2>1, OwnedLess
<1> QED BY <1>2, <1>5, <1>6, <1>7, <1>8

LEMMA FreeInv ==
  ASSUME PollInv, NormalUse, NEW s \in Sockets, FreeSocket(s)
  PROVE  PollInv'
<1> USE DEF PollInv, FreeSocket, Disconnect, fields, kernel, poll
<1>1. /\ connected[s] => s \in Owners /\ fd[s] \in open \ lost
      /\ ~Connecting(s) /\ Live(s) /\ fd[s] \in Fds \cup {NoFd}
  BY OwnerFacts DEF MayFree, NormalUse, Reconnect, FreeConnecting, TypeOK
<1>2. poll_table' \in [Fds -> Sockets \cup {NoSocket}]
  BY <1>1 DEF Unpolled, TypeOK
<1>3. TypeOK'
  <2>1. memory' \in [Sockets -> {"unused", "live", "freed"}] /\ wanted' \subseteq Sockets
    BY DEF TypeOK
  <2>2. connected' \in [Sockets -> BOOLEAN]
    BY DEF TypeOK
  <2>3. open' \subseteq Fds /\ lost' \subseteq open'
    BY <1>1 DEF TypeOK
  <2> QED BY <1>2, <2>1, <2>2, <2>3 DEF TypeOK
<1>4. OnlyOf(s) /\ fd' = fd /\ memory'[s] = "freed" /\ ~connected'[s] /\ wanted' = wanted \ {s}
  BY DEF OnlyOf, TypeOK
<1>5. /\ \A i \in 1..Len(events) : events[i].event = "connected" => events[i].sock # s
      /\ ~(s \in ToSet(round) /\ stage = "sockets")
  <2>1. CASE stage = "idle" /\ events = <<>>
    <3>1. Len(events) = 0 /\ 1..0 = {}
      BY <2>1
    <3> QED BY <2>1, <3>1
  <2>2. CASE /\ events # <<>> /\ Last(events).sock = s /\ Last(events).event = "disconnect"
             /\ \A i \in 1..(Len(events) - 1) : events[i].sock # s
    <3>1. /\ Len(events) \in Nat \ {0} /\ Len(events) \in 1..Len(events)
          /\ Last(events) = events[Len(events)]
          /\ Last(events).caller # "connect" => Len(events) = 1 /\ Last(events) = events[1]
      BY <2>2, LastCall
    <3>2. Last(events).caller # "connect"
      BY <2>2, <3>1 DEF CallsNested
    <3>3. \A i \in 1..Len(events) : i = 1
      BY <3>1, <3>2
    <3>4. events[1].event # "connected" /\ events[1].sock = s
      BY <2>2, <3>1, <3>2
    <3> QED BY <2>2, <3>3, <3>4 DEF OutermostCall
  <2> QED BY <2>1, <2>2 DEF MayFree
<1>6. /\ CallsNested' /\ OutermostCall' /\ WaitingSound' /\ RoundSound'
      /\ \A g : Leaving(g)' <=> Leaving(g)
      /\ Owners' \ {s} = Owners \ {s}
      /\ s \in Owners' <=> memory'[s] = "live" /\ connected'[s]
  BY <1>1, <1>4, <1>5, FieldsKept
<1>7. OnlyLive'
  BY <1>4 DEF OnlyLive, OnlyOf, Live
<1>8. TableSound'
  <2>1. \A g \in Fds : poll_table'[g] = IF g = fd[s] THEN NoSocket ELSE poll_table[g]
    BY <1>1 DEF Unpolled, TypeOK, NoFd, Fds
  <2> QED BY <1>4, <1>6, <2>1 DEF TableSound, OnlyOf, Live, TypeOK
<1>9. DescriptorsOwned'
  <2>1. s \notin Owners'
    BY <1>4, <1>6
  <2>2. CASE connected[s]
    <3>1. Owners' = Owners \ {s}
      BY <1>6, <2>1
    <3> QED BY <1>1, <1>4, <2>2, <3>1, OwnedLess
  <2>3. CASE ~connected[s]
    <3>1. s \notin Owners
      BY <1>1, <2>3 DEF Owners
    <3>2. Owners' = Owners
      BY <1>6, <2>1, <3>1
    <3> QED BY <1>4, <2>3, <3>2, OwnedSame
  <2> QED BY <2>2, <2>3
<1> QED BY <1>3, <1>6, <1>7, <1>8, <1>9

\* enableSocketPolling enters a socket that has a descriptor, unless its number is taken.
LEMMA EnableIs ==
  ASSUME TypeOK, NEW s \in Sockets, fd[s] \in Fds, Enable(s)
  PROVE  /\ poll_table' \in [Fds -> Sockets \cup {NoSocket}]
         /\ \A f \in Fds : poll_table'[f] = poll_table[f]
                           \/ (poll_table[f] = NoSocket /\ poll_table'[f] = s /\ f = fd[s])
         /\ wanted' = (IF connected[s] THEN wanted \cup {s} ELSE wanted)
BY DEF Enable, Polled, TypeOK, NoFd, NoSocket, Fds

LEMMA EnableInv ==
  ASSUME PollInv, NEW s \in Sockets, EnableSocketPolling(s)
  PROVE  PollInv'
<1> USE DEF PollInv, EnableSocketPolling, fields, kernel, poll
<1>1. fd[s] \in Fds /\ ~Connecting(s) /\ Live(s) /\ connected[s] /\ Enable(s)
  BY OwnerFacts
<1>2. /\ poll_table' \in [Fds -> Sockets \cup {NoSocket}]
      /\ \A f \in Fds : poll_table'[f] = poll_table[f]
                        \/ (poll_table[f] = NoSocket /\ poll_table'[f] = s /\ f = fd[s])
      /\ wanted' = wanted \cup {s}
  BY <1>1, EnableIs
<1>3. TypeOK'
  BY <1>2 DEF TypeOK
<1>4. OnlyOf(s) /\ UNCHANGED fields
  BY DEF OnlyOf
<1>5. /\ \A i \in 1..Len(events) : events[i].event = "connected" /\ events[i].sock = s =>
           memory'[s] = "live" /\ fd'[s] \in Fds
      /\ s \in ToSet(round) /\ stage = "sockets" =>
           memory'[s] = "live" /\ (type'[s] = "client" \/ fd'[s] \in Fds)
  BY <1>1, <1>4 DEF Live
<1>6. /\ CallsNested' /\ OutermostCall' /\ WaitingSound' /\ RoundSound'
      /\ \A t : Connecting(t)' <=> Connecting(t)
      /\ \A g : Leaving(g)' <=> Leaving(g)
  BY <1>1, <1>4, <1>5, FieldsKept
<1>7. OnlyLive'
  BY <1>1, <1>2, <1>4 DEF OnlyLive, Live
<1>8. TableSound'
  BY <1>1, <1>2, <1>4, <1>6 DEF TableSound, Live
<1>9. DescriptorsOwned'
  <2>1. Owners' = Owners
    BY <1>4, <1>6 DEF Owners, Live
  <2> QED BY <1>4, <2>1, OwnedSame
<1> QED BY <1>3, <1>6, <1>7, <1>8, <1>9

LEMMA DisableInv ==
  ASSUME PollInv, NEW s \in Sockets, DisableSocketPolling(s)
  PROVE  PollInv'
<1> USE DEF PollInv, DisableSocketPolling, fields, kernel, poll
<1>1. fd[s] \in Fds /\ ~Connecting(s) /\ Live(s) /\ connected[s]
  BY OwnerFacts
<1>2. /\ poll_table' \in [Fds -> Sockets \cup {NoSocket}]
      /\ \A f \in Fds : poll_table'[f] \in {poll_table[f], NoSocket}
  BY DEF Unpolled, TypeOK
<1>3. TypeOK'
  BY <1>2 DEF TypeOK
<1>4. OnlyOf(s) /\ UNCHANGED fields
  BY DEF OnlyOf
<1>5. /\ \A i \in 1..Len(events) : events[i].event = "connected" /\ events[i].sock = s =>
           memory'[s] = "live" /\ fd'[s] \in Fds
      /\ s \in ToSet(round) /\ stage = "sockets" =>
           memory'[s] = "live" /\ (type'[s] = "client" \/ fd'[s] \in Fds)
  BY <1>1, <1>4 DEF Live
<1>6. /\ CallsNested' /\ OutermostCall' /\ WaitingSound' /\ RoundSound'
      /\ \A t : Connecting(t)' <=> Connecting(t)
      /\ \A g : Leaving(g)' <=> Leaving(g)
  BY <1>1, <1>4, <1>5, FieldsKept
<1>7. OnlyLive'
  BY <1>4 DEF OnlyLive, Live
<1>8. TableSound'
  BY <1>2, <1>4, <1>6 DEF TableSound, Live
<1>9. DescriptorsOwned'
  <2>1. Owners' = Owners
    BY <1>4, <1>6 DEF Owners, Live
  <2> QED BY <1>4, <2>1, OwnedSame
<1> QED BY <1>3, <1>6, <1>7, <1>8, <1>9

-----------------------------------------------------------------------------
(* connectClientSocketAsync.                                               *)

LEMMA DelayedInv ==
  ASSUME PollInv, NormalUse, NEW s \in Sockets, NEW f \in Fds, ConnectDelayed(s, f)
  PROVE  PollInv'
<1> USE DEF PollInv, ConnectDelayed
<1>1. TypeOK' /\ f \in Fds \ open
  BY DEF TypeOK, Opens, fields, kernel, poll
<1>2. /\ Live(s) /\ ~connected[s] /\ ~Connecting(s) /\ s \notin Owners
      /\ \A i \in 1..Len(events) : events[i].event = "connected" => events[i].sock # s
      /\ \A g \in Fds : poll_table[g] = s => Leaving(g)
      /\ type[s] = "client"
  BY MayConnectFacts
<1>3. /\ OnlyOf(s) /\ fd'[s] = f /\ custom'[s]
      /\ UNCHANGED <<memory, type, connected, events, stage, round>>
  BY DEF OnlyOf, TypeOK, poll
<1>4. WaitingQueue' = Append(WaitingQueue, s)
  <2>1. connecting \in Seq(Sockets) /\ events \in Seq(Frame)
    BY DEF TypeOK
  <2>2. CASE events # <<>> /\ events[1].caller = "pollConnecting"
    <3>1. events[1].sock \in ToSet(connecting)
      BY <2>2 DEF OutermostCall
    <3>2. Removed(Append(connecting, s), events[1].sock) = Append(Removed(connecting, events[1].sock), s)
      BY <2>1, <3>1, RemovedAppend
    <3>3. WaitingQueue = Removed(connecting, events[1].sock)
      BY <2>1, <2>2, WaitingIs
    <3>4. WaitingQueue' = Removed(connecting', events[1].sock)
      BY <1>3, <2>1, <2>2, WaitingIsNext
    <3> QED BY <3>2, <3>3, <3>4
  <2>3. CASE ~(events # <<>> /\ events[1].caller = "pollConnecting")
    <3>1. WaitingQueue = connecting
      BY <2>1, <2>3, WaitingIs
    <3>2. WaitingQueue' = connecting'
      BY <1>3, <2>1, <2>3, WaitingIsNext
    <3> QED BY <3>1, <3>2
  <2> QED BY <2>2, <2>3
<1>5. WaitingQueue \in Seq(Sockets) /\ Distinct(WaitingQueue) /\ s \notin ToSet(WaitingQueue)
  BY <1>2 DEF WaitingSound, Connecting
<1>6. /\ WaitingQueue' \in Seq(Sockets) /\ Distinct(WaitingQueue')
      /\ ToSet(WaitingQueue') = ToSet(WaitingQueue) \cup {s}
  BY <1>4, <1>5, AppendQueue
<1>7. \A t : Connecting(t)' <=> (Connecting(t) \/ t = s)
  BY <1>6 DEF Connecting
<1>8. \A t \in ToSet(WaitingQueue) : t \in Sockets \ {s}
  BY <1>5, InQueue
<1>9. WaitingSound'
  <2>1. \A t \in ToSet(WaitingQueue) :
          memory'[t] = "live" /\ ~connected'[t] /\ type'[t] = "client" /\ custom'[t]
    BY <1>3, <1>8 DEF WaitingSound, OnlyOf, Live
  <2>2. memory'[s] = "live" /\ ~connected'[s] /\ type'[s] = "client" /\ custom'[s]
    BY <1>2, <1>3 DEF Live
  <2> QED BY <1>6, <2>1, <2>2 DEF WaitingSound, Live
<1>10. \A i \in 1..Len(events) : events[i].event = "connected" =>
         memory'[events[i].sock] = "live" /\ fd'[events[i].sock] \in Fds
  BY <1>2, <1>3, FrameOf DEF CallsNested, OnlyOf, Live
<1>11. CallsNested'
  BY <1>3, <1>10 DEF CallsNested, Live
<1>12. OutermostCall'
  <2>1. ToSet(connecting') = ToSet(connecting) \cup {s}
    BY AppendQueue DEF TypeOK
  <2> QED BY <1>3, <2>1 DEF OutermostCall
<1>13. OnlyLive'
  BY <1>3 DEF OnlyLive, Live
<1>14. RoundSound'
  <2>1. \A t \in ToSet(round) : t \in Sockets
    BY InQueue DEF TypeOK
  <2>2. \A t \in ToSet(round) : stage = "sockets" =>
          memory'[t] = "live" /\ (type'[t] = "client" \/ fd'[t] \in Fds)
    BY <1>2, <1>3, <2>1 DEF RoundSound, OnlyOf, Live
  <2> QED BY <1>3, <1>7, <2>2 DEF RoundSound, Live
<1>15. TableSound'
  <2>1. \A g : Leaving(g)' <=> Leaving(g)
    BY <1>3 DEF Leaving
  <2> QED BY <1>2, <1>3, <2>1 DEF TableSound, OnlyOf, Live, TypeOK
<1>16. DescriptorsOwned'
  <2>1. Owners' = Owners \cup {s}
    BY <1>2, <1>3, <1>7 DEF Owners, Live
  <2> QED BY <1>1, <1>2, <2>1, OwnedMore
<1> QED BY <1>1, <1>9, <1>11, <1>12, <1>13, <1>14, <1>15, <1>16

LEMMA DirectInv ==
  ASSUME PollInv, NormalUse, NEW s \in Sockets, NEW f \in Fds, ConnectDirectly(s, f)
  PROVE  PollInv'
<1> DEFINE e == [sock |-> s, event |-> "connected", caller |-> "connect", fd |-> fd[s],
                 remove |-> FALSE]
<1>1. /\ events' \in Seq(Frame) /\ events' # <<>> /\ Len(events') = Len(events) + 1
      /\ events'[Len(events')] = e /\ \A i \in 1..Len(events) : events'[i] = events[i]
      /\ events = <<>> => Len(events') = 1 /\ events'[1] = e
      /\ events # <<>> => events'[1] = events[1]
  <2>1. TypeOK /\ events' = Trigger(s, "connected", "connect", FALSE)
    BY DEF PollInv, ConnectDirectly
  <2> QED BY <2>1, TriggerIs
<1>2. e.sock = s /\ e.event = "connected" /\ e.caller = "connect"
  OBVIOUS
<1> HIDE DEF e
<1> USE DEF PollInv, ConnectDirectly
<1>3. TypeOK' /\ f \in Fds \ open
  BY <1>1 DEF TypeOK, Opens, fields, kernel, poll
<1>4. /\ Live(s) /\ ~connected[s] /\ ~Connecting(s) /\ s \notin Owners
      /\ \A i \in 1..Len(events) : events[i].event = "connected" => events[i].sock # s
      /\ \A g \in Fds : poll_table[g] = s => Leaving(g)
      /\ type[s] = "client"
  BY MayConnectFacts
<1>5. /\ OnlyOf(s) /\ fd'[s] = f /\ connected'[s]
      /\ UNCHANGED <<memory, type, custom, connecting, stage, round, poll_table, wanted>>
  BY DEF OnlyOf, TypeOK
<1>6. events \in Seq(Frame) /\ Len(events) \in Nat
  BY DEF TypeOK
<1>7. WaitingQueue' = WaitingQueue
  <2>1. CASE events = <<>>
    <3>1. WaitingQueue = connecting
      BY <2>1, WaitingIs
    <3>2. WaitingQueue' = connecting'
      BY <1>1, <1>2, <2>1, WaitingIsNext
    <3> QED BY <1>5, <3>1, <3>2
  <2>2. CASE events # <<>>
    <3>1. WaitingQueue = IF events[1].caller = "pollConnecting"
                         THEN Removed(connecting, events[1].sock) ELSE connecting
      BY <1>6, <2>2, WaitingIs
    <3>2. WaitingQueue' = IF events'[1].caller = "pollConnecting"
                          THEN Removed(connecting', events'[1].sock) ELSE connecting'
      BY <1>1, WaitingIsNext
    <3> QED BY <1>1, <1>5, <2>2, <3>1, <3>2
  <2> QED BY <2>1, <2>2
<1>8. \A t : Connecting(t)' <=> Connecting(t)
  BY <1>7 DEF Connecting
<1>9. WaitingSound'
  <2>1. \A t \in ToSet(WaitingQueue) : t \in Sockets \ {s}
    BY <1>4, OwnerFacts DEF Connecting
  <2> QED BY <1>5, <1>7, <2>1 DEF WaitingSound, OnlyOf, Live
<1>10. CallsNested'
  <2>1. ASSUME NEW i \in 1..Len(events)
        PROVE  events[i].event = "connected" =>
                 memory'[events[i].sock] = "live" /\ fd'[events[i].sock] \in Fds
    <3>1. events[i].sock \in Sockets
      BY FrameOf
    <3> QED BY <1>4, <1>5, <3>1 DEF CallsNested, OnlyOf, Live
  <2>2. memory'[s] = "live" /\ fd'[s] \in Fds
    BY <1>4, <1>5 DEF Live
  <2>3. \A i \in 1..Len(events') : i \in 1..Len(events) \/ i = Len(events')
    <3>1. \A n \in Nat : \A i \in 1..(n + 1) : i \in 1..n \/ i = n + 1
      OBVIOUS
    <3> QED BY <1>1, <1>6, <3>1
  <2>4. ASSUME NEW i \in 1..Len(events')
        PROVE  /\ i > 1 => events'[i].caller = "connect"
               /\ events'[i].caller = "connect" => events'[i].event = "connected"
               /\ events'[i].caller = "pollConnecting" => events'[i].event \in {"connected", "disconnect"}
               /\ events'[i].caller = "pollSocket" => events'[i].event # "connected"
               /\ events'[i].event = "connected" =>
                    memory'[events'[i].sock] = "live" /\ fd'[events'[i].sock] \in Fds
    <3>1. CASE i \in 1..Len(events)
      BY <1>1, <2>1, <3>1 DEF CallsNested
    <3>2. CASE i = Len(events')
      BY <1>1, <1>2, <2>2, <3>2
    <3> QED BY <2>3, <3>1, <3>2
  <2> QED BY <2>4 DEF CallsNested, Live
<1>11. OutermostCall'
  <2>1. CASE events = <<>>
    <3>1. stage = "idle"
      BY <2>1 DEF MayConnect, UserRuns
    <3> QED BY <1>1, <1>2, <1>5, <2>1, <3>1 DEF OutermostCall
  <2>2. CASE events # <<>>
    BY <1>1, <1>5, <2>2 DEF OutermostCall
  <2> QED BY <2>1, <2>2
<1>12. OnlyLive'
  BY <1>4, <1>5 DEF OnlyLive, OnlyOf, Live
<1>13. RoundSound'
  <2>1. \A t \in ToSet(round) : t \in Sockets
    BY InQueue DEF TypeOK
  <2>2. \A t \in ToSet(round) : stage = "sockets" =>
          memory'[t] = "live" /\ (type'[t] = "client" \/ fd'[t] \in Fds)
    BY <1>4, <1>5, <2>1 DEF RoundSound, OnlyOf, Live
  <2> QED BY <1>5, <1>8, <2>2 DEF RoundSound, Live
<1>14. TableSound'
  <2>1. \A g : Leaving(g)' <=> Leaving(g)
    BY <1>1, <1>2 DEF Leaving
  <2> QED BY <1>4, <1>5, <2>1 DEF TableSound, OnlyOf, Live, TypeOK
<1>15. DescriptorsOwned'
  <2>1. Owners' = Owners \cup {s}
    BY <1>4, <1>5, <1>8 DEF Owners, OnlyOf, Live
  <2> QED BY <1>3, <1>4, <2>1, OwnedMore
<1> QED BY <1>3, <1>9, <1>10, <1>11, <1>12, <1>13, <1>14, <1>15

-----------------------------------------------------------------------------
(* The two loops of pollSockets.                                           *)

\* The socket that is polled is taken from what is left of the copy.
LEMMA PollsFacts ==
  ASSUME PollInv, NEW where \in {"connecting", "sockets"}, NEW s \in Sockets, Polls(where, s)
  PROVE  /\ stage = where /\ events = <<>> /\ Len(events) = 0 /\ s \in ToSet(round)
         /\ round' \in Seq(Sockets) /\ ToSet(round') \subseteq ToSet(round)
         /\ Distinct(round') /\ s \notin ToSet(round')
         /\ Live(s) /\ WaitingQueue = connecting /\ \A f : ~Leaving(f)
         /\ where = "connecting" => Connecting(s)
<1> USE DEF PollInv
<1>1. stage = where /\ events = <<>> /\ round # <<>> /\ s = Head(round) /\ round' = Tail(round)
  BY DEF Polls
<1>2. round \in Seq(Sockets) /\ Distinct(round)
  BY DEF TypeOK, RoundSound
<1>3. /\ s \in ToSet(round) /\ round' \in Seq(Sockets) /\ ToSet(round') \subseteq ToSet(round)
      /\ Distinct(round') /\ s \notin ToSet(round')
  BY <1>1, <1>2, TailQueue
<1>4. WaitingQueue = connecting /\ Len(events) = 0 /\ \A f : ~Leaving(f)
  BY <1>1, WaitingIs DEF Leaving
<1>5. where = "connecting" => Connecting(s)
  BY <1>1, <1>3 DEF RoundSound
<1>6. Live(s)
  BY <1>1, <1>3, <1>5 DEF RoundSound, WaitingSound, Connecting
<1> QED BY <1>1, <1>3, <1>4, <1>5, <1>6

LEMMA NothingInv ==
  ASSUME PollInv, NEW s \in Sockets, NothingHappened(s)
  PROVE  PollInv'
<1> USE DEF PollInv, NothingHappened, fields, kernel
<1>1. PICK where \in {"connecting", "sockets"} : Polls(where, s)
  OBVIOUS
<1>2. /\ stage = where /\ round' \in Seq(Sockets) /\ ToSet(round') \subseteq ToSet(round)
      /\ Distinct(round') /\ events = <<>> /\ \A f : ~Leaving(f)
  BY <1>1, PollsFacts
<1>3. WaitingQueue' = WaitingQueue
  BY DEF WaitingQueue
<1>4. TypeOK'
  BY <1>2 DEF TypeOK
<1>5. CallsNested' /\ OnlyLive'
  BY DEF CallsNested, OnlyLive, Live
<1>6. OutermostCall'
  BY <1>2 DEF OutermostCall
<1>7. WaitingSound' /\ RoundSound'
  BY <1>2, <1>3 DEF WaitingSound, RoundSound, Connecting, Live
<1>8. TableSound'
  BY <1>2 DEF TableSound, Leaving, Live
<1>9. DescriptorsOwned'
  <2>1. Owners' = Owners
    BY <1>3 DEF Owners, Connecting, Live
  <2> QED BY <2>1, OwnedSame
<1> QED BY <1>4, <1>5, <1>6, <1>7, <1>8, <1>9

\* What is under way keeps what it needs when a socket is polled and triggers an event.
LEMMA PollCalls ==
  ASSUME PollInv, NEW s \in Sockets, NEW where \in {"connecting", "sockets"}, Polls(where, s),
         NEW event \in {"connected", "disconnect", "read", "accept", "error"},
         NEW from \in {"pollConnecting", "pollSocket"}, NEW remove \in BOOLEAN,
         events' = Trigger(s, event, from, remove),
         where = "connecting" => from = "pollConnecting" /\ event \in {"connected", "disconnect"},
         where = "sockets" => from = "pollSocket" /\ event # "connected",
         UNCHANGED <<connecting, stage, poll_table>>,
         \A t \in Sockets : Live(t) => /\ memory'[t] = "live" /\ type'[t] = type[t]
                                       /\ custom'[t] = custom[t] /\ fd'[t] = fd[t],
         \A t \in Sockets : Connecting(t) /\ (where = "sockets" \/ t # s) => ~connected'[t]
  PROVE  /\ events' \in Seq(Frame)
         /\ CallsNested' /\ OutermostCall' /\ WaitingSound' /\ RoundSound' /\ TableSound'
         /\ \A t : Connecting(t)' <=> Connecting(t) /\ (where = "sockets" \/ t # s)
<1> USE DEF PollInv
<1> DEFINE e == [sock |-> s, event |-> event, caller |-> from, fd |-> fd[s], remove |-> remove]
<1>1. /\ stage = where /\ events = <<>> /\ Len(events) = 0 /\ s \in ToSet(round)
      /\ round' \in Seq(Sockets) /\ ToSet(round') \subseteq ToSet(round)
      /\ Distinct(round') /\ s \notin ToSet(round')
      /\ Live(s) /\ WaitingQueue = connecting /\ \A f : ~Leaving(f)
      /\ where = "connecting" => Connecting(s)
  BY PollsFacts
<1>2. events' \in Seq(Frame) /\ events' # <<>> /\ Len(events') = 1 /\ events'[1] = e
  BY <1>1, TriggerIs
<1>3. e.sock = s /\ e.event = event /\ e.caller = from
  OBVIOUS
<1> HIDE DEF e
<1>4. where = "connecting" => memory'[s] = "live" /\ fd'[s] \in Fds
  BY <1>1, OwnerFacts
<1>5. CallsNested'
  <2>1. \A i \in 1..Len(events') : i = 1
    BY <1>2
  <2>2. ~(1 > 1)
    OBVIOUS
  <2> QED BY <1>2, <1>3, <1>4, <2>1, <2>2 DEF CallsNested, Live
<1>6. where = "connecting" => s \in ToSet(connecting)
  BY <1>1 DEF Connecting
<1>7. OutermostCall'
  BY <1>1, <1>2, <1>3, <1>6 DEF OutermostCall
<1>8. connecting \in Seq(Sockets) /\ Distinct(connecting)
  BY <1>1 DEF WaitingSound
<1>9. /\ WaitingQueue' \in Seq(Sockets) /\ Distinct(WaitingQueue')
      /\ ToSet(WaitingQueue') = IF where = "sockets" THEN ToSet(WaitingQueue)
                                ELSE ToSet(WaitingQueue) \ {s}
  <2>1. WaitingQueue' = IF from = "pollConnecting" THEN Removed(connecting, s) ELSE connecting
    BY <1>2, <1>3, WaitingIsNext
  <2>2. CASE where = "sockets"
    BY <1>1, <1>8, <2>1, <2>2
  <2>3. CASE where = "connecting"
    <3>1. /\ Removed(connecting, s) \in Seq(Sockets) /\ Distinct(Removed(connecting, s))
          /\ ToSet(Removed(connecting, s)) = ToSet(connecting) \ {s}
      BY <1>6, <1>8, <2>3, RemovedQueue
    <3> QED BY <1>1, <2>1, <2>3, <3>1
  <2> QED BY <2>2, <2>3
<1>10. \A t : Connecting(t)' <=> Connecting(t) /\ (where = "sockets" \/ t # s)
  BY <1>9 DEF Connecting
<1>11. WaitingSound'
  <2>1. \A t \in ToSet(WaitingQueue') : Connecting(t) /\ (where = "sockets" \/ t # s) /\ t \in Sockets
    BY <1>9, OwnerFacts DEF Connecting
  <2> QED BY <1>9, <2>1 DEF WaitingSound, Connecting, Live
<1>12. RoundSound'
  <2>1. \A t \in ToSet(round') : t \in ToSet(round) /\ t # s /\ t \in Sockets
    BY <1>1, InQueue DEF TypeOK
  <2> QED BY <1>1, <1>10, <2>1 DEF RoundSound, Live
<1>13. TableSound'
  <2>1. \A f \in Fds : poll_table[f] # NoSocket => poll_table[f] \in Sockets
    BY DEF TypeOK
  <2> QED BY <1>1, <2>1 DEF TableSound, Live
<1> QED BY <1>2, <1>5, <1>7, <1>10, <1>11, <1>12, <1>13

LEMMA FailedInv ==
  ASSUME PollInv, NEW s \in Sockets, ConnectionFailed(s)
  PROVE  PollInv'
<1> USE DEF PollInv, ConnectionFailed, fields
<1>1. /\ stage = "connecting" /\ round' \in Seq(Sockets) /\ Connecting(s)
  BY PollsFacts
<1>2. s \in Owners /\ fd[s] \in open \ lost
  BY <1>1, OwnerFacts
<1>3. /\ events' \in Seq(Frame)
      /\ CallsNested' /\ OutermostCall' /\ WaitingSound' /\ RoundSound' /\ TableSound'
      /\ \A t : Connecting(t)' <=> Connecting(t) /\ t # s
  <2>1. \A t \in Sockets : Connecting(t) => ~connected[t]
    BY OwnerFacts
  <2> QED BY <2>1, PollCalls DEF Live
<1>4. TypeOK'
  BY <1>1, <1>2, <1>3 DEF TypeOK
<1>5. OnlyLive'
  BY DEF OnlyLive, Live
<1>6. DescriptorsOwned'
  <2>1. ~connected[s]
    BY <1>1, OwnerFacts
  <2>2. Owners' = Owners \ {s}
    BY <1>3, <2>1 DEF Owners, Live
  <2> QED BY <1>2, <2>2, OwnedLess
<1> QED BY <1>3, <1>4, <1>5, <1>6

LEMMA MadeInv ==
  ASSUME PollInv, NEW s \in Sockets, ConnectionMade(s)
  PROVE  PollInv'
<1> USE DEF PollInv, ConnectionMade, kernel
<1>1. /\ stage = "connecting" /\ round' \in Seq(Sockets) /\ Connecting(s) /\ Live(s)
  BY PollsFacts
<1>2. s \in Owners
  BY <1>1, OwnerFacts
<1>3. connected'[s] /\ \A t \in Sockets \ {s} : connected'[t] = connected[t]
  BY DEF TypeOK
<1>4. /\ events' \in Seq(Frame)
      /\ CallsNested' /\ OutermostCall' /\ WaitingSound' /\ RoundSound' /\ TableSound'
      /\ \A t : Connecting(t)' <=> Connecting(t) /\ t # s
  <2>1. \A t \in Sockets : Connecting(t) /\ t # s => ~connected'[t]
    BY <1>3, OwnerFacts
  <2> QED BY <2>1, PollCalls DEF Live
<1>5. TypeOK'
  BY <1>1, <1>4 DEF TypeOK
<1>6. OnlyLive'
  BY <1>1, <1>3 DEF OnlyLive, Live
<1>7. DescriptorsOwned'
  <2>1. Owners' = Owners
    BY <1>1, <1>2, <1>3, <1>4 DEF Owners, Live
  <2> QED BY <2>1, OwnedSame
<1> QED BY <1>4, <1>5, <1>6, <1>7

\* pollSocket leaves the fields as they are.
LEMMA PollQuietInv ==
  ASSUME PollInv, NEW s \in Sockets, Polls("sockets", s),
         NEW event \in {"disconnect", "read", "error"}, NEW remove \in BOOLEAN,
         events' = Trigger(s, event, "pollSocket", remove),
         UNCHANGED <<fields, kernel, poll_table, connecting, stage, wanted>>
  PROVE  PollInv'
<1> USE DEF PollInv, fields, kernel
<1>1. /\ stage = "sockets" /\ round' \in Seq(Sockets)
  BY PollsFacts
<1>2. /\ events' \in Seq(Frame)
      /\ CallsNested' /\ OutermostCall' /\ WaitingSound' /\ RoundSound' /\ TableSound'
      /\ \A t : Connecting(t)' <=> Connecting(t)
  <2>1. \A t \in Sockets : Connecting(t) => ~connected'[t]
    BY OwnerFacts
  <2> QED BY <2>1, PollCalls DEF Live
<1>3. TypeOK'
  BY <1>1, <1>2 DEF TypeOK
<1>4. OnlyLive'
  BY DEF OnlyLive, Live
<1>5. DescriptorsOwned'
  <2>1. Owners' = Owners
    BY <1>2 DEF Owners, Live
  <2> QED BY <2>1, OwnedSame
<1> QED BY <1>2, <1>3, <1>4, <1>5

LEMMA PeerGoneInv ==
  ASSUME PollInv, NEW s \in Sockets, PeerGone(s)
  PROVE  PollInv'
<1> USE DEF PollInv, PeerGone, Disconnect
<1>1. /\ stage = "sockets" /\ round' \in Seq(Sockets)
  BY PollsFacts
<1>2. s \in Owners /\ fd[s] \in open \ lost /\ ~Connecting(s)
  BY OwnerFacts
<1>3. ~connected'[s] /\ \A t \in Sockets \ {s} : connected'[t] = connected[t]
  BY DEF TypeOK
<1>4. /\ events' \in Seq(Frame)
      /\ CallsNested' /\ OutermostCall' /\ WaitingSound' /\ RoundSound' /\ TableSound'
      /\ \A t : Connecting(t)' <=> Connecting(t)
  <2>1. \A t \in Sockets : Connecting(t) => ~connected'[t]
    BY <1>3, OwnerFacts
  <2> QED BY <2>1, PollCalls DEF Live
<1>5. TypeOK'
  BY <1>1, <1>2, <1>4 DEF TypeOK
<1>6. OnlyLive'
  BY <1>3 DEF OnlyLive, Live
<1>7. DescriptorsOwned'
  <2>1. Owners' = Owners \ {s}
    BY <1>2, <1>3, <1>4 DEF Owners, Live
  <2> QED BY <1>2, <2>1, OwnedLess
<1> QED BY <1>4, <1>5, <1>6, <1>7

LEMMA AcceptedInv ==
  ASSUME PollInv, NEW s \in Sockets, NEW c \in Sockets, NEW f \in Fds, Accepted(s, c, f)
  PROVE  PollInv'
<1> USE DEF PollInv, Accepted
<1>1. stage = "sockets" /\ round' \in Seq(Sockets) /\ f \in Fds \ open
  BY PollsFacts DEF Opens
<1>2. ~Live(c) /\ ~Connecting(c) /\ c \notin Owners
  BY OwnerFacts DEF Live, Owners
<1>3. /\ memory'[c] = "live" /\ connected'[c]
      /\ \A t \in Sockets \ {c} : /\ memory'[t] = memory[t] /\ type'[t] = type[t]
                                  /\ fd'[t] = fd[t] /\ connected'[t] = connected[t]
  BY DEF TypeOK
<1>4. /\ events' \in Seq(Frame)
      /\ CallsNested' /\ OutermostCall' /\ WaitingSound' /\ RoundSound' /\ TableSound'
      /\ \A t : Connecting(t)' <=> Connecting(t)
  <2>1. \A t \in Sockets : Connecting(t) => ~connected'[t]
    BY <1>2, <1>3, OwnerFacts
  <2>2. \A t \in Sockets : Live(t) => /\ memory'[t] = "live" /\ type'[t] = type[t]
                                      /\ custom'[t] = custom[t] /\ fd'[t] = fd[t]
    BY <1>2, <1>3 DEF Live
  <2> QED BY <2>1, <2>2, PollCalls
<1>5. TypeOK'
  BY <1>1, <1>4 DEF TypeOK, Types
<1>6. OnlyLive'
  BY <1>3 DEF OnlyLive, Live
<1>7. DescriptorsOwned'
  <2>1. Owners' = Owners \cup {c}
    BY <1>2, <1>3, <1>4 DEF Owners, Live
  <2> QED BY <1>1, <1>2, <2>1, OwnedMore
<1> QED BY <1>4, <1>5, <1>6, <1>7

\* What the return of the innermost listeners does to the table and the queue.
LEMMA ReturnFacts ==
  ASSUME PollInv, ListenersReturn
  PROVE  LET e == Last(events) IN
         /\ e \in Frame /\ Len(events) \in Nat \ {0} /\ e = events[Len(events)]
         /\ events' \in Seq(Frame) /\ Len(events') = Len(events) - 1
         /\ \A i \in 1..Len(events') : events'[i] = events[i]
         /\ e.caller # "connect" => Len(events) = 1 /\ e = events[1] /\ events' = <<>>
         /\ e.event = "connected" => fd[e.sock] \in Fds /\ Live(e.sock) /\ e.caller # "pollSocket"
         /\ e.caller = "connect" => e.event = "connected"
         /\ WaitingQueue' = WaitingQueue /\ connecting' \in Seq(Sockets)
<1> USE DEF PollInv
<1> DEFINE e == Last(events)
<1>1. /\ events # <<>> /\ events' = Front(events)
      /\ connecting' = IF e.caller = "pollConnecting" THEN Removed(connecting, e.sock) ELSE connecting
  BY DEF ListenersReturn
<1>2. events \in Seq(Frame) /\ connecting \in Seq(Sockets)
  BY DEF TypeOK
<1>3. /\ Len(events) \in Nat \ {0} /\ Len(events) \in 1..Len(events) /\ e \in Frame
      /\ e = events[Len(events)]
      /\ e.caller # "connect" => Len(events) = 1 /\ e = events[1]
  BY <1>1, LastCall
<1>4. /\ events' \in Seq(Frame) /\ Len(events') = Len(events) - 1
      /\ \A i \in 1..Len(events') : events'[i] = events[i]
  <2>1. /\ events' \in Seq(Frame) /\ Len(events') = Len(events) - 1
        /\ \A i \in 1..(Len(events) - 1) : events'[i] = events[i]
    BY <1>1, <1>2, FrontFacts
  <2> QED BY <2>1
<1> HIDE DEF e
<1>5. /\ e.event = "connected" => fd[e.sock] \in Fds /\ Live(e.sock) /\ e.caller # "pollSocket"
      /\ e.caller = "connect" => e.event = "connected"
  BY <1>3 DEF CallsNested
<1>6. Len(events) = 1 => events' = <<>>
  <2>1. Len(events) = 1 => Len(events') = 0
    BY <1>4
  <2> QED BY <1>4, <2>1, EmptySeq
<1>7. WaitingQueue' = WaitingQueue /\ connecting' \in Seq(Sockets)
  <2>1. CASE Len(events) = 1
    <3>1. e = events[1] /\ events' = <<>>
      BY <1>3, <1>6, <2>1
    <3>2. WaitingQueue = connecting'
      BY <1>1, <1>2, <3>1, WaitingIs
    <3>3. WaitingQueue' = connecting'
      BY <3>1, WaitingIsNext
    <3> QED BY <3>2, <3>3 DEF WaitingSound
  <2>2. CASE Len(events) # 1
    <3>1. e.caller = "connect" /\ connecting' = connecting
      BY <1>1, <1>3, <2>2
    <3>2. 1 \in 1..Len(events') /\ events'[1] = events[1] /\ events' # <<>>
      <4>1. \A n \in Nat \ {0} : n # 1 => 1 \in 1..(n - 1)
        OBVIOUS
      <4>2. 1 \in 1..Len(events')
        BY <1>3, <1>4, <2>2, <4>1
      <4>3. 1..0 = {}
        OBVIOUS
      <4> QED BY <1>4, <4>2, <4>3
    <3>3. WaitingQueue = IF events[1].caller = "pollConnecting"
                         THEN Removed(connecting, events[1].sock) ELSE connecting
      BY <1>1, <1>2, WaitingIs
    <3>4. WaitingQueue' = IF events'[1].caller = "pollConnecting"
                          THEN Removed(connecting', events'[1].sock) ELSE connecting'
      BY <1>4, <3>2, WaitingIsNext
    <3> QED BY <1>2, <3>1, <3>2, <3>3, <3>4
  <2> QED BY <2>1, <2>2
<1> QED BY <1>3, <1>4, <1>5, <1>6, <1>7 DEF e

LEMMA ReturnInv ==
  ASSUME PollInv, ListenersReturn
  PROVE  PollInv'
<1> USE DEF PollInv
<1> DEFINE e == Last(events)
<1>1. /\ e \in Frame /\ Len(events) \in Nat \ {0} /\ e = events[Len(events)]
      /\ events' \in Seq(Frame) /\ Len(events') = Len(events) - 1
      /\ \A i \in 1..Len(events') : events'[i] = events[i]
      /\ e.caller # "connect" => Len(events) = 1 /\ e = events[1] /\ events' = <<>>
      /\ e.event = "connected" => fd[e.sock] \in Fds /\ Live(e.sock) /\ e.caller # "pollSocket"
      /\ e.caller = "connect" => e.event = "connected"
      /\ WaitingQueue' = WaitingQueue /\ connecting' \in Seq(Sockets)
  BY ReturnFacts
<1>2. /\ events # <<>> /\ UNCHANGED <<memory, type, fd, connected, custom, open, lost, stage, round>>
      /\ e.event = "connected" => Enable(e.sock)
      /\ e.event # "connected" =>
           /\ poll_table' = IF e.caller = "pollSocket" /\ e.remove THEN Unpolled(e.fd) ELSE poll_table
           /\ UNCHANGED wanted
      /\ connecting' = IF e.caller = "pollConnecting" THEN Removed(connecting, e.sock) ELSE connecting
  BY DEF ListenersReturn, fields, kernel
<1>3. e.sock \in Sockets /\ e.fd \in Fds \cup {NoFd} /\ e.caller \in {"connect", "pollConnecting", "pollSocket"}
  BY <1>1 DEF Frame
<1> HIDE DEF e
<1>4. e.event = "connected" =>
        /\ poll_table' \in [Fds -> Sockets \cup {NoSocket}]
        /\ \A f \in Fds : poll_table'[f] = poll_table[f]
                          \/ (poll_table[f] = NoSocket /\ poll_table'[f] = e.sock /\ f = fd[e.sock])
        /\ wanted' = (IF connected[e.sock] THEN wanted \cup {e.sock} ELSE wanted)
  BY <1>1, <1>2, <1>3, EnableIs
<1>5. e.event # "connected" =>
        /\ poll_table' \in [Fds -> Sockets \cup {NoSocket}]
        /\ \A f \in Fds : poll_table'[f] = IF e.caller = "pollSocket" /\ e.remove /\ f = e.fd
                                           THEN NoSocket ELSE poll_table[f]
  <2>1. poll_table \in [Fds -> Sockets \cup {NoSocket}]
    BY DEF TypeOK
  <2>2. CASE e.caller = "pollSocket" /\ e.remove
    <3>1. e.event # "connected" => poll_table' = Unpolled(e.fd)
      BY <1>2, <2>2
    <3>2. /\ Unpolled(e.fd) \in [Fds -> Sockets \cup {NoSocket}]
          /\ \A f \in Fds : Unpolled(e.fd)[f] = IF f = e.fd THEN NoSocket ELSE poll_table[f]
      BY <1>3, <2>1 DEF Unpolled, NoFd, Fds
    <3> QED BY <2>2, <3>1, <3>2
  <2>3. CASE ~(e.caller = "pollSocket" /\ e.remove)
    BY <1>2, <2>1, <2>3
  <2> QED BY <2>2, <2>3
<1>6. wanted' \subseteq Sockets
  BY <1>2, <1>3, <1>4 DEF TypeOK
<1>7. TypeOK'
  <2>1. poll_table' \in [Fds -> Sockets \cup {NoSocket}]
    BY <1>4, <1>5
  <2> QED BY <1>1, <1>2, <1>6, <2>1 DEF TypeOK
<1>8. \A t : Connecting(t)' <=> Connecting(t)
  BY <1>1 DEF Connecting
<1>9. \A i \in 1..Len(events') : i \in 1..Len(events) /\ events'[i] = events[i]
  <2>1. \A n \in Nat \ {0} : \A i \in 1..(n - 1) : i \in 1..n
    OBVIOUS
  <2> QED BY <1>1, <2>1
<1>10. events' # <<>> => 1 \in 1..Len(events') /\ events'[1] = events[1] /\ e.caller = "connect"
  <2>1. events' # <<>> => 1 \in 1..Len(events')
    BY <1>1, TailQueue
  <2> QED BY <1>1, <1>9, <2>1
<1>11. CallsNested'
  BY <1>2, <1>9 DEF CallsNested, Live
<1>12. OutermostCall'
  BY <1>2, <1>10 DEF OutermostCall
<1>13. OnlyLive'
  BY <1>1, <1>2, <1>3, <1>4 DEF OnlyLive, Live
<1>14. WaitingSound'
  BY <1>1, <1>2 DEF WaitingSound, Live
<1>15. RoundSound'
  BY <1>2, <1>8 DEF RoundSound, Live
<1>16. TableSound'
  <2> SUFFICES ASSUME NEW f \in Fds, poll_table'[f] # NoSocket
               PROVE  (memory'[poll_table'[f]] = "live" /\ fd'[poll_table'[f]] = f) \/ Leaving(f)'
    BY DEF TableSound, Live
  <2>1. CASE e.event = "connected"
    <3>1. CASE poll_table'[f] = e.sock /\ f = fd[e.sock]
      BY <1>1, <1>2, <2>1, <3>1 DEF Live
    <3>2. CASE poll_table'[f] = poll_table[f]
      <4>1. (Live(poll_table[f]) /\ fd[poll_table[f]] = f) \/ Leaving(f)
        BY <3>2 DEF TableSound
      <4>2. ASSUME Leaving(f) PROVE Leaving(f)'
        <5>1. e # events[1]
          BY <1>1, <2>1, <4>2 DEF Leaving
        <5>2. events' # <<>>
          <6>1. Len(events) # 1
            BY <1>1, <5>1
          <6>2. Len(events') # 0
            BY <1>1, <6>1
          <6>3. Len(<<>>) = 0
            OBVIOUS
          <6> QED BY <6>2, <6>3
        <5> QED BY <1>10, <4>2, <5>2 DEF Leaving
      <4> QED BY <1>2, <3>2, <4>1, <4>2 DEF Live
    <3> QED BY <1>4, <2>1, <3>1, <3>2
  <2>2. CASE e.event # "connected"
    <3>1. e.caller # "connect" /\ e = events[1]
      BY <1>1, <2>2
    <3>2. ~(e.caller = "pollSocket" /\ e.remove /\ f = e.fd) /\ poll_table'[f] = poll_table[f]
      BY <1>5, <2>2
    <3>3. ~Leaving(f)
      BY <3>1, <3>2 DEF Leaving
    <3> QED BY <1>2, <3>2, <3>3 DEF TableSound, Live
  <2> QED BY <2>1, <2>2
<1>17. DescriptorsOwned'
  <2>1. Owners' = Owners
    BY <1>2, <1>8 DEF Owners, Live
  <2> QED BY <1>2, <2>1, OwnedSame
<1> QED BY <1>7, <1>11, <1>12, <1>13, <1>14, <1>15, <1>16, <1>17

-----------------------------------------------------------------------------
(* The poll timer.                                                         *)

\* Steps that only move pollSockets from one loop to the next.
LEMMA StageInv ==
  ASSUME PollInv, events = <<>>, round' \in Seq(Sockets), Distinct(round'),
         stage' \in {"idle", "connecting", "sockets"}, stage' = "idle" => round' = <<>>,
         \A s \in ToSet(round') :
           /\ stage' = "connecting" => Connecting(s)
           /\ stage' = "sockets" => Live(s) /\ (type[s] = "client" \/ fd[s] \in Fds),
         UNCHANGED <<fields, kernel, poll_table, connecting, events, wanted>>
  PROVE  PollInv'
<1> USE DEF PollInv, fields, kernel
<1>1. WaitingQueue' = WaitingQueue /\ \A t : Connecting(t)' <=> Connecting(t)
  BY DEF WaitingQueue, Connecting
<1>2. TypeOK'
  BY DEF TypeOK
<1>3. CallsNested' /\ OutermostCall' /\ OnlyLive'
  BY DEF CallsNested, OutermostCall, OnlyLive, Live
<1>4. WaitingSound' /\ RoundSound'
  BY <1>1 DEF WaitingSound, RoundSound, Live
<1>5. TableSound'
  BY DEF TableSound, Leaving, Live
<1>6. DescriptorsOwned'
  <2>1. Owners' = Owners
    BY <1>1 DEF Owners, Live
  <2> QED BY <2>1, OwnedSame
<1> QED BY <1>2, <1>3, <1>4, <1>5, <1>6

LEMMA PollSocketsInv ==
  ASSUME PollInv, PollSockets
  PROVE  PollInv'
<1> USE DEF PollInv, PollSockets
<1>1. WaitingQueue = connecting
  BY WaitingIs
<1>2. round' \in Seq(Sockets) /\ Distinct(round') /\ \A s \in ToSet(round') : Connecting(s)
  BY <1>1 DEF WaitingSound, Connecting
<1> QED BY <1>2, StageInv

LEMMA PollDoneInv ==
  ASSUME PollInv, PollDone
  PROVE  PollInv'
<1> USE DEF PollInv, PollDone
<1>1. round' \in Seq(Sockets) /\ Distinct(round') /\ ToSet(round') = {}
  <2>1. ToSet(<<>>) = {} /\ 1..0 = {} /\ Len(<<>>) = 0
    BY DEF ToSet
  <2> QED BY <2>1 DEF TypeOK, Distinct
<1> QED BY <1>1, StageInv

\* Every number of the table has a place in the order of its values.
LEMMA ConnectingDoneInv ==
  ASSUME PollInv, ConnectingDone
  PROVE  PollInv'
<1> USE DEF PollInv
<1> DEFINE fds == {f \in Fds : poll_table[f] # NoSocket}
<1>1. PICK order \in SetToSeqs(fds) : round' = [i \in DOMAIN order |-> poll_table[order[i]]]
  BY DEF ConnectingDone
<1>2. /\ stage' = "sockets" /\ events = <<>>
      /\ UNCHANGED <<fields, kernel, poll_table, connecting, events, wanted>>
  BY DEF ConnectingDone
<1>3. IsFiniteSet(fds) /\ Cardinality(fds) \in Nat
  <2>1. fds \subseteq 0..MaxFd /\ IsFiniteSet(0..MaxFd)
    BY SocketAssumption, FS_Interval DEF Fds
  <2> QED BY <2>1, FS_Subset, FS_CardinalityType
<1> DEFINE n == Cardinality(fds)
<1>4. order \in [1..n -> fds] /\ \A i, j \in 1..n : order[i] = order[j] => i = j
  BY <1>1, SMT DEF SetToSeqs
<1>5. \A f \in fds : poll_table[f] \in Sockets /\ Live(poll_table[f]) /\ fd[poll_table[f]] = f /\ f \in Fds
  <2>1. \A f : ~Leaving(f)
    BY <1>2 DEF Leaving
  <2> QED BY <2>1 DEF TableSound, TypeOK
<1> HIDE DEF fds, n
<1>6. /\ round' = [i \in 1..n |-> poll_table[order[i]]]
      /\ \A i \in 1..n : order[i] \in fds /\ poll_table[order[i]] \in Sockets
  BY <1>1, <1>4, <1>5
<1>7. n \in Nat
  BY <1>3 DEF n
<1> DEFINE e(i) == poll_table[order[i]]
<1>8. round' \in Seq(Sockets) /\ Len(round') = n /\ \A i \in 1..n : round'[i] = poll_table[order[i]]
  <2>1. \A i \in 1..n : e(i) \in Sockets
    BY <1>6
  <2> HIDE DEF e
  <2>2. [i \in 1..n |-> e(i)] \in Seq(Sockets)
    BY <1>7, <2>1, IsASeq
  <2>3. round' = [i \in 1..n |-> e(i)]
    BY <1>6 DEF e
  <2>4. \A i \in 1..n : round'[i] = e(i)
    BY <2>3
  <2> QED BY <1>7, <2>2, <2>3, <2>4 DEF e
<1>9. Distinct(round')
  <2> SUFFICES ASSUME NEW i \in 1..n, NEW j \in 1..n, round'[i] = round'[j]
               PROVE  i = j
    BY <1>8 DEF Distinct
  <2>1. order[i] = fd[round'[i]] /\ order[j] = fd[round'[j]]
    BY <1>5, <1>6, <1>8
  <2> QED BY <1>4, <2>1
<1>10. \A s \in ToSet(round') : Live(s) /\ fd[s] \in Fds
  <2>1. \A s \in ToSet(round') : \E i \in 1..n : round'[i] = s
    BY <1>8, InQueue
  <2> QED BY <1>5, <1>6, <1>8, <2>1
<1> QED BY <1>2, <1>8, <1>9, <1>10, StageInv

-----------------------------------------------------------------------------
(* The theorems.                                                           *)

LEMMA StutterPoll == PollInv /\ UNCHANGED vars => PollInv'
<1> SUFFICES ASSUME PollInv, UNCHANGED vars PROVE PollInv'
  OBVIOUS
<1> USE DEF vars, fields, kernel, poll
<1>1. WaitingQueue' = WaitingQueue /\ \A t : Connecting(t)' <=> Connecting(t)
  BY DEF WaitingQueue, Connecting
<1>2. TypeOK' /\ CallsNested' /\ OutermostCall' /\ OnlyLive'
  BY DEF PollInv, TypeOK, CallsNested, OutermostCall, OnlyLive, Live
<1>3. WaitingSound' /\ RoundSound' /\ TableSound'
  BY <1>1 DEF PollInv, WaitingSound, RoundSound, TableSound, Leaving, Live
<1>4. DescriptorsOwned'
  <2>1. Owners' = Owners
    BY <1>1 DEF Owners, Live
  <2> QED BY <2>1, OwnedSame DEF PollInv
<1> QED BY <1>2, <1>3, <1>4 DEF PollInv

LEMMA PollNext == NormalUse /\ PollInv /\ [Next]_vars => PollInv'
<1> SUFFICES ASSUME NormalUse, PollInv, [Next]_vars PROVE PollInv'
  OBVIOUS
<1>1. CASE PollTimer
  BY <1>1, PollSocketsInv, ConnectingDoneInv, PollDoneInv DEF PollTimer
<1>2. CASE ListenersReturn
  BY <1>2, ReturnInv
<1>3. ASSUME NEW s \in Sockets, PollStep(s) PROVE PollInv'
  <2>1. CASE NothingHappened(s) \/ ConnectionFailed(s) \/ ConnectionMade(s) \/ PeerGone(s)
    BY <2>1, NothingInv, FailedInv, MadeInv, PeerGoneInv
  <2>2. CASE FoundDisconnected(s)
    BY <2>2, PollQuietInv DEF FoundDisconnected
  <2>3. CASE DataRead(s)
    BY <2>3, PollQuietInv DEF DataRead
  <2>4. CASE NothingAccepted(s)
    BY <2>4, PollQuietInv DEF NothingAccepted
  <2>5. CASE \E c \in Sockets, f \in Fds : Accepted(s, c, f)
    BY <2>5, AcceptedInv
  <2> QED BY <1>3, <2>1, <2>2, <2>3, <2>4, <2>5 DEF PollStep
<1>4. ASSUME NEW s \in Sockets, UserStep(s) PROVE PollInv'
  <2>1. CASE \E t \in Kinds : CreateSocket(s, t)
    BY <2>1, CreateInv
  <2>2. CASE ConnectWithoutFd(s)
    BY <2>2, ConnectWithoutFdInv
  <2>3. CASE \E f \in Fds : \/ ConnectSocket(s, f) \/ ConnectFails(s, f)
                            \/ ConnectDelayed(s, f) \/ ConnectDirectly(s, f)
    BY <2>3, ConnectInv, ConnectFailsInv, DelayedInv, DirectInv
  <2>4. CASE DisconnectSocket(s) \/ FreeSocket(s)
    BY <2>4, DisconnectInv, FreeInv
  <2>5. CASE EnableSocketPolling(s) \/ DisableSocketPolling(s)
    BY <2>5, EnableInv, DisableInv
  <2> QED BY <1>4, <2>1, <2>2, <2>3, <2>4, <2>5 DEF UserStep
<1>5. CASE UNCHANGED vars
  BY <1>5, StutterPoll
<1> QED BY <1>1, <1>2, <1>3, <1>4, <1>5 DEF Next

\* In normal use, whatever listeners do while a poll goes through its copies of the
\* queue and the table: it polls only sockets that exist, the assertions of
\* pollConnectingSocket hold, the table has no orphans between two polls, and every
\* open descriptor has one owner (pollSockets, freeSocket, closeSocket's callers).
THEOREM PollingIsSound == NormalUse /\ Spec => []PollSound
<1>1. ASSUME NormalUse PROVE Spec => []PollSound
  <2>1. PollInv /\ [Next]_vars => PollInv'
    BY <1>1, PollNext
  <2> QED BY <2>1, InitPoll, PollInvImplies, PTL DEF Spec
<1> QED BY <1>1

\* A socket keeps its descriptor while it is connected and live.
LEMMA FdKept ==
  ASSUME PollInv, NormalUse, [Next]_vars, NEW s \in wanted \cap wanted'
  PROVE  fd'[s] = fd[s] /\ s \in Sockets /\ connected[s] /\ Live(s) /\ fd[s] \in open /\ fd[s] \in Fds
<1> USE DEF PollInv
<1>1. s \in Sockets /\ connected[s] /\ Live(s) /\ fd[s] \in open /\ fd[s] \in Fds
  BY OwnerFacts DEF OnlyLive, TypeOK
<1>2. ASSUME NEW t \in Sockets, NEW g, ~connected[t], fd' = [fd EXCEPT ![t] = g]
      PROVE  fd'[s] = fd[s]
  BY <1>1, <1>2 DEF TypeOK
<1>3. ASSUME NEW t \in Sockets, UserStep(t) PROVE fd'[s] = fd[s]
  <2>1. CASE \/ \E k \in Kinds : CreateSocket(t, k)
             \/ DisconnectSocket(t) \/ FreeSocket(t) \/ EnableSocketPolling(t) \/ DisableSocketPolling(t)
    BY <2>1 DEF CreateSocket, DisconnectSocket, FreeSocket, EnableSocketPolling, DisableSocketPolling, fields
  <2>2. CASE ConnectWithoutFd(t)
    BY <1>2, <2>2 DEF ConnectWithoutFd, MayConnect
  <2>3. CASE \E f \in Fds : \/ ConnectSocket(t, f) \/ ConnectFails(t, f)
                            \/ ConnectDelayed(t, f) \/ ConnectDirectly(t, f)
    BY <1>2, <2>3 DEF ConnectSocket, ConnectFails, ConnectDelayed, ConnectDirectly, MayConnect
  <2> QED BY <1>3, <2>1, <2>2, <2>3 DEF UserStep
<1>4. ASSUME NEW t \in Sockets, PollStep(t) PROVE fd'[s] = fd[s]
  <2>1. CASE \E c \in Sockets, f \in Fds : Accepted(t, c, f)
    <3>1. PICK c \in Sockets, f \in Fds : Accepted(t, c, f)
      BY <2>1
    <3>2. ~connected[c]
      BY <3>1, OwnerFacts DEF Accepted, Live
    <3> QED BY <1>2, <3>1, <3>2 DEF Accepted
  <2>2. CASE ~ \E c \in Sockets, f \in Fds : Accepted(t, c, f)
    BY <1>4, <2>2 DEF PollStep, NothingHappened, ConnectionFailed, ConnectionMade,
      FoundDisconnected, PeerGone, DataRead, NothingAccepted, fields
  <2> QED BY <2>1, <2>2
<1>5. CASE PollTimer \/ ListenersReturn \/ UNCHANGED vars
  BY <1>1, <1>5 DEF PollTimer, PollSockets, ConnectingDone, PollDone, ListenersReturn, vars, fields
<1>6. fd'[s] = fd[s]
  BY <1>3, <1>4, <1>5 DEF Next
<1> QED BY <1>1, <1>6

\* A step that may remove the entry of a socket that stays wanted.
LEMMA EntryKept ==
  ASSUME PollInv, NormalUse, [Next]_vars, NEW s \in wanted \cap wanted', poll_table[fd[s]] = s
  PROVE  poll_table'[fd[s]] = s \/ Shared(s)
<1> USE DEF PollInv
<1>1. s \in Sockets /\ connected[s] /\ fd[s] \in open /\ fd[s] \in Fds
  BY FdKept
<1>2. poll_table \in [Fds -> Sockets \cup {NoSocket}] /\ s # NoSocket
  BY <1>1, SocketAssumption DEF TypeOK, NoSocket
<1>3. ASSUME NEW g, g # fd[s], poll_table' = Unpolled(g) PROVE poll_table'[fd[s]] = s
  BY <1>1, <1>2, <1>3 DEF Unpolled
<1>4. ASSUME NEW t \in Sockets, Enable(t) PROVE poll_table'[fd[s]] = s
  BY <1>1, <1>2, <1>4 DEF Enable, Polled, NoFd, Fds
<1>5. CASE UNCHANGED poll_table
  BY <1>5
<1>6. ASSUME NEW t \in Sockets, UserStep(t) PROVE poll_table'[fd[s]] = s \/ Shared(s)
  <2>1. CASE \/ \E k \in Kinds : CreateSocket(t, k)
             \/ ConnectWithoutFd(t) \/ DisconnectSocket(t)
             \/ \E f \in Fds : ConnectSocket(t, f) \/ ConnectDelayed(t, f) \/ ConnectDirectly(t, f)
    BY <1>5, <2>1 DEF CreateSocket, ConnectWithoutFd, DisconnectSocket, ConnectSocket,
      ConnectDelayed, ConnectDirectly
  <2>2. CASE \E f \in Fds : ConnectFails(t, f)
    <3>1. PICK f \in Fds : ConnectFails(t, f)
      BY <2>2
    <3>2. f # fd[s]
      BY <1>1, <3>1 DEF ConnectFails, Opens
    <3> QED BY <1>3, <1>5, <3>1, <3>2 DEF ConnectFails
  <2>3. CASE FreeSocket(t) \/ DisableSocketPolling(t)
    <3>1. t # s /\ poll_table' = Unpolled(fd[t])
      BY <1>1, <2>3 DEF FreeSocket, Disconnect, DisableSocketPolling
    <3>2. CASE fd[t] = fd[s]
      BY <3>1, <3>2 DEF Shared
    <3>3. CASE fd[t] # fd[s]
      BY <1>3, <3>1, <3>3
    <3> QED BY <3>2, <3>3
  <2>4. CASE EnableSocketPolling(t)
    BY <1>4, <2>4 DEF EnableSocketPolling
  <2> QED BY <1>6, <2>1, <2>2, <2>3, <2>4 DEF UserStep
<1>7. ASSUME NEW t \in Sockets, PollStep(t) PROVE poll_table'[fd[s]] = s
  BY <1>5, <1>7 DEF PollStep, NothingHappened, ConnectionFailed, ConnectionMade,
    FoundDisconnected, PeerGone, DataRead, NothingAccepted, Accepted
<1>8. CASE ListenersReturn
  <2> DEFINE e == Last(events)
  <2>1. e \in Frame /\ Len(events) \in Nat \ {0} /\ e = events[Len(events)]
    BY <1>8, ReturnFacts
  <2>2. /\ e.event = "connected" => Enable(e.sock)
        /\ e.event # "connected" =>
             poll_table' = IF e.caller = "pollSocket" /\ e.remove THEN Unpolled(e.fd) ELSE poll_table
    BY <1>8 DEF ListenersReturn
  <2>3. e.sock \in Sockets
    BY <2>1 DEF Frame
  <2>4. Len(events) \in DOMAIN events
    BY <2>1 DEF TypeOK
  <2> HIDE DEF e
  <2>5. CASE e.event = "connected"
    BY <1>4, <2>2, <2>3, <2>5
  <2>6. CASE e.event # "connected" /\ e.caller = "pollSocket" /\ e.remove
    <3>1. poll_table' = Unpolled(e.fd)
      BY <2>2, <2>6
    <3>2. CASE e.fd = fd[s]
      BY <2>1, <2>4, <2>6, <3>2 DEF Shared
    <3>3. CASE e.fd # fd[s]
      BY <1>3, <3>1, <3>3
    <3> QED BY <3>2, <3>3
  <2>7. CASE e.event # "connected" /\ ~(e.caller = "pollSocket" /\ e.remove)
    BY <1>5, <2>2, <2>7
  <2> QED BY <2>5, <2>6, <2>7
<1>9. CASE PollTimer \/ UNCHANGED vars
  BY <1>5, <1>9 DEF PollTimer, PollSockets, ConnectingDone, PollDone, vars
<1> QED BY <1>6, <1>7, <1>8, <1>9 DEF Next

\* In normal use a polled socket stays in the table until it is disconnected, freed or
\* disabled, unless it shares its number (enableSocketPolling, pollSockets, freeSocket).
THEOREM PolledSocketsStay == NormalUse /\ Spec => PollingKept
<1>1. ASSUME NormalUse PROVE Spec => PollingKept
  <2>1. PollInv /\ [Next]_vars =>
          [\A s \in wanted \cap wanted' :
             poll_table[fd[s]] = s => poll_table'[fd'[s]] = s \/ Shared(s)]_vars
    <3> SUFFICES ASSUME PollInv, [Next]_vars, NEW s \in wanted \cap wanted', poll_table[fd[s]] = s
                 PROVE  poll_table'[fd'[s]] = s \/ Shared(s)
      OBVIOUS
    <3> QED BY <1>1, FdKept, EntryKept
  <2>2. PollInv /\ [Next]_vars => PollInv'
    BY <1>1, PollNext
  <2> QED BY <2>1, <2>2, InitPoll, PTL DEF Spec, PollingKept
<1> QED BY <1>1

-----------------------------------------------------------------------------
(* The servers and their connections.                                      *)

ServerNames == {"shared", "feed"}
ConnectedTo(s) == {c \in Clients : conn[c].server = s}

\* A server is freed when nobody has to do with it any more.
ServerOK(s, n) ==
  /\ {"state", "open", "mappings"} \subseteq DOMAIN s
  /\ s.state \in {"running", "freeing", "freed"} /\ s.open = n
  /\ n > 0 => s.state # "freed"
  /\ s.state = "freeing" => n > 0

ConnectionsKnown ==
  /\ DOMAIN conn = Clients
  /\ \A c \in Clients : /\ {"server", "request"} \subseteq DOMAIN conn[c]
                        /\ conn[c].server \in ServerNames \cup {"none"}
                        /\ conn[c] = Nobody <=> conn[c].server = "none"

ServersInv ==
  /\ DOMAIN server = ServerNames /\ ConnectionsKnown
  /\ \A s \in ServerNames : ServerOK(server[s], Cardinality(ConnectedTo(s)))

LEMMA ServersInvImplies == ServersInv => ServersAccounted
BY DEF ServersInv, ServersAccounted, ServerOK, ConnectedTo, ServerNames

LEMMA Counts ==
  ASSUME NEW s
  PROVE  IsFiniteSet(ConnectedTo(s)) /\ Cardinality(ConnectedTo(s)) \in Nat
<1>1. IsFiniteSet(Clients) /\ ConnectedTo(s) \subseteq Clients
  BY HttpAssumption DEF ConnectedTo
<1> QED BY <1>1, FS_Subset, FS_CardinalityType

\* One of the servers changes, and no connection.
LEMMA ServerChanged ==
  ASSUME ServersInv, NEW s \in ServerNames, NEW r, server' = [server EXCEPT ![s] = r],
         ConnectionsKnown', \A t : ConnectedTo(t)' = ConnectedTo(t),
         ServerOK(r, Cardinality(ConnectedTo(s)))
  PROVE  ServersInv'
<1>1. DOMAIN server' = ServerNames
  BY DEF ServersInv
<1>2. ASSUME NEW t \in ServerNames
      PROVE  ServerOK(server'[t], Cardinality(ConnectedTo(t)'))
  BY <1>1, <1>2 DEF ServersInv
<1> QED BY <1>1, <1>2 DEF ServersInv

LEMMA ConnectionsStay ==
  ASSUME ServersInv, UNCHANGED conn
  PROVE  ConnectionsKnown' /\ \A t : ConnectedTo(t)' = ConnectedTo(t)
BY DEF ServersInv, ConnectionsKnown, ConnectedTo

\* What the servers' own operations return.
LEMMA OperationsKeepServers ==
  ASSUME NEW s, NEW n \in Nat, ServerOK(s, n), NEW m
  PROVE  /\ ServerOK(RegisterHandler(s, m), n)
         /\ \A regexp, handler, userdata : ServerOK(UnregisterHandler(s, regexp, handler, userdata), n)
         /\ ServerOK(DestroyHttpServer(s), n)
<1>1. \A q : ServerOK([s EXCEPT !.mappings = q], n)
  BY DEF ServerOK
<1>2. ServerOK(RegisterHandler(s, m), n)
  BY <1>1 DEF RegisterHandler
<1>3. \A regexp, handler, userdata : ServerOK(UnregisterHandler(s, regexp, handler, userdata), n)
  BY <1>1 DEF UnregisterHandler
<1>4. ServerOK(DestroyHttpServer(s), n)
  BY DEF ServerOK, DestroyHttpServer, TryFreeServer, NoServer, NewServer
<1> QED BY <1>2, <1>3, <1>4

\* A server that is there no more can be started.
LEMMA FreshServer ==
  ASSUME NEW q
  PROVE  ServerOK(StartHttpServer([NewServer EXCEPT !.mappings = q]), 0)
BY DEF ServerOK, StartHttpServer, NewServer

LEMMA FreedHasNone ==
  ASSUME ServersInv, NEW s \in ServerNames, server[s].state = "freed"
  PROVE  Cardinality(ConnectedTo(s)) = 0
BY Counts DEF ServersInv, ServerOK

LEMMA AcceptKeeps ==
  ASSUME ServersInv, NEW c \in Clients, NEW s \in ServerNames, Accept(c, s)
  PROVE  ServersInv'
<1>1. /\ conn[c] = Nobody /\ server[s].state = "running"
      /\ server' = [server EXCEPT ![s] = [server[s] EXCEPT !.open = @ + 1]]
      /\ conn' = [conn EXCEPT ![c] = Connection(s)]
  BY DEF Accept
<1>2. ConnectionsKnown'
  BY <1>1 DEF ServersInv, ConnectionsKnown, Connection, Nobody, ServerNames
<1>3. c \notin ConnectedTo(s) /\ ConnectedTo(s)' = ConnectedTo(s) \cup {c}
  BY <1>1 DEF ServersInv, ConnectionsKnown, ConnectedTo, Connection, ServerNames
<1>4. \A t \in ServerNames : t # s => ConnectedTo(t)' = ConnectedTo(t)
  BY <1>1 DEF ServersInv, ConnectionsKnown, ConnectedTo, Connection, ServerNames
<1>5. Cardinality(ConnectedTo(s)') = Cardinality(ConnectedTo(s)) + 1
  BY <1>3, Counts, FS_AddElement
<1>6. ServerOK([server[s] EXCEPT !.open = @ + 1], Cardinality(ConnectedTo(s)) + 1)
  BY <1>1, Counts DEF ServersInv, ServerOK
<1>7. ASSUME NEW t \in ServerNames
      PROVE  ServerOK(server'[t], Cardinality(ConnectedTo(t)'))
  <2>1. CASE t = s
    BY <1>1, <1>5, <1>6, <2>1 DEF ServersInv
  <2>2. CASE t # s
    BY <1>1, <1>4, <2>2 DEF ServersInv
  <2> QED BY <2>1, <2>2
<1> QED BY <1>1, <1>2, <1>7 DEF ServersInv

LEMMA OneLess ==
  ASSUME ServersInv, NEW c \in Clients, NEW s \in ServerNames, conn[c].server = s,
         server' = [server EXCEPT ![s] = Disconnected(c, @)],
         conn' = [conn EXCEPT ![c] = Nobody]
  PROVE  ServersInv'
<1>1. DOMAIN conn' = Clients /\ conn'[c].server = "none"
      /\ \A d \in Clients : d # c => conn'[d] = conn[d]
  BY DEF ServersInv, ConnectionsKnown, Connection, Nobody
<1>2. ConnectionsKnown'
  BY <1>1 DEF ServersInv, ConnectionsKnown, Connection, Nobody, ServerNames
<1>3. c \in ConnectedTo(s) /\ ConnectedTo(s)' = ConnectedTo(s) \ {c}
  BY <1>1 DEF ConnectedTo, ServerNames
<1>4. \A t \in ServerNames : t # s => ConnectedTo(t)' = ConnectedTo(t)
  BY <1>1 DEF ConnectedTo, ServerNames
<1>5. /\ Cardinality(ConnectedTo(s)) > 0
      /\ Cardinality(ConnectedTo(s)') = Cardinality(ConnectedTo(s)) - 1
  BY <1>3, Counts, FS_RemoveElement, FS_EmptySet
<1>6. DOMAIN server = ServerNames
      /\ \A t \in ServerNames : ServerOK(server[t], Cardinality(ConnectedTo(t)))
  BY DEF ServersInv
<1>7. ServerOK(Disconnected(c, server[s]), Cardinality(ConnectedTo(s)) - 1)
  BY <1>5, <1>6, Counts DEF ServerOK, Disconnected, TryFreeServer, NoServer, NewServer
<1>8. DOMAIN server' = ServerNames /\ server'[s] = Disconnected(c, server[s])
      /\ \A t \in ServerNames : t # s => server'[t] = server[t]
  BY <1>6
<1>9. \A t \in ServerNames : ServerOK(server'[t], Cardinality(ConnectedTo(t)'))
  BY <1>4, <1>5, <1>6, <1>7, <1>8
<1> QED BY <1>2, <1>8, <1>9 DEF ServersInv

LEMMA GoneKeeps ==
  ASSUME ServersInv, NEW c \in Clients, conn[c] # Nobody, ConnectionGone(c)
  PROVE  ServersInv'
<1>1. conn[c].server \in ServerNames
  BY DEF ServersInv, ConnectionsKnown
<1> QED BY <1>1, OneLess DEF ConnectionGone

LEMMA ReadKeeps ==
  ASSUME ServersInv, NEW c \in Clients, NEW n, Read(c, n)
  PROVE  ServersInv'
<1>1. CASE ConnectionGone(c)
  BY <1>1, GoneKeeps DEF Read
<1>2. CASE UNCHANGED server /\ \E r : conn' = [conn EXCEPT ![c].request = r]
  <2>1. PICK r : conn' = [conn EXCEPT ![c].request = r]
    BY <1>2
  <2>2. conn[c] # Nobody
    BY DEF Read
  <2>3. DOMAIN conn' = Clients /\ \A d \in Clients : conn'[d].server = conn[d].server
    BY <2>1 DEF ServersInv, ConnectionsKnown
  <2>4. ConnectionsKnown'
    BY <2>1, <2>2, <2>3 DEF ServersInv, ConnectionsKnown, Connection, Nobody, ServerNames
  <2>5. \A t : ConnectedTo(t)' = ConnectedTo(t)
    BY <2>3 DEF ConnectedTo
  <2> QED BY <1>2, <2>4, <2>5 DEF ServersInv
<1> QED BY <1>1, <1>2 DEF Read

\* The other operations change one server and leave its connections alone.
LEMMA ServerOperated ==
  ASSUME ServersInv, UNCHANGED conn, NEW s \in ServerNames, NEW r,
         server' = [server EXCEPT ![s] = r],
         ServerOK(r, Cardinality(ConnectedTo(s)))
  PROVE  ServersInv'
BY ConnectionsStay, ServerChanged

LEMMA ServerHas ==
  ASSUME ServersInv, NEW s \in ServerNames
  PROVE  ServerOK(server[s], Cardinality(ConnectedTo(s))) /\ Cardinality(ConnectedTo(s)) \in Nat
BY Counts DEF ServersInv

LEMMA HttpKeepsServers ==
  ASSUME ServersInv, HttpNext
  PROVE  ServersInv'
<1> DEFINE n == Cardinality(ConnectedTo("shared"))
<1>1. "shared" \in ServerNames /\ ServerOK(server["shared"], n) /\ n \in Nat
  BY ServerHas DEF ServerNames
<1> HIDE DEF n
<1>2. CASE LoadShared
  <2>1. n = 0
    BY <1>1, <1>2, FreedHasNone DEF LoadShared, n
  <2>2. \A m : ServerOK(StartHttpServer(RegisterHandler(NewServer, m)), 0)
    BY FreshServer DEF RegisterHandler, NewServer
  <2> QED BY <1>1, <1>2, <2>1, <2>2, ServerOperated DEF LoadShared, connVars, n
<1>3. CASE LoadDemo
  <2>1. \A m, q, t : ServerOK(RegisterHandler(RegisterHandler(RegisterHandler(server["shared"],
                       m), q), t), n)
    BY <1>1, OperationsKeepServers
  <2> QED BY <1>1, <1>3, <2>1, ServerOperated DEF LoadDemo, RegisterShared, connVars, n
<1>4. CASE UnregisterPage("/rpc", <<"/status">>, "renderRpcStatusPage")
  BY <1>1, <1>4, OperationsKeepServers, ServerOperated DEF UnregisterPage, connVars, n
<1>5. ASSUME NEW c \in Clients, NEW s \in DOMAIN server, Accept(c, s)
      PROVE  ServersInv'
  BY <1>5, AcceptKeeps DEF ServersInv
<1>6. ASSUME NEW c \in Clients, CloseConnection(c)
      PROVE  ServersInv'
  BY <1>6, GoneKeeps DEF CloseConnection
<1>7. ASSUME NEW c \in Clients, NEW k \in 1..Len(wire[c]), Read(c, k)
      PROVE  ServersInv'
  BY <1>7, ReadKeeps
<1> QED BY <1>2, <1>3, <1>4, <1>5, <1>6, <1>7 DEF HttpNext

LEMMA FeedKeepsServers ==
  ASSUME ServersInv, FeedNext
  PROVE  ServersInv'
<1> DEFINE n == Cardinality(ConnectedTo("feed"))
<1>1. "feed" \in ServerNames /\ ServerOK(server["feed"], n) /\ n \in Nat
  BY ServerHas DEF ServerNames
<1> HIDE DEF n
<1>2. CASE UNCHANGED <<server, conn>>
  BY <1>2, ConnectionsStay DEF ServersInv
<1>3. CASE LoadFeed
  <2>1. n = 0
    BY <1>1, <1>3, FreedHasNone DEF LoadFeed, n
  <2>2. UNCHANGED conn /\ \E q : server' = [server EXCEPT !["feed"] =
                            StartHttpServer([NewServer EXCEPT !.mappings = q])]
    BY <1>3 DEF LoadFeed, FeedServer, connVars
  <2>3. PICK q : server' = [server EXCEPT !["feed"] =
                            StartHttpServer([NewServer EXCEPT !.mappings = q])]
    BY <2>2
  <2>4. ServerOK(StartHttpServer([NewServer EXCEPT !.mappings = q]), n)
    BY <2>1, FreshServer
  <2> QED BY <1>1, <2>2, <2>3, <2>4, ServerOperated DEF n
<1>4. ASSUME NEW f \in FeedNames, CreateFeed(f)
      PROVE  ServersInv'
  BY <1>1, <1>4, OperationsKeepServers, ServerOperated DEF CreateFeed, connVars, n
<1>5. ASSUME NEW f \in FeedNames, DeleteFeed(f)
      PROVE  ServersInv'
  BY <1>1, <1>5, OperationsKeepServers, ServerOperated DEF DeleteFeed, connVars, n
<1> QED BY <1>2, <1>3, <1>4, <1>5 DEF FeedNext, FeedUpdate, UnloadFeed, EnableFeed,
           AddFeedField, DeleteFeedField, httpVars, connVars

LEMMA RpcKeepsServers ==
  ASSUME ServersInv, RpcNext
  PROVE  ServersInv'
<1>1. "shared" \in ServerNames
      /\ ServerOK(server["shared"], Cardinality(ConnectedTo("shared")))
      /\ Cardinality(ConnectedTo("shared")) \in Nat
  BY ServerHas DEF ServerNames
<1>2. CASE UNCHANGED <<server, conn>>
  BY <1>2, ConnectionsStay DEF ServersInv
<1>3. CASE LoadRpc
  BY <1>1, <1>3, OperationsKeepServers, ServerOperated DEF LoadRpc, RegisterShared, connVars
<1> QED BY <1>2, <1>3 DEF RpcNext, RegisterRpc, UnregisterRpc, AcceptCaller, DisconnectCaller,
           ReadCaller, httpVars, connVars

LEMMA StepKeepsServers ==
  ASSUME ServersInv, [ServersNext]_serverVars
  PROVE  ServersInv'
<1>1. CASE UnloadAll
  <2>1. "shared" \in ServerNames
        /\ ServerOK(server["shared"], Cardinality(ConnectedTo("shared")))
        /\ Cardinality(ConnectedTo("shared")) \in Nat
    BY ServerHas DEF ServerNames
  <2> QED BY <1>1, <2>1, OperationsKeepServers, ServerOperated DEF UnloadAll, UnloadShared, connVars
<1>2. CASE UNCHANGED serverVars
  BY <1>2, ConnectionsStay DEF ServersInv, serverVars, httpVars, connVars
<1> QED BY <1>1, <1>2, HttpKeepsServers, FeedKeepsServers, RpcKeepsServers DEF ServersNext

LEMMA InitServers == ServersInit => ServersInv
<1> SUFFICES ASSUME ServersInit
             PROVE  ServersInv
  OBVIOUS
<1>1. \A s \in ServerNames : ConnectedTo(s) = {}
  BY DEF ServersInit, HttpInit, ConnectedTo, Nobody, Connection, ServerNames
<1>2. ConnectionsKnown
  BY DEF ServersInit, HttpInit, ConnectionsKnown, Nobody, Connection, ServerNames
<1>3. ServerOK(NoServer, 0)
  BY DEF ServerOK, NoServer, NewServer
<1>4. DOMAIN server = ServerNames /\ \A s \in ServerNames : server[s] = NoServer
  BY DEF ServersInit, HttpInit, ServerNames
<1>5. \A s \in ServerNames : Cardinality(ConnectedTo(s)) = 0
  BY <1>1, FS_EmptySet
<1> QED BY <1>2, <1>3, <1>4, <1>5 DEF ServersInv

-----------------------------------------------------------------------------
(* The line server and its callers.                                        *)

Calling == {c \in Callers : caller[c].on}

LineServerInv ==
  /\ DOMAIN caller = Callers /\ DOMAIN replies = Callers
  /\ \A c \in Callers : /\ {"on", "lines", "buf"} \subseteq DOMAIN caller[c]
                        /\ caller[c].on \in BOOLEAN
  /\ {"state", "open"} \subseteq DOMAIN lineServer
  /\ lineServer.state \in {"running", "stopped", "freed"}
  /\ lineServer.open = Cardinality(Calling)
  /\ lineServer.open > 0 => lineServer.state # "freed"
  /\ lineServer.state = "stopped" => lineServer.open > 0
  /\ \A c \in Callers : replies[c] = <<>> \/ (~ caller[c].on /\ \E a : replies[c] = <<a>>)

\* A caller is answered at most once, and not any more when it was answered:
\* its connection is closed with the answer (lineServerCallback).
CallersAnsweredOnce ==
  \A c \in Callers : Len(replies[c]) <= 1 /\ (caller[c].on => replies[c] = <<>>)

LEMMA LineServerInvImplies ==
  ASSUME LineServerInv
  PROVE  LineServerAccounted /\ CallersAnsweredOnce
<1>1. LineServerAccounted
  BY DEF LineServerInv, LineServerAccounted, Calling
<1>2. \A a : Len(<<a>>) = 1 /\ Len(<<>>) = 0
  OBVIOUS
<1>3. CallersAnsweredOnce
  BY <1>2 DEF LineServerInv, CallersAnsweredOnce
<1> QED BY <1>1, <1>3

LEMMA CallingCounts == IsFiniteSet(Calling) /\ Cardinality(Calling) \in Nat
<1>1. IsFiniteSet(Callers) /\ Calling \subseteq Callers
  BY RpcAssumption DEF Calling
<1> QED BY <1>1, FS_Subset, FS_CardinalityType

LEMMA AcceptCallerKeeps ==
  ASSUME LineServerInv, NEW c \in Callers, AcceptCaller(c)
  PROVE  LineServerInv'
<1>1. /\ ~ caller[c].on /\ lineServer.state = "running"
      /\ lineServer' = [lineServer EXCEPT !.open = @ + 1]
      /\ caller' = [caller EXCEPT ![c] = [NoCaller EXCEPT !.on = TRUE]]
      /\ replies' = [replies EXCEPT ![c] = <<>>]
  BY DEF AcceptCaller
<1>2. c \notin Calling /\ Calling' = Calling \cup {c}
  BY <1>1 DEF LineServerInv, Calling, NoCaller
<1>3. Cardinality(Calling') = Cardinality(Calling) + 1
  BY <1>2, CallingCounts, FS_AddElement
<1>4. /\ DOMAIN caller' = Callers /\ DOMAIN replies' = Callers
      /\ \A d \in Callers : /\ {"on", "lines", "buf"} \subseteq DOMAIN caller'[d]
                            /\ caller'[d].on \in BOOLEAN
                            /\ replies'[d] = <<>> \/ (~ caller'[d].on /\ \E a : replies'[d] = <<a>>)
  BY <1>1 DEF LineServerInv, NoCaller
<1> QED BY <1>1, <1>3, <1>4, CallingCounts DEF LineServerInv

\* The connection of a caller closes, with an answer or without.
LEMMA CallerGoneKeeps ==
  ASSUME LineServerInv, NEW c \in Callers, caller[c].on, CallerGone(c),
         \/ UNCHANGED replies
         \/ \E a : replies' = [replies EXCEPT ![c] = Append(@, a)]
  PROVE  LineServerInv'
<1>1. /\ lineServer' = TryFreeLineServer([lineServer EXCEPT !.open = @ - 1])
      /\ caller' = [caller EXCEPT ![c] = NoCaller]
  BY DEF CallerGone
<1>2. c \in Calling /\ Calling' = Calling \ {c}
  BY <1>1 DEF LineServerInv, Calling, NoCaller
<1>3. Cardinality(Calling') = Cardinality(Calling) - 1 /\ Cardinality(Calling) > 0
  BY <1>2, CallingCounts, FS_RemoveElement, FS_EmptySet
<1>4. /\ DOMAIN caller' = Callers /\ DOMAIN replies' = Callers
      /\ \A d \in Callers : /\ {"on", "lines", "buf"} \subseteq DOMAIN caller'[d]
                            /\ caller'[d].on \in BOOLEAN
  BY <1>1 DEF LineServerInv, NoCaller
<1>5. replies[c] = <<>>
  BY DEF LineServerInv
<1>6. replies'[c] = <<>> \/ \E a : replies'[c] = <<a>>
  <2>1. CASE UNCHANGED replies
    BY <1>5, <2>1
  <2>2. ASSUME NEW a, replies' = [replies EXCEPT ![c] = Append(@, a)]
        PROVE  replies'[c] = <<a>>
    BY <1>5, <2>2 DEF LineServerInv
  <2> QED BY <2>1, <2>2
<1>7. \A d \in Callers : replies'[d] = <<>> \/ (~ caller'[d].on /\ \E a : replies'[d] = <<a>>)
  BY <1>1, <1>6 DEF LineServerInv, NoCaller
<1>8. /\ {"state", "open"} \subseteq DOMAIN lineServer'
      /\ lineServer'.state \in {"running", "stopped", "freed"}
      /\ lineServer'.open = Cardinality(Calling')
      /\ lineServer'.open > 0 => lineServer'.state # "freed"
      /\ lineServer'.state = "stopped" => lineServer'.open > 0
  BY <1>1, <1>3, CallingCounts DEF LineServerInv, TryFreeLineServer, NoLineServer
<1> QED BY <1>4, <1>7, <1>8 DEF LineServerInv

LEMMA ReadCallerKeeps ==
  ASSUME LineServerInv, NEW c \in Callers, NEW n, ReadCaller(c, n)
  PROVE  LineServerInv'
<1>1. CASE \E lines : LineServerCallback(c, lines)
  BY <1>1, CallerGoneKeeps DEF LineServerCallback, ReadCaller
<1>2. CASE /\ UNCHANGED <<lineServer, replies>>
           /\ \E l, b : caller' = [caller EXCEPT ![c].lines = l, ![c].buf = b]
  <2>1. DOMAIN caller' = Callers
        /\ \A d \in Callers : /\ {"on", "lines", "buf"} \subseteq DOMAIN caller'[d]
                              /\ caller'[d].on = caller[d].on
    BY <1>2 DEF LineServerInv
  <2>2. Calling' = Calling
    BY <2>1 DEF Calling
  <2> QED BY <1>2, <2>1, <2>2 DEF LineServerInv
<1> QED BY <1>1, <1>2 DEF ReadCaller

LEMMA LineServerStays ==
  ASSUME LineServerInv, UNCHANGED <<caller, replies>>, UNCHANGED lineServer
  PROVE  LineServerInv'
BY DEF LineServerInv, Calling

LEMMA StepKeepsLineServer ==
  ASSUME LineServerInv, [ServersNext]_serverVars
  PROVE  LineServerInv'
<1>1. CASE UNCHANGED rpcVars
  BY <1>1, LineServerStays DEF rpcVars, callVars
<1>2. CASE LoadRpc
  <2>1. lineServer.open = 0
    BY <1>2, CallingCounts DEF LineServerInv, LoadRpc
  <2>2. lineServer' = StartLineServer /\ UNCHANGED <<caller, replies>>
    BY <1>2 DEF LoadRpc, callVars
  <2>3. Calling' = Calling
    BY <2>2 DEF Calling
  <2> QED BY <2>1, <2>2, <2>3 DEF LineServerInv, StartLineServer
<1>3. ASSUME NEW p, RegisterRpc(p) \/ UnregisterRpc(p)
      PROVE  LineServerInv'
  BY <1>3, LineServerStays DEF RegisterRpc, UnregisterRpc, callVars
<1>4. ASSUME NEW c \in Callers, DisconnectCaller(c)
      PROVE  LineServerInv'
  BY <1>4, CallerGoneKeeps DEF DisconnectCaller
<1>5. CASE UnloadAll
  <2>1. UNCHANGED <<caller, replies>>
        /\ lineServer' = IF "rpc" \notin loaded THEN lineServer ELSE StopLineServer(lineServer)
    BY <1>5 DEF UnloadAll, StopRpc, callVars
  <2>2. CASE "rpc" \notin loaded
    BY <2>1, <2>2, LineServerStays
  <2>3. CASE "rpc" \in loaded
    <3>1. Calling' = Calling
      BY <2>1 DEF Calling
    <3> QED BY <2>1, <2>3, <3>1, CallingCounts
            DEF LineServerInv, StopLineServer, TryFreeLineServer, NoLineServer
  <2> QED BY <2>2, <2>3
<1>6. ASSUME NEW c \in Callers, AcceptCaller(c) \/ \E n \in 1..Len(callWire[c]) : ReadCaller(c, n)
      PROVE  LineServerInv'
  BY <1>6, AcceptCallerKeeps, ReadCallerKeeps
<1> QED BY <1>1, <1>2, <1>3, <1>4, <1>5, <1>6 DEF ServersNext, RpcNext, serverVars

LEMMA InitLineServer == ServersInit => LineServerInv
<1> SUFFICES ASSUME ServersInit
             PROVE  LineServerInv
  OBVIOUS
<1>1. Calling = {}
  BY DEF ServersInit, Calling, NoCaller
<1>2. Cardinality(Calling) = 0
  BY <1>1, FS_EmptySet
<1>3. /\ DOMAIN caller = Callers /\ DOMAIN replies = Callers /\ lineServer = NoLineServer
      /\ \A c \in Callers : caller[c] = NoCaller /\ replies[c] = <<>>
  BY DEF ServersInit
<1>4. lineServer.state = "freed" /\ lineServer.open = 0 /\ {"state", "open"} \subseteq DOMAIN lineServer
  BY <1>3 DEF NoLineServer
<1>5. \A c \in Callers : {"on", "lines", "buf"} \subseteq DOMAIN caller[c] /\ caller[c].on = FALSE
  BY <1>3 DEF NoCaller
<1>6. lineServer.state \in {"running", "stopped", "freed"} /\ ~ lineServer.open > 0
      /\ lineServer.state # "stopped" /\ lineServer.open = Cardinality(Calling)
  BY <1>2, <1>4
<1>7. /\ \A c \in Callers : caller[c].on \in BOOLEAN
      /\ \A c \in Callers : replies[c] = <<>> \/ (~ caller[c].on /\ \E a : replies[c] = <<a>>)
  BY <1>3, <1>5
<1> QED BY <1>3, <1>4, <1>5, <1>6, <1>7 DEF LineServerInv

-----------------------------------------------------------------------------
(* The feeds.                                                              *)

\* The content of a feed that has at most FeedLimit entries, none of which
\* says the same as the one before it.
Histories == {h \in Seq(Entries(Fields)) : /\ Len(h) <= FeedLimit
                                           /\ \A i \in 1..(Len(h) - 1) : h[i] # h[i + 1]}

FeedOK(feed) == {"fields", "content", "enabled"} \subseteq DOMAIN feed /\ feed.content \in Histories

FeedsInv == \A n \in DOMAIN feeds : FeedOK(feeds[n])

LEMMA FeedsInvImplies == FeedsInv => FeedHistory
BY DEF FeedsInv, FeedOK, Histories, FeedHistory

LEMMA RecordedKeeps ==
  ASSUME NEW h \in Histories, NEW entry \in Entries(Fields)
  PROVE  Recorded(h, entry) \in Histories
<1> DEFINE E == Entries(Fields)
           m == Min({FeedLimit, Len(h) + 1})
           all == <<entry>> \o h
<1>1. /\ h \in Seq(E) /\ entry \in E /\ Len(h) \in Nat /\ FeedLimit \in Nat
      /\ Len(h) <= FeedLimit /\ \A i \in 1..(Len(h) - 1) : h[i] # h[i + 1]
  BY FeedAssumption DEF Histories
<1> HIDE DEF E
<1>2. CASE h # <<>> /\ SameEntry(h[1], entry)
  BY <1>2 DEF Recorded
<1>3. CASE ~ (h # <<>> /\ SameEntry(h[1], entry))
  <2>1. m \in Nat /\ m <= FeedLimit /\ m <= Len(h) + 1
    <3>1. \E x \in {FeedLimit, Len(h) + 1} : \A y \in {FeedLimit, Len(h) + 1} : x <= y
      BY <1>1
    <3>2. m \in {FeedLimit, Len(h) + 1} /\ \A y \in {FeedLimit, Len(h) + 1} : m <= y
      BY <3>1 DEF Min
    <3> QED BY <1>1, <3>2
  <2> HIDE DEF m
  <2>2. all \in Seq(E) /\ Len(all) = Len(h) + 1 /\ all[1] = entry
        /\ \A i \in 1..Len(h) : all[i + 1] = h[i]
    BY <1>1
  <2>3. \A i \in 1..Len(h) : all[i] # all[i + 1]
    <3> SUFFICES ASSUME NEW i \in 1..Len(h)
                 PROVE  all[i] # all[i + 1]
      OBVIOUS
    <3>1. CASE i = 1
      <4>1. ~ SameEntry(h[1], entry) /\ all[1] = entry /\ all[2] = h[1]
        BY <1>1, <1>3, <2>2, <3>1
      <4>2. SameEntry(h[1], h[1])
        BY DEF SameEntry
      <4> QED BY <3>1, <4>1, <4>2
    <3>2. CASE i # 1
      <4>1. i - 1 \in 1..(Len(h) - 1) /\ (i - 1) + 1 = i
        BY <1>1, <3>2
      <4>2. all[i] = h[i - 1] /\ all[i + 1] = h[i]
        BY <1>1, <2>2, <4>1
      <4> QED BY <1>1, <4>1, <4>2
    <3> QED BY <3>1, <3>2
  <2> HIDE DEF all
  <2>4. SubSeq(all, 1, m) \in Seq(E) /\ Len(SubSeq(all, 1, m)) = m
        /\ \A i \in 1..m : SubSeq(all, 1, m)[i] = all[i]
    BY <1>1, <2>1, <2>2
  <2>5. \A i \in 1..(m - 1) : SubSeq(all, 1, m)[i] # SubSeq(all, 1, m)[i + 1]
    BY <1>1, <2>1, <2>3, <2>4
  <2>6. SubSeq(all, 1, m) \in Histories
    BY <2>1, <2>4, <2>5 DEF Histories, E
  <2> QED BY <1>3, <2>6 DEF Recorded, all, m
<1> QED BY <1>2, <1>3

LEMMA NewFeedOK == FeedOK(NewFeed) /\ \A x, y : FeedOK([NewFeed EXCEPT !.fields = x, !.enabled = y])
<1>1. <<>> \in Histories
  BY FeedAssumption DEF Histories
<1> QED BY <1>1 DEF FeedOK, NewFeed

LEMMA FeedNextKeeps ==
  ASSUME FeedsInv, FeedNext
  PROVE  FeedsInv'
<1>1. CASE LoadFeed
  <2>1. PICK configured \in SUBSET FeedNames, x \in SUBSET Fields :
          feeds' = [n \in configured |-> [NewFeed EXCEPT !.fields = x, !.enabled = TRUE]]
    BY <1>1 DEF LoadFeed
  <2> QED BY <2>1, NewFeedOK DEF FeedsInv, FeedOK
<1>2. CASE FeedUpdate
  <2>1. PICK fetched \in SUBSET {n \in DOMAIN feeds : feeds[n].enabled} :
          \E entry \in [fetched -> Entries(Fields)] :
            feeds' = [n \in DOMAIN feeds |->
                        IF n \in fetched
                        THEN [feeds[n] EXCEPT !.content = Recorded(@, entry[n])] ELSE feeds[n]]
    BY <1>2 DEF FeedUpdate
  <2>2. PICK entry \in [fetched -> Entries(Fields)] :
            feeds' = [n \in DOMAIN feeds |->
                        IF n \in fetched
                        THEN [feeds[n] EXCEPT !.content = Recorded(@, entry[n])] ELSE feeds[n]]
    BY <2>1
  <2>3. ASSUME NEW n \in DOMAIN feeds
        PROVE  FeedOK(feeds'[n])
    <3>1. FeedOK(feeds[n])
      BY DEF FeedsInv
    <3>2. CASE n \in fetched
      <4>1. Recorded(feeds[n].content, entry[n]) \in Histories
        BY <3>1, <3>2, RecordedKeeps DEF FeedOK
      <4>2. feeds'[n] = [feeds[n] EXCEPT !.content = Recorded(feeds[n].content, entry[n])]
        BY <2>2, <3>2
      <4> QED BY <3>1, <4>1, <4>2 DEF FeedOK
    <3> QED BY <2>2, <3>1, <3>2
  <2> QED BY <2>2, <2>3 DEF FeedsInv
<1>3. CASE UnloadFeed
  BY <1>3 DEF UnloadFeed, FeedsInv
<1>4. ASSUME NEW n \in FeedNames, CreateFeed(n)
      PROVE  FeedsInv'
  BY <1>4, NewFeedOK DEF CreateFeed, FeedsInv, FeedOK
<1>5. ASSUME NEW n \in FeedNames, DeleteFeed(n)
      PROVE  FeedsInv'
  BY <1>5 DEF DeleteFeed, FeedsInv
<1>6. ASSUME NEW n \in DOMAIN feeds, NEW x, NEW y,
             \/ feeds' = [feeds EXCEPT ![n].fields = x]
             \/ feeds' = [feeds EXCEPT ![n].enabled = y]
      PROVE  FeedsInv'
  BY <1>6 DEF FeedsInv, FeedOK
<1>7. ASSUME NEW n \in FeedNames, EnableFeed(n)
      PROVE  FeedsInv'
  BY <1>6, <1>7 DEF EnableFeed
<1>8. ASSUME NEW n \in FeedNames, NEW f \in Fields, AddFeedField(n, f) \/ DeleteFeedField(n, f)
      PROVE  FeedsInv'
  BY <1>6, <1>8 DEF AddFeedField, DeleteFeedField
<1> QED BY <1>1, <1>2, <1>3, <1>4, <1>5, <1>7, <1>8 DEF FeedNext

-----------------------------------------------------------------------------
(* Lines of a text that arrives in pieces.                                 *)

\* A text is cut where e says that lines end.
Begin(e, k) == IF k = 1 THEN 1 ELSE e[k - 1] + 1
CutAt(text, e) == [k \in 1..Len(e) |-> Strip(SubSeq(text, Begin(e, k), e[k] - 1))]
RestAt(text, e) == SubSeq(text, Begin(e, Len(e) + 1), Len(text))

\* Where lines end is enumerated, in 1..Len(text), each after its beginning.
LEMMA EndsOf ==
  ASSUME NEW S, NEW text \in Seq(S)
  PROVE  /\ LineEnds(text) \in SUBSET (1..Len(text)) /\ Len(text) \in Nat
         /\ \E e : Enumerates(e, LineEnds(text))
<1>1. LineEnds(text) \in SUBSET (1..Len(text)) /\ Len(text) \in Nat
  BY DEF LineEnds
<1> QED BY <1>1, NthEnumerates

LEMMA EndsFacts ==
  ASSUME NEW S, NEW text \in Seq(S), NEW e, Enumerates(e, LineEnds(text))
  PROVE  /\ e \in Seq(Nat) /\ Len(e) \in Nat /\ Len(text) \in Nat
         /\ \A k \in 1..Len(e) : e[k] \in 1..Len(text) /\ text[e[k]] = "LF"
         /\ \A k \in 1..(Len(e) + 1) : Begin(e, k) \in 1..(Len(text) + 1)
         /\ \A k \in 1..Len(e) : Begin(e, k) <= e[k]
         /\ \A k \in 1..(Len(e) + 1) : \A j \in LineEnds(text) : j < Begin(e, k) \/ (k <= Len(e) /\ e[k] <= j)
<1>1. e \in Seq(Nat) /\ Len(e) \in Nat /\ Len(text) \in Nat
  BY DEF Enumerates
<1>2. \A k \in 1..Len(e) : e[k] \in 1..Len(text) /\ text[e[k]] = "LF"
  BY DEF Enumerates, LineEnds
<1>3. ASSUME NEW k \in 1..(Len(e) + 1)
      PROVE  Begin(e, k) \in 1..(Len(text) + 1)
  <2>1. CASE k = 1
    BY <1>1, <2>1 DEF Begin
  <2>2. CASE k # 1
    <3>1. k - 1 \in 1..Len(e)
      BY <1>1, <2>2
    <3>2. e[k - 1] \in 1..Len(text)
      BY <1>2, <3>1
    <3> QED BY <1>1, <2>2, <3>2 DEF Begin
  <2> QED BY <2>1, <2>2
<1>4. \A k \in 1..Len(e) : Begin(e, k) <= e[k]
  <2> SUFFICES ASSUME NEW k \in 1..Len(e)
               PROVE  Begin(e, k) <= e[k]
    OBVIOUS
  <2>1. CASE k = 1
    BY <1>1, <1>2, <2>1 DEF Begin
  <2>2. CASE k # 1
    <3>1. k - 1 \in 1..Len(e) /\ k - 1 < k
      BY <1>1, <2>2
    <3>2. e[k - 1] < e[k] /\ e[k - 1] \in Nat /\ e[k] \in Nat
      BY <1>2, <3>1 DEF Enumerates
    <3> QED BY <2>2, <3>2 DEF Begin
  <2> QED BY <2>1, <2>2
<1>5. ASSUME NEW k \in 1..(Len(e) + 1), NEW j \in LineEnds(text)
      PROVE  j < Begin(e, k) \/ (k <= Len(e) /\ e[k] <= j)
  <2>1. PICK i \in 1..Len(e) : e[i] = j
    BY DEF Enumerates
  <2>2. CASE i < k
    <3>1. k # 1 /\ k - 1 \in 1..Len(e) /\ (i = k - 1 \/ i < k - 1)
      BY <1>1, <2>2
    <3>2. e[i] <= e[k - 1] /\ e[k - 1] \in Nat
      BY <1>2, <2>1, <3>1 DEF Enumerates
    <3> QED BY <1>2, <2>1, <3>1, <3>2 DEF Begin
  <2>3. CASE k <= i
    <3>1. k \in 1..Len(e) /\ (k = i \/ k < i)
      BY <1>1, <2>3
    <3>2. e[k] <= e[i]
      BY <1>2, <2>1, <3>1 DEF Enumerates
    <3> QED BY <1>1, <2>1, <3>1, <3>2
  <2> QED BY <1>1, <2>2, <2>3
<1> QED BY <1>1, <1>2, <1>3, <1>4, <1>5

\* The beginnings are those of LineStart, the lines those of Lines.
LEMMA StartIs ==
  ASSUME NEW S, NEW text \in Seq(S), NEW e, Enumerates(e, LineEnds(text)), NEW k \in 1..Len(e)
  PROVE  LineStart(text, e[k]) = Begin(e, k)
<1>1. /\ Len(e) \in Nat /\ e[k] \in 1..Len(text) /\ Len(text) \in Nat
      /\ Begin(e, k) \in 1..(Len(text) + 1) /\ Begin(e, k) <= e[k]
      /\ \A j \in LineEnds(text) : j < Begin(e, k) \/ e[k] <= j
      /\ \A j \in 1..Len(e) : e[j] \in 1..Len(text) /\ text[e[j]] = "LF"
  BY EndsFacts
<1> DEFINE B == Before(text, e[k], "LF")
<1>2. B = {j \in LineEnds(text) : j < e[k]}
  BY <1>1 DEF Before, LineEnds
<1>3. \A j \in B : j < Begin(e, k) /\ j \in Nat
  BY <1>1, <1>2 DEF LineEnds
<1>4. CASE k = 1
  <2>1. B = {}
    <3>1. \A j \in B : j < 1 /\ j \in 1..Len(text)
      BY <1>2, <1>3, <1>4 DEF Begin, LineEnds
    <3> QED BY <1>1, <3>1
  <2> QED BY <1>4, <2>1 DEF LineStart, Begin
<1>5. CASE k # 1
  <2>1. k - 1 \in 1..Len(e) /\ k - 1 < k
    BY <1>1, <1>5
  <2>2. e[k - 1] \in Nat /\ e[k - 1] < e[k] /\ Begin(e, k) = e[k - 1] + 1
    BY <1>1, <1>5, <2>1 DEF Enumerates, Begin
  <2>3. e[k - 1] \in B
    BY <1>1, <1>2, <2>1, <2>2 DEF LineEnds
  <2>4. \A j \in B : j <= e[k - 1]
    BY <1>3, <2>2
  <2>5. Max(B) = e[k - 1]
    <3>1. Max(B) \in B /\ \A j \in B : Max(B) >= j
      BY <2>3, <2>4, <1>3, Zenon DEF Max
    <3> HIDE DEF B
    <3>2. Max(B) \in Nat /\ Max(B) >= e[k - 1] /\ Max(B) <= e[k - 1]
      BY <1>3, <2>3, <2>4, <3>1
    <3> QED BY <2>2, <3>2
  <2>6. B # {}
    BY <2>3
  <2> QED BY <2>2, <2>5, <2>6 DEF LineStart
<1> QED BY <1>4, <1>5

LEMMA LinesAre ==
  ASSUME NEW S, NEW text \in Seq(S), NEW e, Enumerates(e, LineEnds(text))
  PROVE  Lines(text) = CutAt(text, e)
<1>1. Len(e) = Cardinality(LineEnds(text)) /\ \A k \in 1..Len(e) : e[k] = Nth(LineEnds(text), k)
  BY EndsOf, EnumeratesNth
<1>2. \A k \in 1..Len(e) : Line(text, Nth(LineEnds(text), k)) = Strip(SubSeq(text, Begin(e, k), e[k] - 1))
  BY <1>1, StartIs DEF Line
<1> QED BY <1>1, <1>2 DEF Lines, CutAt

\* processClientBuffer cuts its buffer there.
LEMMA ServerLinesAre ==
  ASSUME NEW S, NEW text \in Seq(S), NEW e, Enumerates(e, LineEnds(text)), text # <<>>
  PROVE  ServerLines(text).lines = CutAt(text, e) /\ ServerLines(text).rest = RestAt(text, e)
<1> DEFINE I == {i \in DOMAIN text : text[i] = "LF"}
           n == Cardinality(I)
           Cut(k) == IF k = 0 THEN 0 ELSE IF k > n THEN Len(text) + 1 ELSE Nth(I, k)
           parts == [k \in 1..(n + 1) |-> SubSeq(text, Cut(k - 1) + 1, Cut(k) - 1)]
<1>1. /\ Len(e) = n /\ n \in Nat /\ Len(text) \in Nat
      /\ \A k \in 1..n : e[k] = Nth(I, k)
  <2>1. LineEnds(text) = I
    BY DEF LineEnds
  <2>2. Len(e) \in Nat /\ Len(text) \in Nat /\ I \in SUBSET (1..Len(text))
    BY <2>1, EndsOf, EndsFacts
  <2> HIDE DEF I
  <2> QED BY <2>1, <2>2, EnumeratesNth
<1>2. Split(text, "LF") = parts
  BY DEF Split
<1> HIDE DEF I, n
<1>3. \A k \in 1..n : Cut(k - 1) + 1 = Begin(e, k) /\ Cut(k) = e[k]
  BY <1>1 DEF Begin
<1>4. Cut(n) + 1 = Begin(e, n + 1) /\ Cut(n + 1) - 1 = Len(text)
  BY <1>1 DEF Begin
<1> HIDE DEF Cut
<1>5. parts[n + 1] = RestAt(text, e)
  <2>1. n + 1 \in 1..(n + 1) /\ (n + 1) - 1 = n
    BY <1>1
  <2>2. parts[n + 1] = SubSeq(text, Cut(n) + 1, Cut(n + 1) - 1)
    BY <2>1
  <2> QED BY <1>1, <1>4, <2>2 DEF RestAt
<1>6. \A k \in 1..n : parts[k] = SubSeq(text, Begin(e, k), e[k] - 1)
  <2> SUFFICES ASSUME NEW k \in 1..n
               PROVE  parts[k] = SubSeq(text, Begin(e, k), e[k] - 1)
    OBVIOUS
  <2>1. k \in 1..(n + 1)
    BY <1>1
  <2>2. parts[k] = SubSeq(text, Cut(k - 1) + 1, Cut(k) - 1)
    BY <2>1
  <2> QED BY <1>3, <2>2
<1>7. Len(parts) = n + 1 /\ DOMAIN parts = 1..(n + 1)
  BY <1>1
<1> HIDE DEF parts
<1>8. parts # <<>> /\ Last(parts) = parts[n + 1] /\ Len(parts) - 1 = n
  BY <1>1, <1>7 DEF Last
<1>9. /\ ServerLines(text).lines = [i \in 1..n |-> Strip(parts[i])]
      /\ ServerLines(text).rest = parts[n + 1]
  BY <1>2, <1>8, Zenon DEF ServerLines
<1>10. CutAt(text, e) = [i \in 1..n |-> Strip(parts[i])]
  BY <1>1, <1>6 DEF CutAt
<1> QED BY <1>5, <1>9, <1>10

\* Where the lines begin that continue others.
LEMMA FurtherBegins ==
  ASSUME NEW a \in Nat, NEW e, Len(e) \in Nat, NEW d, Len(d) \in Nat, NEW f, Further(f, e, a, d),
         \A k \in 1..Len(d) : d[k] \in Nat, Begin(e, Len(e) + 1) = a + 1
  PROVE  /\ \A k \in 1..Len(e) : Begin(f, k) = Begin(e, k)
         /\ \A k \in 1..(Len(d) + 1) : Begin(f, Len(e) + k) = a + Begin(d, k)
<1> DEFINE n == Len(e)
           m == Len(d)
<1>1. (\A k \in 1..n : f[k] = e[k]) /\ \A k \in 1..m : f[n + k] = a + d[k]
  BY DEF Further
<1>2. n \in Nat /\ m \in Nat /\ (\A k \in 1..m : d[k] \in Nat) /\ Begin(e, n + 1) = a + 1
  OBVIOUS
<1> HIDE DEF n, m
<1>3. ASSUME NEW k \in 1..n
      PROVE  Begin(f, k) = Begin(e, k)
  <2>1. CASE k = 1
    BY <1>2, <2>1 DEF Begin
  <2>2. CASE k # 1
    <3>1. k - 1 \in 1..n
      BY <1>2, <2>2
    <3> QED BY <1>2, <1>1, <2>2, <3>1 DEF Begin
  <2> QED BY <2>1, <2>2
<1>4. ASSUME NEW k \in 1..(m + 1)
      PROVE  Begin(f, n + k) = a + Begin(d, k)
  <2>1. CASE k = 1 /\ n = 0
    <3>1. Begin(e, n + 1) = 1 /\ Begin(f, n + k) = 1 /\ Begin(d, k) = 1
      BY <1>2, <2>1 DEF Begin
    <3> QED BY <1>2, <3>1
  <2>2. CASE k = 1 /\ n # 0
    <3>1. n \in 1..n /\ n + 1 # 1 /\ (n + 1) - 1 = n
      BY <1>2, <2>2
    <3>2. Begin(f, n + k) = e[n] + 1 /\ Begin(e, n + 1) = e[n] + 1 /\ Begin(d, k) = 1
      BY <1>2, <1>1, <2>2, <3>1 DEF Begin
    <3> QED BY <1>2, <3>2
  <2>3. CASE k # 1
    <3>1. k - 1 \in 1..m /\ n + k # 1 /\ n + k - 1 = n + (k - 1)
      BY <1>2, <2>3
    <3>2. f[n + (k - 1)] = a + d[k - 1] /\ d[k - 1] \in Nat
      BY <1>2, <1>1, <3>1
    <3>3. Begin(f, n + k) = f[n + (k - 1)] + 1 /\ Begin(d, k) = d[k - 1] + 1
      BY <1>2, <2>3, <3>1 DEF Begin
    <3> QED BY <3>2, <3>3
  <2> QED BY <1>2, <2>1, <2>2, <2>3
<1> QED BY <1>3, <1>4 DEF n, m

\* Where the lines of a text end that is continued: where they ended, and where
\* they end in what was left over.
LEMMA Continued ==
  ASSUME NEW S, NEW text \in Seq(S), NEW u \in Seq(S), NEW s \in Seq(S), NEW a \in Nat,
         IsPart(u, 0, text), IsPart(u, a, s), a + Len(s) = Len(u),
         NEW e, Enumerates(e, LineEnds(text)), NEW d, Enumerates(d, LineEnds(s)),
         Begin(e, Len(e) + 1) = a + 1, NEW f, Further(f, e, a, d)
  PROVE  /\ Enumerates(f, LineEnds(u))
         /\ CutAt(u, f) = CutAt(text, e) \o CutAt(s, d)
         /\ RestAt(u, f) = RestAt(s, d)
<1>1. Len(text) \in Nat /\ Len(u) \in Nat /\ Len(s) \in Nat /\ Len(e) \in Nat /\ Len(d) \in Nat
  BY EndsFacts
<1>2. Len(text) <= Len(u) /\ \A i \in 1..Len(text) : u[i] = text[i]
  BY <1>1 DEF IsPart
<1>3. \A i \in 1..Len(s) : s[i] = u[a + i]
  BY DEF IsPart
<1>4. /\ \A k \in 1..Len(e) : e[k] \in 1..Len(text)
      /\ \A k \in 1..(Len(e) + 1) : Begin(e, k) \in 1..(Len(text) + 1)
      /\ \A k \in 1..(Len(e) + 1) : \A j \in LineEnds(text) : j < Begin(e, k) \/ (k <= Len(e) /\ e[k] <= j)
  BY EndsFacts
<1>5. /\ \A k \in 1..Len(d) : d[k] \in 1..Len(s)
      /\ \A k \in 1..(Len(d) + 1) : Begin(d, k) \in 1..(Len(s) + 1)
  BY EndsFacts
<1>6. (\A x \in 1..Len(text) : x - 1 \in 0..Len(text)) /\ \A x \in 1..Len(s) : x - 1 \in 0..Len(s) /\ x \in Nat
  BY <1>1
<1>7. \A k \in 1..Len(d) : d[k] \in Nat /\ d[k] - 1 \in 0..Len(s)
  BY <1>5, <1>6, Zenon
<1>8. (\A x \in LineEnds(text) : x \in Nat /\ x <= a) /\ \A x \in LineEnds(s) : x \in Nat /\ 1 <= x
  <2>1. Len(e) + 1 \in 1..(Len(e) + 1) /\ ~ (Len(e) + 1 <= Len(e))
    BY <1>1
  <2>2. \A x \in LineEnds(text) : x < a + 1
    BY <1>4, <2>1
  <2>3. (\A x \in LineEnds(text) : x \in 1..Len(text)) /\ \A x \in LineEnds(s) : x \in 1..Len(s)
    BY DEF LineEnds
  <2> QED BY <1>1, <2>2, <2>3
<1>9. LineEnds(u) = LineEnds(text) \cup {a + x : x \in LineEnds(s)}
  <2>1. ASSUME NEW x \in LineEnds(text)
        PROVE  x \in LineEnds(u)
    <3>1. x \in 1..Len(text) /\ text[x] = "LF"
      BY DEF LineEnds
    <3>2. x \in 1..Len(u) /\ u[x] = "LF"
      BY <1>1, <1>2, <3>1
    <3> QED BY <3>2 DEF LineEnds
  <2>2. ASSUME NEW x \in LineEnds(s)
        PROVE  a + x \in LineEnds(u)
    <3>1. x \in 1..Len(s) /\ s[x] = "LF"
      BY DEF LineEnds
    <3>2. a + x \in 1..Len(u) /\ u[a + x] = "LF"
      BY <1>1, <1>3, <3>1
    <3> QED BY <3>2 DEF LineEnds
  <2>3. ASSUME NEW x \in LineEnds(u)
        PROVE  x \in LineEnds(text) \/ \E y \in LineEnds(s) : x = a + y
    <3>1. x \in 1..Len(u) /\ u[x] = "LF"
      BY DEF LineEnds
    <3>2. CASE x <= a
      <4>1. a <= Len(text)
        <5>1. a + 1 \in 1..(Len(text) + 1)
          BY <1>1, <1>4
        <5> QED BY <1>1, <5>1
      <4>2. x \in 1..Len(text) /\ text[x] = "LF"
        BY <1>1, <1>2, <3>1, <3>2, <4>1
      <4> QED BY <4>2 DEF LineEnds
    <3>3. CASE a < x
      <4>1. x - a \in 1..Len(s) /\ x = a + (x - a)
        BY <1>1, <3>1, <3>3
      <4>2. s[x - a] = "LF"
        BY <1>3, <3>1, <4>1
      <4>3. x - a \in LineEnds(s)
        BY <4>1, <4>2 DEF LineEnds
      <4> QED BY <4>1, <4>3
    <3> QED BY <1>1, <3>1, <3>2, <3>3
  <2> QED BY <2>1, <2>2, <2>3
<1>10. Enumerates(f, LineEnds(u))
  <2>1. Enumerates(f, LineEnds(text) \cup {a + x : x \in LineEnds(s)})
    BY <1>8, FurtherEnumerates
  <2> QED BY <1>9, <2>1
<1>11. /\ \A k \in 1..Len(e) : Begin(f, k) = Begin(e, k)
       /\ \A k \in 1..(Len(d) + 1) : Begin(f, Len(e) + k) = a + Begin(d, k)
  <2>1. \A k \in 1..Len(d) : d[k] \in Nat
    BY <1>7
  <2> QED BY <1>1, <2>1, FurtherBegins, SMTT(20)
<1>12. /\ Len(f) = Len(e) + Len(d)
       /\ (\A k \in 1..Len(e) : f[k] = e[k]) /\ \A k \in 1..Len(d) : f[Len(e) + k] = a + d[k]
  BY DEF Further
<1>13. ASSUME NEW k \in 1..Len(e)
       PROVE  SubSeq(u, Begin(f, k), f[k] - 1) = SubSeq(text, Begin(e, k), e[k] - 1)
  <2>1. \A x \in 1..(Len(text) + 1), y \in 0..Len(text) : SubSeq(u, 0 + x, 0 + y) = SubSeq(text, x, y)
    BY Shifted
  <2>2. Begin(e, k) \in 1..(Len(text) + 1) /\ e[k] - 1 \in 0..Len(text)
    BY <1>1, <1>4, <1>6
  <2>3. SubSeq(u, 0 + Begin(e, k), 0 + (e[k] - 1)) = SubSeq(text, Begin(e, k), e[k] - 1)
    BY <2>1, <2>2, Zenon
  <2>4. 0 + Begin(e, k) = Begin(e, k) /\ 0 + (e[k] - 1) = e[k] - 1
    <3>1. (\A x \in 1..(Len(text) + 1) : 0 + x = x) /\ \A x \in 0..Len(text) : 0 + x = x
      BY <1>1
    <3> QED BY <2>2, <3>1, Zenon
  <2>5. Begin(f, k) = Begin(e, k) /\ f[k] = e[k]
    BY <1>11, <1>12
  <2> QED BY <2>3, <2>4, <2>5
<1> DEFINE T == \A x \in 1..(Len(s) + 1), y \in 0..Len(s) : SubSeq(u, a + x, a + y) = SubSeq(s, x, y)
<1>14. T
  BY Shifted
<1> HIDE DEF T
<1>15. ASSUME NEW k \in 1..Len(d)
       PROVE  SubSeq(u, Begin(f, Len(e) + k), f[Len(e) + k] - 1) = SubSeq(s, Begin(d, k), d[k] - 1)
  <2>1. k \in 1..(Len(d) + 1)
    BY <1>1
  <2>2. Begin(d, k) \in 1..(Len(s) + 1) /\ Begin(f, Len(e) + k) = a + Begin(d, k)
    BY <1>5, <1>11, <2>1
  <2>3. d[k] - 1 \in 0..Len(s) /\ d[k] \in Nat
    BY <1>7
  <2>4. f[Len(e) + k] - 1 = a + (d[k] - 1)
    <3>1. f[Len(e) + k] = a + d[k]
      BY <1>12
    <3>2. \A x \in Nat : (a + x) - 1 = a + (x - 1)
      OBVIOUS
    <3> QED BY <2>3, <3>1, <3>2, Zenon
  <2> QED BY <1>14, <2>2, <2>3, <2>4, Zenon DEF T
<1>16. CutAt(u, f) = CutAt(text, e) \o CutAt(s, d)
  <2> DEFINE x == CutAt(text, e)
             y == CutAt(s, d)
             z == CutAt(u, f)
  <2>1. z = [k \in 1..(Len(e) + Len(d)) |-> Strip(SubSeq(u, Begin(f, k), f[k] - 1))]
    BY <1>12 DEF CutAt
  <2>2. x = [k \in 1..Len(e) |-> Strip(SubSeq(text, Begin(e, k), e[k] - 1))]
    BY DEF CutAt
  <2>3. y = [k \in 1..Len(d) |-> Strip(SubSeq(s, Begin(d, k), d[k] - 1))]
    BY DEF CutAt
  <2> HIDE DEF x, y, z
  <2>4. ASSUME NEW k \in 1..Len(e)
        PROVE  z[k] = x[k]
    <3>1. k \in 1..(Len(e) + Len(d))
      BY <1>1
    <3>2. z[k] = Strip(SubSeq(u, Begin(f, k), f[k] - 1))
      BY <2>1, <3>1
    <3>3. x[k] = Strip(SubSeq(text, Begin(e, k), e[k] - 1))
      BY <2>2
    <3> QED BY <1>13, <3>2, <3>3
  <2>5. ASSUME NEW k \in 1..Len(d)
        PROVE  z[Len(e) + k] = y[k]
    <3>1. Len(e) + k \in 1..(Len(e) + Len(d))
      BY <1>1
    <3>2. z[Len(e) + k] = Strip(SubSeq(u, Begin(f, Len(e) + k), f[Len(e) + k] - 1))
      BY <2>1, <3>1
    <3>3. y[k] = Strip(SubSeq(s, Begin(d, k), d[k] - 1))
      BY <2>3
    <3> QED BY <1>15, <3>2, <3>3
  <2>6. OfLength(z, Len(e) + Len(d)) /\ OfLength(x, Len(e)) /\ OfLength(y, Len(d))
    BY <2>1, <2>2, <2>3 DEF OfLength
  <2>7. z = x \o y
    BY <1>1, <2>4, <2>5, <2>6, IsConcat
  <2> QED BY <2>7 DEF x, y, z
<1>17. RestAt(u, f) = RestAt(s, d)
  <2>1. Len(d) + 1 \in 1..(Len(d) + 1) /\ Len(f) + 1 = Len(e) + (Len(d) + 1)
    BY <1>1, <1>12
  <2>2. Begin(d, Len(d) + 1) \in 1..(Len(s) + 1) /\ Begin(f, Len(f) + 1) = a + Begin(d, Len(d) + 1)
    BY <1>5, <1>11, <2>1, Zenon
  <2>3. Len(s) \in 0..Len(s)
    BY <1>1
  <2>4. SubSeq(u, Begin(f, Len(f) + 1), Len(u)) = SubSeq(s, Begin(d, Len(d) + 1), Len(s))
    BY <1>14, <2>2, <2>3, Zenon DEF T
  <2> QED BY <2>4 DEF RestAt
<1> QED BY <1>10, <1>16, <1>17

\* The same for a piece p that arrives.
LEMMA Joined ==
  ASSUME NEW S, NEW text \in Seq(S), NEW p \in Seq(S), NEW e, Enumerates(e, LineEnds(text)),
         NEW s \in Seq(S), IsJoin(s, RestAt(text, e), p), NEW d, Enumerates(d, LineEnds(s))
  PROVE  \E f : /\ Enumerates(f, LineEnds(text \o p))
               /\ CutAt(text \o p, f) = CutAt(text, e) \o CutAt(s, d)
               /\ RestAt(text \o p, f) = RestAt(s, d)
<1>1. PICK a \in Nat : a <= Len(text) /\ Begin(e, Len(e) + 1) = a + 1
  <2>1. Begin(e, Len(e) + 1) \in 1..(Len(text) + 1) /\ Len(text) \in Nat
    <3>1. Len(e) + 1 \in 1..(Len(e) + 1)
      BY EndsFacts
    <3> QED BY <3>1, EndsFacts
  <2> DEFINE b == Begin(e, Len(e) + 1)
  <2> HIDE DEF b
  <2>2. b \in 1..(Len(text) + 1)
    BY <2>1 DEF b
  <2>3. b - 1 \in Nat /\ b - 1 <= Len(text) /\ b = (b - 1) + 1
    BY <2>1, <2>2
  <2> QED BY <2>3 DEF b
<1> DEFINE r == RestAt(text, e)
<1>2. /\ r \in Seq(S) /\ Len(r) = Len(text) - a
      /\ \A i \in 1..Len(r) : r[i] = text[a + i]
  <2>1. r = SubSeq(text, a + 1, Len(text)) /\ Len(text) \in Nat
    <3>1. r = SubSeq(text, a + 1, Len(text))
      BY <1>1, Zenon DEF RestAt
    <3>2. Len(text) \in Nat
      OBVIOUS
    <3> QED BY <3>1, <3>2
  <2> HIDE DEF r
  <2>2. r \in Seq(S) /\ Len(r) = Len(text) - a
    BY <1>1, <2>1
  <2>3. ASSUME NEW i \in 1..Len(r)
        PROVE  r[i] = text[a + i]
    <3>1. r[i] = text[(a + 1) + i - 1]
      BY <1>1, <2>1, <2>2
    <3>2. (a + 1) + i - 1 = a + i
      BY <2>2
    <3> QED BY <3>1, <3>2
  <2> QED BY <2>2, <2>3
<1> HIDE DEF r
<1>3. /\ Len(r) \in Nat /\ Len(p) \in Nat /\ Len(s) = Len(r) + Len(p)
      /\ \A i \in 1..Len(r) : s[i] = r[i]
      /\ \A i \in 1..Len(p) : s[Len(r) + i] = p[i]
  <2>1. Len(r) \in Nat /\ Len(p) \in Nat
    BY <1>2
  <2>2. IsJoin(s, r, p)
    BY DEF r
  <2> QED BY <2>1, <2>2, Zenon DEF IsJoin
<1> DEFINE u == text \o p
<1>4. /\ u \in Seq(S) /\ Len(text) \in Nat /\ Len(u) = Len(text) + Len(p)
      /\ \A i \in 1..Len(text) : u[i] = text[i]
      /\ \A i \in 1..Len(p) : u[Len(text) + i] = p[i]
  BY ConcatFacts
<1> HIDE DEF u
<1>5. a + Len(s) = Len(u) /\ IsPart(u, 0, text)
  <2>1. \A i \in 1..Len(text) : 0 + i = i
    OBVIOUS
  <2>2. a + Len(s) = Len(u) /\ 0 + Len(text) <= Len(u)
    BY <1>1, <1>2, <1>3, <1>4
  <2> QED BY <1>4, <2>1, <2>2 DEF IsPart
<1>6. ASSUME NEW i \in 1..Len(s)
      PROVE  s[i] = u[a + i]
  <2>1. CASE i \in 1..Len(r)
    <3>1. s[i] = text[a + i]
      BY <1>2, <1>3, <2>1
    <3>2. a + i \in 1..Len(text)
      BY <1>1, <1>2, <1>4, <2>1
    <3> QED BY <1>4, <3>1, <3>2
  <2>2. ASSUME NEW j \in 1..Len(p), i = Len(r) + j
        PROVE  s[i] = u[a + i]
    <3>1. s[i] = p[j] /\ u[Len(text) + j] = p[j]
      BY <1>3, <1>4, <2>2
    <3>2. a + (Len(r) + j) = Len(text) + j
      BY <1>1, <1>2, <1>3, <1>4
    <3> QED BY <2>2, <3>1, <3>2
  <2>3. i \in 1..Len(r) \/ \E j \in 1..Len(p) : i = Len(r) + j
    <3>1. \A k \in 1..(Len(r) + Len(p)) : k \in 1..Len(r) \/ \E j \in 1..Len(p) : k = Len(r) + j
      BY <1>3, Halves, Zenon
    <3> QED BY <1>3, <3>1, Zenon
  <2> QED BY <2>1, <2>2, <2>3, Zenon
<1>7. e \in Seq(Nat) /\ Len(e) \in Nat /\ d \in Seq(Nat) /\ Len(d) \in Nat
  BY <1>3, EndsFacts
<1> DEFINE g == [i \in 1..Len(d) |-> a + d[i]]
<1>8. g \in Seq(Nat) /\ Len(g) = Len(d) /\ \A i \in 1..Len(d) : g[i] = a + d[i]
  <2>1. \A i \in 1..Len(d) : a + d[i] \in Nat
    BY <1>7
  <2> QED BY <1>7, <2>1
<1> HIDE DEF g
<1> DEFINE f == e \o g
<1>9. /\ f \in Seq(Nat) /\ Len(f) = Len(e) + Len(d)
      /\ \A k \in 1..Len(e) : f[k] = e[k]
      /\ \A k \in 1..Len(d) : f[Len(e) + k] = a + d[k]
  <2>1. f \in Seq(Nat) /\ IsJoin(f, e, g)
    BY <1>7, <1>8, ConcatFacts
  <2> HIDE DEF f
  <2> QED BY <1>8, <2>1, Zenon DEF IsJoin
<1> HIDE DEF f
<1>10. /\ Enumerates(f, LineEnds(u))
       /\ CutAt(u, f) = CutAt(text, e) \o CutAt(s, d)
       /\ RestAt(u, f) = RestAt(s, d)
  <2>1. Further(f, e, a, d)
    BY <1>9, Zenon DEF Further
  <2>2. IsPart(u, a, s)
    <3>1. a + Len(s) <= Len(u)
      BY <1>4, <1>5
    <3> QED BY <1>6, <3>1, Zenon DEF IsPart
  <2>3. u \in Seq(S) /\ Begin(e, Len(e) + 1) = a + 1
    BY <1>1, <1>4
  <2> QED BY <1>5, <2>1, <2>2, <2>3, Continued
<1> QED BY <1>10 DEF u

\* A line is empty that has nothing but blanks.
LEMMA StripEmpty ==
  ASSUME NEW S, NEW t \in Seq(S)
  PROVE  Strip(t) = <<>> <=> \A i \in 1..Len(t) : t[i] \in {"CR", "SP"}
<1> DEFINE q == [i \in DOMAIN t |-> IF t[i] = "CR" THEN "SP" ELSE t[i]]
           ink == {i \in DOMAIN q : q[i] # "SP"}
           n == Len(t)
<1>1. n \in Nat /\ DOMAIN t = 1..n
  OBVIOUS
<1> HIDE DEF n
<1>2. \A i \in 1..n : q[i] = IF t[i] = "CR" THEN "SP" ELSE t[i]
  BY <1>1
<1>3. DOMAIN q = 1..n /\ q \in Seq(S \cup {"SP"}) /\ Len(q) = n
  <2>1. \A i \in 1..n : t[i] \in S
    BY <1>1
  <2>2. q \in [1..n -> S \cup {"SP"}]
    BY <1>1, <2>1
  <2> HIDE DEF q
  <2> QED BY <1>1, <2>2
<1>4. Strip(t) = IF ink = {} THEN <<>> ELSE SubSeq(q, Min(ink), Max(ink))
  BY DEF Strip
<1> HIDE DEF q
<1>5. ink = {i \in 1..n : t[i] \notin {"CR", "SP"}}
  BY <1>2, <1>3
<1> HIDE DEF ink
<1>6. ink = {} <=> \A i \in 1..n : t[i] \in {"CR", "SP"}
  BY <1>5
<1>7. ASSUME ink # {}
      PROVE  SubSeq(q, Min(ink), Max(ink)) # <<>>
  <2>1. \E i \in ink : \A j \in ink : i <= j
    <3>1. ink \subseteq Nat
      BY <1>1, <1>5
    <3> QED BY <1>7, <3>1, LeastOf
  <2>2. \E i \in ink : \A j \in ink : i >= j
    <3> DEFINE D == {k \in Nat : \E i \in ink : k = n - i}
    <3>1. \A i \in ink : i \in Nat /\ n - i \in Nat
      BY <1>1, <1>5
    <3>2. D # {}
      <4>1. PICK i \in ink : TRUE
        BY <1>7
      <4>2. n - i \in D
        BY <3>1, <4>1
      <4> QED BY <4>2
    <3>3. PICK k \in D : \A l \in D : k <= l
      <4>1. D \subseteq Nat
        OBVIOUS
      <4> HIDE DEF D
      <4> QED BY <3>2, <4>1, LeastOf
    <3>4. PICK i \in ink : k = n - i
      BY <3>3
    <3>5. \A j \in ink : n - j \in D
      BY <3>1
    <3>6. \A j \in ink : n - i <= n - j
      BY <3>3, <3>4, <3>5
    <3>7. \A j \in ink : i >= j
      BY <1>1, <3>1, <3>6
    <3> QED BY <3>4, <3>7
  <2>3. Min(ink) \in ink /\ \A j \in ink : Min(ink) <= j
    BY <2>1, Zenon DEF Min
  <2>4. Max(ink) \in ink /\ \A j \in ink : Max(ink) >= j
    BY <2>2, Zenon DEF Max
  <2> DEFINE a == Min(ink)
             b == Max(ink)
  <2> HIDE DEF a, b
  <2>5. a \in 1..n /\ b \in 1..n /\ a <= b
    BY <1>5, <2>3, <2>4 DEF a, b
  <2>6. Len(SubSeq(q, a, b)) = b - a + 1
    BY <1>1, <1>3, <2>5
  <2>7. Len(SubSeq(q, a, b)) # 0
    BY <1>1, <2>5, <2>6
  <2>8. SubSeq(q, a, b) # <<>>
    <3>1. Len(<<>>) = 0
      OBVIOUS
    <3> QED BY <2>7, <3>1, Zenon
  <2> QED BY <2>8 DEF a, b
<1> QED BY <1>4, <1>6, <1>7, Zenon DEF n

\* A header ends where a line is empty.
LEMMA HeaderEnd ==
  ASSUME NEW S, NEW text \in Seq(S), NEW e, Enumerates(e, LineEnds(text))
  PROVE  HeaderEnds(text) # {} <=> \E k \in 1..Len(e) : CutAt(text, e)[k] = <<>>
<1>1. /\ Len(text) \in Nat /\ Len(e) \in Nat
      /\ \A k \in 1..Len(e) : e[k] \in 1..Len(text) /\ text[e[k]] = "LF" /\ Begin(e, k) <= e[k]
      /\ \A k \in 1..(Len(e) + 1) : Begin(e, k) \in 1..(Len(text) + 1)
  BY EndsFacts
<1>2. ASSUME NEW k \in 1..Len(e)
      PROVE  e[k] \in HeaderEnds(text) <=> CutAt(text, e)[k] = <<>>
  <2> DEFINE x == Begin(e, k)
             y == e[k]
             v == SubSeq(text, x, y - 1)
  <2>1. x \in 1..(Len(text) + 1) /\ y \in 1..Len(text) /\ x <= y /\ text[y] = "LF"
    <3>1. k \in 1..(Len(e) + 1)
      BY <1>1
    <3> QED BY <1>1, <3>1
  <2>2. CutAt(text, e)[k] = Strip(v)
    BY DEF CutAt
  <2>3. LineStart(text, y) = x
    BY StartIs
  <2> HIDE DEF x, y
  <2>4. v \in Seq(S) /\ Len(v) = y - x /\ \A i \in 1..(y - x) : v[i] = text[x + i - 1]
    BY <1>1, <2>1
  <2> HIDE DEF v
  <2>5. y \in HeaderEnds(text) <=> \A j \in x..(y - 1) : text[j] \in {"CR", "SP"}
    <3>1. DOMAIN text = 1..Len(text)
      OBVIOUS
    <3> QED BY <2>1, <2>3, <3>1 DEF HeaderEnds
  <2>6. (\A j \in x..(y - 1) : text[j] \in {"CR", "SP"}) <=> \A i \in 1..Len(v) : v[i] \in {"CR", "SP"}
    <3>1. ASSUME \A j \in x..(y - 1) : text[j] \in {"CR", "SP"}, NEW i \in 1..Len(v)
          PROVE  v[i] \in {"CR", "SP"}
      <4>1. x + i - 1 \in x..(y - 1) /\ v[i] = text[x + i - 1]
        BY <1>1, <2>1, <2>4
      <4> QED BY <3>1, <4>1
    <3>2. ASSUME \A i \in 1..Len(v) : v[i] \in {"CR", "SP"}, NEW j \in x..(y - 1)
          PROVE  text[j] \in {"CR", "SP"}
      <4>1. j - x + 1 \in 1..Len(v) /\ x + (j - x + 1) - 1 = j
        BY <1>1, <2>1, <2>4
      <4>2. v[j - x + 1] = text[x + (j - x + 1) - 1]
        BY <2>4, <4>1
      <4> QED BY <3>2, <4>1, <4>2
    <3> QED BY <3>1, <3>2
  <2>7. Strip(v) = <<>> <=> \A i \in 1..Len(v) : v[i] \in {"CR", "SP"}
    BY <2>4, StripEmpty
  <2> QED BY <2>2, <2>5, <2>6, <2>7 DEF y
<1>3. \A i \in HeaderEnds(text) : \E k \in 1..Len(e) : i = e[k]
  <2>1. HeaderEnds(text) \subseteq LineEnds(text)
    BY DEF HeaderEnds, LineEnds
  <2> QED BY <2>1 DEF Enumerates
<1> QED BY <1>2, <1>3

-----------------------------------------------------------------------------
(* What a caller has sent, and what was made of it.                        *)

\* What is left over of a text whose lines were cut off.
LeftOver(buf, text) == \E e : Enumerates(e, LineEnds(text)) /\ buf = RestAt(text, e)

Heard(c) ==
  /\ callGot[c] \in Seq(STRING) /\ callWire[c] \in Seq(STRING)
  /\ caller[c].on =>
       /\ caller[c].lines = Lines(callGot[c])
       /\ LeftOver(caller[c].buf, callGot[c])
  /\ caller[c].on => replies[c] = <<>>
  /\ replies[c] # <<>> <=> HeaderEnds(callGot[c]) # {}
  /\ \A i \in DOMAIN replies[c] : replies[c][i].kind = "result" =>
       /\ replies[c][i].path = RpcLines[Lines(callGot[c])[1][1]].path
       /\ replies[c][i].request = Tail(Lines(callGot[c]))

CallsInv ==
  /\ DOMAIN caller = Callers /\ DOMAIN callWire = Callers
  /\ DOMAIN callGot = Callers /\ DOMAIN replies = Callers
  /\ \A c \in Callers : Heard(c)

LEMMA CallsInvImplies == CallsInv => CalledAsSent
BY DEF CallsInv, Heard, CalledAsSent

\* Before anything has arrived.
LEMMA NothingHeard ==
  /\ Lines(<<>>) = <<>> /\ HeaderEnds(<<>>) = {}
  /\ LeftOver(<<>>, <<>>)
<1>1. <<>> \in Seq(STRING) /\ DOMAIN <<>> = {} /\ Len(<<>>) = 0
  OBVIOUS
<1>2. LineEnds(<<>>) = {} /\ HeaderEnds(<<>>) = {}
  BY <1>1 DEF LineEnds, HeaderEnds
<1>3. Enumerates(<<>>, LineEnds(<<>>))
  <2>1. <<>> \in Seq(Nat) /\ 1..Len(<<>>) = {}
    OBVIOUS
  <2> QED BY <1>2, <2>1 DEF Enumerates
<1>4. Lines(<<>>) = CutAt(<<>>, <<>>)
  BY <1>1, <1>3, LinesAre
<1>5. CutAt(<<>>, <<>>) = <<>>
  BY DEF CutAt
<1>6. RestAt(<<>>, <<>>) = <<>>
  <2>1. Begin(<<>>, Len(<<>>) + 1) = 1
    BY <1>1 DEF Begin
  <2>2. SubSeq(<<>>, 1, 0) = <<>>
    OBVIOUS
  <2> QED BY <1>1, <2>1, <2>2 DEF RestAt
<1> QED BY <1>2, <1>3, <1>4, <1>5, <1>6 DEF LeftOver

\* One piece more: its lines are the lines of all that has arrived.
LEMMA PieceHeard ==
  ASSUME NEW text \in Seq(STRING), NEW p \in Seq(STRING), p # <<>>,
         NEW buf, LeftOver(buf, text)
  PROVE  /\ text \o p \in Seq(STRING)
         /\ Lines(text \o p) = Lines(text) \o ServerLines(buf \o p).lines
         /\ LeftOver(ServerLines(buf \o p).rest, text \o p)
<1>1. PICK e : Enumerates(e, LineEnds(text)) /\ buf = RestAt(text, e)
  BY DEF LeftOver
<1>2. buf \in Seq(STRING)
  <2>1. Begin(e, Len(e) + 1) \in 1..(Len(text) + 1) /\ Len(text) \in Nat
    <3>1. Len(e) \in Nat
      BY <1>1, EndsFacts
    <3>2. Len(e) + 1 \in 1..(Len(e) + 1)
      BY <3>1
    <3> QED BY <1>1, <3>2, EndsFacts
  <2> DEFINE b == Begin(e, Len(e) + 1)
  <2> HIDE DEF b
  <2>2. SubSeq(text, b, Len(text)) \in Seq(STRING)
    BY <2>1 DEF b
  <2> QED BY <1>1, <2>2 DEF RestAt, b
<1> DEFINE s == buf \o p
<1>3. s \in Seq(STRING) /\ IsJoin(s, buf, p)
  BY <1>2, ConcatFacts
<1>4. s # <<>>
  <2>1. Len(buf) \in Nat /\ Len(p) \in Nat \ {0}
    BY <1>2
  <2>2. Len(s) # 0
    BY <1>3, <2>1 DEF IsJoin
  <2>3. Len(<<>>) = 0
    OBVIOUS
  <2> QED BY <2>2, <2>3, Zenon
<1> HIDE DEF s
<1>5. PICK d : Enumerates(d, LineEnds(s))
  BY <1>3, EndsOf
<1>6. IsJoin(s, RestAt(text, e), p)
  BY <1>1, <1>3
<1>7. PICK f : /\ Enumerates(f, LineEnds(text \o p))
               /\ CutAt(text \o p, f) = CutAt(text, e) \o CutAt(s, d)
               /\ RestAt(text \o p, f) = RestAt(s, d)
  BY <1>1, <1>3, <1>5, <1>6, Joined
<1>8. ServerLines(s).lines = CutAt(s, d) /\ ServerLines(s).rest = RestAt(s, d)
  BY <1>3, <1>4, <1>5, ServerLinesAre
<1>9. text \o p \in Seq(STRING)
  BY ConcatFacts
<1>10. Lines(text) = CutAt(text, e)
  BY <1>1, LinesAre
<1>11. Lines(text \o p) = CutAt(text \o p, f)
  BY <1>7, <1>9, LinesAre
<1> QED BY <1>7, <1>8, <1>9, <1>10, <1>11 DEF s, LeftOver

\* The header of a text has ended when one of its lines is empty.
LEMMA EmptyLine ==
  ASSUME NEW text \in Seq(STRING)
  PROVE  HeaderEnds(text) # {} <=> \E k \in DOMAIN Lines(text) : Lines(text)[k] = <<>>
<1>1. PICK e : Enumerates(e, LineEnds(text))
  BY EndsOf
<1>2. Lines(text) = CutAt(text, e)
  BY <1>1, LinesAre
<1>3. DOMAIN CutAt(text, e) = 1..Len(e)
  BY DEF CutAt
<1> QED BY <1>1, <1>2, <1>3, HeaderEnd

\* Callers that take no step.
LEMMA HeardStays ==
  ASSUME NEW d, Heard(d), caller'[d] = caller[d], callWire'[d] = callWire[d],
         callGot'[d] = callGot[d], replies'[d] = replies[d]
  PROVE  Heard(d)'
BY DEF Heard

\* A step of one caller, and what is so after it.
CallerMoves(c, x, w, g, r) ==
  /\ DOMAIN caller' = Callers /\ DOMAIN callWire' = Callers
  /\ DOMAIN callGot' = Callers /\ DOMAIN replies' = Callers
  /\ caller'[c] = x /\ callWire'[c] = w /\ callGot'[c] = g /\ replies'[c] = r
  /\ \A d \in Callers \ {c} : /\ caller'[d] = caller[d] /\ callWire'[d] = callWire[d]
                             /\ callGot'[d] = callGot[d] /\ replies'[d] = replies[d]

LEMMA OneHeard ==
  ASSUME CallsInv, NEW c \in Callers, NEW x, NEW w, NEW g, NEW r,
         CallerMoves(c, x, w, g, r), g \in Seq(STRING), w \in Seq(STRING),
         x.on => x.lines = Lines(g) /\ LeftOver(x.buf, g) /\ r = <<>>,
         r # <<>> <=> HeaderEnds(g) # {},
         \A i \in DOMAIN r : r[i].kind = "result" =>
           r[i].path = RpcLines[Lines(g)[1][1]].path /\ r[i].request = Tail(Lines(g))
  PROVE  CallsInv'
<1>1. /\ DOMAIN caller' = Callers /\ DOMAIN callWire' = Callers
      /\ DOMAIN callGot' = Callers /\ DOMAIN replies' = Callers
      /\ caller'[c] = x /\ callWire'[c] = w /\ callGot'[c] = g /\ replies'[c] = r
  BY DEF CallerMoves
<1>2. Heard(c)'
  BY <1>1, Zenon DEF Heard
<1>3. ASSUME NEW d \in Callers, d # c
      PROVE  Heard(d)'
  <2>1. /\ caller'[d] = caller[d] /\ callWire'[d] = callWire[d]
        /\ callGot'[d] = callGot[d] /\ replies'[d] = replies[d] /\ Heard(d)
    BY <1>3 DEF CallsInv, CallerMoves
  <2> QED BY <2>1, HeardStays
<1> QED BY <1>1, <1>2, <1>3 DEF CallsInv

LEMMA AcceptCallerHeard ==
  ASSUME CallsInv, NEW c \in Callers, AcceptCaller(c)
  PROVE  CallsInv'
<1> DEFINE x == [NoCaller EXCEPT !.on = TRUE]
<1>1. PICK text \in CallStreams : callWire' = [callWire EXCEPT ![c] = text]
  BY DEF AcceptCaller
<1>2. /\ caller' = [caller EXCEPT ![c] = x]
      /\ callGot' = [callGot EXCEPT ![c] = <<>>] /\ replies' = [replies EXCEPT ![c] = <<>>]
  BY DEF AcceptCaller
<1>3. x.on /\ x.lines = <<>> /\ x.buf = <<>>
  BY DEF NoCaller
<1>4. text \in Seq(STRING) /\ <<>> \in Seq(STRING) /\ DOMAIN <<>> = {}
  BY RpcAssumption
<1> HIDE DEF x
<1>5. CallerMoves(c, x, text, <<>>, <<>>)
  BY <1>1, <1>2 DEF CallsInv, CallerMoves
<1>6. /\ x.on => x.lines = Lines(<<>>) /\ LeftOver(x.buf, <<>>)
      /\ HeaderEnds(<<>>) = {}
  BY <1>3, NothingHeard, Zenon
<1> QED BY <1>4, <1>6, <1>5, OneHeard

LEMMA DisconnectCallerHeard ==
  ASSUME CallsInv, NEW c \in Callers, DisconnectCaller(c)
  PROVE  CallsInv'
<1>1. /\ caller' = [caller EXCEPT ![c] = NoCaller] /\ callWire' = [callWire EXCEPT ![c] = <<>>]
      /\ callGot' = callGot /\ replies' = replies
  BY DEF DisconnectCaller, CallerGone
<1>2. CallerMoves(c, NoCaller, <<>>, callGot[c], replies[c])
  BY <1>1 DEF CallsInv, CallerMoves
<1>3. <<>> \in Seq(STRING) /\ ~ NoCaller.on
  BY DEF NoCaller
<1>4. Heard(c)
  BY DEF CallsInv
<1>5. /\ callGot[c] \in Seq(STRING)
      /\ replies[c] # <<>> <=> HeaderEnds(callGot[c]) # {}
      /\ \A i \in DOMAIN replies[c] : replies[c][i].kind = "result" =>
           /\ replies[c][i].path = RpcLines[Lines(callGot[c])[1][1]].path
           /\ replies[c][i].request = Tail(Lines(callGot[c]))
  BY <1>4 DEF Heard
<1> QED BY <1>2, <1>3, <1>5, OneHeard

\* A service that is called, is called with the lines after the first one.
LEMMA RequestMade ==
  ASSUME NEW lines, NEW i, ProcessRequest(lines, i).kind = "result"
  PROVE  /\ ProcessRequest(lines, i).path = RpcLines[lines[1][1]].path
         /\ ProcessRequest(lines, i).request = Tail(lines)
<1> DEFINE q == RpcLines[lines[1][1]]
<1>1. i # 1 /\ MatchFirstLine(lines[1]) /\ q.method # "list" /\ q.path \in services
  <2>1. i # 1
    BY DEF ProcessRequest
  <2>2. MatchFirstLine(lines[1])
    BY <2>1 DEF ProcessRequest
  <2>3. q.method # "list"
    BY <2>1, <2>2 DEF ProcessRequest, ProcessListRequest
  <2>4. ProcessRequest(lines, i) = CallRpc(q.path, Tail(lines))
    BY <2>1, <2>2, <2>3, Zenon DEF ProcessRequest, ProcessCallRequest
  <2>5. q.path \in services
    BY <2>4 DEF CallRpc
  <2> QED BY <2>1, <2>2, <2>3, <2>5
<1>2. ProcessRequest(lines, i) = CallRpc(q.path, Tail(lines))
  BY <1>1, Zenon DEF ProcessRequest, ProcessCallRequest
<1> HIDE DEF q
<1>3. ProcessRequest(lines, i) = [kind |-> "result", path |-> q.path, request |-> Tail(lines)]
  BY <1>1, <1>2, Zenon DEF CallRpc
<1> QED BY <1>3 DEF q

\* What has arrived is read on, or answered.
LEMMA ReadCallerHeard ==
  ASSUME CallsInv, LineServerInv, NEW c \in Callers, NEW n \in 1..Len(callWire[c]), ReadCaller(c, n)
  PROVE  CallsInv'
<1> DEFINE p == SubSeq(callWire[c], 1, n)
           cut == ServerLines(caller[c].buf \o p)
           lines == caller[c].lines \o cut.lines
           g == callGot[c] \o p
           waits == cut.lines = <<>> \/ \A i \in DOMAIN lines : lines[i] # <<>>
           after == SubSeq(callWire[c], n + 1, Len(callWire[c]))
<1>1. /\ callGot[c] \in Seq(STRING) /\ callWire[c] \in Seq(STRING)
      /\ caller[c].lines = Lines(callGot[c])
      /\ LeftOver(caller[c].buf, callGot[c])
      /\ replies[c] = <<>> /\ HeaderEnds(callGot[c]) = {}
  <2>1. Heard(c) /\ caller[c].on
    BY DEF CallsInv, ReadCaller
  <2> QED BY <2>1, Zenon DEF Heard
<1>2. p \in Seq(STRING) /\ p # <<>> /\ after \in Seq(STRING)
  <2>1. Len(callWire[c]) \in Nat /\ n \in Nat /\ 1 <= n /\ n <= Len(callWire[c])
    BY <1>1
  <2>2. p \in Seq(STRING) /\ Len(p) = n
    BY <1>1, <2>1
  <2>3. after \in Seq(STRING)
    BY <1>1, <2>1
  <2>4. Len(<<>>) = 0 /\ n # 0
    BY <2>1
  <2> QED BY <2>2, <2>3, <2>4, Zenon
<1> HIDE DEF p, after
<1>3. /\ g \in Seq(STRING) /\ Lines(g) = lines
      /\ LeftOver(cut.rest, g)
  <2> DEFINE b == caller[c].buf
             h == callGot[c]
  <2>1. h \in Seq(STRING) /\ LeftOver(b, h)
    BY <1>1
  <2> HIDE DEF b, h
  <2>2. /\ h \o p \in Seq(STRING)
        /\ Lines(h \o p) = Lines(h) \o ServerLines(b \o p).lines
        /\ LeftOver(ServerLines(b \o p).rest, h \o p)
    BY <1>2, <2>1, PieceHeard
  <2> QED BY <1>1, <2>2, Zenon DEF b, h
<1>4. HeaderEnds(g) # {} <=> \E k \in DOMAIN lines : lines[k] = <<>>
  BY <1>3, EmptyLine
<1>5. callGot' = [callGot EXCEPT ![c] = g]
  BY DEF ReadCaller, p
<1>6. CASE /\ waits
           /\ caller' = [caller EXCEPT ![c].lines = lines, ![c].buf = cut.rest]
           /\ callWire' = [callWire EXCEPT ![c] = SubSeq(@, n + 1, Len(@))]
           /\ UNCHANGED <<lineServer, replies>>
  <2> DEFINE x == [caller[c] EXCEPT !.lines = lines, !.buf = cut.rest]
  <2>1. CallerMoves(c, x, after, g, <<>>)
    <3>1. callWire' = [callWire EXCEPT ![c] = after]
      BY <1>6, Zenon DEF after, CallsInv
    <3>2. caller' = [caller EXCEPT ![c] = x]
      BY <1>6, Zenon DEF CallsInv
    <3> HIDE DEF x, g
    <3> QED BY <1>1, <1>5, <1>6, <3>1, <3>2 DEF CallsInv, CallerMoves
  <2>2. x.lines = lines /\ x.buf = cut.rest
    <3>1. {"on", "lines", "buf"} \subseteq DOMAIN caller[c]
      BY DEF LineServerInv
    <3> HIDE DEF lines, cut
    <3> QED BY <3>1
  <2>3. HeaderEnds(g) = {}
    <3>1. CASE cut.lines = <<>>
      <4>1. lines = Lines(callGot[c])
        <5>1. PICK e : Enumerates(e, LineEnds(callGot[c]))
          BY <1>1, EndsOf
        <5>2. Lines(callGot[c]) = CutAt(callGot[c], e)
          BY <1>1, <5>1, LinesAre
        <5>3. Len(e) \in Nat
          BY <1>1, <5>1, EndsFacts
        <5> DEFINE T == {Lines(callGot[c])[i] : i \in 1..Len(e)}
                   l == Lines(callGot[c])
        <5>4. l = [i \in 1..Len(e) |-> l[i]]
          BY <5>2 DEF CutAt
        <5>5. \A i \in 1..Len(e) : l[i] \in T
          OBVIOUS
        <5> HIDE DEF T, l
        <5>6. l \in [1..Len(e) -> T]
          BY <5>4, <5>5
        <5>7. l \in Seq(T)
          BY <5>3, <5>6
        <5>8. l \o <<>> = l
          BY <5>7
        <5> QED BY <1>1, <3>1, <5>8 DEF l
      <4>2. ~ \E k \in DOMAIN Lines(callGot[c]) : Lines(callGot[c])[k] = <<>>
        BY <1>1, EmptyLine
      <4> HIDE DEF lines
      <4> QED BY <1>4, <4>1, <4>2
    <3> HIDE DEF lines, cut
    <3>2. CASE \A i \in DOMAIN lines : lines[i] # <<>>
      BY <1>4, <3>2
    <3> QED BY <1>6, <3>1, <3>2
  <2>4. /\ x.on => x.lines = Lines(g) /\ LeftOver(x.buf, g)
        /\ DOMAIN <<>> = {}
    <3> HIDE DEF x, lines, g, cut
    <3> QED BY <1>3, <2>2
  <2> HIDE DEF x, lines, g, cut
  <2>5. g \in Seq(STRING) /\ after \in Seq(STRING) /\ (<<>> # <<>> <=> HeaderEnds(g) # {})
    BY <1>2, <1>3, <2>3
  <2> QED BY <2>1, <2>4, <2>5, OneHeard
<1>7. CASE ~ waits /\ LineServerCallback(c, lines)
  <2> DEFINE empty == {i \in DOMAIN lines : lines[i] = <<>>}
             answer == ProcessRequest(lines, Min(empty))
             r == <<answer>>
  <2>1. /\ replies' = [replies EXCEPT ![c] = Append(@, answer)]
        /\ caller' = [caller EXCEPT ![c] = NoCaller] /\ callWire' = [callWire EXCEPT ![c] = <<>>]
        /\ empty # {}
    BY <1>7, Zenon DEF LineServerCallback, CallerGone
  <2>2. HeaderEnds(g) # {}
    BY <1>4, <2>1
  <2> HIDE DEF empty
  <2>3. answer.kind = "result" =>
          answer.path = RpcLines[lines[1][1]].path /\ answer.request = Tail(lines)
    BY RequestMade, Zenon
  <2> HIDE DEF answer
  <2>4. CallerMoves(c, NoCaller, <<>>, g, r)
    <3>1. Append(<<>>, answer) = r
      OBVIOUS
    <3>2. replies'[c] = r
      BY <1>1, <2>1, <3>1 DEF CallsInv
    <3> HIDE DEF g, r
    <3> QED BY <1>5, <2>1, <3>2 DEF CallsInv, CallerMoves
  <2>5. r # <<>> /\ DOMAIN r = {1} /\ r[1] = answer
    OBVIOUS
  <2> HIDE DEF r
  <2>6. \A i \in DOMAIN r : r[i].kind = "result" =>
           r[i].path = RpcLines[Lines(g)[1][1]].path /\ r[i].request = Tail(Lines(g))
    <3>1. \A i \in DOMAIN r : r[i] = answer
      BY <2>5
    <3> QED BY <1>3, <2>3, <3>1, Zenon
  <2>7. <<>> \in Seq(STRING) /\ ~ NoCaller.on
    BY DEF NoCaller
  <2> HIDE DEF g
  <2>8. g \in Seq(STRING) /\ (r # <<>> <=> HeaderEnds(g) # {})
    BY <1>3, <2>2, <2>5
  <2> QED BY <2>4, <2>6, <2>7, <2>8, OneHeard
<1>8. \/ /\ waits
         /\ caller' = [caller EXCEPT ![c].lines = lines, ![c].buf = cut.rest]
         /\ callWire' = [callWire EXCEPT ![c] = SubSeq(@, n + 1, Len(@))]
         /\ UNCHANGED <<lineServer, replies>>
      \/ ~ waits /\ LineServerCallback(c, lines)
  BY Zenon DEF ReadCaller, p
<1> QED BY <1>6, <1>7, <1>8

LEMMA StepKeepsCalls ==
  ASSUME CallsInv, LineServerInv, [ServersNext]_serverVars
  PROVE  CallsInv'
<1>1. CASE UNCHANGED callVars
  <2>1. \A c \in Callers : Heard(c)'
    BY <1>1, HeardStays DEF CallsInv, callVars
  <2> QED BY <1>1, <2>1 DEF CallsInv, callVars
<1>2. ASSUME NEW c \in Callers, AcceptCaller(c) \/ DisconnectCaller(c)
                                \/ \E n \in 1..Len(callWire[c]) : ReadCaller(c, n)
      PROVE  CallsInv'
  BY <1>2, AcceptCallerHeard, DisconnectCallerHeard, ReadCallerHeard
<1>3. \/ UNCHANGED callVars
      \/ \E c \in Callers : AcceptCaller(c) \/ DisconnectCaller(c)
                            \/ \E n \in 1..Len(callWire[c]) : ReadCaller(c, n)
  <2>1. CASE UNCHANGED rpcVars
    BY <2>1 DEF rpcVars
  <2>2. CASE RpcNext
    BY <2>2 DEF RpcNext, LoadRpc, RegisterRpc, UnregisterRpc
  <2>3. CASE UnloadAll
    BY <2>3 DEF UnloadAll, StopRpc
  <2> QED BY <2>1, <2>2, <2>3 DEF ServersNext, serverVars
<1> QED BY <1>1, <1>2, <1>3

LEMMA InitCalls == ServersInit => CallsInv
<1> SUFFICES ASSUME ServersInit
             PROVE  CallsInv
  OBVIOUS
<1>1. /\ DOMAIN caller = Callers /\ DOMAIN callWire = Callers
      /\ DOMAIN callGot = Callers /\ DOMAIN replies = Callers
  BY DEF ServersInit
<1>2. ASSUME NEW c \in Callers
      PROVE  Heard(c)
  <2>1. caller[c] = NoCaller /\ callWire[c] = <<>> /\ callGot[c] = <<>> /\ replies[c] = <<>>
    BY DEF ServersInit
  <2>2. ~ NoCaller.on /\ <<>> \in Seq(STRING) /\ DOMAIN <<>> = {}
    BY DEF NoCaller
  <2> QED BY <2>1, <2>2, NothingHeard, Zenon DEF Heard
<1> QED BY <1>1, <1>2 DEF CallsInv

-----------------------------------------------------------------------------
(* The theorems about the servers.                                         *)

LEMMA ServersInvInductive ==
  /\ ServersInit => ServersInv /\ LineServerInv /\ FeedsInv /\ CallsInv
  /\ ServersInv /\ LineServerInv /\ FeedsInv /\ CallsInv /\ [ServersNext]_serverVars
     => (ServersInv /\ LineServerInv /\ FeedsInv /\ CallsInv)'
<1>1. ServersInit => FeedsInv
  BY DEF ServersInit, FeedsInv
<1>2. ASSUME FeedsInv, [ServersNext]_serverVars
      PROVE  FeedsInv'
  <2>1. CASE UNCHANGED feeds
    <3>1. \A n \in DOMAIN feeds' : FeedOK(feeds'[n])
      BY <1>2, <2>1 DEF FeedsInv
    <3> QED BY <3>1 DEF FeedsInv
  <2>2. FeedNext \/ UNCHANGED feeds
    BY <1>2 DEF ServersNext, UnloadAll, serverVars
  <2> QED BY <1>2, <2>1, <2>2, FeedNextKeeps
<1>3. /\ ServersInit => ServersInv /\ LineServerInv /\ CallsInv
      /\ ServersInv /\ [ServersNext]_serverVars => ServersInv'
      /\ LineServerInv /\ [ServersNext]_serverVars => LineServerInv'
      /\ CallsInv /\ LineServerInv /\ [ServersNext]_serverVars => CallsInv'
  BY InitServers, InitLineServer, InitCalls, StepKeepsServers, StepKeepsLineServer, StepKeepsCalls
<1> QED BY <1>1, <1>2, <1>3

\* Every server knows its connections, in every state of the program: an HTTP
\* server, and the line server of the remote procedure calls, counts those it
\* has, is there as long as there is one, and is freed with the last one once
\* it was stopped (tryFreeServer, clientSocketDisconnected).
THEOREM ConnectionsAreCounted == ServersSpec => []ConnectionsCounted
<1>1. ServersInv /\ LineServerInv => ConnectionsCounted
  BY ServersInvImplies, LineServerInvImplies DEF ConnectionsCounted
<1> QED BY <1>1, ServersInvInductive, PTL DEF ServersSpec

\* A caller of a remote procedure is answered at most once on a connection,
\* which its answer closes: what else it sends is not answered
\* (lineServerCallback, clientSocketRead).
THEOREM CallersAreAnsweredOnce == ServersSpec => []CallersAnsweredOnce
<1>1. LineServerInv => CallersAnsweredOnce
  BY LineServerInvImplies
<1> QED BY <1>1, ServersInvInductive, PTL DEF ServersSpec

\* What a feed has recorded never exceeds FEED_LIMIT, and two entries that
\* follow each other differ, whatever is fetched for it and however its fields
\* have been changed meanwhile (feed_update, compareFeedContentEntries).
THEOREM FeedHistoryIsKept == ServersSpec => []FeedHistory
<1> QED BY FeedsInvImplies, ServersInvInductive, PTL DEF ServersSpec

\* A caller has its answer as soon as an empty line has arrived, and no later
\* than that; a service is called with the lines that the caller has sent after
\* the first one, and it is the service that this one names - in whatever pieces
\* its text arrives (processClientBuffer, lineServerCallback, processCallRequest).
THEOREM CallsAreAsSent == ServersSpec => []CalledAsSent
<1> QED BY CallsInvImplies, ServersInvInductive, PTL DEF ServersSpec
=============================================================================
