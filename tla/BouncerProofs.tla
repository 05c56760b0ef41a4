--------------------------- MODULE BouncerProofs ----------------------------
(***************************************************************************)
(* Proofs about the IRC bouncer, for any number of proxies, clients,       *)
(* channels and kept lines: who is attached to whom, who gets which lines, *)
(* what is played back and which channels are tracked.                     *)
(***************************************************************************)
EXTENDS Bouncer, SelectionProofs

-----------------------------------------------------------------------------
(* Queues that hold each of their elements once.                           *)

\* The elements of s are those of S, each once.
Holds(s, S) ==
  /\ \A i \in DOMAIN s : s[i] \in S
  /\ \A x \in S : \E i \in DOMAIN s : s[i] = x
  /\ \A i, j \in DOMAIN s : s[i] = s[j] => i = j

\* And x is the last of them.
EndsWith(s, x) == s # <<>> /\ s[Len(s)] = x

LEMMA HoldsMeans ==
  ASSUME NEW s, NEW S, Holds(s, S)
  PROVE  ToSet(s) = S /\ IsInjective(s)
BY DEF Holds, ToSet, IsInjective

LEMMA HoldsNothing ==
  /\ Holds(<<>>, {})
  /\ \A S : Holds(<<>>, S) => S = {}
<1>1. DOMAIN <<>> = {}
  OBVIOUS
<1> QED BY <1>1 DEF Holds

LEMMA HoldsOne ==
  ASSUME NEW x
  PROVE  Holds(<<x>>, {x}) /\ EndsWith(<<x>>, x)
<1>1. DOMAIN <<x>> = {1} /\ Len(<<x>>) = 1 /\ <<x>>[1] = x
  OBVIOUS
<1> QED BY <1>1 DEF Holds, EndsWith

LEMMA HoldsTwo ==
  ASSUME NEW x, NEW y, x # y
  PROVE  Holds(<<x, y>>, {x, y})
<1>1. DOMAIN <<x, y>> = {1, 2} /\ <<x, y>>[1] = x /\ <<x, y>>[2] = y
  OBVIOUS
<1> QED BY <1>1 DEF Holds

LEMMA HoldsAppended ==
  ASSUME NEW T, NEW s \in Seq(T), NEW x \in T, NEW S, Holds(s, S), x \notin S
  PROVE  /\ Append(s, x) \in Seq(T) /\ Holds(Append(s, x), S \cup {x})
         /\ s \o <<x>> = Append(s, x) /\ EndsWith(Append(s, x), x)
<1> DEFINE t == Append(s, x)
           n == Len(s)
<1>1. /\ t \in Seq(T) /\ s \o <<x>> = t /\ n \in Nat /\ Len(t) = n + 1
      /\ DOMAIN t = 1..(n + 1) /\ DOMAIN s = 1..n
      /\ \A i \in 1..n : t[i] = s[i]
      /\ t[n + 1] = x
  OBVIOUS
<1> HIDE DEF t, n
<1>2. \A i \in 1..(n + 1) : i \in 1..n \/ i = n + 1
  BY <1>1
<1>3. \A i \in 1..n : i \in 1..(n + 1)
  BY <1>1
<1>4. n + 1 \in 1..(n + 1) /\ t # <<>>
  BY <1>1
<1>5. Holds(t, S \cup {x})
  <2>1. \A i \in DOMAIN t : t[i] \in S \cup {x}
    BY <1>1, <1>2 DEF Holds
  <2>2. \A y \in S \cup {x} : \E i \in DOMAIN t : t[i] = y
    BY <1>1, <1>3, <1>4 DEF Holds
  <2>3. \A i \in 1..n : t[i] # x
    BY <1>1 DEF Holds
  <2>4. \A i, j \in 1..n : t[i] = t[j] => i = j
    BY <1>1 DEF Holds
  <2>5. \A i, j \in DOMAIN t : t[i] = t[j] => i = j
    BY <1>1, <1>2, <2>3, <2>4
  <2> QED BY <2>1, <2>2, <2>5 DEF Holds
<1> QED BY <1>1, <1>4, <1>5 DEF EndsWith, t

LEMMA HoldsPrepended ==
  ASSUME NEW T, NEW s \in Seq(T), NEW x \in T, NEW S, Holds(s, S), x \notin S
  PROVE  /\ <<x>> \o s \in Seq(T) /\ Holds(<<x>> \o s, S \cup {x})
         /\ \A y : EndsWith(s, y) => EndsWith(<<x>> \o s, y)
<1> DEFINE t == <<x>> \o s
           n == Len(s)
<1>1. /\ t \in Seq(T) /\ n \in Nat /\ Len(t) = n + 1
      /\ DOMAIN t = 1..(n + 1) /\ DOMAIN s = 1..n
      /\ \A i \in 1..n : t[i + 1] = s[i]
      /\ t[1] = x /\ (s # <<>> => n # 0)
  OBVIOUS
<1> HIDE DEF t, n
<1>2. \A i \in 1..(n + 1) : i = 1 \/ (i - 1 \in 1..n /\ t[i] = s[i - 1])
  <2>1. \A i \in 1..(n + 1) : i = 1 \/ (i - 1 \in 1..n /\ (i - 1) + 1 = i)
    BY <1>1
  <2>2. ASSUME NEW i \in 1..(n + 1), i # 1
        PROVE  t[i] = s[i - 1]
    <3>1. t[(i - 1) + 1] = s[i - 1] /\ (i - 1) + 1 = i
      BY <1>1, <2>1, <2>2
    <3> QED BY <3>1
  <2> QED BY <2>1, <2>2
<1>3. \A i \in 1..n : i + 1 \in 1..(n + 1)
  BY <1>1
<1>4. 1 \in 1..(n + 1) /\ t # <<>>
  BY <1>1
<1>5. Holds(t, S \cup {x})
  <2>1. \A i \in DOMAIN t : t[i] \in S \cup {x}
    BY <1>1, <1>2 DEF Holds
  <2>2. \A y \in S \cup {x} : \E i \in DOMAIN t : t[i] = y
    <3>1. ASSUME NEW y \in S
          PROVE  \E i \in DOMAIN t : t[i] = y
      <4>1. PICK i \in 1..n : s[i] = y
        BY <1>1 DEF Holds
      <4> QED BY <1>1, <1>3, <4>1
    <3> QED BY <1>1, <1>4, <3>1
  <2>3. ASSUME NEW i \in 1..(n + 1), NEW j \in 1..(n + 1), t[i] = t[j]
        PROVE  i = j
    <3>1. CASE i # 1 /\ j # 1
      <4>1. i - 1 \in DOMAIN s /\ j - 1 \in DOMAIN s /\ s[i - 1] = s[j - 1]
        BY <1>1, <1>2, <2>3, <3>1
      <4>2. i - 1 = j - 1
        BY <4>1, Zenon DEF Holds
      <4> QED BY <1>1, <4>2
    <3>2. \A k \in 1..(n + 1) : k # 1 => t[k] # x
      <4>1. \A k \in 1..n : s[k] # x
        BY <1>1 DEF Holds
      <4> QED BY <1>2, <4>1
    <3> QED BY <1>1, <2>3, <3>1, <3>2
  <2> QED BY <1>1, <2>1, <2>2, <2>3 DEF Holds
<1>6. \A y : EndsWith(s, y) => EndsWith(t, y)
  <2>1. ASSUME NEW y, EndsWith(s, y)
        PROVE  t[Len(t)] = y
    <3>1. n \in 1..n
      BY <1>1, <2>1 DEF EndsWith
    <3> QED BY <1>1, <2>1, <3>1 DEF EndsWith, n
  <2> QED BY <1>4, <2>1 DEF EndsWith
<1> QED BY <1>1, <1>5, <1>6 DEF t

\* A part of a queue, given by a set of elements.
LEMMA HoldsSelected ==
  ASSUME NEW T, NEW s \in Seq(T), NEW I \in SUBSET (1..Len(s)), NEW S, Holds(s, S), NEW P,
         \A i \in 1..Len(s) : i \in I <=> s[i] \in P
  PROVE  /\ Selected(s, I) \in Seq(T) /\ Holds(Selected(s, I), S \cap P)
         /\ \A y \in P : EndsWith(s, y) => EndsWith(Selected(s, I), y)
<1> DEFINE t == Selected(s, I)
           m == Cardinality(I)
           n == Len(s)
<1>1. /\ t \in Seq(T) /\ Len(t) = m /\ m \in Nat
      /\ \A i \in 1..m : /\ Nth(I, i) \in I /\ Nth(I, i) \in 1..n /\ t[i] = s[Nth(I, i)]
                         /\ \A j \in 1..m : i < j => Nth(I, i) < Nth(I, j)
      /\ \A k \in I : \E i \in 1..m : t[i] = s[k]
  BY SelectedFacts
<1>2. DOMAIN t = 1..m /\ DOMAIN s = 1..n /\ n \in Nat
  BY <1>1
<1> HIDE DEF t, m, n
<1>3. Holds(t, S \cap P)
  <2>1. \A i \in 1..m : t[i] \in S \cap P
    BY <1>1, <1>2 DEF Holds, n
  <2>2. \A x \in S \cap P : \E i \in 1..m : t[i] = x
    <3>1. ASSUME NEW x \in S \cap P
          PROVE  \E i \in 1..m : t[i] = x
      <4>1. PICK k \in 1..n : s[k] = x
        BY <1>2 DEF Holds
      <4>2. k \in I
        BY <4>1 DEF n
      <4> QED BY <1>1, <4>1, <4>2
    <3> QED BY <3>1
  <2>3. ASSUME NEW i \in 1..m, NEW j \in 1..m, t[i] = t[j]
        PROVE  i = j
    <3>1. Nth(I, i) = Nth(I, j)
      BY <1>1, <1>2, <2>3 DEF Holds
    <3>2. i \in Int /\ j \in Int /\ Nth(I, i) \in Int /\ Nth(I, j) \in Int
      BY <1>1, <1>2
    <3>3. ~(i < j) /\ ~(j < i)
      BY <1>1, <3>1, <3>2
    <3> QED BY <3>2, <3>3
  <2> QED BY <1>2, <2>1, <2>2, <2>3 DEF Holds
<1>4. ASSUME NEW y \in P, EndsWith(s, y)
      PROVE  EndsWith(t, y)
  <2>1. n \in 1..n /\ s[n] = y
    BY <1>2, <1>4 DEF EndsWith, n
  <2>2. PICK i \in 1..m : t[i] = s[n]
    BY <1>1, <2>1 DEF n
  <2>3. Nth(I, i) = n
    BY <1>1, <1>2, <2>1, <2>2 DEF Holds
  <2>4. i = m /\ m # 0
    <3>1. m \in 1..m /\ i \in Int
      BY <1>1
    <3>2. Nth(I, m) \in 1..n /\ (i < m => n < Nth(I, m))
      BY <1>1, <2>3, <3>1
    <3> QED BY <1>1, <1>2, <3>1, <3>2
  <2> QED BY <1>1, <2>1, <2>2, <2>4 DEF EndsWith
<1> QED BY <1>1, <1>3, <1>4 DEF t

LEMMA WithoutFacts ==
  ASSUME NEW T, NEW s \in Seq(T), NEW x
  PROVE  /\ Without(s, x) \in Seq(T)
         /\ \A S : Holds(s, S) => Holds(Without(s, x), S \ {x})
         /\ \A S, y : Holds(s, S) /\ EndsWith(s, y) /\ y # x => EndsWith(Without(s, x), y)
<1> DEFINE I == {i \in DOMAIN s : s[i] # x}
<1>1. I \in SUBSET (1..Len(s))
  OBVIOUS
<1>2. Without(s, x) = Selected(s, I)
  BY DEF Without
<1>4. ASSUME NEW S, Holds(s, S)
      PROVE  /\ Holds(Selected(s, I), S \ {x})
             /\ \A y : EndsWith(s, y) /\ y # x => EndsWith(Selected(s, I), y)
  <2> DEFINE P == S \ {x}
  <2>1. \A i \in 1..Len(s) : i \in I <=> s[i] \in P
    BY <1>4 DEF Holds
  <2>2. \A y : EndsWith(s, y) /\ y # x => y \in P
    <3>1. ASSUME NEW y, EndsWith(s, y)
          PROVE  y \in S
      <4>1. Len(s) \in DOMAIN s
        BY <3>1 DEF EndsWith
      <4> QED BY <1>4, <3>1, <4>1 DEF EndsWith, Holds
    <3> QED BY <3>1
  <2>3. S \cap P = S \ {x}
    OBVIOUS
  <2> HIDE DEF P, I
  <2> QED BY <1>1, <1>4, <2>1, <2>2, <2>3, HoldsSelected
<1>5. Selected(s, I) \in Seq(T)
  BY <1>1, SelectedFacts
<1> HIDE DEF I
<1> QED BY <1>2, <1>4, <1>5

LEMMA OnlyFacts ==
  ASSUME NEW T, NEW s \in Seq(T), NEW P
  PROVE  /\ Only(s, P) \in Seq(T \cap P)
         /\ \A S : Holds(s, S) => Holds(Only(s, P), S \cap P)
<1> DEFINE I == {i \in DOMAIN s : s[i] \in P}
<1>1. I \in SUBSET (1..Len(s)) /\ \A i \in 1..Len(s) : i \in I <=> s[i] \in P
  OBVIOUS
<1>2. Only(s, P) = Selected(s, I)
  BY DEF Only
<1> HIDE DEF I
<1>3. \A S : Holds(s, S) => Holds(Selected(s, I), S \cap P)
  BY <1>1, HoldsSelected
<1>4. Selected(s, I) \in Seq(T \cap P)
  <2>1. /\ Selected(s, I) \in Seq(T) /\ Len(Selected(s, I)) = Cardinality(I)
        /\ \A i \in 1..Cardinality(I) : Nth(I, i) \in I /\ Selected(s, I)[i] = s[Nth(I, i)]
    BY <1>1, SelectedFacts
  <2>2. \A i \in 1..Len(Selected(s, I)) : Selected(s, I)[i] \in T \cap P
    <3>1. \A k \in I : s[k] \in T \cap P
      BY <1>1
    <3> QED BY <2>1, <3>1
  <2> QED BY <2>1, <2>2
<1> QED BY <1>2, <1>3, <1>4

-----------------------------------------------------------------------------
(* The inductive invariant, part by part.                                  *)

ModulesOK ==
  /\ pool \subseteq Plugins /\ available \subseteq pool /\ loaded \in BOOLEAN
  /\ alive \subseteq Proxies
  /\ ~loaded => alive = {}

PlugsTyped ==
  /\ handlers \subseteq Proxies
  /\ enabled \in [Proxies -> Seq(Plugins)] /\ exceptions \in [Proxies -> Seq(Plugins)]
  /\ attached \in [Clients -> Seq(Plugins \cup {"proxy"})]

\* Without a connection to the server we are in no channel.
RemoteOK ==
  /\ performs \in [Proxies -> 0..MaxPerform]
  /\ online \in [Proxies -> BOOLEAN] /\ ournick \in [Proxies -> BOOLEAN]
  /\ joined \in [Proxies -> SUBSET Channels] /\ tracked \in [Proxies -> SUBSET Channels]
  /\ TrackedIsJoined
  /\ \A p \in alive : ~online[p] => joined[p] = {}

PeopleOK ==
  /\ client \in [Clients -> ClientStates] /\ owner \in [Clients -> Proxies \cup {Nobody}]
  /\ up \in [Clients -> BOOLEAN] /\ members \in [Proxies -> Seq(Clients)]
  /\ \A p \in Proxies : Holds(members[p], {c \in Clients : owner[c] = p})
  /\ \A c \in Clients : (client[c] = "member") <=> (owner[c] # Nobody)
  /\ \A c \in Clients : owner[c] # Nobody => owner[c] \in alive

\* The kept lines are the last ones since the buffer was emptied.
Recent(queue, s) ==
  /\ Len(queue) <= MaxLines /\ Len(queue) <= Len(s)
  /\ \A i \in 1..Len(queue) : queue[i] = s[Len(s) - Len(queue) + i]
  /\ Len(queue) < MaxLines => Len(queue) = Len(s)

TextsOK ==
  /\ events \in 0..MaxEvents
  /\ buffer \in [Proxies -> [Channels -> Seq(Nat)]]
  /\ since \in [Proxies -> [Channels -> Seq(Nat)]]
  /\ \A p \in Proxies, ch \in Channels : Recent(buffer[p][ch], since[p][ch])

BaseInv ==
  /\ ModulesOK
  /\ PlugsTyped
  /\ RemoteOK
  /\ PeopleOK
  /\ TextsOK
  /\ chunk \in Clients \cup {Nobody}
  /\ TrafficStays

LEMMA SameModules == ASSUME ModulesOK, UNCHANGED <<modules, available>> PROVE ModulesOK'
BY DEF ModulesOK, modules

LEMMA SamePlugs == ASSUME PlugsTyped, UNCHANGED <<handlers, enabled, exceptions, attached>> PROVE PlugsTyped'
BY DEF PlugsTyped

LEMMA SameRemote == ASSUME RemoteOK, UNCHANGED <<performs, remote, alive>> PROVE RemoteOK'
BY DEF RemoteOK, remote, TrackedIsJoined

LEMMA SamePeople == ASSUME PeopleOK, UNCHANGED <<client, owner, up, members, alive>> PROVE PeopleOK'
BY DEF PeopleOK

LEMMA SameTexts == ASSUME TextsOK, UNCHANGED texts PROVE TextsOK'
BY DEF TextsOK, texts

LEMMA AccountedMeans == ASSUME PeopleOK PROVE ClientsAccounted
<1>1. ASSUME NEW p \in Proxies
      PROVE  /\ IsInjective(members[p])
             /\ ToSet(members[p]) = {c \in Clients : owner[c] = p}
  BY HoldsMeans DEF PeopleOK
<1>2. ASSUME NEW p \in Proxies, p \notin alive
      PROVE  members[p] = <<>>
  <2>1. members[p] \in Seq(Clients) /\ Holds(members[p], {c \in Clients : owner[c] = p})
    BY DEF PeopleOK
  <2>2. {c \in Clients : owner[c] = p} = {}
    BY <1>2, BouncerAssumption DEF PeopleOK
  <2>3. \A i \in DOMAIN members[p] : FALSE
    BY <2>1, <2>2 DEF Holds
  <2>4. DOMAIN members[p] = 1..Len(members[p]) /\ Len(members[p]) \in Nat
    BY <2>1
  <2>5. ~(1 \in 1..Len(members[p]))
    BY <2>3, <2>4
  <2>6. Len(members[p]) = 0
    BY <2>4, <2>5
  <2> QED BY <2>1, <2>6, EmptySeq
<1> QED BY <1>1, <1>2 DEF ClientsAccounted, PeopleOK

\* Which clients of p are there.
LEMMA MembersKnown ==
  ASSUME PeopleOK, NEW p \in Proxies
  PROVE  ToSet(members[p]) = {c \in Clients : owner[c] = p}
BY HoldsMeans DEF PeopleOK

LEMMA RecentMeans ==
  ASSUME TextsOK
  PROVE  BufferIsRecent
<1> SUFFICES ASSUME NEW p \in Proxies, NEW ch \in Channels
             PROVE  LET s == since[p][ch]
                        n == Len(buffer[p][ch])
                    IN  /\ n <= MaxLines /\ n <= Len(s)
                        /\ buffer[p][ch] = SubSeq(s, Len(s) - n + 1, Len(s))
                        /\ n < MaxLines => n = Len(s)
  BY DEF BufferIsRecent
<1> DEFINE s == since[p][ch]
           q == buffer[p][ch]
<1>1. s \in Seq(Nat) /\ q \in Seq(Nat) /\ Recent(q, s)
  BY DEF TextsOK
<1>2. Len(s) \in Nat /\ Len(q) \in Nat /\ Len(q) <= Len(s)
  BY <1>1 DEF Recent
<1> HIDE DEF s, q
<1> DEFINE r == SubSeq(s, Len(s) - Len(q) + 1, Len(s))
<1>3. /\ r \in Seq(Nat) /\ Len(r) = Len(q)
      /\ \A i \in 1..Len(q) : r[i] = s[Len(s) - Len(q) + i]
  <2> DEFINE a == Len(s) - Len(q) + 1
  <2>1. a \in 1..(Len(s) + 1) /\ Len(s) - a + 1 = Len(q) /\ \A i \in 1..Len(q) : a + i - 1 = Len(s) - Len(q) + i
    BY <1>2
  <2>2. r = SubSeq(s, a, Len(s))
    OBVIOUS
  <2> HIDE DEF a, r
  <2>3. r \in Seq(Nat) /\ Len(r) = Len(s) - a + 1 /\ \A i \in 1..(Len(s) - a + 1) : r[i] = s[a + i - 1]
    <3>1. a \in Int /\ Len(s) \in Int /\ \A i \in a..Len(s) : s[i] \in Nat
      BY <1>1, <1>2, <2>1
    <3>2. IF a <= Len(s) THEN Len(s) - a + 1 = Len(s) - a + 1 ELSE Len(s) - a + 1 = 0
      BY <1>2, <2>1
    <3> QED BY <2>2, <3>1, <3>2, SubSeqProperties
  <2> QED BY <2>1, <2>3
<1> HIDE DEF r
<1>4. q = r
  <2>1. Len(q) = Len(r) /\ \A i \in 1..Len(q) : q[i] = r[i]
    BY <1>1, <1>3 DEF Recent
  <2> QED BY <1>1, <1>3, <2>1, SeqEqual
<1> QED BY <1>1, <1>4 DEF Recent, s, q, r

-----------------------------------------------------------------------------
(* Lines that a step writes.                                               *)

\* Lines that are not from an IRC server.
Local(l) == l.what \in Words \cup Channels \cup Plugins
FromServer(l) ==
  \E p \in Proxies : l \in RelayLine(p)

LEMMA LocalNotRelayed == \A l : Local(l) => l.what \notin Proxies
BY BouncerAssumption DEF Local

LEMMA RelayedFacts ==
  ASSUME PeopleOK, NEW p \in Proxies, NEW l \in RelayLine(p)
  PROVE  l.what = p /\ client[l.to] = "member" /\ owner[l.to] = p
<1>1. PICK c \in ToSet(members[p]) : l = To(c, p)
  BY DEF RelayLine
<1>2. c \in Clients /\ owner[c] = p /\ p # Nobody
  BY <1>1, MembersKnown, BouncerAssumption
<1> QED BY <1>1, <1>2 DEF To, PeopleOK

\* A step whose lines are local, or relayed while nobody comes or goes.
LEMMA TrafficKept ==
  ASSUME PeopleOK, \A l \in out' : Local(l) \/ (FromServer(l) /\ UNCHANGED <<client, owner>>)
  PROVE  TrafficStays'
<1> SUFFICES ASSUME NEW l \in out', l.what \in Proxies
             PROVE  client'[l.to] = "member" /\ owner'[l.to] = l.what
  BY DEF TrafficStays
<1>1. FromServer(l) /\ UNCHANGED <<client, owner>>
  BY LocalNotRelayed
<1> QED BY <1>1, RelayedFacts DEF FromServer

LEMMA QuietIsLocal == Quiet => \A l \in out' : Local(l)
BY DEF Quiet

LEMMA PluginNames ==
  /\ {"plugin", "perform", "lua"} \subseteq Plugins /\ BotPlugins \subseteq Plugins
  /\ LinePlugins \subseteq Plugins /\ "proxy" \notin Plugins
BY DEF Plugins, Kind, BotPlugins, LinePlugins

\* What the proxy and its plugins write themselves.
LEMMA RepliesLocal == \A l \in Replies : Local(l)
BY DEF Replies, To, Local, Words

LEMMA RelaysLocal ==
  \A p, except : \A target \in Channels \cup Plugins : \A l \in Relays(p, target, except) : Local(l)
BY DEF Relays, To, Local

LEMMA PluginsLocal ==
  \A p : /\ \A l \in LogsOwn(p) : Local(l)
         /\ \A l \in LogsRemote(p) : Local(l)
         /\ \A l \in Performed(p) : Local(l)
         /\ \A l \in Invited(p) : Local(l)
         /\ \A l \in LuaReplies(p) : Local(l)
<1>1. \A p : \A l \in LuaReplies(p) : Local(l)
  BY RepliesLocal DEF LuaReplies
<1>2. \A p : /\ \A l \in LogsOwn(p) : Local(l)
             /\ \A l \in LogsRemote(p) : Local(l)
  BY DEF LogsOwn, LogsRemote, To, Local, Words
<1>3. \A p : /\ \A l \in Performed(p) : Local(l)
             /\ \A l \in Invited(p) : Local(l)
  BY DEF Performed, Invited, To, Local, Words
<1> QED BY <1>1, <1>2, <1>3

LEMMA ReattachedLocal == \A c, p : \A l \in Reattached(c, p) : Local(l)
<1>1. \A c, p : \A l \in Playback(c, p) : Local(l)
  BY DEF Playback, To, Local, Words
<1>2. \A c, p : \A l \in Reattached(c, p) : l \in Playback(c, p) \/ l.what \in {"channels", "names"}
  BY DEF Reattached, To
<1> QED BY <1>1, <1>2 DEF Local, Words

LEMMA RelayedLines ==
  ASSUME NEW p \in Proxies
  PROVE  \A l \in RelayLine(p) : FromServer(l)
BY DEF FromServer

-----------------------------------------------------------------------------
(* Every step keeps the invariant.                                         *)

\* Only lines are written, or a chunk of lines begins or ends.
LEMMA TalkInv ==
  ASSUME BaseInv, UNCHANGED <<modules, plugs, remote, people, texts>>,
         performs' \in [Proxies -> 0..MaxPerform], chunk' \in Clients \cup {Nobody},
         \A l \in out' : Local(l) \/ FromServer(l)
  PROVE  BaseInv'
<1>1. ModulesOK' /\ PlugsTyped' /\ PeopleOK' /\ TextsOK'
  BY SameModules, SamePlugs, SamePeople, SameTexts DEF BaseInv, modules, plugs, people
<1>2. RemoteOK'
  BY DEF BaseInv, RemoteOK, remote, TrackedIsJoined, modules
<1>3. UNCHANGED <<client, owner>>
  BY DEF people
<1>4. TrafficStays'
  BY <1>3, TrafficKept DEF BaseInv
<1> QED BY <1>1, <1>2, <1>4 DEF BaseInv

LEMMA TalkSteps ==
  ASSUME BaseInv,
         \/ GuestLine \/ ClientPing \/ ClientPerform \/ ClientExecutes \/ LogMessage \/ ChunkDone
         \/ \E c \in Clients : ClientRead(c) \/ ScriptSends(c)
         \/ \E p \in Proxies : RemoteInvite(p)
         \/ \E bot \in BotPlugins : ClientAsks(bot)
  PROVE  BaseInv'
<1>1. /\ performs \in [Proxies -> 0..MaxPerform] /\ chunk \in Clients \cup {Nobody}
      /\ owner \in [Clients -> Proxies \cup {Nobody}]
  BY DEF BaseInv, RemoteOK, PeopleOK
<1>2. CASE GuestLine \/ LogMessage \/ \E c \in Clients : ScriptSends(c)
  <2>1. \A l \in out' : Local(l)
    BY <1>2 DEF GuestLine, LogMessage, ScriptSends, To, Local, Words
  <2>2. UNCHANGED <<modules, plugs, performs, remote, people, texts, chunk>>
    BY <1>2 DEF GuestLine, LogMessage, ScriptSends
  <2> QED BY <1>1, <2>1, <2>2, TalkInv
<1>3. CASE ChunkDone \/ \E c \in Clients : ClientRead(c)
  <2>1. Quiet /\ UNCHANGED <<modules, plugs, performs, remote, people, texts>>
        /\ chunk' \in Clients \cup {Nobody}
    BY <1>3 DEF ChunkDone, ClientRead
  <2> QED BY <1>1, <2>1, QuietIsLocal, TalkInv
<1>4. CASE ClientPing
  BY <1>1, <1>4, RepliesLocal, TalkInv DEF ClientPing
<1>5. CASE ClientPerform
  <2>1. performs' \in [Proxies -> 0..MaxPerform]
    BY <1>1, <1>5 DEF ClientPerform
  <2>2. \A l \in out' : Local(l)
    BY <1>5, RepliesLocal, RelaysLocal, PluginNames DEF ClientPerform
  <2>3. UNCHANGED <<modules, plugs, remote, people, texts, chunk>>
    BY <1>5 DEF ClientPerform
  <2> QED BY <1>1, <2>1, <2>2, <2>3, TalkInv
<1>6. CASE ClientExecutes
  <2>1. \A l \in out' : Local(l)
    BY <1>6, RepliesLocal, RelaysLocal, PluginsLocal, PluginNames DEF ClientExecutes
  <2>2. UNCHANGED <<modules, plugs, performs, remote, people, texts, chunk>>
    BY <1>6 DEF ClientExecutes
  <2> QED BY <1>1, <2>1, <2>2, TalkInv
<1>7. CASE \E p \in Proxies : RemoteInvite(p)
  <2>1. \A l \in out' : Local(l) \/ FromServer(l)
    BY <1>7, RelayedLines, PluginsLocal DEF RemoteInvite
  <2>2. UNCHANGED <<modules, plugs, performs, remote, people, texts, chunk>>
    BY <1>7 DEF RemoteInvite
  <2> QED BY <1>1, <2>1, <2>2, TalkInv
<1>8. CASE \E bot \in BotPlugins : ClientAsks(bot)
  <2>1. \A l \in out' : Local(l)
    BY <1>8, RepliesLocal, RelaysLocal, PluginsLocal, PluginNames DEF ClientAsks
  <2>2. UNCHANGED <<modules, plugs, performs, remote, people, texts, chunk>>
    BY <1>8 DEF ClientAsks
  <2> QED BY <1>1, <2>1, <2>2, TalkInv
<1> QED BY <1>2, <1>3, <1>4, <1>5, <1>6, <1>7, <1>8

\* What happens at the IRC server.
LEMMA RemoteSteps ==
  ASSUME BaseInv, NEW p \in Proxies,
         \/ RemoteReconnect(p) \/ RemoteDisconnect(p) \/ RemoteNick(p)
         \/ \E ch \in Channels : RemoteJoin(p, ch) \/ RemotePart(p, ch) \/ RemoteKick(p, ch)
  PROVE  BaseInv'
<1>1. /\ UNCHANGED <<modules, plugs, performs, people, buffer, since, chunk>>
      /\ UNCHANGED <<client, owner>>
  BY DEF RemoteReconnect, RemoteDisconnect, RemoteNick, RemoteJoin, RemotePart, RemoteKick, texts, people
<1>2. ModulesOK' /\ PlugsTyped' /\ PeopleOK'
  BY <1>1, SameModules, SamePlugs, SamePeople DEF BaseInv, modules, plugs, people
<1>3. events' \in 0..MaxEvents
  BY BouncerAssumption DEF BaseInv, TextsOK, RemoteReconnect, RemoteDisconnect, RemoteNick, RemoteJoin,
                           RemotePart, RemoteKick, texts, Happens
<1>4. TextsOK'
  BY <1>1, <1>3 DEF BaseInv, TextsOK
<1>5. \A l \in out' : Local(l) \/ FromServer(l)
  BY RelayedLines, PluginsLocal, QuietIsLocal
     DEF RemoteReconnect, RemoteDisconnect, RemoteNick, RemoteJoin, RemotePart, RemoteKick
<1>6. TrafficStays'
  BY <1>1, <1>5, TrafficKept DEF BaseInv
<1>7. RemoteOK'
  <2> DEFINE Known(q) ==
        /\ ournick[q] => joined[q] \subseteq tracked[q]
        /\ ~online[q] => tracked[q] = {} /\ joined[q] = {}
  <2>1. /\ online \in [Proxies -> BOOLEAN] /\ ournick \in [Proxies -> BOOLEAN]
        /\ joined \in [Proxies -> SUBSET Channels] /\ tracked \in [Proxies -> SUBSET Channels]
        /\ p \in alive /\ Known(p)
    BY DEF BaseInv, RemoteOK, TrackedIsJoined, RemoteReconnect, RemoteDisconnect, RemoteNick,
           RemoteJoin, RemotePart, RemoteKick, Remote
  <2> DEFINE Changed ==
        /\ online' \in [Proxies -> BOOLEAN] /\ ournick' \in [Proxies -> BOOLEAN]
        /\ joined' \in [Proxies -> SUBSET Channels] /\ tracked' \in [Proxies -> SUBSET Channels]
        /\ (ournick'[p] => joined'[p] \subseteq tracked'[p])
        /\ (~online'[p] => tracked'[p] = {} /\ joined'[p] = {})
        /\ \A q \in Proxies : q # p => /\ online'[q] = online[q] /\ ournick'[q] = ournick[q]
                                       /\ joined'[q] = joined[q] /\ tracked'[q] = tracked[q]
  <2>2. Changed
    <3>1. CASE RemoteReconnect(p)
      BY <2>1, <3>1 DEF RemoteReconnect
    <3>2. CASE RemoteDisconnect(p)
      BY <2>1, <3>2 DEF RemoteDisconnect, TrackedAfter
    <3>3. CASE RemoteNick(p)
      BY <2>1, <3>3 DEF RemoteNick, Remote
    <3>4. ASSUME NEW ch \in Channels, RemoteJoin(p, ch)
          PROVE  Changed
      BY <2>1, <3>4 DEF RemoteJoin, Remote
    <3>5. ASSUME NEW ch \in Channels, RemotePart(p, ch)
          PROVE  Changed
      BY <2>1, <3>5 DEF RemotePart, Remote
    <3>6. ASSUME NEW ch \in Channels, RemoteKick(p, ch)
          PROVE  Changed
      BY <2>1, <3>6 DEF RemoteKick, Remote
    <3> HIDE DEF Changed
    <3> QED BY <3>1, <3>2, <3>3, <3>4, <3>5, <3>6
  <2>3. alive' = alive /\ performs' = performs
    BY <1>1 DEF modules
  <2>4. ASSUME NEW q \in alive
        PROVE  /\ ournick'[q] => joined'[q] \subseteq tracked'[q]
               /\ ~online'[q] => tracked'[q] = {} /\ joined'[q] = {}
    <3>1. q \in Proxies
      BY DEF BaseInv, ModulesOK
    <3>2. CASE q = p
      BY <2>2, <3>2
    <3>3. CASE q # p
      BY <2>2, <3>1, <3>3 DEF BaseInv, RemoteOK, TrackedIsJoined
    <3> QED BY <3>2, <3>3
  <2>5. performs' \in [Proxies -> 0..MaxPerform]
    BY <2>3 DEF BaseInv, RemoteOK
  <2> QED BY <2>2, <2>3, <2>4, <2>5 DEF RemoteOK, TrackedIsJoined
<1> QED BY <1>1, <1>2, <1>4, <1>6, <1>7 DEF BaseInv

\* Clients come and go.
LEMMA ClientSteps ==
  ASSUME BaseInv, NEW c \in Clients, Accept(c) \/ ClientGone(c) \/ ClientDisconnect(c)
  PROVE  BaseInv'
<1>1. /\ UNCHANGED <<modules, handlers, available, enabled, exceptions, performs, remote, texts, chunk>>
      /\ \A l \in out' : Local(l)
  BY QuietIsLocal DEF Accept, ClientGone, ClientDisconnect, plugs, To, Local, Words
<1>2. ModulesOK' /\ RemoteOK' /\ TextsOK' /\ TrafficStays'
  BY <1>1, SameModules, SameRemote, SameTexts, TrafficKept DEF BaseInv, modules
<1>3. PlugsTyped'
  <2>1. <<>> \in Seq(Plugins \cup {"proxy"}) /\ <<"proxy">> \in Seq(Plugins \cup {"proxy"})
    OBVIOUS
  <2>2. attached' \in [Clients -> Seq(Plugins \cup {"proxy"})]
    BY <2>1 DEF BaseInv, PlugsTyped, Accept, ClientGone, ClientDisconnect
  <2> QED BY <1>1, <2>2 DEF BaseInv, PlugsTyped
<1>4. PeopleOK'
  <2>1. /\ client \in [Clients -> ClientStates] /\ owner \in [Clients -> Proxies \cup {Nobody}]
        /\ up \in [Clients -> BOOLEAN] /\ alive' = alive
    BY <1>1 DEF BaseInv, PeopleOK, modules
  <2>2. CASE Accept(c) \/ ClientGone(c)
    <3>1. /\ client' \in [Clients -> ClientStates] /\ up' \in [Clients -> BOOLEAN]
          /\ \A d \in Clients : (client'[d] = "member") <=> (client[d] = "member")
          /\ UNCHANGED <<owner, members>>
      BY <2>1, <2>2 DEF Accept, ClientGone, ClientStates
    <3> QED BY <2>1, <3>1 DEF BaseInv, PeopleOK
  <2>3. CASE ClientDisconnect(c)
    <3>1. /\ client' = [client EXCEPT ![c] = "none"] /\ owner' = [owner EXCEPT ![c] = Nobody]
          /\ members' = [q \in Proxies |-> Without(members[q], c)] /\ up' = up
      BY <2>3 DEF ClientDisconnect
    <3>2. /\ client' \in [Clients -> ClientStates] /\ owner' \in [Clients -> Proxies \cup {Nobody}]
          /\ \A d \in Clients : (client'[d] = "member") <=> (owner'[d] # Nobody)
          /\ \A d \in Clients : owner'[d] # Nobody => owner'[d] \in alive
      BY <2>1, <3>1 DEF BaseInv, PeopleOK, ClientStates
    <3>3. ASSUME NEW q \in Proxies
          PROVE  /\ members'[q] \in Seq(Clients)
                 /\ Holds(members'[q], {d \in Clients : owner'[d] = q})
      <4>1. members[q] \in Seq(Clients) /\ Holds(members[q], {d \in Clients : owner[d] = q})
        BY DEF BaseInv, PeopleOK
      <4>2. {d \in Clients : owner'[d] = q} = {d \in Clients : owner[d] = q} \ {c}
        <5>1. \A d \in Clients : owner'[d] = q <=> owner[d] = q /\ d # c
          BY <2>1, <3>1, BouncerAssumption
        <5> QED BY <5>1
      <4>3. members'[q] = Without(members[q], c)
        BY <3>1
      <4> QED BY <4>1, <4>2, <4>3, WithoutFacts
    <3>4. members' \in [Proxies -> Seq(Clients)]
      BY <3>1, <3>3
    <3> QED BY <2>1, <3>1, <3>2, <3>3, <3>4 DEF PeopleOK
  <2> QED BY <2>2, <2>3
<1> QED BY <1>1, <1>2, <1>3, <1>4 DEF BaseInv

LEMMA QuitSteps ==
  ASSUME BaseInv, ClientQuit
  PROVE  BaseInv'
<1>1. /\ UNCHANGED <<modules, plugs, performs, remote, client, owner, attached, members, texts, chunk>>
      /\ \A l \in out' : Local(l)
      /\ chunk \in Clients
  BY QuietIsLocal DEF ClientQuit, BaseInv, Member
<1>2. ModulesOK' /\ PlugsTyped' /\ RemoteOK' /\ TextsOK' /\ TrafficStays'
  BY <1>1, SameModules, SamePlugs, SameRemote, SameTexts, TrafficKept DEF BaseInv, modules, plugs
<1>3. up' \in [Clients -> BOOLEAN]
  BY DEF ClientQuit, BaseInv, PeopleOK
<1>4. PeopleOK'
  BY <1>1, <1>3 DEF BaseInv, PeopleOK, modules
<1> QED BY <1>1, <1>2, <1>4 DEF BaseInv

\* A buffer that is emptied is in order.
LEMMA EmptyIsRecent == Recent(<<>>, <<>>)
BY BouncerAssumption DEF Recent

LEMMA EmptyTyped ==
  /\ Empty \in [Proxies -> [Channels -> Seq(Nat)]]
  /\ \A p \in Proxies, ch \in Channels : Empty[p][ch] = <<>>
BY DEF Empty

\* Some of the buffers are emptied, together with the history.
LEMMA EmptiedTexts ==
  ASSUME TextsOK, NEW ps, events' = events,
         buffer' = [p \in Proxies |-> IF p \in ps THEN Empty[p] ELSE buffer[p]],
         since' = [p \in Proxies |-> IF p \in ps THEN Empty[p] ELSE since[p]]
  PROVE  TextsOK'
<1>1. ASSUME NEW p \in Proxies
      PROVE  /\ buffer'[p] \in [Channels -> Seq(Nat)] /\ since'[p] \in [Channels -> Seq(Nat)]
             /\ \A ch \in Channels : Recent(buffer'[p][ch], since'[p][ch])
  <2>1. CASE p \in ps
    BY <2>1, EmptyTyped, EmptyIsRecent
  <2>2. CASE p \notin ps
    BY <2>2 DEF TextsOK
  <2> QED BY <2>1, <2>2
<1> QED BY <1>1 DEF TextsOK

\* A client authenticates to a proxy.
LEMMA PassSteps ==
  ASSUME BaseInv, NEW p \in Proxies, ClientPass(p)
  PROVE  BaseInv'
<1> DEFINE c == chunk
<1>1. /\ UNCHANGED <<modules, plugs, performs, remote, up, events, chunk>>
      /\ \A l \in out' : Local(l)
      /\ c \in Clients /\ client[c] = "guest" /\ p \in alive
      /\ client' = [client EXCEPT ![c] = "member"] /\ owner' = [owner EXCEPT ![c] = p]
      /\ members' = [members EXCEPT ![p] = <<c>> \o @]
      /\ attached' = [attached EXCEPT ![c] = Only(enabled[p], LinePlugins) \o @]
  BY ReattachedLocal DEF ClientPass, BaseInv
<1> HIDE DEF c
<1>2. ModulesOK' /\ RemoteOK' /\ TrafficStays'
  BY <1>1, SameModules, SameRemote, TrafficKept DEF BaseInv, modules, plugs
<1>3. PlugsTyped'
  <2>1. enabled[p] \in Seq(Plugins) /\ attached[c] \in Seq(Plugins \cup {"proxy"})
    BY <1>1 DEF BaseInv, PlugsTyped
  <2>2. Only(enabled[p], LinePlugins) \in Seq(Plugins \cap LinePlugins)
    BY <2>1, OnlyFacts
  <2>3. Only(enabled[p], LinePlugins) \in Seq(Plugins \cup {"proxy"})
    <3> DEFINE o == Only(enabled[p], LinePlugins)
    <3>1. Plugins \cap LinePlugins \subseteq Plugins \cup {"proxy"}
      OBVIOUS
    <3>2. o \in Seq(Plugins \cap LinePlugins)
      BY <2>2
    <3> HIDE DEF o
    <3>3. o \in Seq(Plugins \cup {"proxy"})
      BY <3>1, <3>2, SeqMonotonic
    <3> QED BY <3>3 DEF o
  <2>4. Only(enabled[p], LinePlugins) \o attached[c] \in Seq(Plugins \cup {"proxy"})
    BY <2>1, <2>3, ConcatProperties
  <2>5. attached' \in [Clients -> Seq(Plugins \cup {"proxy"})]
    BY <1>1, <2>4 DEF BaseInv, PlugsTyped
  <2> QED BY <1>1, <2>5 DEF BaseInv, PlugsTyped, plugs
<1>4. PeopleOK'
  <2>1. /\ client \in [Clients -> ClientStates] /\ owner \in [Clients -> Proxies \cup {Nobody}]
        /\ up' \in [Clients -> BOOLEAN] /\ alive' = alive /\ owner[c] = Nobody /\ p # Nobody
    BY <1>1, BouncerAssumption DEF BaseInv, PeopleOK, modules
  <2>2. /\ client' \in [Clients -> ClientStates] /\ owner' \in [Clients -> Proxies \cup {Nobody}]
        /\ \A d \in Clients : (client'[d] = "member") <=> (owner'[d] # Nobody)
        /\ \A d \in Clients : owner'[d] # Nobody => owner'[d] \in alive
    BY <1>1, <2>1 DEF BaseInv, PeopleOK, ClientStates
  <2>3. ASSUME NEW q \in Proxies
        PROVE  /\ members'[q] \in Seq(Clients)
               /\ Holds(members'[q], {d \in Clients : owner'[d] = q})
    <3> DEFINE mine == {d \in Clients : owner[d] = q}
    <3>1. members \in [Proxies -> Seq(Clients)] /\ members[q] \in Seq(Clients) /\ Holds(members[q], mine)
      BY DEF BaseInv, PeopleOK
    <3>2. CASE q = p
      <4>1. {d \in Clients : owner'[d] = q} = mine \cup {c} /\ c \notin mine
        <5>1. \A d \in Clients : owner'[d] = q <=> owner[d] = q \/ d = c
          BY <1>1, <2>1, <3>2
        <5>2. c \notin mine
          BY <2>1, <3>2
        <5> QED BY <1>1, <5>1, <5>2, Zenon
      <4>2. members'[q] = <<c>> \o members[q]
        BY <1>1, <3>1, <3>2
      <4> HIDE DEF mine
      <4> QED BY <1>1, <3>1, <4>1, <4>2, HoldsPrepended
    <3>3. CASE q # p
      <4>1. \A d \in Clients : owner'[d] = q <=> owner[d] = q
        BY <1>1, <2>1, <3>3, BouncerAssumption
      <4>2. {d \in Clients : owner'[d] = q} = mine
        BY <4>1
      <4>3. members'[q] = members[q]
        BY <1>1, <3>1, <3>3
      <4> HIDE DEF mine
      <4> QED BY <3>1, <4>2, <4>3
    <3> QED BY <3>2, <3>3
  <2>4. members' \in [Proxies -> Seq(Clients)]
    BY <1>1, <2>3 DEF BaseInv, PeopleOK
  <2> QED BY <2>1, <2>2, <2>3, <2>4 DEF PeopleOK
<1>5. TextsOK'
  <2>1. CASE Has(p, "messagebuffer")
    <3> DEFINE ps == {p}
    <3>1. /\ buffer' = [buffer EXCEPT ![p] = Empty[p]] /\ since' = [since EXCEPT ![p] = Empty[p]]
          /\ events' = events
      BY <1>1, <2>1 DEF ClientPass
    <3>2. /\ buffer' = [q \in Proxies |-> IF q \in ps THEN Empty[q] ELSE buffer[q]]
          /\ since' = [q \in Proxies |-> IF q \in ps THEN Empty[q] ELSE since[q]]
      BY <3>1 DEF BaseInv, TextsOK
    <3> HIDE DEF ps
    <3> QED BY <3>1, <3>2, EmptiedTexts DEF BaseInv
  <2>2. CASE ~Has(p, "messagebuffer")
    <3>1. UNCHANGED texts
      BY <1>1, <2>2 DEF ClientPass, texts
    <3> QED BY <3>1, SameTexts DEF BaseInv
  <2> QED BY <2>1, <2>2
<1>6. chunk' \in Clients \cup {Nobody}
  BY <1>1 DEF BaseInv
<1> QED BY <1>2, <1>3, <1>4, <1>5, <1>6 DEF BaseInv

\* Another line is kept, and what is kept stays the end of the history.
LEMMA KeptRecent ==
  ASSUME NEW q \in Seq(Nat), NEW s \in Seq(Nat), NEW m \in Nat, Recent(q, s)
  PROVE  /\ Keep(q, m) \in Seq(Nat) /\ Append(s, m) \in Seq(Nat)
         /\ Recent(Keep(q, m), Append(s, m))
<1> DEFINE all == Append(q, m)
           t == Append(s, m)
<1>1. /\ all \in Seq(Nat) /\ Len(all) = Len(q) + 1 /\ all[Len(q) + 1] = m
      /\ \A i \in 1..Len(q) : all[i] = q[i]
  OBVIOUS
<1>2. /\ t \in Seq(Nat) /\ Len(t) = Len(s) + 1 /\ t[Len(s) + 1] = m
      /\ \A i \in 1..Len(s) : t[i] = s[i]
  OBVIOUS
<1>3. Len(q) \in Nat /\ Len(s) \in Nat /\ MaxLines \in Nat /\ MaxLines # 0
  BY BouncerAssumption
<1>4. Keep(q, m) = IF Len(all) > MaxLines THEN Tail(all) ELSE all
  BY DEF Keep
<1> HIDE DEF all, t
<1>5. \A i \in 1..(Len(q) + 1) : all[i] = t[Len(s) - Len(q) + i]
  <2>1. ASSUME NEW i \in 1..Len(q)
        PROVE  all[i] = t[Len(s) - Len(q) + i]
    <3>1. Len(s) - Len(q) + i \in 1..Len(s)
      BY <1>3 DEF Recent
    <3> QED BY <1>1, <1>2, <2>1, <3>1 DEF Recent
  <2>2. Len(s) - Len(q) + (Len(q) + 1) = Len(s) + 1
    BY <1>3
  <2>3. \A i \in 1..(Len(q) + 1) : i \in 1..Len(q) \/ i = Len(q) + 1
    BY <1>3
  <2> QED BY <1>1, <1>2, <2>1, <2>2, <2>3
<1>6. CASE Len(all) > MaxLines
  <2> DEFINE r == Tail(all)
  <2>1. r \in Seq(Nat) /\ Len(r) = Len(q) /\ \A i \in 1..Len(q) : r[i] = all[i + 1]
    BY <1>1, <1>3
  <2> HIDE DEF r
  <2>2. Len(q) = MaxLines
    BY <1>1, <1>3, <1>6 DEF Recent
  <2>3. \A i \in 1..Len(q) : r[i] = t[Len(t) - Len(r) + i]
    <3>1. ASSUME NEW i \in 1..Len(q)
          PROVE  r[i] = t[Len(t) - Len(r) + i]
      <4>1. i + 1 \in 1..(Len(q) + 1) /\ Len(s) - Len(q) + (i + 1) = Len(t) - Len(r) + i
        BY <1>2, <1>3, <2>1
      <4> QED BY <1>5, <2>1, <4>1
    <3> QED BY <3>1
  <2>4. Recent(r, t)
    BY <1>2, <1>3, <2>1, <2>2, <2>3 DEF Recent
  <2> QED BY <1>2, <1>4, <1>6, <2>1, <2>4 DEF r, t
<1>7. CASE ~(Len(all) > MaxLines)
  <2>1. Len(t) - Len(all) = Len(s) - Len(q)
    BY <1>1, <1>2, <1>3
  <2>2. Len(q) < MaxLines
    BY <1>1, <1>3, <1>7
  <2>3. \A i \in 1..Len(all) : all[i] = t[Len(t) - Len(all) + i]
    BY <1>1, <1>5, <2>1
  <2>4. Len(q) <= Len(s) /\ Len(q) = Len(s)
    BY <2>2 DEF Recent
  <2>5. Len(all) <= MaxLines /\ Len(all) <= Len(t) /\ Len(all) = Len(t)
    BY <1>1, <1>2, <1>3, <1>7, <2>4
  <2>6. Recent(all, t)
    BY <2>3, <2>5 DEF Recent
  <2> QED BY <1>1, <1>2, <1>4, <1>7, <2>6 DEF t
<1> QED BY <1>6, <1>7

LEMMA BuffersRecent ==
  ASSUME TextsOK, NEW p \in Proxies, NEW ch \in Channels, Buffers(p, ch)
  PROVE  TextsOK'
<1>1. events \in Nat /\ events' \in 0..MaxEvents /\ events + 1 \in Nat
  BY BouncerAssumption DEF TextsOK, Buffers, Happens
<1>2. CASE Has(p, "messagebuffer")
  <2>1. /\ buffer' = [buffer EXCEPT ![p][ch] = Keep(buffer[p][ch], events + 1)]
        /\ since' = [since EXCEPT ![p][ch] = Append(since[p][ch], events + 1)]
    BY <1>2 DEF Buffers
  <2>2. /\ Keep(buffer[p][ch], events + 1) \in Seq(Nat) /\ Append(since[p][ch], events + 1) \in Seq(Nat)
        /\ Recent(Keep(buffer[p][ch], events + 1), Append(since[p][ch], events + 1))
    BY <1>1, KeptRecent DEF TextsOK
  <2> HIDE DEF Keep
  <2>3. buffer' \in [Proxies -> [Channels -> Seq(Nat)]] /\ since' \in [Proxies -> [Channels -> Seq(Nat)]]
    BY <2>1, <2>2 DEF TextsOK
  <2>4. ASSUME NEW q \in Proxies, NEW k \in Channels
        PROVE  Recent(buffer'[q][k], since'[q][k])
    <3>1. CASE q = p /\ k = ch
      BY <2>1, <2>2, <3>1 DEF TextsOK
    <3>2. CASE ~(q = p /\ k = ch)
      <4>1. buffer'[q][k] = buffer[q][k] /\ since'[q][k] = since[q][k]
        BY <2>1, <3>2 DEF TextsOK
      <4> QED BY <4>1 DEF TextsOK
    <3> QED BY <3>1, <3>2
  <2> QED BY <1>1, <2>3, <2>4 DEF TextsOK
<1>3. CASE ~Has(p, "messagebuffer")
  BY <1>1, <1>3 DEF Buffers, TextsOK
<1> QED BY <1>2, <1>3

\* Messages of clients and of the server.
LEMMA MessageSteps ==
  ASSUME BaseInv, NEW ch \in Channels, ClientMessage(ch) \/ \E p \in Proxies : RemoteMessage(p, ch)
  PROVE  BaseInv'
<1>1. /\ UNCHANGED <<modules, plugs, performs, remote, people, chunk>>
      /\ \A l \in out' : Local(l) \/ FromServer(l)
      /\ \E p \in Proxies : Buffers(p, ch)
  <2>1. CASE ClientMessage(ch)
    <3>1. owner[chunk] \in Proxies
      BY <2>1 DEF ClientMessage, Member, BaseInv, PeopleOK
    <3> QED BY <2>1, <3>1, RelaysLocal, PluginsLocal DEF ClientMessage
  <2>2. ASSUME NEW p \in Proxies, RemoteMessage(p, ch)
        PROVE  <1>1!1 /\ <1>1!2 /\ <1>1!3
    BY <2>2, RelayedLines, PluginsLocal DEF RemoteMessage
  <2> QED BY <2>1, <2>2
<1>2. ModulesOK' /\ PlugsTyped' /\ RemoteOK' /\ PeopleOK'
  BY <1>1, SameModules, SamePlugs, SameRemote, SamePeople DEF BaseInv, modules, plugs, people
<1>3. TextsOK' /\ TrafficStays' /\ chunk' \in Clients \cup {Nobody}
  BY <1>1, BuffersRecent, TrafficKept DEF BaseInv, people
<1> QED BY <1>2, <1>3 DEF BaseInv

\* Enabling and disabling plugins keeps the types of the queues.
LEMMA AttachTyped ==
  ASSUME PlugsTyped, NEW x \in Plugins, NEW ps
  PROVE  /\ AttachTo(ps, x) \in [Clients -> Seq(Plugins \cup {"proxy"})]
         /\ DetachFrom(ps, x) \in [Clients -> Seq(Plugins \cup {"proxy"})]
<1>1. ASSUME NEW c \in Clients
      PROVE  /\ <<x>> \o attached[c] \in Seq(Plugins \cup {"proxy"})
             /\ Without(attached[c], x) \in Seq(Plugins \cup {"proxy"})
             /\ attached[c] \in Seq(Plugins \cup {"proxy"})
  <2>1. attached[c] \in Seq(Plugins \cup {"proxy"}) /\ <<x>> \in Seq(Plugins \cup {"proxy"})
    BY DEF PlugsTyped
  <2>2. <<x>> \o attached[c] \in Seq(Plugins \cup {"proxy"})
    BY <2>1, ConcatProperties
  <2> QED BY <2>1, <2>2, WithoutFacts
<1> QED BY <1>1 DEF AttachTo, DetachFrom

LEMMA EnableTyped ==
  ASSUME PlugsTyped, TextsOK, NEW p, NEW x \in Plugins, Enable(p, x), UNCHANGED <<handlers, events>>
  PROVE  PlugsTyped' /\ TextsOK'
<1>1. p \in Proxies /\ enabled[p] \in Seq(Plugins) /\ exceptions[p] \in Seq(Plugins)
  BY DEF PlugsTyped, Enable
<1>2. Append(enabled[p], x) \in Seq(Plugins) /\ Append(exceptions[p], x) \in Seq(Plugins)
  BY <1>1
<1>3. enabled' \in [Proxies -> Seq(Plugins)] /\ exceptions' \in [Proxies -> Seq(Plugins)]
  BY <1>1, <1>2 DEF PlugsTyped, Enable
<1>4. attached' \in [Clients -> Seq(Plugins \cup {"proxy"})]
  BY AttachTyped DEF Enable
<1>5. TextsOK'
  BY SameTexts DEF Enable, texts
<1> QED BY <1>3, <1>4, <1>5 DEF PlugsTyped

LEMMA DisableTyped ==
  ASSUME PlugsTyped, TextsOK, NEW ps, NEW x \in Plugins, Disable(ps, x), UNCHANGED <<handlers, events>>
  PROVE  PlugsTyped' /\ TextsOK'
<1>1. ASSUME NEW q \in Proxies
      PROVE  enabled'[q] \in Seq(Plugins) /\ exceptions'[q] \in Seq(Plugins)
  <2>1. enabled[q] \in Seq(Plugins) /\ exceptions[q] \in Seq(Plugins)
    BY DEF PlugsTyped
  <2>2. Without(enabled[q], x) \in Seq(Plugins) /\ Without(exceptions[q], x) \in Seq(Plugins)
    BY <2>1, WithoutFacts
  <2> QED BY <2>1, <2>2 DEF Disable
<1>2. enabled' \in [Proxies -> Seq(Plugins)] /\ exceptions' \in [Proxies -> Seq(Plugins)]
  BY <1>1 DEF Disable
<1>3. attached' \in [Clients -> Seq(Plugins \cup {"proxy"})]
  BY AttachTyped DEF Disable
<1>4. TextsOK'
  <2>1. CASE x = "messagebuffer"
    BY <2>1, EmptiedTexts DEF Disable, BuffersWithout
  <2>2. CASE x # "messagebuffer"
    <3>1. buffer' = buffer /\ since' = since
      BY <2>2 DEF Disable, BuffersWithout, TextsOK
    <3> QED BY <3>1, SameTexts DEF texts
  <2> QED BY <2>1, <2>2
<1> QED BY <1>2, <1>3, <1>4 DEF PlugsTyped

\* Plugins are registered, enabled, disabled and unregistered.
LEMMA PluginSteps ==
  ASSUME BaseInv, NEW x \in Plugins,
         AddIrcProxyPlugin(x) \/ DelIrcProxyPlugin(x) \/ ClientLoads(x) \/ ClientUnloads(x)
  PROVE  BaseInv'
<1>1. /\ UNCHANGED <<modules, handlers, performs, remote, client, owner, up, members, events, chunk>>
      /\ \A l \in out' : Local(l)
  <2>1. CASE AddIrcProxyPlugin(x) \/ DelIrcProxyPlugin(x)
    BY <2>1, QuietIsLocal DEF AddIrcProxyPlugin, DelIrcProxyPlugin, people, texts
  <2>2. CASE ClientLoads(x)
    BY <2>2, RepliesLocal, RelaysLocal, PluginNames DEF ClientLoads
  <2>3. CASE ClientUnloads(x)
    BY <2>3, RepliesLocal, RelaysLocal, PluginNames DEF ClientUnloads
  <2> QED BY <2>1, <2>2, <2>3
<1>2. available' \subseteq pool
  BY DEF BaseInv, ModulesOK, AddIrcProxyPlugin, DelIrcProxyPlugin, ClientLoads, ClientUnloads
<1>3. ModulesOK' /\ RemoteOK' /\ PeopleOK' /\ TrafficStays'
  BY <1>1, <1>2, SameRemote, SamePeople, TrafficKept DEF BaseInv, ModulesOK, modules
<1>4. PlugsTyped' /\ TextsOK'
  <2>1. CASE AddIrcProxyPlugin(x)
    BY <2>1, SamePlugs, SameTexts DEF AddIrcProxyPlugin, BaseInv, people
  <2>2. CASE DelIrcProxyPlugin(x)
    <3>1. Disable({q \in handlers : Has(q, x)}, x)
      BY <2>2 DEF DelIrcProxyPlugin
    <3> QED BY <1>1, <3>1, DisableTyped DEF BaseInv
  <2>3. CASE ClientLoads(x)
    <3>1. Enable(owner[chunk], x)
      BY <2>3 DEF ClientLoads
    <3> QED BY <1>1, <3>1, EnableTyped DEF BaseInv
  <2>4. CASE ClientUnloads(x)
    <3>1. Disable({owner[chunk]}, x)
      BY <2>4 DEF ClientUnloads
    <3> QED BY <1>1, <3>1, DisableTyped DEF BaseInv
  <2> QED BY <2>1, <2>2, <2>3, <2>4
<1> QED BY <1>1, <1>3, <1>4 DEF BaseInv

\* Lists of plugins in the configuration.
LEMMA ListsFacts ==
  ASSUME available \subseteq Plugins, NEW l \in Lists
  PROVE  /\ l \in Seq(Plugins \cup {"bad"})
         /\ BadEntry \notin Liberties =>
              /\ ~Bad(l)
              /\ \E S \in SUBSET available : Holds(l, S)
<1>1. CASE l = <<>>
  BY <1>1, HoldsNothing DEF Bad
<1>2. ASSUME NEW x \in available, l = <<x>>
      PROVE  l \in Seq(Plugins \cup {"bad"}) /\ ~Bad(l) /\ Holds(l, {x})
  <2>1. l \in Seq(Plugins \cup {"bad"}) /\ Last(l) = x
    BY <1>2 DEF Last
  <2> QED BY <1>2, <2>1, HoldsOne DEF Bad, Plugins, Kind
<1>3. ASSUME NEW x \in available, NEW y \in available, x # y, l = <<x, y>>
      PROVE  l \in Seq(Plugins \cup {"bad"}) /\ ~Bad(l) /\ Holds(l, {x, y})
  <2>1. l \in Seq(Plugins \cup {"bad"}) /\ Last(l) = y
    BY <1>3 DEF Last
  <2> QED BY <1>3, <2>1, HoldsTwo DEF Bad, Plugins, Kind
<1>4. ASSUME NEW x \in available, l = <<x, "bad">>
      PROVE  l \in Seq(Plugins \cup {"bad"})
  BY <1>4
<1>5. \/ l = <<>>
      \/ \E x \in available : l = <<x>>
      \/ \E x, y \in available : x # y /\ l = <<x, y>>
      \/ BadEntry \in Liberties /\ \E x \in available : l = <<x, "bad">>
  BY DEF Lists
<1> QED BY <1>1, <1>2, <1>3, <1>4, <1>5

\* The bouncer is loaded.
LEMMA InitBouncerSteps ==
  ASSUME BaseInv, InitBouncer
  PROVE  BaseInv'
<1>1. PICK config \in [Proxies -> Lists] : NewProxies(config) /\ EnableListed(config)
  BY DEF InitBouncer
<1>2. /\ UNCHANGED <<pool, available, performs, people, texts, chunk>>
      /\ loaded' = TRUE /\ (\A l \in out' : Local(l)) /\ alive = {}
      /\ available \subseteq Plugins
  BY QuietIsLocal DEF InitBouncer, BaseInv, ModulesOK
<1>3. alive' \subseteq Proxies
  BY <1>1 DEF NewProxies, CreatedProxies
<1>4. ModulesOK' /\ TextsOK' /\ TrafficStays'
  BY <1>2, <1>3, SameTexts, TrafficKept DEF BaseInv, ModulesOK
<1>5. RemoteOK'
  <2>1. /\ online' = [p \in Proxies |-> FALSE] /\ ournick' = [p \in Proxies |-> TRUE]
        /\ joined' = [p \in Proxies |-> {}] /\ tracked' = [p \in Proxies |-> {}]
    BY DEF InitBouncer, TrackChannels
  <2>2. performs' \in [Proxies -> 0..MaxPerform]
    BY <1>2 DEF BaseInv, RemoteOK
  <2> QED BY <1>3, <2>1, <2>2 DEF RemoteOK, TrackedIsJoined
<1>6. PeopleOK'
  <2>1. \A c \in Clients : owner[c] = Nobody
    BY <1>2 DEF BaseInv, PeopleOK
  <2> QED BY <1>2, <2>1 DEF BaseInv, PeopleOK, people
<1>7. PlugsTyped'
  <2>1. ASSUME NEW p \in Proxies
        PROVE  enabled'[p] \in Seq(Plugins) /\ exceptions'[p] \in Seq(Plugins)
    <3>1. config[p] \in Seq(Plugins \cup {"bad"}) /\ enabled[p] \in Seq(Plugins) /\ <<>> \in Seq(Plugins)
      BY <1>2, ListsFacts DEF BaseInv, PlugsTyped
    <3> DEFINE o == Only(config[p], Plugins)
               b == Only(config[p], BotPlugins)
    <3>2. /\ o \in Seq((Plugins \cup {"bad"}) \cap Plugins)
          /\ b \in Seq((Plugins \cup {"bad"}) \cap BotPlugins)
      BY <3>1, OnlyFacts
    <3>3. /\ enabled'[p] = IF p \in handlers THEN enabled[p] ELSE o
          /\ exceptions'[p] = IF p \in alive' THEN b ELSE <<>>
      BY <1>1 DEF EnableListed, NewProxies
    <3> HIDE DEF o, b
    <3>4. (Plugins \cup {"bad"}) \cap Plugins \subseteq Plugins /\ (Plugins \cup {"bad"}) \cap BotPlugins \subseteq Plugins
      BY PluginNames
    <3>5. o \in Seq(Plugins) /\ b \in Seq(Plugins)
      BY <3>2, <3>4, SeqMonotonic
    <3> QED BY <3>1, <3>3, <3>5
  <2>2. /\ enabled' \in [Proxies -> Seq(Plugins)] /\ exceptions' \in [Proxies -> Seq(Plugins)]
        /\ handlers' = Proxies
    BY <1>1, <2>1 DEF EnableListed, NewProxies
  <2> QED BY <1>2, <2>2 DEF BaseInv, PlugsTyped, people
<1> QED BY <1>2, <1>4, <1>5, <1>6, <1>7 DEF BaseInv

\* The clients that are freed with the proxies are those of the proxies.
LEMMA FreedMeans ==
  ASSUME ModulesOK, PeopleOK
  PROVE  \A c \in Clients : FreedWithProxy(c) <=> owner[c] # Nobody
<1> SUFFICES ASSUME NEW c \in Clients
             PROVE  FreedWithProxy(c) <=> owner[c] # Nobody
  OBVIOUS
<1>1. ASSUME NEW p \in alive, c \in ToSet(members[p])
      PROVE  owner[c] # Nobody
  <2>1. p \in Proxies
    BY DEF ModulesOK
  <2> QED BY <1>1, <2>1, MembersKnown, BouncerAssumption
<1>2. ASSUME owner[c] # Nobody
      PROVE  FreedWithProxy(c)
  <2>1. owner[c] \in alive /\ owner[c] \in Proxies
    BY <1>2 DEF PeopleOK
  <2>2. c \in ToSet(members[owner[c]])
    BY <2>1, MembersKnown
  <2> QED BY <2>1, <2>2 DEF FreedWithProxy
<1> QED BY <1>1, <1>2 DEF FreedWithProxy

\* The bouncer is unloaded.
LEMMA FiniBouncerSteps ==
  ASSUME BaseInv, FiniBouncer
  PROVE  BaseInv'
<1>1. /\ UNCHANGED <<pool, available, performs, ournick, tracked, events, chunk>>
      /\ \A l \in out' : Local(l)
      /\ alive' = {} /\ handlers' \subseteq handlers
  BY DEF FiniBouncer, To, Local, Words
<1>2. ModulesOK' /\ TrafficStays'
  BY <1>1, TrafficKept DEF BaseInv, ModulesOK, FiniBouncer
<1>3. PlugsTyped'
  <2>1. enabled' \in [Proxies -> Seq(Plugins)] /\ exceptions' \in [Proxies -> Seq(Plugins)]
    BY DEF BaseInv, PlugsTyped, FiniBouncer
  <2>2. attached' \in [Clients -> Seq(Plugins \cup {"proxy"})]
    BY DEF BaseInv, PlugsTyped, FiniBouncer
  <2> QED BY <1>1, <2>1, <2>2 DEF BaseInv, PlugsTyped
<1>4. RemoteOK'
  <2>1. online' \in [Proxies -> BOOLEAN] /\ joined' \in [Proxies -> SUBSET Channels]
    BY DEF FiniBouncer
  <2> QED BY <1>1, <2>1 DEF BaseInv, RemoteOK, TrackedIsJoined
<1>5. PeopleOK'
  <2>1. \A c \in Clients : FreedWithProxy(c) <=> owner[c] # Nobody
    BY FreedMeans DEF BaseInv
  <2>2. /\ client' = [c \in Clients |-> IF FreedWithProxy(c) THEN "none" ELSE client[c]]
        /\ owner' = [c \in Clients |-> IF FreedWithProxy(c) THEN Nobody ELSE owner[c]]
        /\ up' = [c \in Clients |-> IF FreedWithProxy(c) THEN FALSE ELSE up[c]]
        /\ members' = [p \in Proxies |-> <<>>]
    BY DEF FiniBouncer
  <2> HIDE DEF FreedWithProxy
  <2>3. \A c \in Clients : owner'[c] = Nobody /\ client'[c] # "member"
    BY <2>1, <2>2 DEF BaseInv, PeopleOK
  <2>4. /\ client' \in [Clients -> ClientStates] /\ owner' \in [Clients -> Proxies \cup {Nobody}]
        /\ up' \in [Clients -> BOOLEAN] /\ members' \in [Proxies -> Seq(Clients)]
    <3>1. /\ client \in [Clients -> ClientStates] /\ owner \in [Clients -> Proxies \cup {Nobody}]
          /\ up \in [Clients -> BOOLEAN] /\ <<>> \in Seq(Clients) /\ "none" \in ClientStates
      BY DEF BaseInv, PeopleOK, ClientStates
    <3> QED BY <2>2, <3>1
  <2>5. ASSUME NEW p \in Proxies
        PROVE  Holds(members'[p], {c \in Clients : owner'[c] = p})
    <3>1. {c \in Clients : owner'[c] = p} = {}
      BY <2>3, BouncerAssumption
    <3>2. members'[p] = <<>>
      BY <2>2
    <3> QED BY <3>1, <3>2, HoldsNothing
  <2> QED BY <2>3, <2>4, <2>5 DEF PeopleOK
<1>6. TextsOK'
  <2>1. buffer' = Empty /\ since' = Empty
    BY DEF FiniBouncer
  <2> QED BY <1>1, <2>1, EmptyTyped, EmptyIsRecent DEF BaseInv, TextsOK
<1> QED BY <1>1, <1>2, <1>3, <1>4, <1>5, <1>6 DEF BaseInv

-----------------------------------------------------------------------------
(* What is always true.                                                    *)

LEMMA BaseInit == Init => BaseInv
<1> SUFFICES ASSUME Init PROVE BaseInv
  OBVIOUS
<1>1. ModulesOK
  BY BouncerAssumption DEF Init, ModulesOK
<1>2. PlugsTyped
  <2>1. <<>> \in Seq(Plugins) /\ <<>> \in Seq(Plugins \cup {"proxy"})
    OBVIOUS
  <2> QED BY <2>1 DEF Init, PlugsTyped
<1>3. RemoteOK
  BY BouncerAssumption DEF Init, RemoteOK, TrackedIsJoined
<1>4. PeopleOK
  <2>1. ASSUME NEW p \in Proxies
        PROVE  Holds(members[p], {c \in Clients : owner[c] = p})
    <3>1. {c \in Clients : owner[c] = p} = {}
      BY BouncerAssumption DEF Init
    <3>2. members[p] = <<>>
      BY DEF Init
    <3> QED BY <3>1, <3>2, HoldsNothing
  <2>2. \A c \in Clients : owner[c] = Nobody /\ client[c] = "none"
    BY DEF Init
  <2>3. /\ client \in [Clients -> ClientStates] /\ owner \in [Clients -> Proxies \cup {Nobody}]
        /\ up \in [Clients -> BOOLEAN] /\ members \in [Proxies -> Seq(Clients)]
    BY DEF Init, ClientStates
  <2> QED BY <2>1, <2>2, <2>3 DEF PeopleOK
<1>5. TextsOK
  BY BouncerAssumption, EmptyTyped, EmptyIsRecent DEF Init, TextsOK
<1> QED BY <1>1, <1>2, <1>3, <1>4, <1>5 DEF Init, BaseInv, TrafficStays

LEMMA BaseStuttering == ASSUME BaseInv, UNCHANGED vars PROVE BaseInv'
<1>1. UNCHANGED <<modules, plugs, performs, remote, people, texts, chunk, out>>
  BY DEF vars
<1>2. ModulesOK' /\ PlugsTyped' /\ RemoteOK' /\ PeopleOK' /\ TextsOK'
  BY <1>1, SameModules, SamePlugs, SameRemote, SamePeople, SameTexts DEF BaseInv, modules, plugs, people
<1>3. TrafficStays'
  BY <1>1 DEF BaseInv, TrafficStays, people
<1> QED BY <1>1, <1>2, <1>3 DEF BaseInv

LEMMA BaseNext == ASSUME BaseInv, Next PROVE BaseInv'
<1>1. CASE \E x \in Plugins : \/ AddIrcProxyPlugin(x) \/ DelIrcProxyPlugin(x)
                              \/ ClientLoads(x) \/ ClientUnloads(x)
  BY <1>1, PluginSteps
<1>2. CASE InitBouncer \/ FiniBouncer \/ ClientQuit
  BY <1>2, InitBouncerSteps, FiniBouncerSteps, QuitSteps
<1>3. CASE \/ ChunkDone \/ GuestLine \/ ClientPing \/ ClientPerform \/ ClientExecutes \/ LogMessage
           \/ \E bot \in BotPlugins : ClientAsks(bot)
  BY <1>3, TalkSteps
<1>4. CASE \E c \in Clients : ClientRead(c) \/ ScriptSends(c)
  BY <1>4, TalkSteps
<1>5. CASE \E c \in Clients : Accept(c) \/ ClientGone(c) \/ ClientDisconnect(c)
  BY <1>5, ClientSteps
<1>6. CASE \E p \in Proxies : ClientPass(p) \/ RemoteReconnect(p) \/ RemoteDisconnect(p) \/ RemoteNick(p)
  BY <1>6, PassSteps, RemoteSteps
<1>7. CASE \E p \in Proxies : RemoteInvite(p)
  BY <1>7, TalkSteps
<1>8. CASE \E p \in Proxies, ch \in Channels : RemoteJoin(p, ch) \/ RemotePart(p, ch) \/ RemoteKick(p, ch)
  BY <1>8, RemoteSteps
<1>9. CASE \E ch \in Channels : ClientMessage(ch) \/ \E p \in Proxies : RemoteMessage(p, ch)
  BY <1>9, MessageSteps
<1> QED BY <1>1, <1>2, <1>3, <1>4, <1>5, <1>6, <1>7, <1>8, <1>9 DEF Next

LEMMA BaseAlways == Spec => []BaseInv
<1>1. BaseInv /\ [Next]_vars => BaseInv'
  BY BaseNext, BaseStuttering
<1> QED BY <1>1, BaseInit, PTL DEF Spec

\* Every client of irc_proxy is in the queue of its proxy alone, whatever plugins
\* and configuration do, so that freeIrcProxy frees its clients and no other.
THEOREM ClientsHaveOneProxy == Spec => []ClientsAccounted
<1>1. BaseInv => ClientsAccounted
  BY AccountedMeans DEF BaseInv
<1> QED BY <1>1, BaseAlways, PTL

\* listener_remoteLine: lines of a server reach the clients of its proxy only.
THEOREM LinesReachTheirClients == Spec => []TrafficStays
<1>1. BaseInv => TrafficStays
  BY DEF BaseInv
<1> QED BY <1>1, BaseAlways, PTL

\* messagebuffer: what is played back is the end of what was said since the
\* last playback, for any number of kept lines.
THEOREM PlaybackIsRecent == Spec => []BufferIsRecent
<1>1. BaseInv => BufferIsRecent
  BY RecentMeans DEF BaseInv
<1> QED BY <1>1, BaseAlways, PTL

\* irc_channel: with our nick unchanged, every channel we are in is tracked.
THEOREM ChannelsTracked == Spec => []TrackedIsJoined
<1>1. BaseInv => TrackedIsJoined
  BY DEF BaseInv, RemoteOK
<1> QED BY <1>1, BaseAlways, PTL

-----------------------------------------------------------------------------
(* Plugins, handlers and clients agree, unless a list in the configuration *)
(* has an element that is not a string: createIrcProxyByStore then leaves  *)
(* a handler behind.                                                       *)

Enabled(p) == ToSet(enabled[p])

\* The enabled plugins of a proxy are registered, and the exceptions are theirs.
ProxyOK(p) ==
  /\ Enabled(p) \subseteq available
  /\ Holds(enabled[p], Enabled(p))
  /\ Holds(exceptions[p], Enabled(p) \cap BotPlugins)

\* A member has the listeners of its proxy's plugins and that of irc_proxy, last.
ClientOK(c) ==
  /\ client[c] = "guest" => attached[c] = <<"proxy">>
  /\ client[c] = "member" =>
       /\ Holds(attached[c], {"proxy"} \cup (Enabled(owner[c]) \cap LinePlugins))
       /\ EndsWith(attached[c], "proxy")

PlugsOK ==
  /\ handlers = alive
  /\ \A p \in alive : ProxyOK(p)
  /\ \A c \in Clients : ClientOK(c)

LEMMA PlugsMean ==
  ASSUME BaseInv, PlugsOK
  PROVE  PluginsAgree
<1>1. ASSUME NEW p \in alive
      PROVE  /\ ToSet(enabled[p]) \subseteq available
             /\ IsInjective(exceptions[p])
             /\ ToSet(exceptions[p]) = ToSet(enabled[p]) \cap BotPlugins
  BY HoldsMeans DEF PlugsOK, ProxyOK, Enabled
<1>2. ASSUME NEW c \in Clients, client[c] = "member"
      PROVE  /\ IsInjective(attached[c]) /\ Last(attached[c]) = "proxy"
             /\ ToSet(attached[c]) \ {"proxy"} = ToSet(enabled[owner[c]]) \cap LinePlugins
  <2> DEFINE S == Enabled(owner[c]) \cap LinePlugins
  <2>1. Holds(attached[c], {"proxy"} \cup S) /\ EndsWith(attached[c], "proxy")
    BY <1>2 DEF PlugsOK, ClientOK
  <2>2. IsInjective(attached[c]) /\ ToSet(attached[c]) = {"proxy"} \cup S
    BY <2>1, HoldsMeans
  <2>3. "proxy" \notin S
    BY PluginNames
  <2>4. Last(attached[c]) = "proxy"
    BY <2>1 DEF EndsWith, Last
  <2>5. ({"proxy"} \cup S) \ {"proxy"} = S
    BY <2>3
  <2> QED BY <2>2, <2>4, <2>5 DEF Enabled
<1> QED BY <1>1, <1>2 DEF PluginsAgree, PlugsOK

\* Nothing that the agreement is about changes.
LEMMA PlugsKept ==
  ASSUME PlugsOK, UNCHANGED <<alive, available, handlers, enabled, exceptions, client, owner, attached>>
  PROVE  PlugsOK'
BY DEF PlugsOK, ProxyOK, ClientOK, Enabled

LEMMA PlugsTalk ==
  ASSUME PlugsOK,
         \/ GuestLine \/ ClientPing \/ ClientPerform \/ ClientExecutes \/ LogMessage \/ ChunkDone
         \/ ClientQuit \/ UNCHANGED vars
         \/ \E c \in Clients : ClientRead(c) \/ ScriptSends(c) \/ ClientGone(c)
         \/ \E bot \in BotPlugins : ClientAsks(bot)
         \/ \E p \in Proxies : RemoteInvite(p) \/ RemoteReconnect(p) \/ RemoteDisconnect(p) \/ RemoteNick(p)
         \/ \E ch \in Channels :
              \/ ClientMessage(ch)
              \/ \E p \in Proxies : \/ RemoteJoin(p, ch) \/ RemotePart(p, ch) \/ RemoteKick(p, ch)
                                    \/ RemoteMessage(p, ch)
  PROVE  PlugsOK'
<1>1. UNCHANGED <<alive, available, handlers, enabled, exceptions, client, owner, attached>>
  BY DEF GuestLine, ClientPing, ClientPerform, ClientExecutes, LogMessage, ChunkDone, ClientQuit, vars,
         ClientRead, ScriptSends, ClientGone, ClientAsks, RemoteInvite, RemoteReconnect,
         RemoteDisconnect, RemoteNick, ClientMessage, RemoteJoin, RemotePart, RemoteKick,
         RemoteMessage, modules, plugs, people
<1> QED BY <1>1, PlugsKept

\* The proxies keep what they have, and so does every other client.
LEMMA OneClient ==
  ASSUME PlugsOK, UNCHANGED <<alive, available, handlers, enabled, exceptions>>, NEW c \in Clients,
         \A d \in Clients : d # c => /\ client'[d] = client[d] /\ owner'[d] = owner[d]
                                     /\ attached'[d] = attached[d],
         ClientOK(c)'
  PROVE  PlugsOK'
<1>1. \A p \in alive : ProxyOK(p)'
  BY DEF PlugsOK, ProxyOK, Enabled
<1>2. \A d \in Clients : d # c => ClientOK(d)'
  BY DEF PlugsOK, ClientOK, Enabled
<1> QED BY <1>1, <1>2 DEF PlugsOK

LEMMA PlugsAcceptDisconnect ==
  ASSUME BaseInv, PlugsOK, NEW c \in Clients, Accept(c) \/ ClientDisconnect(c)
  PROVE  PlugsOK'
<1>1. /\ UNCHANGED <<alive, available, handlers, enabled, exceptions>>
      /\ \A d \in Clients : d # c => /\ client'[d] = client[d] /\ owner'[d] = owner[d]
                                     /\ attached'[d] = attached[d]
  BY DEF BaseInv, PlugsTyped, PeopleOK, Accept, ClientDisconnect, modules, plugs
<1>2. ClientOK(c)'
  <2>1. CASE Accept(c)
    <3>1. client'[c] = "guest" /\ attached'[c] = <<"proxy">>
      BY <2>1 DEF BaseInv, PlugsTyped, PeopleOK, Accept
    <3> QED BY <3>1 DEF ClientOK
  <2>2. CASE ClientDisconnect(c)
    <3>1. client'[c] = "none"
      BY <2>2 DEF BaseInv, PeopleOK, ClientDisconnect
    <3> QED BY <3>1 DEF ClientOK
  <2> QED BY <2>1, <2>2
<1> QED BY <1>1, <1>2, OneClient

\* An authenticated client gets the listeners of the plugins that are enabled.
LEMMA PlugsPass ==
  ASSUME BaseInv, PlugsOK, NEW p \in Proxies, ClientPass(p)
  PROVE  PlugsOK'
<1>c. PICK c \in Clients : c = chunk
  BY DEF BaseInv, ClientPass
<1> DEFINE o == Only(enabled[p], LinePlugins)
           S == Enabled(p) \cap LinePlugins
<1>1. /\ UNCHANGED <<alive, available, handlers, enabled, exceptions>>
      /\ c \in Clients /\ p \in alive /\ client[c] = "guest" /\ c # Nobody
      /\ client' = [client EXCEPT ![c] = "member"] /\ owner' = [owner EXCEPT ![c] = p]
      /\ attached' = [attached EXCEPT ![c] = o \o @]
  BY <1>c, BouncerAssumption DEF BaseInv, ClientPass, modules, plugs
<1>2. /\ client \in [Clients -> ClientStates] /\ owner \in [Clients -> Proxies \cup {Nobody}]
      /\ attached \in [Clients -> Seq(Plugins \cup {"proxy"})] /\ enabled[p] \in Seq(Plugins)
      /\ Holds(enabled[p], Enabled(p)) /\ attached[c] = <<"proxy">>
  BY <1>1 DEF BaseInv, PlugsTyped, PeopleOK, PlugsOK, ProxyOK, ClientOK
<1>3. o \in Seq(Plugins \cap LinePlugins) /\ Holds(o, S)
  BY <1>2, OnlyFacts
<1> HIDE DEF o, S
<1>4. \A d \in Clients : d # c => /\ client'[d] = client[d] /\ owner'[d] = owner[d]
                                  /\ attached'[d] = attached[d]
  BY <1>1, <1>2
<1>5. client'[c] = "member" /\ owner'[c] = p /\ attached'[c] = o \o <<"proxy">>
  BY <1>1, <1>2
<1>6. Holds(o \o <<"proxy">>, {"proxy"} \cup S) /\ EndsWith(o \o <<"proxy">>, "proxy")
  <2>1. o \in Seq(Plugins \cup {"proxy"})
    <3>1. Plugins \cap LinePlugins \subseteq Plugins \cup {"proxy"}
      OBVIOUS
    <3> QED BY <1>3, <3>1, SeqMonotonic
  <2>2. "proxy" \notin S /\ "proxy" \in Plugins \cup {"proxy"}
    BY PluginNames DEF S
  <2>3. /\ Holds(Append(o, "proxy"), S \cup {"proxy"}) /\ EndsWith(Append(o, "proxy"), "proxy")
        /\ o \o <<"proxy">> = Append(o, "proxy")
    BY <1>3, <2>1, <2>2, HoldsAppended
  <2>4. S \cup {"proxy"} = {"proxy"} \cup S
    OBVIOUS
  <2> QED BY <2>3, <2>4
<1>7. Enabled(p)' = Enabled(p)
  BY <1>1 DEF Enabled
<1>8. ClientOK(c)'
  BY <1>5, <1>6, <1>7 DEF ClientOK, Enabled, S
<1> QED BY <1>1, <1>4, <1>8, OneClient

\* A registered plugin is enabled for a proxy that does not have it.
LEMMA PlugsEnable ==
  ASSUME BaseInv, PlugsOK, NEW p \in Proxies, NEW x \in Plugins, Enable(p, x),
         UNCHANGED <<alive, available, handlers, client, owner>>
  PROVE  PlugsOK'
<1>1. /\ p \in alive /\ x \in available /\ x \notin Enabled(p)
      /\ enabled' = [enabled EXCEPT ![p] = Append(enabled[p], x)]
      /\ exceptions' = [exceptions EXCEPT ![p] = IF x \in BotPlugins THEN Append(exceptions[p], x)
                                                                     ELSE exceptions[p]]
      /\ attached' = AttachTo({p}, x)
  BY DEF Enable, PlugsOK, Has, Enabled
<1>2. /\ enabled \in [Proxies -> Seq(Plugins)] /\ exceptions \in [Proxies -> Seq(Plugins)]
      /\ attached \in [Clients -> Seq(Plugins \cup {"proxy"})]
      /\ alive \subseteq Proxies /\ ProxyOK(p)
      /\ \A c \in Clients : client[c] # "none" => ClientOK(c)
  BY <1>1 DEF BaseInv, ModulesOK, PlugsTyped, PlugsOK
<1> DEFINE S == Enabled(p)
           T == S \cup {x}
<1>3. Holds(enabled'[p], T) /\ Holds(exceptions'[p], T \cap BotPlugins)
  <2>1. Holds(Append(enabled[p], x), T)
    BY <1>1, <1>2, HoldsAppended DEF ProxyOK
  <2>2. CASE x \in BotPlugins
    <3>1. x \notin S \cap BotPlugins /\ T \cap BotPlugins = (S \cap BotPlugins) \cup {x}
      BY <1>1, <2>2
    <3>2. Holds(Append(exceptions[p], x), (S \cap BotPlugins) \cup {x})
      BY <1>2, <3>1, HoldsAppended DEF ProxyOK
    <3> QED BY <1>1, <1>2, <2>1, <2>2, <3>1, <3>2
  <2>3. CASE x \notin BotPlugins
    <3>1. T \cap BotPlugins = S \cap BotPlugins
      BY <2>3
    <3> QED BY <1>1, <1>2, <2>1, <2>3, <3>1 DEF ProxyOK
  <2> QED BY <2>2, <2>3
<1>4. Enabled(p)' = T
  BY <1>3, HoldsMeans DEF Enabled
<1>5. \A q \in Proxies : q # p => enabled'[q] = enabled[q] /\ exceptions'[q] = exceptions[q]
  BY <1>1, <1>2
<1> HIDE DEF S, T
<1>6. ASSUME NEW q \in alive
      PROVE  ProxyOK(q)'
  <2>1. CASE q = p
    <3>1. T \subseteq available
      BY <1>1, <1>2 DEF ProxyOK, T, S
    <3> QED BY <1>3, <1>4, <2>1, <3>1 DEF ProxyOK
  <2>2. CASE q # p
    <3>1. enabled'[q] = enabled[q] /\ exceptions'[q] = exceptions[q] /\ ProxyOK(q)
      BY <1>2, <1>5, <2>2 DEF PlugsOK
    <3> QED BY <3>1 DEF ProxyOK, Enabled
  <2> QED BY <2>1, <2>2
<1>7. ASSUME NEW c \in Clients
      PROVE  ClientOK(c)'
  <2>1. attached'[c] = IF owner[c] = p /\ x \in LinePlugins THEN <<x>> \o attached[c] ELSE attached[c]
    BY <1>1 DEF AttachTo
  <2>2. CASE client[c] = "guest"
    <3>1. owner[c] # p
      BY <2>2, BouncerAssumption DEF BaseInv, PeopleOK
    <3> QED BY <1>2, <2>1, <2>2, <3>1 DEF ClientOK
  <2>3. CASE client[c] = "member"
    <3> DEFINE L == {"proxy"} \cup (Enabled(owner[c]) \cap LinePlugins)
    <3>1. Holds(attached[c], L) /\ EndsWith(attached[c], "proxy") /\ owner[c] \in Proxies
      BY <1>2, <2>3 DEF ClientOK, BaseInv, PeopleOK
    <3>2. CASE owner[c] = p /\ x \in LinePlugins
      <4>1. x \notin L /\ L \cup {x} = {"proxy"} \cup (T \cap LinePlugins)
        BY <1>1, <3>2, PluginNames DEF T, S
      <4> HIDE DEF L
      <4>2. Holds(<<x>> \o attached[c], L \cup {x}) /\ EndsWith(<<x>> \o attached[c], "proxy")
        <5>1. attached[c] \in Seq(Plugins \cup {"proxy"}) /\ x \in Plugins \cup {"proxy"}
          BY <1>2
        <5> QED BY <3>1, <4>1, <5>1, HoldsPrepended
      <4> QED BY <1>4, <2>1, <2>3, <3>2, <4>1, <4>2 DEF ClientOK
    <3>3. CASE ~(owner[c] = p /\ x \in LinePlugins)
      <4>1. Enabled(owner[c])' \cap LinePlugins = Enabled(owner[c]) \cap LinePlugins
        <5>1. CASE owner[c] = p
          BY <1>4, <3>3, <5>1 DEF T, S
        <5>2. CASE owner[c] # p
          BY <1>5, <3>1, <5>2 DEF Enabled
        <5> QED BY <5>1, <5>2
      <4> QED BY <2>1, <2>3, <3>1, <3>3, <4>1 DEF ClientOK
    <3> QED BY <3>2, <3>3
  <2> QED BY <2>2, <2>3 DEF ClientOK
<1> QED BY <1>6, <1>7 DEF PlugsOK

\* A plugin is disabled for some proxies; those that it stays enabled for need it
\* to stay registered.
LEMMA PlugsDisable ==
  ASSUME BaseInv, PlugsOK, NEW ps, ps \subseteq Proxies, NEW x \in Plugins, Disable(ps, x),
         UNCHANGED <<alive, handlers, client, owner>>,
         \A p \in alive : Enabled(p) \ (IF p \in ps THEN {x} ELSE {}) \subseteq available'
  PROVE  PlugsOK'
<1>1. /\ enabled \in [Proxies -> Seq(Plugins)] /\ exceptions \in [Proxies -> Seq(Plugins)]
      /\ attached \in [Clients -> Seq(Plugins \cup {"proxy"})]
      /\ alive \subseteq Proxies /\ x # "proxy"
  BY PluginNames DEF BaseInv, ModulesOK, PlugsTyped
<1>2. ASSUME NEW p \in alive
      PROVE  /\ ProxyOK(p)'
             /\ Enabled(p)' = Enabled(p) \ (IF p \in ps THEN {x} ELSE {})
  <2>1. p \in Proxies /\ ProxyOK(p)
    BY <1>1 DEF PlugsOK
  <2>2. CASE p \in ps
    <3>1. enabled'[p] = Without(enabled[p], x) /\ exceptions'[p] = Without(exceptions[p], x)
      BY <2>1, <2>2 DEF Disable
    <3>2. /\ Holds(Without(enabled[p], x), Enabled(p) \ {x})
          /\ Holds(Without(exceptions[p], x), (Enabled(p) \cap BotPlugins) \ {x})
      BY <1>1, <2>1, WithoutFacts DEF ProxyOK
    <3>3. (Enabled(p) \cap BotPlugins) \ {x} = (Enabled(p) \ {x}) \cap BotPlugins
      OBVIOUS
    <3>4. Enabled(p)' = Enabled(p) \ {x}
      BY <3>1, <3>2, HoldsMeans DEF Enabled
    <3> QED BY <2>2, <3>1, <3>2, <3>3, <3>4 DEF ProxyOK
  <2>3. CASE p \notin ps
    <3>1. enabled'[p] = enabled[p] /\ exceptions'[p] = exceptions[p]
      BY <2>1, <2>3 DEF Disable
    <3>2. Enabled(p)' = Enabled(p)
      BY <3>1 DEF Enabled
    <3> QED BY <2>1, <2>3, <3>1, <3>2 DEF ProxyOK
  <2> QED BY <2>2, <2>3
<1>3. ASSUME NEW c \in Clients
      PROVE  ClientOK(c)'
  <2>1. attached'[c] = IF owner[c] \in ps THEN Without(attached[c], x) ELSE attached[c]
    BY DEF Disable, DetachFrom
  <2>2. CASE client[c] = "guest"
    <3>1. owner[c] \notin ps
      BY <2>2, BouncerAssumption DEF BaseInv, PeopleOK
    <3> QED BY <2>1, <2>2, <3>1 DEF PlugsOK, ClientOK
  <2>3. CASE client[c] = "member"
    <3> DEFINE q == owner[c]
               L == {"proxy"} \cup (Enabled(q) \cap LinePlugins)
    <3>1. Holds(attached[c], L) /\ EndsWith(attached[c], "proxy") /\ q \in alive
      BY <2>3 DEF PlugsOK, ClientOK, BaseInv, PeopleOK
    <3>2. Enabled(owner[c])' = Enabled(q) \ (IF q \in ps THEN {x} ELSE {})
      BY <1>2, <3>1 DEF Enabled
    <3>3. CASE q \in ps
      <4>1. L \ {x} = {"proxy"} \cup ((Enabled(q) \ {x}) \cap LinePlugins)
        BY <1>1
      <4> HIDE DEF L
      <4>2. Holds(Without(attached[c], x), L \ {x}) /\ EndsWith(Without(attached[c], x), "proxy")
        BY <1>1, <3>1, WithoutFacts
      <4> QED BY <2>1, <2>3, <3>2, <3>3, <4>1, <4>2 DEF ClientOK
    <3>4. CASE q \notin ps
      BY <2>1, <2>3, <3>1, <3>2, <3>4 DEF ClientOK
    <3> QED BY <3>3, <3>4
  <2> QED BY <2>2, <2>3 DEF ClientOK
<1> QED BY <1>2, <1>3 DEF PlugsOK

LEMMA PlugsPlugin ==
  ASSUME BaseInv, PlugsOK, NEW x \in Plugins,
         AddIrcProxyPlugin(x) \/ DelIrcProxyPlugin(x) \/ ClientLoads(x) \/ ClientUnloads(x)
  PROVE  PlugsOK'
<1>1. CASE AddIrcProxyPlugin(x)
  <2>1. UNCHANGED <<alive, handlers, enabled, exceptions, client, owner, attached>>
        /\ available \subseteq available'
    BY <1>1 DEF AddIrcProxyPlugin, modules, people
  <2> QED BY <2>1 DEF PlugsOK, ProxyOK, ClientOK, Enabled
<1>2. CASE DelIrcProxyPlugin(x)
  <2> DEFINE ps == {q \in handlers : Has(q, x)}
  <2>1. /\ Disable(ps, x) /\ ps \subseteq Proxies
        /\ UNCHANGED <<alive, handlers, client, owner>> /\ available' = available \ {x}
    BY <1>2 DEF DelIrcProxyPlugin, modules, BaseInv, PlugsTyped
  <2>2. ASSUME NEW p \in alive
        PROVE  Enabled(p) \ (IF p \in ps THEN {x} ELSE {}) \subseteq available'
    <3>1. Enabled(p) \subseteq available /\ (p \notin ps => x \notin Enabled(p))
      BY DEF PlugsOK, ProxyOK, Has, Enabled
    <3> QED BY <2>1, <3>1
  <2> HIDE DEF ps
  <2> QED BY <2>1, <2>2, PlugsDisable
<1>3. CASE ClientLoads(x)
  <2>1. /\ Enable(owner[chunk], x) /\ owner[chunk] \in Proxies
        /\ UNCHANGED <<alive, available, handlers, client, owner>>
    BY <1>3 DEF ClientLoads, modules, Member, BaseInv, PeopleOK
  <2> QED BY <2>1, PlugsEnable
<1>4. CASE ClientUnloads(x)
  <2>1. /\ Disable({owner[chunk]}, x) /\ {owner[chunk]} \subseteq Proxies
        /\ UNCHANGED <<alive, available, handlers, client, owner>>
    BY <1>4 DEF ClientUnloads, modules, Member, BaseInv, PeopleOK
  <2>2. \A p \in alive : Enabled(p) \subseteq available'
    BY <2>1 DEF PlugsOK, ProxyOK
  <2> QED BY <2>1, <2>2, PlugsDisable
<1> QED BY <1>1, <1>2, <1>3, <1>4

\* All proxies are created, with the plugins of their lists.
LEMMA PlugsInitBouncer ==
  ASSUME BaseInv, PlugsOK, BadEntry \notin Liberties, InitBouncer
  PROVE  PlugsOK'
<1>1. PICK config \in [Proxies -> Lists] : NewProxies(config) /\ EnableListed(config)
  BY DEF InitBouncer
<1>2. /\ UNCHANGED <<available, client, owner, attached>> /\ alive = {} /\ handlers = {}
      /\ available \subseteq Plugins
  BY DEF InitBouncer, people, BaseInv, ModulesOK, PlugsOK
<1>3. ASSUME NEW p \in Proxies
      PROVE  p \in alive' /\ ProxyOK(p)'
  <2>1. config[p] \in Lists
    OBVIOUS
  <2>2. ~Bad(config[p]) /\ config[p] \in Seq(Plugins \cup {"bad"})
    BY <1>2, <2>1, ListsFacts
  <2>3. PICK S \in SUBSET available : Holds(config[p], S)
    BY <1>2, <2>1, ListsFacts
  <2>4. p \in alive'
    BY <1>1, <1>2, <2>2 DEF NewProxies, CreatedProxies
  <2>5. enabled'[p] = Only(config[p], Plugins) /\ exceptions'[p] = Only(config[p], BotPlugins)
    BY <1>1, <1>2, <2>4 DEF EnableListed, NewProxies
  <2>6. Holds(enabled'[p], S) /\ Holds(exceptions'[p], S \cap BotPlugins)
    <3>1. Holds(Only(config[p], Plugins), S \cap Plugins) /\ Holds(Only(config[p], BotPlugins), S \cap BotPlugins)
      BY <2>2, <2>3, OnlyFacts
    <3>2. S \cap Plugins = S
      BY <1>2
    <3> QED BY <2>5, <3>1, <3>2
  <2>7. Enabled(p)' = S
    BY <2>6, HoldsMeans DEF Enabled
  <2> QED BY <1>2, <2>4, <2>6, <2>7 DEF ProxyOK
<1>4. alive' = Proxies /\ handlers' = Proxies
  <2>1. alive' \subseteq Proxies /\ handlers' = Proxies
    BY <1>1 DEF NewProxies, CreatedProxies, EnableListed
  <2> QED BY <1>3, <2>1
<1>5. \A c \in Clients : ClientOK(c)'
  <2>1. \A c \in Clients : client[c] # "member"
    BY <1>2 DEF BaseInv, PeopleOK
  <2> QED BY <1>2, <2>1 DEF PlugsOK, ClientOK
<1> QED BY <1>3, <1>4, <1>5 DEF PlugsOK

LEMMA PlugsFiniBouncer ==
  ASSUME BaseInv, PlugsOK, FiniBouncer
  PROVE  PlugsOK'
<1>1. alive' = {} /\ handlers' = {}
  BY DEF FiniBouncer, PlugsOK
<1>2. \A c \in Clients : FreedWithProxy(c) <=> owner[c] # Nobody
  BY FreedMeans DEF BaseInv
<1>3. ASSUME NEW c \in Clients
      PROVE  ClientOK(c)'
  <2>1. /\ client'[c] = IF FreedWithProxy(c) THEN "none" ELSE client[c]
        /\ attached'[c] = IF FreedWithProxy(c) THEN <<>> ELSE attached[c]
    BY DEF FiniBouncer
  <2>2. client'[c] # "member" /\ (client'[c] = "guest" => client[c] = "guest" /\ attached'[c] = attached[c])
    BY <1>2, <2>1 DEF BaseInv, PeopleOK
  <2> QED BY <2>2 DEF PlugsOK, ClientOK
<1> QED BY <1>1, <1>3 DEF PlugsOK

LEMMA PlugsNext ==
  ASSUME BaseInv, PlugsOK, BadEntry \notin Liberties, [Next]_vars
  PROVE  PlugsOK'
<1>1. CASE \E x \in Plugins : \/ AddIrcProxyPlugin(x) \/ DelIrcProxyPlugin(x)
                              \/ ClientLoads(x) \/ ClientUnloads(x)
  BY <1>1, PlugsPlugin
<1>2. CASE InitBouncer \/ FiniBouncer
  BY <1>2, PlugsInitBouncer, PlugsFiniBouncer
<1>3. CASE \E c \in Clients : Accept(c) \/ ClientDisconnect(c)
  BY <1>3, PlugsAcceptDisconnect
<1>4. CASE \E p \in Proxies : ClientPass(p)
  BY <1>4, PlugsPass
<1>5. CASE \/ ChunkDone \/ GuestLine \/ ClientQuit \/ ClientPing \/ ClientPerform \/ ClientExecutes
           \/ LogMessage \/ UNCHANGED vars
           \/ \E bot \in BotPlugins : ClientAsks(bot)
  BY <1>5, PlugsTalk
<1>6. CASE \E c \in Clients : ClientGone(c) \/ ClientRead(c) \/ ScriptSends(c)
  BY <1>6, PlugsTalk
<1>7. CASE \E p \in Proxies : RemoteReconnect(p) \/ RemoteDisconnect(p) \/ RemoteNick(p) \/ RemoteInvite(p)
  BY <1>7, PlugsTalk
<1>8. CASE \E p \in Proxies, ch \in Channels : \/ RemoteJoin(p, ch) \/ RemotePart(p, ch)
                                               \/ RemoteMessage(p, ch) \/ RemoteKick(p, ch)
  BY <1>8, PlugsTalk
<1>9. CASE \E ch \in Channels : ClientMessage(ch)
  BY <1>9, PlugsTalk
<1> QED BY <1>1, <1>2, <1>3, <1>4, <1>5, <1>6, <1>7, <1>8, <1>9 DEF Next

\* irc_proxy_plugin and irc_proxy: whoever comes and goes, proxies, plugins and
\* clients know each other, when no list of plugins has a bad element.
THEOREM MembersKnowEachOther ==
  ASSUME BadEntry \notin Liberties
  PROVE  Spec => []MembershipSound
<1>1. Init => PlugsOK
  BY DEF Init, PlugsOK, ClientOK
<1>2. BaseInv /\ PlugsOK /\ [Next]_vars => PlugsOK'
  BY PlugsNext
<1>3. BaseInv /\ PlugsOK => MembershipSound
  BY PlugsMean, AccountedMeans DEF MembershipSound, BaseInv
<1> QED BY <1>1, <1>2, <1>3, BaseAlways, PTL DEF Spec

=============================================================================
