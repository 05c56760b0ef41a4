-------------------------- MODULE KeepaliveProofs ---------------------------
(***************************************************************************)
(* Proofs about IRC connections and the keepalive plugin, for any number   *)
(* of connections, timeouts and lines: users' lines leave in their order   *)
(* and on the connection they were meant for, and the plugin's tables      *)
(* agree with its timers.                                                  *)
(***************************************************************************)
EXTENDS Keepalive, SelectionProofs

-----------------------------------------------------------------------------
(* Lines that wait, and lines that were written.                           *)

\* The users' lines in s were written before those that wait in o; none is newer
\* than the n-th.
InOrder(s, o, n) ==
  /\ \A i, j \in DOMAIN s : i < j => s[i].id < s[j].id
  /\ \A i \in DOMAIN s : s[i].asked = s[i].written /\ s[i].id <= n
  /\ \A i, j \in DOMAIN o : i < j /\ o[i].kind = "user" /\ o[j].kind = "user" => o[i].id < o[j].id
  /\ \A i \in DOMAIN o : o[i].kind = "user" =>
       /\ o[i].id <= n
       /\ \A k \in DOMAIN s : s[k].id < o[i].id

\* new is what is known later of the users' lines among those at the places f of
\* lines, written in epoch e.
WrittenAt(new, lines, e, f) ==
  /\ f \in [1..Len(new) -> 1..Len(lines)]
  /\ \A i, j \in 1..Len(new) : i < j => f[i] < f[j]
  /\ \A i \in 1..Len(new) :
       /\ lines[f[i]].kind = "user"
       /\ new[i] = [id |-> lines[f[i]].id, asked |-> lines[f[i]].epoch, written |-> e]

Written(new, lines, e) == \E f : WrittenAt(new, lines, e, f)

\* Later lines only add to what may wait.
LEMMA InOrderLater ==
  ASSUME NEW s \in Seq(SentLine), NEW o \in Seq(Line), NEW n \in Nat, NEW m \in Nat, n <= m,
         InOrder(s, o, n)
  PROVE  InOrder(s, o, m)
<1>1. \A i \in DOMAIN s : s[i].id \in Nat
  <2>1. \A i \in DOMAIN s : s[i] \in SentLine
    OBVIOUS
  <2> QED BY <2>1 DEF SentLine
<1>2. \A i \in DOMAIN o : o[i].id \in Nat
  <2>1. \A i \in DOMAIN o : o[i] \in Line
    OBVIOUS
  <2> QED BY <2>1 DEF Line
<1> QED BY <1>1, <1>2 DEF InOrder

\* The queue is emptied when throttling begins or ends.
LEMMA InOrderEmptied ==
  ASSUME NEW s \in Seq(SentLine), NEW o \in Seq(Line), NEW n \in Nat, InOrder(s, o, n)
  PROVE  InOrder(s, <<>>, n)
BY DEF InOrder

\* ircSend puts a line at the end of the queue, a user's being newer than all others.
LEMMA InOrderAppended ==
  ASSUME NEW s \in Seq(SentLine), NEW o \in Seq(Line), NEW n \in Nat, InOrder(s, o, n),
         NEW l \in Line, NEW m \in {n, n + 1}, l.kind = "user" => l.id = n + 1 /\ m = n + 1
  PROVE  InOrder(s, o \o <<l>>, m) /\ o \o <<l>> \in Seq(Line)
<1> DEFINE p == o \o <<l>>
<1>1. p \in Seq(Line) /\ Len(p) = Len(o) + 1 /\ p[Len(o) + 1] = l
      /\ \A i \in 1..Len(o) : p[i] = o[i]
  OBVIOUS
<1>2. Len(o) \in Nat /\ DOMAIN p = 1..(Len(o) + 1) /\ DOMAIN o = 1..Len(o)
  <2>1. Len(o) \in Nat /\ DOMAIN o = 1..Len(o)
    OBVIOUS
  <2> QED BY <1>1, <2>1
<1> HIDE DEF p
<1>3. \A i \in DOMAIN s : s[i].id \in Nat /\ s[i].id <= n
  <2>1. \A i \in DOMAIN s : s[i] \in SentLine
    OBVIOUS
  <2> QED BY <2>1 DEF SentLine, InOrder
<1>4. \A i \in 1..Len(o) : o[i].id \in Nat /\ (o[i].kind = "user" => o[i].id <= n)
  <2>1. \A i \in 1..Len(o) : o[i] \in Line
    OBVIOUS
  <2> QED BY <1>2, <2>1 DEF Line, InOrder
<1>5. \A i \in DOMAIN p : i \in 1..Len(o) \/ i = Len(o) + 1
  BY <1>2
<1>6. ASSUME NEW i \in DOMAIN p, p[i].kind = "user"
      PROVE  p[i].id <= m /\ \A k \in DOMAIN s : s[k].id < p[i].id
  <2>1. CASE i \in 1..Len(o)
    BY <1>1, <1>2, <1>3, <1>4, <1>6, <2>1 DEF InOrder
  <2>2. CASE i = Len(o) + 1
    BY <1>1, <1>3, <1>6, <2>2
  <2> QED BY <1>5, <2>1, <2>2
<1>7. ASSUME NEW i \in DOMAIN p, NEW j \in DOMAIN p, i < j, p[i].kind = "user", p[j].kind = "user"
      PROVE  p[i].id < p[j].id
  <2>1. i \in 1..Len(o)
    BY <1>2, <1>5, <1>7
  <2>2. CASE j \in 1..Len(o)
    BY <1>1, <1>2, <1>7, <2>1, <2>2 DEF InOrder
  <2>3. CASE j = Len(o) + 1
    BY <1>1, <1>4, <1>7, <2>1, <2>3
  <2> QED BY <1>5, <2>2, <2>3
<1>8. \A i \in DOMAIN s : s[i].asked = s[i].written /\ s[i].id <= m
  BY <1>3 DEF InOrder
<1> QED BY <1>1, <1>6, <1>7, <1>8 DEF InOrder, p

\* ircSendFirst puts a PING or PONG in front of the queue.
LEMMA InOrderPrepended ==
  ASSUME NEW s \in Seq(SentLine), NEW o \in Seq(Line), NEW n \in Nat, InOrder(s, o, n),
         NEW l \in Line, l.kind # "user"
  PROVE  InOrder(s, <<l>> \o o, n) /\ <<l>> \o o \in Seq(Line)
<1> DEFINE p == <<l>> \o o
<1>1. p \in Seq(Line) /\ Len(p) = Len(o) + 1 /\ p[1] = l
      /\ \A i \in 2..(Len(o) + 1) : p[i] = o[i - 1]
  OBVIOUS
<1>2. Len(o) \in Nat /\ DOMAIN p = 1..(Len(o) + 1) /\ DOMAIN o = 1..Len(o)
  <2>1. Len(o) \in Nat /\ DOMAIN o = 1..Len(o)
    OBVIOUS
  <2> QED BY <1>1, <2>1
<1> HIDE DEF p
<1>3. \A i \in DOMAIN p : i = 1 \/ (i \in 2..(Len(o) + 1) /\ i - 1 \in 1..Len(o))
  BY <1>2
<1>4. ASSUME NEW i \in DOMAIN p, p[i].kind = "user"
      PROVE  i \in 2..(Len(o) + 1) /\ i - 1 \in DOMAIN o /\ p[i] = o[i - 1]
  BY <1>1, <1>2, <1>3, <1>4
<1>5. ASSUME NEW i \in DOMAIN p, NEW j \in DOMAIN p, i < j, p[i].kind = "user", p[j].kind = "user"
      PROVE  p[i].id < p[j].id
  <2>1. i - 1 < j - 1
    BY <1>4, <1>5
  <2> QED BY <1>4, <1>5, <2>1 DEF InOrder
<1>6. \A i \in DOMAIN p : p[i].kind = "user" =>
        p[i].id <= n /\ \A k \in DOMAIN s : s[k].id < p[i].id
  BY <1>4 DEF InOrder
<1> QED BY <1>1, <1>5, <1>6 DEF InOrder, p

\* The first k lines of the queue are written, or lost.
LEMMA InOrderWritten ==
  ASSUME NEW s \in Seq(SentLine), NEW o \in Seq(Line), NEW n \in Nat, InOrder(s, o, n),
         NEW k \in 0..Len(o), NEW e \in 0..1, NEW new \in Seq(SentLine),
         Written(new, SubSeq(o, 1, k), e), \A i \in 1..k : o[i].epoch = e
  PROVE  /\ InOrder(s \o new, SubSeq(o, k + 1, Len(o)), n)
         /\ SubSeq(o, k + 1, Len(o)) \in Seq(Line) /\ s \o new \in Seq(SentLine)
<1> DEFINE a == SubSeq(o, 1, k)
           b == SubSeq(o, k + 1, Len(o))
           t == s \o new
<1>1. Len(o) \in Nat /\ k \in Nat /\ k <= Len(o) /\ Len(s) \in Nat /\ Len(new) \in Nat
  <2>1. Len(o) \in Nat /\ Len(s) \in Nat /\ Len(new) \in Nat
    OBVIOUS
  <2> QED BY <2>1
<1>2. a \in Seq(Line) /\ Len(a) = k /\ \A i \in 1..k : a[i] = o[i]
  <2>1. \A i \in 1..k : o[i] \in Line
    OBVIOUS
  <2>2. /\ SubSeq(o, 1, k) \in Seq(Line) /\ Len(SubSeq(o, 1, k)) = IF 1 <= k THEN k - 1 + 1 ELSE 0
        /\ \A i \in 1..(k - 1 + 1) : SubSeq(o, 1, k)[i] = o[1 + i - 1]
    BY <1>1, <2>1, SubSeqProperties
  <2> QED BY <1>1, <2>2
<1>3. b \in Seq(Line) /\ Len(b) = Len(o) - k /\ \A i \in 1..(Len(o) - k) : b[i] = o[k + i]
  <2>1. \A i \in (k + 1)..Len(o) : o[i] \in Line
    OBVIOUS
  <2>2. /\ SubSeq(o, k + 1, Len(o)) \in Seq(Line)
        /\ Len(SubSeq(o, k + 1, Len(o))) = IF k + 1 <= Len(o) THEN Len(o) - (k + 1) + 1 ELSE 0
        /\ \A i \in 1..(Len(o) - (k + 1) + 1) : SubSeq(o, k + 1, Len(o))[i] = o[k + 1 + i - 1]
    BY <1>1, <2>1, SubSeqProperties
  <2> QED BY <1>1, <2>2
<1>4. t \in Seq(SentLine) /\ Len(t) = Len(s) + Len(new)
      /\ \A i \in 1..(Len(s) + Len(new)) : t[i] = IF i <= Len(s) THEN s[i] ELSE new[i - Len(s)]
  BY ConcatProperties
<1>5. PICK f : WrittenAt(new, a, e, f)
  BY DEF Written
<1> HIDE DEF a, b, t
<1>6. ASSUME NEW i \in 1..Len(new)
      PROVE  /\ f[i] \in 1..k /\ f[i] \in 1..Len(o)
             /\ o[f[i]].kind = "user"
             /\ new[i].id = o[f[i]].id
             /\ new[i].asked = e
             /\ new[i].written = e
  <2>1. f[i] \in 1..k
    BY <1>2, <1>5 DEF WrittenAt
  <2>2. f[i] \in 1..Len(o) /\ a[f[i]] = o[f[i]]
    BY <1>1, <1>2, <2>1
  <2>3. o[f[i]].epoch = e
    BY <2>1
  <2>4. a[f[i]].kind = "user" /\ new[i] = [id |-> a[f[i]].id, asked |-> a[f[i]].epoch, written |-> e]
    BY <1>5 DEF WrittenAt
  <2> QED BY <2>1, <2>2, <2>3, <2>4
<1>7. DOMAIN o = 1..Len(o) /\ DOMAIN s = 1..Len(s)
  OBVIOUS
<1>8. DOMAIN t = 1..(Len(s) + Len(new)) /\ DOMAIN b = 1..(Len(o) - k)
  BY <1>3, <1>4
<1>9. \A i \in DOMAIN t : \/ i \in 1..Len(s) /\ t[i] = s[i]
                          \/ i - Len(s) \in 1..Len(new) /\ i > Len(s) /\ t[i] = new[i - Len(s)]
  BY <1>1, <1>4, <1>8
<1>10. ASSUME NEW i \in DOMAIN t, NEW j \in DOMAIN t, i < j
       PROVE  t[i].id < t[j].id
  <2>1. CASE j \in 1..Len(s)
    <3>1. i \in 1..Len(s)
      BY <1>1, <1>8, <1>10, <2>1
    <3> QED BY <1>1, <1>7, <1>9, <1>10, <2>1, <3>1 DEF InOrder
  <2>2. CASE i \in 1..Len(s) /\ j - Len(s) \in 1..Len(new) /\ j > Len(s)
    <3>1. t[i] = s[i] /\ t[j].id = o[f[j - Len(s)]].id
      BY <1>1, <1>6, <1>9, <2>2
    <3>2. f[j - Len(s)] \in DOMAIN o /\ o[f[j - Len(s)]].kind = "user"
      BY <1>6, <1>7, <2>2
    <3> QED BY <1>7, <2>2, <3>1, <3>2 DEF InOrder
  <2>3. CASE i - Len(s) \in 1..Len(new) /\ i > Len(s) /\ j - Len(s) \in 1..Len(new) /\ j > Len(s)
    <3> DEFINE x == i - Len(s)
               y == j - Len(s)
    <3>1. x \in 1..Len(new) /\ y \in 1..Len(new) /\ x < y
      BY <1>1, <1>8, <1>10, <2>3
    <3>2. t[i] = new[x] /\ t[j] = new[y]
      BY <1>1, <1>9, <2>3
    <3> HIDE DEF x, y
    <3>3. f[x] < f[y]
      BY <1>5, <3>1 DEF WrittenAt
    <3>4. f[x] \in DOMAIN o /\ f[y] \in DOMAIN o /\ o[f[x]].kind = "user" /\ o[f[y]].kind = "user"
          /\ new[x].id = o[f[x]].id /\ new[y].id = o[f[y]].id
      BY <1>6, <1>7, <3>1
    <3>5. o[f[x]].id < o[f[y]].id
      BY <3>3, <3>4 DEF InOrder
    <3> QED BY <3>2, <3>4, <3>5
  <2>4. i \in Int /\ j \in Int
    BY <1>1, <1>8
  <2> QED BY <1>1, <1>9, <1>10, <2>1, <2>2, <2>3, <2>4
<1>11. ASSUME NEW i \in DOMAIN t
       PROVE  t[i].asked = t[i].written /\ t[i].id <= n
  <2>1. CASE i \in 1..Len(s) /\ t[i] = s[i]
    BY <1>7, <2>1 DEF InOrder
  <2>2. CASE i - Len(s) \in 1..Len(new) /\ t[i] = new[i - Len(s)]
    <3>1. f[i - Len(s)] \in DOMAIN o /\ o[f[i - Len(s)]].kind = "user"
          /\ t[i].id = o[f[i - Len(s)]].id /\ t[i].asked = e /\ t[i].written = e
      BY <1>6, <1>7, <2>2
    <3> QED BY <3>1 DEF InOrder
  <2> QED BY <1>9, <2>1, <2>2
<1>12. \A i \in DOMAIN b : k + i \in DOMAIN o /\ b[i] = o[k + i] /\ i \in Nat
  BY <1>1, <1>3, <1>7, <1>8
<1>13. ASSUME NEW i \in DOMAIN b, NEW j \in DOMAIN b, i < j, b[i].kind = "user", b[j].kind = "user"
       PROVE  b[i].id < b[j].id
  <2>1. k + i < k + j
    BY <1>1, <1>12, <1>13
  <2> QED BY <1>12, <1>13, <2>1 DEF InOrder
<1>14. ASSUME NEW i \in DOMAIN b, b[i].kind = "user"
       PROVE  b[i].id <= n /\ \A m \in DOMAIN t : t[m].id < b[i].id
  <2>1. k + i \in DOMAIN o /\ o[k + i].kind = "user" /\ b[i] = o[k + i]
    BY <1>12, <1>14
  <2>2. b[i].id <= n /\ \A m \in DOMAIN s : s[m].id < b[i].id
    BY <2>1 DEF InOrder
  <2>3. ASSUME NEW m \in DOMAIN t
        PROVE  t[m].id < b[i].id
    <3>1. CASE m \in 1..Len(s) /\ t[m] = s[m]
      BY <1>7, <2>2, <3>1
    <3>2. CASE m - Len(s) \in 1..Len(new) /\ t[m] = new[m - Len(s)]
      <4>1. f[m - Len(s)] \in DOMAIN o /\ o[f[m - Len(s)]].kind = "user" /\ f[m - Len(s)] \in 1..k
            /\ t[m].id = o[f[m - Len(s)]].id
        BY <1>6, <1>7, <3>2
      <4>2. f[m - Len(s)] < k + i
        BY <1>1, <1>8, <1>3, <4>1
      <4> QED BY <2>1, <4>1, <4>2 DEF InOrder
    <3> QED BY <1>9, <3>1, <3>2
  <2> QED BY <2>2, <2>3
<1> QED BY <1>3, <1>4, <1>10, <1>11, <1>13, <1>14 DEF InOrder, b, t

-----------------------------------------------------------------------------
(* Writing.                                                                *)

LEMMA LastTwoType ==
  ASSUME NEW S, NEW s \in Seq(S)
  PROVE  LastTwo(s) \in Seq(S)
<1>1. Len(s) \in Nat /\ \A i \in 1..Len(s) : s[i] \in S
  OBVIOUS
<1> DEFINE n == Len(s)
           m == Max({1, n - 1})
<1> HIDE DEF n
<1>2. n \in Nat
  BY <1>1 DEF n
<1>3. \E x \in {1, n - 1} : \A y \in {1, n - 1} : x >= y
  BY <1>2
<1>4. m \in {1, n - 1} /\ \A y \in {1, n - 1} : m >= y
  BY <1>3, Zenon DEF Max
<1> HIDE DEF m
<1>5. m \in Int /\ \A i \in m..n : s[i] \in S
  BY <1>1, <1>2, <1>4 DEF n
<1>6. SubSeq(s, m, n) \in Seq(S)
  BY <1>2, <1>5, SubSeqProperties
<1> QED BY <1>6 DEF LastTwo, m, n

\* A queue of nothing but what was there.
LEMMA NothingWritten ==
  ASSUME NEW lines \in Seq(Line), NEW e, NEW s \in Seq(SentLine)
  PROVE  <<>> \in Seq(SentLine) /\ Written(<<>>, lines, e) /\ s \o <<>> = s
<1>1. <<>> \in Seq(SentLine) /\ Len(<<>>) = 0 /\ 1..0 = {}
  OBVIOUS
<1>2. WrittenAt(<<>>, lines, e, [i \in 1..0 |-> 1])
  BY <1>1 DEF WrittenAt
<1>3. s \o <<>> = s
  BY ConcatEmptySeq
<1> QED BY <1>1, <1>2, <1>3 DEF Written

\* The server's answers stay what they are, and the history gets the users' lines.
ServerOK ==
  /\ greeted \in [Conns -> {"none", "auth", "other"}]
  /\ pings \in [Conns -> Seq(Nat)]
  /\ sent \in [Conns -> Seq(SentLine)]

\* What is known of the users' lines that the server gets.
LEMMA ReceivedFacts ==
  ASSUME IrcTypeOK, NEW c \in Conns, NEW lines \in Seq(Line), NEW W \in SUBSET DOMAIN lines,
         Received(c, Selected(lines, W))
  PROVE  /\ ServerOK'
         /\ \E new \in Seq(SentLine) : /\ sent' = [sent EXCEPT ![c] = @ \o new]
                                       /\ Written(new, lines, epoch[c])
<1> DEFINE out == Selected(lines, W)
           U == Places(out, "user")
           users == Selected(out, U)
           new == [i \in DOMAIN users |->
                    [id |-> users[i].id, asked |-> users[i].epoch, written |-> epoch[c]]]
<1>1. W \in SUBSET (1..Len(lines)) /\ Len(lines) \in Nat
  OBVIOUS
<1>2. /\ out \in Seq(Line) /\ Len(out) = Cardinality(W) /\ Cardinality(W) \in Nat
      /\ \A i \in 1..Cardinality(W) :
           /\ Nth(W, i) \in W /\ Nth(W, i) \in 1..Len(lines)
           /\ out[i] = lines[Nth(W, i)]
           /\ \A j \in 1..Cardinality(W) : i < j => Nth(W, i) < Nth(W, j)
  BY <1>1, SelectedFacts
<1> HIDE DEF out
<1>3. U \in SUBSET (1..Len(out)) /\ \A i \in U : out[i].kind = "user"
  BY <1>2 DEF Places
<1>4. /\ users \in Seq(Line) /\ Len(users) = Cardinality(U) /\ Cardinality(U) \in Nat
      /\ \A i \in 1..Cardinality(U) :
           /\ Nth(U, i) \in U /\ Nth(U, i) \in 1..Len(out)
           /\ users[i] = out[Nth(U, i)]
           /\ \A j \in 1..Cardinality(U) : i < j => Nth(U, i) < Nth(U, j)
  BY <1>2, <1>3, SelectedFacts
<1> DEFINE m == Cardinality(U)
           n == Cardinality(W)
           f == [i \in 1..m |-> Nth(W, Nth(U, i))]
<1> HIDE DEF U, users
<1>5. DOMAIN users = 1..m /\ \A i \in 1..m : users[i] \in Line
  BY <1>4
<1>6. epoch[c] \in 0..1
  BY DEF IrcTypeOK
<1> DEFINE e(i) == [id |-> users[i].id, asked |-> users[i].epoch, written |-> epoch[c]]
<1>7. \A i \in 1..m : e(i) \in SentLine
  BY <1>5, <1>6 DEF Line, SentLine
<1>8. new = [i \in 1..m |-> e(i)]
  BY <1>5
<1>9. new \in Seq(SentLine) /\ Len(new) = m /\ \A i \in 1..m : new[i] = e(i)
  <2> HIDE DEF e, m, new
  <2>1. m \in Nat
    BY <1>4 DEF m
  <2>2. [i \in 1..m |-> e(i)] \in Seq(SentLine)
    BY <1>7, <2>1, IsASeq
  <2> QED BY <1>8, <2>1, <2>2
<1>10. ASSUME NEW i \in 1..m
       PROVE  /\ Nth(U, i) \in 1..n
              /\ f[i] \in 1..Len(lines)
              /\ users[i] = lines[f[i]]
              /\ lines[f[i]].kind = "user"
  BY <1>2, <1>3, <1>4
<1>11. \A i, j \in 1..m : i < j => f[i] < f[j]
  <2>1. \A i, j \in 1..m : i < j => Nth(U, i) < Nth(U, j)
    BY <1>4
  <2>2. \A i, j \in 1..n : i < j => Nth(W, i) < Nth(W, j)
    BY <1>2
  <2> QED BY <2>1, <2>2, <1>10
<1>12. WrittenAt(new, lines, epoch[c], f)
  <2> HIDE DEF new, m, n
  <2>1. f \in [1..m -> 1..Len(lines)]
    BY <1>10
  <2> QED BY <2>1, <1>9, <1>10, <1>11 DEF WrittenAt
<1>13. Written(new, lines, epoch[c])
  BY <1>12 DEF Written
<1>14. sent' = [sent EXCEPT ![c] = @ \o new]
  BY DEF Received, users, U, out
<1>15. sent' \in [Conns -> Seq(SentLine)]
  <2> HIDE DEF new
  <2>1. sent[c] \o new \in Seq(SentLine) /\ sent \in [Conns -> Seq(SentLine)]
    BY <1>9 DEF IrcTypeOK
  <2> QED BY <1>14, <2>1
<1>16. greeted' \in [Conns -> {"none", "auth", "other"}]
  BY DEF Received, IrcTypeOK
<1>17. pings' \in [Conns -> Seq(Nat)]
  <2> DEFINE P == Places(out, "ping")
             ps == Selected(out, P)
             ids == [i \in DOMAIN ps |-> ps[i].id]
             l == Cardinality(P)
  <2>1. P \in SUBSET (1..Len(out))
    BY <1>2 DEF Places
  <2>2. ps \in Seq(Line) /\ Len(ps) = l /\ l \in Nat
    BY <1>2, <2>1, SelectedFacts
  <2> HIDE DEF P, ps
  <2>3. DOMAIN ps = 1..l /\ \A i \in 1..l : ps[i] \in Line
    BY <2>2
  <2> DEFINE d(i) == ps[i].id
  <2>4. \A i \in 1..l : d(i) \in Nat
    BY <2>3 DEF Line
  <2>5. ids = [i \in 1..l |-> d(i)]
    BY <2>3
  <2>6. ids \in Seq(Nat)
    <3> HIDE DEF d, ids, l
    <3>1. l \in Nat
      BY <2>2 DEF l
    <3> QED BY <2>4, <2>5, <3>1, IsASeq
  <2>7. pings' = [pings EXCEPT ![c] = LastTwo(@ \o ids)]
    BY DEF Received, ps, P, out
  <2> HIDE DEF ids
  <2>8. pings \in [Conns -> Seq(Nat)] /\ pings[c] \o ids \in Seq(Nat)
    BY <2>6 DEF IrcTypeOK
  <2>9. LastTwo(pings[c] \o ids) \in Seq(Nat)
    BY <2>8, LastTwoType
  <2> QED BY <2>7, <2>8, <2>9
<1> HIDE DEF new
<1> QED BY <1>9, <1>13, <1>14, <1>15, <1>16, <1>17 DEF ServerOK

\* What may come of writing lines to a socket in state now.
WriteResult(c, now, lines) ==
  /\ \E st \in SockStates : /\ sock' = [sock EXCEPT ![c] = st]
                            /\ st = now \/ (now = "connected" /\ st = "dropped")
  /\ ServerOK'
  /\ \E new \in Seq(SentLine) : /\ sent' = [sent EXCEPT ![c] = @ \o new]
                                /\ Written(new, lines, epoch[c])

LEMMA NoWrite ==
  ASSUME IrcTypeOK, NEW c \in Conns, NEW now \in SockStates, NEW lines \in Seq(Line),
         sock' = [sock EXCEPT ![c] = now], UNCHANGED server
  PROVE  WriteResult(c, now, lines)
<1>1. sent[c] \in Seq(SentLine) /\ sent \in [Conns -> Seq(SentLine)]
  BY DEF IrcTypeOK
<1>2. <<>> \in Seq(SentLine) /\ Written(<<>>, lines, epoch[c]) /\ sent[c] \o <<>> = sent[c]
  BY <1>1, NothingWritten
<1>3. sent' = [sent EXCEPT ![c] = @ \o <<>>]
  BY <1>1, <1>2 DEF server
<1>4. ServerOK'
  BY DEF server, IrcTypeOK, ServerOK
<1> QED BY <1>2, <1>3, <1>4 DEF WriteResult

LEMMA WriteFacts ==
  ASSUME IrcTypeOK, NEW c \in Conns, NEW now \in SockStates, NEW lines \in Seq(Line),
         Write(c, now, lines)
  PROVE  WriteResult(c, now, lines)
<1>1. CASE now # "connected" \/ lines = <<>>
  BY <1>1, NoWrite DEF Write
<1>2. CASE ~(now # "connected" \/ lines = <<>>)
  <2>1. PICK W \in SUBSET DOMAIN lines :
          /\ sock' = [sock EXCEPT ![c] = now] \/ sock' = [sock EXCEPT ![c] = "dropped"]
          /\ Received(c, Selected(lines, W))
    BY <1>2 DEF Write
  <2>2. /\ ServerOK'
        /\ \E new \in Seq(SentLine) : /\ sent' = [sent EXCEPT ![c] = @ \o new]
                                      /\ Written(new, lines, epoch[c])
    BY <2>1, ReceivedFacts
  <2>3. \E st \in SockStates : /\ sock' = [sock EXCEPT ![c] = st]
                               /\ st = now \/ (now = "connected" /\ st = "dropped")
    BY <1>2, <2>1 DEF SockStates
  <2> QED BY <2>2, <2>3 DEF WriteResult
<1> QED BY <1>1, <1>2

-----------------------------------------------------------------------------
(* The inductive invariant of the connections.                             *)

\* All lines of a queue were sent in epoch e.
Current(o, e) == \A i \in DOMAIN o : o[i].epoch = e

\* Whose queue is from an earlier connection: it is closed, and the throttle's
\* poll will find that before anybody reconnects.
Stale(c) == sock[c] = "closed" /\ (stage = "poll" \/ (stage = "throttle" /\ c \in round))

QueuesInOrder == \A c \in Conns : InOrder(sent[c], obuffer[c], asked)
QueuesKnown ==
  \A c \in Conns : /\ throttle[c] => c \in ToSet(throttled) /\ Live(c)
                   /\ obuffer[c] # <<>> => throttle[c]
ClosedUnlessLive == \A c \in Conns : ~Live(c) => sock[c] = "closed"
QueuesCurrent == \A c \in Conns : Current(obuffer[c], epoch[c]) \/ Stale(c)
RoundKnown == stage = "poll" => \A c \in round : Live(c) /\ sock[c] # "closed"

IrcInv ==
  /\ IrcTypeOK
  /\ QueuesInOrder
  /\ QueuesKnown
  /\ ClosedUnlessLive
  /\ QueuesCurrent
  /\ RoundKnown

LEMMA IrcInvImplies == IrcInv => LinesInOrder
<1> SUFFICES ASSUME IrcInv, NEW c \in Conns, NEW i \in DOMAIN sent[c]
             PROVE  /\ sent[c][i].asked = sent[c][i].written
                    /\ \A j \in 1..(i - 1) : sent[c][j].id < sent[c][i].id
  BY DEF LinesInOrder
<1>1. sent[c] \in Seq(SentLine) /\ InOrder(sent[c], obuffer[c], asked)
  BY DEF IrcInv, IrcTypeOK, QueuesInOrder
<1>2. i \in Nat /\ \A j \in 1..(i - 1) : j \in DOMAIN sent[c] /\ j < i
  BY <1>1
<1> QED BY <1>1, <1>2 DEF InOrder

LEMMA IrcInitInv == IrcInit => IrcInv
<1> SUFFICES ASSUME IrcInit PROVE IrcInv
  OBVIOUS
<1>1. IrcTypeOK
  BY IrcAssumption DEF IrcInit, IrcTypeOK, SockStates
<1>2. DOMAIN <<>> = {}
  OBVIOUS
<1>3. \A c \in Conns : sent[c] = <<>> /\ obuffer[c] = <<>> /\ ~throttle[c] /\ sock[c] = "closed"
  BY DEF IrcInit
<1>4. QueuesInOrder /\ QueuesCurrent
  BY <1>2, <1>3 DEF QueuesInOrder, QueuesCurrent, InOrder, Current
<1>5. stage = "due"
  BY DEF IrcInit
<1> QED BY <1>1, <1>3, <1>4, <1>5 DEF IrcInv, QueuesKnown, ClosedUnlessLive, RoundKnown

\* Without a poll under way, all queues are those of their connections.
LEMMA IdleIsCurrent ==
  ASSUME IrcInv, NEW c \in Conns, Idle \/ sock[c] # "closed"
  PROVE  Current(obuffer[c], epoch[c])
BY DEF IrcInv, QueuesCurrent, Stale, Idle

\* What may come of sending a line of c, when users have done m things.
SendResult(c, now, m) ==
  /\ \E st \in SockStates : /\ sock' = [sock EXCEPT ![c] = st]
                            /\ st = now \/ (now = "connected" /\ st = "dropped")
  /\ ServerOK'
  /\ obuffer' \in [Conns -> Seq(Line)]
  /\ \A d \in Conns : InOrder(sent'[d], obuffer'[d], m)
  /\ \A d \in Conns : obuffer'[d] # <<>> => throttle[d]
  /\ \A d \in Conns : Current(obuffer[d], epoch[d]) => Current(obuffer'[d], epoch[d])

\* A line that is written at once.
LEMMA WriteOne ==
  ASSUME IrcInv, NEW c \in Conns, NEW now \in SockStates, NEW l \in Line, l.epoch = epoch[c],
         NEW m \in {asked, asked + 1}, l.kind = "user" => l.id = asked + 1 /\ m = asked + 1,
         ~throttle[c], Write(c, now, <<l>>), UNCHANGED obuffer
  PROVE  SendResult(c, now, m)
<1>1. IrcTypeOK /\ <<l>> \in Seq(Line) /\ Len(<<l>>) = 1 /\ <<l>>[1] = l
  BY DEF IrcInv
<1>2. WriteResult(c, now, <<l>>)
  BY <1>1, WriteFacts
<1>3. PICK new \in Seq(SentLine) : /\ sent' = [sent EXCEPT ![c] = @ \o new]
                                   /\ Written(new, <<l>>, epoch[c])
  BY <1>2 DEF WriteResult
<1>4. /\ obuffer[c] = <<>> /\ asked \in Nat /\ m \in Nat /\ asked <= m
      /\ sent \in [Conns -> Seq(SentLine)] /\ obuffer \in [Conns -> Seq(Line)] /\ epoch[c] \in 0..1
  BY <1>1, IrcAssumption DEF IrcInv, IrcTypeOK, QueuesKnown
<1>5. \A d \in Conns : InOrder(sent[d], obuffer[d], asked)
  BY DEF IrcInv, QueuesInOrder
<1>6. InOrder(sent[c] \o new, <<>>, m)
  <2>1. InOrder(sent[c], <<>> \o <<l>>, m)
    BY <1>4, <1>5, InOrderAppended
  <2>2. <<>> \o <<l>> = <<l>>
    BY <1>1, ConcatEmptySeq
  <2>3. SubSeq(<<l>>, 1, 1) = <<l>> /\ SubSeq(<<l>>, 1 + 1, Len(<<l>>)) = <<>>
    <3>1. SubSeq(<<l>>, 1, Len(<<l>>)) = <<l>>
      BY <1>1, SubSeqFull
    <3>2. SubSeq(<<l>>, 2, 1) = <<>>
      BY SubSeqEmpty
    <3> QED BY <1>1, <3>1, <3>2
  <2>4. 1 \in 0..Len(<<l>>) /\ \A i \in 1..1 : <<l>>[i].epoch = epoch[c]
    BY <1>1
  <2>5. Written(new, SubSeq(<<l>>, 1, 1), epoch[c]) /\ InOrder(sent[c], <<l>>, m)
    BY <1>3, <2>1, <2>2, <2>3
  <2>6. InOrder(sent[c] \o new, SubSeq(<<l>>, 1 + 1, Len(<<l>>)), m)
    BY <1>1, <1>4, <2>4, <2>5, InOrderWritten
  <2> QED BY <2>3, <2>6
<1>7. ASSUME NEW d \in Conns
      PROVE  InOrder(sent'[d], obuffer'[d], m)
  <2>1. CASE d = c
    BY <1>3, <1>4, <1>6, <2>1
  <2>2. CASE d # c
    <3>1. sent'[d] = sent[d] /\ obuffer'[d] = obuffer[d]
      BY <1>3, <1>4, <2>2
    <3> QED BY <1>4, <1>5, <3>1, InOrderLater
  <2> QED BY <2>1, <2>2
<1> QED BY <1>2, <1>4, <1>7 DEF SendResult, WriteResult, IrcInv, QueuesKnown

\* A line that is put into the queue of a throttled connection: q is the new queue.
LEMMA QueueOne ==
  ASSUME IrcInv, NEW c \in Conns, NEW now \in SockStates, NEW l \in Line, l.epoch = epoch[c],
         NEW m \in {asked, asked + 1}, l.kind = "user" => l.id = asked + 1 /\ m = asked + 1,
         throttle[c], NEW q,
         q = obuffer[c] \o <<l>> \/ (q = <<l>> \o obuffer[c] /\ l.kind # "user"),
         obuffer' = [obuffer EXCEPT ![c] = q],
         sock' = [sock EXCEPT ![c] = now], UNCHANGED server
  PROVE  SendResult(c, now, m)
<1>1. /\ asked \in Nat /\ m \in Nat /\ asked <= m
      /\ sent \in [Conns -> Seq(SentLine)] /\ obuffer \in [Conns -> Seq(Line)]
      /\ sent' = sent /\ ServerOK'
  BY IrcAssumption DEF IrcInv, IrcTypeOK, ServerOK, server
<1>2. \A d \in Conns : InOrder(sent[d], obuffer[d], asked)
  BY DEF IrcInv, QueuesInOrder
<1>3. q \in Seq(Line) /\ InOrder(sent[c], q, m)
  <2>1. CASE q = obuffer[c] \o <<l>>
    BY <1>1, <1>2, <2>1, InOrderAppended
  <2>2. CASE q = <<l>> \o obuffer[c] /\ l.kind # "user"
    <3>1. InOrder(sent[c], q, asked) /\ q \in Seq(Line)
      BY <1>1, <1>2, <2>2, InOrderPrepended
    <3> QED BY <1>1, <3>1, InOrderLater
  <2> QED BY <2>1, <2>2
<1>4. Current(obuffer[c], epoch[c]) => Current(q, epoch[c])
  <2>1. obuffer[c] \in Seq(Line) /\ <<l>> \in Seq(Line) /\ Len(<<l>>) = 1 /\ <<l>>[1] = l
    BY <1>1
  <2>2. \A i \in DOMAIN q : q[i] = l \/ \E j \in DOMAIN obuffer[c] : q[i] = obuffer[c][j]
    <3> DEFINE o == obuffer[c]
    <3>1. o \in Seq(Line)
      BY <2>1
    <3> HIDE DEF o
    <3>2. \A i \in DOMAIN (o \o <<l>>) : (o \o <<l>>)[i] = l \/ \E j \in DOMAIN o : (o \o <<l>>)[i] = o[j]
      BY <3>1
    <3>3. \A i \in DOMAIN (<<l>> \o o) : (<<l>> \o o)[i] = l \/ \E j \in DOMAIN o : (<<l>> \o o)[i] = o[j]
      BY <3>1
    <3> QED BY <3>2, <3>3 DEF o
  <2> QED BY <2>2 DEF Current
<1>5. \A d \in Conns : obuffer'[d] = IF d = c THEN q ELSE obuffer[d]
  BY <1>1
<1>6. obuffer' \in [Conns -> Seq(Line)]
  BY <1>1, <1>3
<1>7. ASSUME NEW d \in Conns
      PROVE  InOrder(sent'[d], obuffer'[d], m)
  BY <1>1, <1>2, <1>3, <1>5, InOrderLater
<1>8. \A d \in Conns : obuffer'[d] # <<>> => throttle[d]
  BY <1>5 DEF IrcInv, QueuesKnown
<1>9. \A d \in Conns : Current(obuffer[d], epoch[d]) => Current(obuffer'[d], epoch[d])
  BY <1>4, <1>5
<1> QED BY <1>1, <1>6, <1>7, <1>8, <1>9 DEF SendResult

LEMMA IrcSendFacts ==
  ASSUME IrcInv, NEW c \in Conns, NEW now \in SockStates, NEW l \in Line, l.epoch = epoch[c],
         NEW m \in {asked, asked + 1}, l.kind = "user" => l.id = asked + 1 /\ m = asked + 1,
         IrcSend(c, now, <<l>>)
  PROVE  SendResult(c, now, m)
<1>1. CASE throttle[c]
  <2> DEFINE q == obuffer[c] \o <<l>>
  <2>1. obuffer' = [obuffer EXCEPT ![c] = q] /\ sock' = [sock EXCEPT ![c] = now] /\ UNCHANGED server
    BY <1>1 DEF IrcSend
  <2>2. q = obuffer[c] \o <<l>>
    OBVIOUS
  <2> HIDE DEF q
  <2> QED BY <1>1, <2>1, <2>2, QueueOne
<1>2. CASE ~throttle[c]
  <2>1. Write(c, now, <<l>>) /\ UNCHANGED obuffer
    BY <1>2 DEF IrcSend
  <2> QED BY <1>2, <2>1, WriteOne
<1> QED BY <1>1, <1>2

LEMMA IrcSendFirstFacts ==
  ASSUME IrcInv, NEW c \in Conns, NEW l \in Line, l.epoch = epoch[c], l.kind # "user",
         IrcSendFirst(c, l)
  PROVE  SendResult(c, sock[c], asked)
<1>1. sock[c] \in SockStates /\ sock \in [Conns -> SockStates]
  BY DEF IrcInv, IrcTypeOK
<1>2. CASE throttle[c]
  <2> DEFINE q == <<l>> \o obuffer[c]
  <2>1. obuffer' = [obuffer EXCEPT ![c] = q] /\ sock' = sock /\ UNCHANGED server
    BY <1>2 DEF IrcSendFirst
  <2>2. q = <<l>> \o obuffer[c]
    OBVIOUS
  <2> HIDE DEF q
  <2>3. sock' = [sock EXCEPT ![c] = sock[c]]
    BY <1>1, <2>1
  <2> QED BY <1>1, <1>2, <2>1, <2>2, <2>3, QueueOne
<1>3. CASE ~throttle[c]
  <2>1. Write(c, sock[c], <<l>>) /\ UNCHANGED obuffer
    BY <1>3 DEF IrcSendFirst
  <2> QED BY <1>1, <1>3, <2>1, WriteOne
<1> QED BY <1>2, <1>3

-----------------------------------------------------------------------------
(* Every operation of a connection keeps the invariant.                    *)

\* A step that sends a line of c, by itself or when the poll timer comes to c.
LEMMA SendInv ==
  ASSUME IrcInv, NEW c \in Conns, NEW now \in SockStates, SendResult(c, now, asked'),
         Live(c), Idle \/ sock[c] # "closed", asked' \in 0..MaxUser,
         UNCHANGED <<memory, epoch, throttle, debt, throttled, stage>>,
         round' \subseteq round, \A d \in round : d # c => d \in round',
         stage = "poll" => c \notin round'
  PROVE  IrcInv'
<1>1. PICK st \in SockStates : sock' = [sock EXCEPT ![c] = st]
  BY DEF SendResult
<1>2. IrcTypeOK
  BY DEF IrcInv
<1>3. sock' \in [Conns -> SockStates] /\ \A d \in Conns : d # c => sock'[d] = sock[d]
  BY <1>1, <1>2 DEF IrcTypeOK
<1>4. IrcTypeOK'
  BY <1>2, <1>3 DEF IrcTypeOK, SendResult, ServerOK
<1>5. QueuesInOrder'
  BY DEF SendResult, QueuesInOrder
<1>6. QueuesKnown'
  BY DEF IrcInv, SendResult, QueuesKnown, Live
<1>7. ClosedUnlessLive'
  BY <1>3 DEF IrcInv, ClosedUnlessLive, Live
<1>8. ASSUME NEW d \in Conns
      PROVE  Current(obuffer'[d], epoch'[d]) \/ Stale(d)'
  <2>1. CASE d = c
    <3>1. Current(obuffer[c], epoch[c])
      BY IdleIsCurrent
    <3> QED BY <2>1, <3>1 DEF SendResult
  <2>2. CASE d # c
    <3>1. Stale(d) => Stale(d)'
      BY <1>3, <2>2 DEF Stale
    <3>2. Current(obuffer[d], epoch[d]) \/ Stale(d)
      BY DEF IrcInv, QueuesCurrent
    <3> QED BY <3>1, <3>2 DEF SendResult
  <2> QED BY <2>1, <2>2
<1>9. RoundKnown'
  BY <1>2, <1>3 DEF IrcInv, RoundKnown, Live, IrcTypeOK
<1> QED BY <1>4, <1>5, <1>6, <1>7, <1>8, <1>9 DEF IrcInv, QueuesCurrent

LEMMA NewLineType ==
  ASSUME IrcTypeOK, NEW c \in Conns,
         NEW kind \in {"auth", "user", "pong", "ping", "perform"}, NEW id \in Nat
  PROVE  /\ NewLine(c, kind, id) \in Line /\ NewLine(c, kind, id).epoch = epoch[c]
         /\ NewLine(c, kind, id).kind = kind /\ NewLine(c, kind, id).id = id
BY DEF IrcTypeOK, NewLine, Line

\* The other steps of the poll timer and of c leave the sockets and queues alone.
LEMMA QuietInv ==
  ASSUME IrcInv, ServerOK', sent' = sent, UNCHANGED <<memory, epoch, queue, stage>>,
         asked' \in 0..MaxUser, asked <= asked', round' \subseteq round,
         sock' \in [Conns -> SockStates],
         \A d \in Conns : (sock'[d] = "closed") <=> (sock[d] = "closed"),
         \A d \in Conns : Stale(d) => stage = "poll" \/ d \in round'
  PROVE  IrcInv'
<1>1. IrcTypeOK
  BY DEF IrcInv
<1>2. IrcTypeOK'
  BY <1>1 DEF IrcTypeOK, ServerOK, queue
<1>3. \A d \in Conns : sent[d] \in Seq(SentLine) /\ obuffer[d] \in Seq(Line)
  BY <1>1 DEF IrcTypeOK
<1>4. asked \in Nat /\ asked' \in Nat
  BY <1>1, IrcAssumption DEF IrcTypeOK
<1>5. QueuesInOrder'
  BY <1>3, <1>4, InOrderLater DEF IrcInv, QueuesInOrder, queue
<1>6. \A d \in Conns : Stale(d) => Stale(d)'
  BY DEF Stale
<1> QED BY <1>2, <1>5, <1>6 DEF IrcInv, QueuesKnown, QueuesCurrent, ClosedUnlessLive, RoundKnown,
                                Live, queue, IrcTypeOK

LEMMA SameIrc ==
  ASSUME IrcInv, UNCHANGED ircVars
  PROVE  IrcInv'
<1>1. IrcTypeOK'
  BY DEF IrcInv, IrcTypeOK, ircVars, link, queue, server, poll
<1>2. QueuesInOrder' /\ QueuesKnown' /\ ClosedUnlessLive' /\ QueuesCurrent' /\ RoundKnown'
  BY DEF IrcInv, QueuesInOrder, QueuesKnown, ClosedUnlessLive, QueuesCurrent, RoundKnown, Stale, Live,
         ircVars, link, queue, server, poll
<1> QED BY <1>1, <1>2 DEF IrcInv

LEMMA CreateInv ==
  ASSUME IrcInv, NEW c \in Conns, NEW th \in BOOLEAN, Idle, CreatePart(c, th)
  PROVE  IrcInv'
<1>1. IrcTypeOK
  BY DEF IrcInv
<1>2. PICK s \in {"connecting", "connected"} : sock' = [sock EXCEPT ![c] = s]
  BY DEF CreatePart
<1>3. /\ sock' \in [Conns -> SockStates] /\ memory' \in [Conns -> {"unused", "live", "freed"}]
      /\ \A d \in Conns : sock'[d] = IF d = c THEN s ELSE sock[d]
      /\ \A d \in Conns : memory'[d] = IF d = c THEN "live" ELSE memory[d]
  BY <1>1, <1>2 DEF CreatePart, IrcTypeOK, SockStates
<1>4. /\ throttle' \in [Conns -> BOOLEAN] /\ obuffer' \in [Conns -> Seq(Line)]
      /\ debt' \in [Conns -> Nat] /\ throttled' \in Seq(Conns)
      /\ \A d \in Conns : /\ obuffer'[d] = obuffer[d] \/ obuffer'[d] = <<>>
                          /\ throttle'[d] => throttle[d] \/ d = c
                          /\ obuffer'[d] # <<>> => throttle'[d]
                          /\ throttle'[d] => d \in ToSet(throttled')
  <2>1. throttled \in Seq(Conns) /\ obuffer \in [Conns -> Seq(Line)] /\ throttle \in [Conns -> BOOLEAN]
        /\ debt \in [Conns -> Nat] /\ <<>> \in Seq(Line)
    BY <1>1 DEF IrcTypeOK
  <2>2. CASE ~th
    BY <2>1, <2>2 DEF CreatePart, queue, IrcInv, QueuesKnown
  <2>3. CASE th
    <3>1. /\ throttle' = [throttle EXCEPT ![c] = TRUE] /\ obuffer' = [obuffer EXCEPT ![c] = <<>>]
          /\ debt' = [debt EXCEPT ![c] = 0] /\ throttled' = Append(throttled, c)
      BY <2>3 DEF CreatePart, EnableThrottle
    <3>2. /\ throttled' \in Seq(Conns) /\ c \in ToSet(throttled')
          /\ \A d \in ToSet(throttled) : d \in ToSet(throttled')
      <4> DEFINE t == throttled
      <4>1. t \in Seq(Conns)
        BY <2>1
      <4> HIDE DEF t
      <4>2. Append(t, c) \in Seq(Conns) /\ Len(Append(t, c)) = Len(t) + 1 /\ Len(t) \in Nat
            /\ Append(t, c)[Len(t) + 1] = c /\ \A i \in 1..Len(t) : Append(t, c)[i] = t[i]
        BY <4>1, AppendProperties
      <4>3. DOMAIN t = 1..Len(t) /\ DOMAIN Append(t, c) = 1..(Len(t) + 1)
        BY <4>1, <4>2
      <4>4. c \in ToSet(Append(t, c)) /\ ToSet(t) \subseteq ToSet(Append(t, c))
        BY <4>2, <4>3 DEF ToSet
      <4> QED BY <3>1, <4>2, <4>4 DEF t
    <3>3. /\ throttle' \in [Conns -> BOOLEAN] /\ obuffer' \in [Conns -> Seq(Line)]
          /\ debt' \in [Conns -> Nat]
      BY <2>1, <3>1
    <3>4. \A d \in Conns : /\ obuffer'[d] = IF d = c THEN <<>> ELSE obuffer[d]
                           /\ throttle'[d] = IF d = c THEN TRUE ELSE throttle[d]
      BY <2>1, <3>1
    <3> QED BY <2>3, <3>2, <3>3, <3>4 DEF IrcInv, QueuesKnown
  <2> QED BY <2>2, <2>3
<1>5. IrcTypeOK'
  BY <1>1, <1>3, <1>4 DEF IrcTypeOK, CreatePart, server, poll
<1>6. \A d \in Conns : sent[d] \in Seq(SentLine) /\ obuffer[d] \in Seq(Line) /\ asked \in Nat
  BY <1>1, IrcAssumption DEF IrcTypeOK
<1>7. QueuesInOrder'
  BY <1>4, <1>6, InOrderEmptied DEF IrcInv, QueuesInOrder, CreatePart, server
<1>8. QueuesKnown'
  BY <1>3, <1>4 DEF IrcInv, QueuesKnown, Live
<1>9. QueuesCurrent'
  <2>1. \A d \in Conns : Current(obuffer[d], epoch[d]) /\ Current(<<>>, epoch[d])
    BY IdleIsCurrent DEF Current
  <2> QED BY <1>4, <2>1 DEF QueuesCurrent, CreatePart
<1>10. ClosedUnlessLive' /\ RoundKnown'
  BY <1>3 DEF IrcInv, ClosedUnlessLive, RoundKnown, Live, CreatePart, poll, Idle
<1> QED BY <1>5, <1>7, <1>8, <1>9, <1>10 DEF IrcInv

\* disableIrcConnectionThrottle empties the queue of c and forgets c.
LEMMA DisableThrottleFacts ==
  ASSUME IrcInv, NEW c \in Conns, DisableThrottle(c)
  PROVE  /\ throttle' \in [Conns -> BOOLEAN] /\ obuffer' \in [Conns -> Seq(Line)]
         /\ debt' \in [Conns -> Nat] /\ throttled' \in Seq(Conns)
         /\ obuffer'[c] = <<>> /\ ~throttle'[c]
         /\ \A d \in Conns : d # c => /\ obuffer'[d] = obuffer[d] /\ throttle'[d] = throttle[d]
                                      /\ d \in ToSet(throttled) => d \in ToSet(throttled')
<1>1. throttled \in Seq(Conns) /\ obuffer \in [Conns -> Seq(Line)] /\ throttle \in [Conns -> BOOLEAN]
      /\ debt \in [Conns -> Nat] /\ <<>> \in Seq(Line)
  BY DEF IrcInv, IrcTypeOK
<1> DEFINE I == {i \in DOMAIN throttled : throttled[i] # c}
<1>2. I \in SUBSET (1..Len(throttled)) /\ DOMAIN throttled = 1..Len(throttled)
  BY <1>1
<1>3. throttled' = Selected(throttled, I)
  BY DEF DisableThrottle
<1>4. \A d \in ToSet(throttled) : d # c => \E i \in I : throttled[i] = d
  BY DEF ToSet
<1> HIDE DEF I
<1>5. /\ Selected(throttled, I) \in Seq(Conns) /\ Len(Selected(throttled, I)) = Cardinality(I)
      /\ \A k \in I : \E i \in 1..Cardinality(I) : Selected(throttled, I)[i] = throttled[k]
  BY <1>1, <1>2, SelectedFacts
<1>6. DOMAIN throttled' = 1..Cardinality(I)
  BY <1>3, <1>5
<1>7. \A d \in ToSet(throttled) : d # c => d \in ToSet(throttled')
  BY <1>3, <1>4, <1>5, <1>6 DEF ToSet
<1> QED BY <1>1, <1>3, <1>5, <1>7 DEF DisableThrottle

LEMMA FreeInv ==
  ASSUME IrcInv, NEW c \in Conns, Idle, FreePart(c)
  PROVE  IrcInv'
<1>1. IrcTypeOK
  BY DEF IrcInv
<1>2. /\ sock' \in [Conns -> SockStates] /\ memory' \in [Conns -> {"unused", "live", "freed"}]
      /\ \A d \in Conns : sock'[d] = IF d = c THEN "closed" ELSE sock[d]
      /\ \A d \in Conns : memory'[d] = IF d = c THEN "freed" ELSE memory[d]
      /\ round' \subseteq round /\ stage' = stage /\ asked' = asked
  BY <1>1 DEF FreePart, IrcTypeOK, SockStates
<1>3. /\ throttle' \in [Conns -> BOOLEAN] /\ obuffer' \in [Conns -> Seq(Line)]
      /\ debt' \in [Conns -> Nat] /\ throttled' \in Seq(Conns)
      /\ obuffer'[c] = <<>> /\ ~throttle'[c]
      /\ \A d \in Conns : d # c => /\ obuffer'[d] = obuffer[d] /\ throttle'[d] = throttle[d]
                                   /\ d \in ToSet(throttled) => d \in ToSet(throttled')
  <2>1. CASE throttle[c]
    BY <2>1, DisableThrottleFacts DEF FreePart
  <2>2. CASE ~throttle[c]
    <3>1. UNCHANGED queue /\ obuffer[c] = <<>>
      BY <2>2 DEF FreePart, IrcInv, QueuesKnown
    <3> QED BY <1>1, <2>2, <3>1 DEF IrcTypeOK, queue
  <2> QED BY <2>1, <2>2
<1>4. IrcTypeOK'
  BY <1>1, <1>2, <1>3 DEF IrcTypeOK, FreePart, server
<1>5. \A d \in Conns : sent[d] \in Seq(SentLine) /\ obuffer[d] \in Seq(Line) /\ asked \in Nat
  BY <1>1, IrcAssumption DEF IrcTypeOK
<1>6. \A d \in Conns : obuffer'[d] = <<>> \/ obuffer'[d] = obuffer[d]
  BY <1>3
<1>7. QueuesInOrder'
  BY <1>2, <1>5, <1>6, InOrderEmptied DEF IrcInv, QueuesInOrder, FreePart, server
<1>8. QueuesKnown'
  BY <1>2, <1>3 DEF IrcInv, QueuesKnown, Live
<1>9. QueuesCurrent'
  <2>1. \A d \in Conns : Current(obuffer[d], epoch[d]) /\ Current(<<>>, epoch[d])
    BY IdleIsCurrent DEF Current
  <2> QED BY <1>6, <2>1 DEF QueuesCurrent, FreePart
<1>10. ClosedUnlessLive' /\ RoundKnown'
  BY <1>2 DEF IrcInv, ClosedUnlessLive, RoundKnown, Live, Idle
<1> QED BY <1>4, <1>7, <1>8, <1>9, <1>10 DEF IrcInv

LEMMA ReconnectPartInv ==
  ASSUME IrcInv, NEW c \in Conns, Idle, ReconnectPart(c)
  PROVE  /\ IrcInv'
         /\ sock'[c] # "closed" /\ \A d \in Conns : d # c => sock'[d] = sock[d]
<1>1. IrcTypeOK /\ Live(c) /\ sock \in [Conns -> SockStates]
  BY DEF IrcInv, ReconnectPart, IrcTypeOK
<1>2. /\ UNCHANGED <<memory, epoch, throttle, debt, throttled, stage>>
      /\ round' = round /\ asked' = asked /\ asked \in 0..MaxUser
      /\ stage = "poll" => c \notin round'
  BY <1>1 DEF ReconnectPart, poll, Idle, IrcTypeOK
<1>3. PICK now \in {"connecting", "connected"} : SendResult(c, now, asked')
  <2>1. CASE sock' = [sock EXCEPT ![c] = "connecting"] /\ UNCHANGED <<obuffer, server>>
    <3>1. ServerOK' /\ obuffer' = obuffer /\ sent' = sent
      BY <1>1, <2>1 DEF server, IrcTypeOK, ServerOK
    <3>2. SendResult(c, "connecting", asked')
      BY <1>1, <1>2, <2>1, <3>1 DEF SendResult, SockStates, IrcInv, IrcTypeOK, QueuesInOrder, QueuesKnown
    <3> QED BY <3>2
  <2>2. CASE IrcSend(c, "connected", <<NewLine(c, "auth", 0)>>)
    <3>1. SendResult(c, "connected", asked)
      BY <1>1, <2>2, NewLineType, IrcSendFacts DEF SockStates
    <3> QED BY <1>2, <3>1
  <2> QED BY <2>1, <2>2 DEF ReconnectPart
<1>4. now \in SockStates
  BY <1>3 DEF SockStates
<1>5. IrcInv'
  BY <1>1, <1>2, <1>3, <1>4, SendInv
<1>6. sock'[c] # "closed" /\ \A d \in Conns : d # c => sock'[d] = sock[d]
  BY <1>1, <1>3 DEF SendResult
<1> QED BY <1>5, <1>6

LEMMA UserSendsInv ==
  ASSUME IrcInv, NEW c \in Conns, UserSends(c)
  PROVE  /\ IrcInv'
         /\ \A d \in Conns : (sock'[d] = "closed") <=> (sock[d] = "closed")
<1>1. IrcTypeOK /\ Live(c) /\ Idle /\ sock \in [Conns -> SockStates] /\ sock[c] \in SockStates
  BY DEF IrcInv, UserSends, IrcTypeOK
<1>2. /\ UNCHANGED <<memory, epoch, throttle, debt, throttled, stage>>
      /\ round' = round
      /\ stage = "poll" => c \notin round'
  BY <1>1 DEF UserSends, poll, Idle, IrcTypeOK
<1>3. asked' = asked + 1 /\ asked' \in 0..MaxUser /\ asked + 1 \in Nat
  BY <1>1, IrcAssumption DEF UserSends, IrcTypeOK
<1>4. SendResult(c, sock[c], asked')
  BY <1>1, <1>3, NewLineType, IrcSendFacts DEF UserSends
<1>5. IrcInv'
  BY <1>1, <1>2, <1>3, <1>4, SendInv
<1>6. \A d \in Conns : (sock'[d] = "closed") <=> (sock[d] = "closed")
  BY <1>1, <1>4 DEF SendResult
<1> QED BY <1>5, <1>6

\* listener_ircConnected and listener_ircLine, and the plugin's PING.
LEMMA PollConnectedInv ==
  ASSUME IrcInv, NEW c \in Conns, PollConnected(c)
  PROVE  /\ IrcInv'
         /\ \A d \in Conns : (sock'[d] = "closed") <=> (sock[d] = "closed")
<1>1. IrcTypeOK /\ Live(c) /\ sock \in [Conns -> SockStates] /\ sock[c] = "connecting"
  BY DEF IrcInv, PollConnected, IrcTypeOK, Polling, RoundKnown
<1>2. /\ UNCHANGED <<memory, epoch, throttle, debt, throttled, stage>>
      /\ round' = round \ {c} /\ asked' = asked /\ asked \in 0..MaxUser
  BY <1>1 DEF PollConnected, Polled, IrcTypeOK
<1>3. SendResult(c, "connected", asked')
  BY <1>1, <1>2, NewLineType, IrcSendFacts DEF PollConnected, SockStates
<1>4. IrcInv'
  <2>1. "connected" \in SockStates
    BY DEF SockStates
  <2>2. round' \subseteq round /\ (\A d \in round : d # c => d \in round') /\ c \notin round'
    BY <1>2
  <2>3. asked' \in 0..MaxUser /\ sock[c] # "closed"
    BY <1>1, <1>2
  <2> QED BY <1>1, <1>2, <1>3, <2>1, <2>2, <2>3, SendInv
<1>5. \A d \in Conns : (sock'[d] = "closed") <=> (sock[d] = "closed")
  BY <1>1, <1>3 DEF SendResult
<1> QED BY <1>4, <1>5

LEMMA PingPartInv ==
  ASSUME IrcInv, NEW c \in Conns, PingPart(c)
  PROVE  /\ IrcInv'
         /\ \A d \in Conns : (sock'[d] = "closed") <=> (sock[d] = "closed")
<1>1. IrcTypeOK /\ Live(c) /\ sock \in [Conns -> SockStates] /\ sock[c] = "connected"
  BY DEF IrcInv, PingPart, LinePart, IrcTypeOK, Polling, RoundKnown
<1>2. /\ UNCHANGED <<memory, epoch, throttle, debt, throttled, stage>>
      /\ round' = round \ {c} /\ asked' = asked /\ asked \in 0..MaxUser
  BY <1>1 DEF PingPart, LinePart, Polled, IrcTypeOK
<1>3. SendResult(c, sock[c], asked')
  BY <1>1, <1>2, NewLineType, IrcSendFirstFacts DEF PingPart
<1>4. IrcInv'
  BY <1>1, <1>2, <1>3, SendInv DEF SockStates
<1>5. \A d \in Conns : (sock'[d] = "closed") <=> (sock[d] = "closed")
  BY <1>1, <1>3 DEF SendResult
<1> QED BY <1>4, <1>5

LEMMA PlaysPing ==
  ASSUME IrcInv, NEW c \in Conns, NEW id \in Nat, Idle, Live(c), sock[c] = "connected",
         IrcSendFirst(c, NewLine(c, "ping", id)),
         UNCHANGED <<memory, epoch, throttle, debt, throttled, asked, poll>>
  PROVE  /\ IrcInv'
         /\ \A d \in Conns : (sock'[d] = "closed") <=> (sock[d] = "closed")
<1>1. IrcTypeOK /\ sock \in [Conns -> SockStates]
  BY DEF IrcInv, IrcTypeOK
<1>2. /\ UNCHANGED <<memory, epoch, throttle, debt, throttled, stage>>
      /\ round' = round /\ asked' = asked /\ asked \in 0..MaxUser
      /\ stage = "poll" => c \notin round'
  BY <1>1 DEF poll, Idle, IrcTypeOK
<1>3. SendResult(c, sock[c], asked')
  BY <1>1, <1>2, NewLineType, IrcSendFirstFacts
<1>4. IrcInv'
  BY <1>1, <1>2, <1>3, SendInv DEF SockStates
<1>5. \A d \in Conns : (sock'[d] = "closed") <=> (sock[d] = "closed")
  BY <1>1, <1>3 DEF SendResult
<1> QED BY <1>4, <1>5

\* The socket's event "disconnect": what waits in the queue is stale now.
LEMMA PollDisconnectPartInv ==
  ASSUME IrcInv, NEW c \in Conns, PollDisconnectPart(c)
  PROVE  IrcInv'
<1>1. IrcTypeOK /\ stage = "poll" /\ stage' = stage /\ round' = round \ {c}
  BY DEF IrcInv, PollDisconnectPart, Polling, Polled
<1>2. /\ sock' \in [Conns -> SockStates] /\ epoch' \in [Conns -> 0..1]
      /\ \A d \in Conns : sock'[d] = IF d = c THEN "closed" ELSE sock[d]
      /\ \A d \in Conns : d # c => epoch'[d] = epoch[d]
  <2>1. sock \in [Conns -> SockStates] /\ epoch \in [Conns -> 0..1] /\ "closed" \in SockStates
    BY <1>1 DEF IrcTypeOK, SockStates
  <2>2. sock' = [sock EXCEPT ![c] = "closed"] /\ epoch' = [epoch EXCEPT ![c] = (@ + 1) % 2]
    BY DEF PollDisconnectPart
  <2>3. (epoch[c] + 1) % 2 \in 0..1
    BY <2>1
  <2> QED BY <2>1, <2>2, <2>3
<1>3. IrcTypeOK'
  BY <1>1, <1>2 DEF IrcTypeOK, PollDisconnectPart, queue
<1>4. QueuesInOrder' /\ QueuesKnown'
  BY DEF IrcInv, QueuesInOrder, QueuesKnown, PollDisconnectPart, queue, Live
<1>5. ClosedUnlessLive' /\ RoundKnown'
  BY <1>1, <1>2 DEF IrcInv, ClosedUnlessLive, RoundKnown, PollDisconnectPart, Live, IrcTypeOK
<1>6. QueuesCurrent'
  BY <1>1, <1>2 DEF IrcInv, QueuesCurrent, Stale, PollDisconnectPart, queue
<1> QED BY <1>3, <1>4, <1>5, <1>6 DEF IrcInv

\* The stages of the poll timer.
LEMMA StagesInv ==
  ASSUME IrcInv, StartPoll \/ SocketsPolled \/ EndPoll
  PROVE  IrcInv'
<1>1. IrcTypeOK /\ UNCHANGED <<link, queue, server, asked>>
  BY DEF IrcInv, StartPoll, SocketsPolled, EndPoll
<1>2. throttled \in Seq(Conns)
  BY <1>1 DEF IrcTypeOK
<1>3. ToSet(throttled) \subseteq Conns
  <2>1. \A i \in DOMAIN throttled : throttled[i] \in Conns
    BY <1>2
  <2> QED BY <2>1 DEF ToSet
<1>4. IrcTypeOK'
  BY <1>1, <1>3 DEF IrcTypeOK, link, queue, server, StartPoll, SocketsPolled, EndPoll
<1>5. QueuesInOrder' /\ QueuesKnown' /\ ClosedUnlessLive'
  BY <1>1 DEF IrcInv, QueuesInOrder, QueuesKnown, ClosedUnlessLive, Live, link, queue, server
<1>6. RoundKnown'
  BY <1>1 DEF IrcInv, RoundKnown, StartPoll, SocketsPolled, EndPoll, Live, link
<1>7. ASSUME NEW c \in Conns
      PROVE  Current(obuffer'[c], epoch'[c]) \/ Stale(c)'
  <2>1. obuffer'[c] = obuffer[c] /\ epoch'[c] = epoch[c] /\ sock'[c] = sock[c]
    BY <1>1 DEF link, queue
  <2>2. CASE Current(obuffer[c], epoch[c])
    BY <2>1, <2>2
  <2>3. CASE ~Current(obuffer[c], epoch[c])
    <3>1. Stale(c)
      BY <2>3 DEF IrcInv, QueuesCurrent
    <3>2. obuffer[c] # <<>>
      BY <2>3 DEF Current
    <3>3. c \in ToSet(throttled)
      BY <3>2 DEF IrcInv, QueuesKnown
    <3>4. SocketsPolled
      BY <3>1 DEF Stale, StartPoll, EndPoll
    <3> QED BY <2>1, <3>1, <3>3, <3>4 DEF Stale, SocketsPolled
  <2> QED BY <2>2, <2>3
<1> QED BY <1>4, <1>5, <1>6, <1>7 DEF IrcInv, QueuesCurrent

LEMMA TickPartInv ==
  ASSUME IrcInv, TickPart
  PROVE  IrcInv'
<1>1. IrcTypeOK
  BY DEF IrcInv
<1>2. debt' \in [Conns -> Nat]
  <2>1. ASSUME NEW c \in Conns
        PROVE  Max({debt[c] - 1, 0}) \in Nat
    <3> DEFINE n == debt[c] - 1
    <3>1. n \in Int
      BY <1>1 DEF IrcTypeOK
    <3> HIDE DEF n
    <3>2. \E x \in {n, 0} : \A y \in {n, 0} : x >= y
      BY <3>1
    <3>3. Max({n, 0}) \in {n, 0} /\ \A y \in {n, 0} : Max({n, 0}) >= y
      BY <3>2, Zenon DEF Max
    <3>4. Max({n, 0}) \in Nat
      BY <3>1, <3>3
    <3> QED BY <3>4 DEF n
  <2> QED BY <2>1 DEF TickPart
<1>3. IrcTypeOK'
  BY <1>1, <1>2 DEF IrcTypeOK, TickPart, link, server
<1>4. QueuesInOrder' /\ QueuesKnown' /\ ClosedUnlessLive' /\ RoundKnown'
  BY DEF IrcInv, QueuesInOrder, QueuesKnown, ClosedUnlessLive, RoundKnown, Live, link, server, TickPart
<1>5. QueuesCurrent'
  <2>1. Idle
    BY DEF TickPart, Idle
  <2>2. \A c \in Conns : Current(obuffer[c], epoch[c])
    BY <2>1, IdleIsCurrent
  <2> QED BY <2>2 DEF QueuesCurrent, TickPart, link
<1> QED BY <1>3, <1>4, <1>5 DEF IrcInv

-----------------------------------------------------------------------------
(* The throttle.                                                           *)

LEMMA AffordableFacts ==
  ASSUME IrcTypeOK, NEW c \in Conns
  PROVE  Affordable(c) \in 0..Len(obuffer[c])
<1> DEFINE n == Len(obuffer[c])
           Over(k) == debt[c] + k * Penalty >= Limit
           Ends == {k \in 0..n : k = n \/ Over(k)}
<1>1. n \in Nat /\ debt[c] \in Nat /\ Penalty \in Nat /\ Limit \in Nat
  <2>1. obuffer[c] \in Seq(Line)
    BY DEF IrcTypeOK
  <2>2. n \in Nat
    BY <2>1
  <2> QED BY <2>2, IrcAssumption DEF IrcTypeOK
<1>2. \A i \in Nat : ~Over(i) => debt[c] + i * Penalty < Limit
  <2>1. \A i \in Nat : i * Penalty \in Nat
    BY <1>1
  <2> QED BY <1>1, <2>1
<1> HIDE DEF n, Over
<1>3. PICK k \in Ends : \A j \in Ends : k <= j
  <2>1. n \in Ends /\ Ends \subseteq Nat
    BY <1>1
  <2> QED BY <2>1, LeastOf
<1>4. \A i \in 0..(k - 1) : i \in Nat /\ i \in 0..n /\ i < k
  BY <1>1, <1>3
<1>5. \A i \in 0..(k - 1) : ~Over(i)
  BY <1>3, <1>4
<1>6. /\ \A i \in 0..(k - 1) : debt[c] + i * Penalty < Limit
      /\ k < n => debt[c] + k * Penalty >= Limit
  BY <1>1, <1>2, <1>3, <1>4, <1>5 DEF Over
<1>7. \E x \in 0..n : /\ \A i \in 0..(x - 1) : debt[c] + i * Penalty < Limit
                      /\ x < n => debt[c] + x * Penalty >= Limit
  BY <1>3, <1>6
<1> QED BY <1>7, Zenon DEF Affordable, n

\* What listener_throttlePoll writes or drops leaves the queue in order.
LEMMA ThrottleStepInv ==
  ASSUME IrcInv, NEW c \in Conns, ThrottleStep(c)
  PROVE  /\ IrcInv'
         /\ \A d \in Conns : (sock'[d] = "closed") <=> (sock[d] = "closed")
<1>1. /\ IrcTypeOK /\ stage = "throttle" /\ c \in round
      /\ UNCHANGED <<memory, epoch, asked, stage>> /\ round' = round \ {c}
  BY DEF IrcInv, ThrottleStep, Polled
<1>2. /\ sock \in [Conns -> SockStates] /\ sent \in [Conns -> Seq(SentLine)]
      /\ obuffer \in [Conns -> Seq(Line)] /\ asked \in Nat /\ epoch[c] \in 0..1
  BY <1>1, IrcAssumption DEF IrcTypeOK
<1>3. \A d \in Conns : InOrder(sent[d], obuffer[d], asked)
  BY DEF IrcInv, QueuesInOrder
<1>4. CASE ThrottleEnds(c)
  <2>1. DisableThrottle(c) /\ UNCHANGED <<sock, server>>
    BY <1>4 DEF ThrottleStep, ThrottlePoll
  <2>2. /\ throttle' \in [Conns -> BOOLEAN] /\ obuffer' \in [Conns -> Seq(Line)]
        /\ debt' \in [Conns -> Nat] /\ throttled' \in Seq(Conns)
        /\ obuffer'[c] = <<>> /\ ~throttle'[c]
        /\ \A d \in Conns : d # c => /\ obuffer'[d] = obuffer[d] /\ throttle'[d] = throttle[d]
                                     /\ d \in ToSet(throttled) => d \in ToSet(throttled')
    BY <2>1, DisableThrottleFacts
  <2>3. IrcTypeOK'
    BY <1>1, <2>1, <2>2 DEF IrcTypeOK, server
  <2>4. QueuesInOrder'
    <3>1. \A d \in Conns : obuffer'[d] = <<>> \/ obuffer'[d] = obuffer[d]
      BY <2>2
    <3> QED BY <1>1, <1>2, <1>3, <2>1, <3>1, InOrderEmptied DEF QueuesInOrder, server
  <2>5. QueuesKnown'
    BY <1>1, <2>2 DEF IrcInv, QueuesKnown, Live
  <2>6. ClosedUnlessLive' /\ RoundKnown'
    BY <1>1, <2>1 DEF IrcInv, ClosedUnlessLive, RoundKnown, Live
  <2>7. ASSUME NEW d \in Conns
        PROVE  Current(obuffer'[d], epoch'[d]) \/ Stale(d)'
    <3>1. CASE d = c
      BY <2>2, <3>1 DEF Current
    <3>2. CASE d # c
      BY <1>1, <2>1, <2>2, <3>2 DEF IrcInv, QueuesCurrent, Stale
    <3> QED BY <3>1, <3>2
  <2> QED BY <2>1, <2>3, <2>4, <2>5, <2>6, <2>7 DEF IrcInv, QueuesCurrent
<1>5. CASE ~ThrottleEnds(c)
  <2> DEFINE k == Affordable(c)
             o == obuffer[c]
             a == SubSeq(o, 1, k)
             b == SubSeq(o, k + 1, Len(o))
  <2>1. /\ Write(c, sock[c], a) /\ obuffer' = [obuffer EXCEPT ![c] = b]
        /\ debt' = [debt EXCEPT ![c] = @ + k * Penalty]
        /\ UNCHANGED <<throttle, throttled>>
    BY <1>5 DEF ThrottleStep, ThrottlePoll
  <2>2. k \in 0..Len(o) /\ o \in Seq(Line) /\ k \in Nat
    <3>1. o \in Seq(Line) /\ Len(o) \in Nat
      BY <1>2
    <3>2. k \in 0..Len(o)
      BY <1>1, AffordableFacts
    <3> QED BY <3>1, <3>2
  <2>3. sock[c] = "connected"
    BY <1>5 DEF ThrottleEnds
  <2> HIDE DEF k
  <2>4. a \in Seq(Line)
    <3>1. \A i \in 1..k : o[i] \in Line
      BY <2>2
    <3> QED BY <2>2, <3>1, SubSeqProperties
  <2>5. \A i \in 1..k : i \in DOMAIN o
    BY <2>2
  <2> HIDE DEF a
  <2>6. WriteResult(c, sock[c], a)
    BY <1>1, <1>2, <2>1, <2>4, WriteFacts
  <2>7. PICK new \in Seq(SentLine) : /\ sent' = [sent EXCEPT ![c] = @ \o new]
                                     /\ Written(new, a, epoch[c])
    BY <2>6 DEF WriteResult
  <2>8. Current(o, epoch[c])
    BY <2>3, IdleIsCurrent
  <2>9. \A i \in 1..k : o[i].epoch = epoch[c]
    BY <2>5, <2>8 DEF Current
  <2>10. /\ InOrder(sent[c] \o new, b, asked)
         /\ b \in Seq(Line) /\ sent[c] \o new \in Seq(SentLine)
    <3> HIDE DEF o
    <3>1. InOrder(sent[c], o, asked) /\ sent[c] \in Seq(SentLine)
      BY <1>2, <1>3 DEF o
    <3>2. Written(new, SubSeq(o, 1, k), epoch[c])
      BY <2>7 DEF a
    <3> QED BY <1>2, <2>2, <2>9, <3>1, <3>2, InOrderWritten
  <2>11. Current(b, epoch[c])
    <3>1. \A i \in (k + 1)..Len(o) : o[i] \in Line
      BY <2>2
    <3>2. Len(o) \in Nat
      BY <2>2
    <3>3. /\ Len(b) = IF k + 1 <= Len(o) THEN Len(o) - (k + 1) + 1 ELSE 0
          /\ \A i \in 1..(Len(o) - (k + 1) + 1) : b[i] = o[k + 1 + i - 1]
      BY <2>2, <3>1, <3>2, SubSeqProperties
    <3>4. \A i \in 1..Len(b) : k + i \in 1..Len(o) /\ b[i] = o[k + i]
      <4> HIDE DEF b, o
      <4> QED BY <2>2, <3>2, <3>3
    <3>5. DOMAIN b = 1..Len(b) /\ DOMAIN o = 1..Len(o)
      BY <2>2, <2>10
    <3> HIDE DEF b, o
    <3>6. \A i \in DOMAIN b : b[i].epoch = epoch[c]
      BY <2>8, <3>4, <3>5 DEF Current
    <3> QED BY <3>6 DEF Current
  <2> HIDE DEF b, o
  <2>12. \A d \in Conns : /\ obuffer'[d] = IF d = c THEN b ELSE obuffer[d]
                          /\ sent'[d] = IF d = c THEN sent[c] \o new ELSE sent[d]
    BY <1>2, <2>1, <2>7
  <2>13. /\ sock' \in [Conns -> SockStates]
         /\ \A d \in Conns : (sock'[d] = "closed") <=> (sock[d] = "closed")
    BY <1>2, <2>3, <2>6 DEF WriteResult
  <2>14. debt' \in [Conns -> Nat]
    <3>1. k * Penalty \in Nat
      BY <2>2, IrcAssumption
    <3> QED BY <1>1, <2>1, <3>1 DEF IrcTypeOK
  <2>15. obuffer' \in [Conns -> Seq(Line)]
    BY <1>2, <2>1, <2>10
  <2>16. IrcTypeOK'
    BY <1>1, <2>1, <2>6, <2>13, <2>14, <2>15 DEF IrcTypeOK, WriteResult, ServerOK
  <2>17. QueuesInOrder'
    BY <1>1, <1>3, <2>10, <2>12 DEF QueuesInOrder
  <2>18. QueuesKnown'
    <3>1. b # <<>> => o # <<>>
      <4>1. Len(<<>>) = 0
        OBVIOUS
      <4>2. o = <<>> => k = 0
        BY <2>2, <4>1
      <4>3. SubSeq(<<>>, 1, 0) = <<>>
        BY SubSeqEmpty
      <4> QED BY <4>1, <4>2, <4>3 DEF b
    <3> QED BY <1>1, <2>1, <2>12, <3>1 DEF IrcInv, QueuesKnown, Live, o
  <2>19. ClosedUnlessLive' /\ RoundKnown'
    BY <1>1, <2>13 DEF IrcInv, ClosedUnlessLive, RoundKnown, Live
  <2>20. ASSUME NEW d \in Conns
         PROVE  Current(obuffer'[d], epoch'[d]) \/ Stale(d)'
    <3>1. CASE d = c
      BY <1>1, <2>11, <2>12, <3>1
    <3>2. CASE d # c
      BY <1>1, <2>12, <2>13, <3>2 DEF IrcInv, QueuesCurrent, Stale
    <3> QED BY <3>1, <3>2
  <2> QED BY <2>13, <2>16, <2>17, <2>18, <2>19, <2>20 DEF IrcInv, QueuesCurrent
<1> QED BY <1>4, <1>5

-----------------------------------------------------------------------------
(* The inductive invariant of the plugin, connection by connection.        *)

PluginTypeOK ==
  /\ enabled \in [Conns -> BOOLEAN]
  /\ timers \subseteq TimerRecord /\ IsFiniteSet(timers)
  /\ challenges \in [Conns -> Nat] /\ challengeTimeouts \in [Conns -> Nat]
  /\ silent \in [Conns -> BOOLEAN] /\ registered \in [Conns -> BOOLEAN]

TimersOf(c) == {t \in timers : t.conn = c}

\* The tables have the numbers of the timers that wait.
Tabled(c) ==
  /\ \A t \in TimersOf(c) : t.kind = "challenge" => t.id = challenges[c] /\ t.id # NoTimer
  /\ \A t \in TimersOf(c) : t.kind = "timeout" => t.id = challengeTimeouts[c] /\ t.id # NoTimer
  /\ challenges[c] # NoTimer => \E t \in TimersOf(c) : t.kind = "challenge"
  /\ challengeTimeouts[c] # NoTimer => \E t \in TimersOf(c) : t.kind = "timeout"

OneOfAKind(c) == \A t, u \in TimersOf(c) : t.kind = u.kind => t = u

\* A connection that is not there has no timers, a disabled plugin no entries.
EnabledKnown(c) ==
  /\ enabled[c] => Live(c)
  /\ ~enabled[c] => challenges[c] = NoTimer /\ challengeTimeouts[c] = NoTimer
  /\ memory[c] = "unused" => TimersOf(c) = {}

\* A timeout ends before the next attempt to connect, and belongs to the connection
\* while that lasts.
TimeoutsFit(c) ==
  \A t \in TimersOf(c) : t.kind = "timeout" =>
    /\ t.left <= KeepaliveTimeout
    /\ sock[c] # "closed" => t.epoch = epoch[c]
    /\ sock[c] = "closed" => \E r \in TimersOf(c) : r.kind = "reconnect" /\ t.left <= r.left

ReconnectsClosed(c) == \A t \in TimersOf(c) : t.kind = "reconnect" => sock[c] = "closed"

ConnOK(c) ==
  /\ Tabled(c)
  /\ OneOfAKind(c)
  /\ EnabledKnown(c)
  /\ TimeoutsFit(c)
  /\ ReconnectsClosed(c)

PluginInv == PluginTypeOK /\ \A c \in Conns : ConnOK(c)
KeepaliveInv == IrcInv /\ PluginInv

LEMMA TimerFields ==
  \A t \in TimerRecord : /\ t.id \in Nat /\ t.conn \in Conns /\ t.kind \in Kinds
                         /\ t.left \in Nat /\ t.epoch \in 0..1
BY DEF TimerRecord

LEMMA PluginInvImplies == PluginInv => TimersConsistent
<1> SUFFICES ASSUME PluginInv PROVE TimersConsistent
  OBVIOUS
<1>1. timers \subseteq TimerRecord
  BY DEF PluginInv, PluginTypeOK
<1>2. ASSUME NEW c \in Conns
      PROVE  /\ {t.id : t \in Timer(c, "challenge")} = {challenges[c]} \ {NoTimer}
             /\ {t.id : t \in Timer(c, "timeout")} = {challengeTimeouts[c]} \ {NoTimer}
  <2>1. Tabled(c)
    BY DEF PluginInv, ConnOK
  <2>2. \A kind : Timer(c, kind) = {t \in TimersOf(c) : t.kind = kind}
    BY DEF Timer, TimersOf
  <2>3. /\ \A t \in Timer(c, "challenge") : t.id = challenges[c] /\ t.id # NoTimer
        /\ challenges[c] # NoTimer => \E t \in Timer(c, "challenge") : TRUE
    BY <2>1, <2>2 DEF Tabled
  <2>4. /\ \A t \in Timer(c, "timeout") : t.id = challengeTimeouts[c] /\ t.id # NoTimer
        /\ challengeTimeouts[c] # NoTimer => \E t \in Timer(c, "timeout") : TRUE
    BY <2>1, <2>2 DEF Tabled
  <2>5. {t.id : t \in Timer(c, "challenge")} = {challenges[c]} \ {NoTimer}
    BY <2>3
  <2>6. {t.id : t \in Timer(c, "timeout")} = {challengeTimeouts[c]} \ {NoTimer}
    BY <2>4
  <2> QED BY <2>5, <2>6
<1>3. ASSUME NEW c \in Conns
      PROVE  /\ Cardinality(Timer(c, "reconnect")) <= 1
             /\ Timer(c, "reconnect") # {} => sock[c] = "closed"
  <2>1. OneOfAKind(c) /\ ReconnectsClosed(c)
    BY DEF PluginInv, ConnOK
  <2>2. \A t \in Timer(c, "reconnect") : t \in TimersOf(c) /\ t.kind = "reconnect"
    BY DEF Timer, TimersOf
  <2>3. CASE Timer(c, "reconnect") = {}
    BY <2>3, FS_EmptySet
  <2>4. CASE Timer(c, "reconnect") # {}
    <3>1. PICK t \in Timer(c, "reconnect") : TRUE
      BY <2>4
    <3>2. Timer(c, "reconnect") = {t}
      BY <2>1, <2>2, <3>1 DEF OneOfAKind
    <3>3. Cardinality({t}) = 1
      BY FS_Singleton
    <3> QED BY <2>1, <2>2, <3>1, <3>2, <3>3 DEF ReconnectsClosed
  <2> QED BY <2>3, <2>4
<1>4. ASSUME NEW t \in timers, t.kind = "timeout", sock[t.conn] = "connected"
      PROVE  t.epoch = epoch[t.conn]
  <2>1. t.conn \in Conns /\ t \in TimersOf(t.conn)
    BY <1>1, TimerFields DEF TimersOf
  <2>2. TimeoutsFit(t.conn)
    BY <2>1 DEF PluginInv, ConnOK
  <2> QED BY <1>4, <2>1, <2>2 DEF TimeoutsFit
<1> QED BY <1>2, <1>3, <1>4 DEF TimersConsistent, TablesAgree, OneReconnect, OwnChallengeDrops

\* What happens to the others leaves a connection as it is.
LEMMA OthersKept ==
  ASSUME NEW d \in Conns, ConnOK(d), TimersOf(d)' = TimersOf(d),
         challenges'[d] = challenges[d], challengeTimeouts'[d] = challengeTimeouts[d],
         enabled'[d] = enabled[d], epoch'[d] = epoch[d], memory'[d] = memory[d],
         (sock'[d] = "closed") <=> (sock[d] = "closed")
  PROVE  ConnOK(d)'
<1>1. Tabled(d)' /\ OneOfAKind(d)'
  BY DEF ConnOK, Tabled, OneOfAKind
<1>2. EnabledKnown(d)'
  BY DEF ConnOK, EnabledKnown, Live
<1>3. TimeoutsFit(d)' /\ ReconnectsClosed(d)'
  BY DEF ConnOK, TimeoutsFit, ReconnectsClosed
<1> QED BY <1>1, <1>2, <1>3 DEF ConnOK

\* A step that leaves the plugin alone.
LEMMA PluginUnchanged ==
  ASSUME PluginInv, UNCHANGED plugin, silent' \in [Conns -> BOOLEAN], registered' \in [Conns -> BOOLEAN],
         UNCHANGED <<memory, epoch>>,
         \A d \in Conns : (sock'[d] = "closed") <=> (sock[d] = "closed")
  PROVE  PluginInv'
<1>1. PluginTypeOK'
  BY DEF PluginInv, PluginTypeOK, plugin
<1>2. ASSUME NEW d \in Conns
      PROVE  ConnOK(d)'
  <2>1. TimersOf(d)' = TimersOf(d)
    BY DEF TimersOf, plugin
  <2> QED BY <2>1, OthersKept DEF PluginInv, plugin
<1> QED BY <1>1, <1>2 DEF PluginInv

-----------------------------------------------------------------------------
(* Numbers of timers.                                                      *)

\* An image of a finite set of places is finite.
LEMMA ImageFinite ==
  ASSUME NEW S, IsFiniteSet(S), NEW f, DOMAIN f = S, NEW T, T = {f[x] : x \in S}
  PROVE  IsFiniteSet(T)
<1> DEFINE g == [x \in S |-> f[x]]
<1>1. g \in Surjection(S, T)
  BY DEF Surjection
<1> QED BY <1>1, FS_Surjection

LEMMA FreshFacts ==
  ASSUME IrcTypeOK, PluginTypeOK, NEW c \in Conns, NEW kind \in {"challenge", "timeout"}
  PROVE  Fresh(c, kind) \in Nat \ {0}
<1> DEFINE U == Used(c, kind)
           S == (1..(Cardinality(U) + 1)) \ U
           ids == {t.id : t \in Timer(c, kind)}
           a == ToSet(pings[c])
           b == Ids(obuffer[c], "ping")
<1>1. IsFiniteSet(ids)
  <2>1. IsFiniteSet(Timer(c, kind))
    <3>1. Timer(c, kind) \in SUBSET timers
      BY DEF Timer
    <3> QED BY <3>1, FS_Subset DEF PluginTypeOK
  <2> DEFINE f == [t \in Timer(c, kind) |-> t.id]
  <2>2. ids = {f[t] : t \in Timer(c, kind)}
    OBVIOUS
  <2>3. DOMAIN f = Timer(c, kind)
    OBVIOUS
  <2> HIDE DEF f, ids
  <2> QED BY <2>1, <2>2, <2>3, ImageFinite
<1>2. IsFiniteSet(ToSet(pings[c]))
  <2>1. pings[c] \in Seq(Nat)
    BY DEF IrcTypeOK
  <2>2. DOMAIN pings[c] = 1..Len(pings[c]) /\ Len(pings[c]) \in Nat
    BY <2>1
  <2>3. IsFiniteSet(DOMAIN pings[c])
    BY <2>2, FS_Interval
  <2> QED BY <2>3, ImageFinite DEF ToSet
<1>3. IsFiniteSet(Ids(obuffer[c], "ping"))
  <2>1. obuffer[c] \in Seq(Line)
    BY DEF IrcTypeOK
  <2>2. DOMAIN obuffer[c] = 1..Len(obuffer[c]) /\ Len(obuffer[c]) \in Nat
    BY <2>1
  <2>3. IsFiniteSet(DOMAIN obuffer[c])
    BY <2>2, FS_Interval
  <2>4. IsFiniteSet(Places(obuffer[c], "ping"))
    <3>1. Places(obuffer[c], "ping") \in SUBSET DOMAIN obuffer[c]
      BY DEF Places
    <3> QED BY <2>3, <3>1, FS_Subset
  <2> DEFINE P == Places(obuffer[c], "ping")
             f == [i \in P |-> obuffer[c][i].id]
  <2>5. Ids(obuffer[c], "ping") = {f[i] : i \in P} /\ DOMAIN f = P
    BY DEF Ids
  <2> HIDE DEF f
  <2> QED BY <2>4, <2>5, ImageFinite
<1>4. IsFiniteSet(U)
  <2>1. IsFiniteSet({challenges[c]}) /\ IsFiniteSet({challengeTimeouts[c]})
    BY FS_Singleton
  <2>2. kind = "challenge" => U = ids \cup {challenges[c]}
    BY DEF Used
  <2>3. kind = "timeout" => U = ids \cup ({challengeTimeouts[c]} \cup a \cup b)
    BY DEF Used
  <2> HIDE DEF ids, a, b, U
  <2>4. IsFiniteSet({challengeTimeouts[c]} \cup a)
    BY <1>2, <2>1, FS_Union DEF a
  <2>5. IsFiniteSet({challengeTimeouts[c]} \cup a \cup b)
    BY <1>3, <2>4, FS_Union DEF b
  <2>6. CASE kind = "challenge"
    BY <1>1, <2>1, <2>2, <2>6, FS_Union
  <2>7. CASE kind = "timeout"
    BY <1>1, <2>3, <2>5, <2>7, FS_Union
  <2> QED BY <2>6, <2>7
<1>5. S # {}
  <2> DEFINE n == Cardinality(U) + 1
  <2>1. Cardinality(U) \in Nat
    BY <1>4, FS_CardinalityType
  <2>2. SUFFICES ASSUME 1..n \subseteq U
                 PROVE  FALSE
    OBVIOUS
  <2>3. n \in Nat /\ Cardinality(1..n) = n
    BY <2>1, FS_Interval
  <2>4. Cardinality(1..n) <= Cardinality(U)
    BY <1>4, <2>2, FS_Subset
  <2> QED BY <2>1, <2>3, <2>4
<1>6. S \subseteq Nat \ {0}
  <2>1. Cardinality(U) \in Nat
    BY <1>4, FS_CardinalityType
  <2> QED BY <2>1
<1> HIDE DEF S
<1>7. \E n \in S : \A k \in S : n <= k
  BY <1>5, <1>6, LeastOf
<1>8. Min(S) \in S
  BY <1>7, Zenon DEF Min
<1> QED BY <1>6, <1>8 DEF Fresh, S

\* A new timer is one that the tables can hold.
LEMMA NewTimerFacts ==
  ASSUME IrcTypeOK, PluginTypeOK, NEW c \in Conns, NEW kind \in Kinds, NEW left \in Nat
  PROVE  LET t == NewTimer(c, kind, left)
         IN  /\ t \in TimerRecord /\ t.id # NoTimer /\ t.conn = c /\ t.kind = kind
             /\ t.left = left /\ t.epoch = epoch[c]
<1> DEFINE id == IF kind = "reconnect" THEN 1 ELSE Fresh(c, kind)
<1>1. id \in Nat /\ id # NoTimer
  BY FreshFacts DEF Kinds, NoTimer
<1>2. epoch[c] \in 0..1
  BY DEF IrcTypeOK
<1>3. NewTimer(c, kind, left) = [id |-> id, conn |-> c, kind |-> kind, left |-> left, epoch |-> epoch[c]]
  BY DEF NewTimer
<1> HIDE DEF id
<1> QED BY <1>1, <1>2, <1>3 DEF TimerRecord

\* clearKeepaliveTimers stops the challenge and the timeout of c.
LEMMA ClearedFacts ==
  ASSUME PluginInv, NEW c \in Conns
  PROVE  /\ Cleared(c) \subseteq timers /\ IsFiniteSet(Cleared(c))
         /\ \A t \in timers : t \in Cleared(c) <=> t.conn # c \/ t.kind = "reconnect"
<1>1. \A t \in timers : t \in TimerRecord
  BY DEF PluginInv, PluginTypeOK
<1>2. Tabled(c)
  BY DEF PluginInv, ConnOK
<1>3. Cleared(c) \subseteq timers
  BY DEF Cleared
<1>4. IsFiniteSet(Cleared(c))
  BY <1>3, FS_Subset DEF PluginInv, PluginTypeOK
<1>5. ASSUME NEW t \in timers
      PROVE  t \in Cleared(c) <=> t.conn # c \/ t.kind = "reconnect"
  <2>1. t.kind \in Kinds
    BY <1>1, TimerFields
  <2>2. t.conn = c => /\ t.kind = "challenge" => t.id = challenges[c]
                      /\ t.kind = "timeout" => t.id = challengeTimeouts[c]
    BY <1>2 DEF Tabled, TimersOf
  <2> QED BY <2>1, <2>2 DEF Cleared, WithId, Timer, Kinds
<1> QED BY <1>3, <1>4, <1>5

-----------------------------------------------------------------------------
(* Every operation of the plugin keeps its invariant.                      *)

\* What is needed: the answer to a challenge is not waited for longer than the
\* plugin waits to reconnect.
TimeoutFirst == KeepaliveTimeout <= ReconnectTimeout

LEMMA Intervals ==
  /\ KeepaliveInterval \in Nat /\ KeepaliveTimeout \in Nat /\ ReconnectTimeout \in Nat
BY KeepaliveAssumption

\* The parts of a step that only concerns c: timers, the tables and enabled.
OnlyOf(c) ==
  /\ PluginTypeOK'
  /\ \A t \in timers \cup timers' : t.conn # c => (t \in timers <=> t \in timers')
  /\ \A d \in Conns : d # c =>
       /\ challenges'[d] = challenges[d] /\ challengeTimeouts'[d] = challengeTimeouts[d]
       /\ enabled'[d] = enabled[d] /\ epoch'[d] = epoch[d] /\ memory'[d] = memory[d]
       /\ (sock'[d] = "closed") <=> (sock[d] = "closed")

LEMMA OnlyOfInv ==
  ASSUME PluginInv, NEW c \in Conns, OnlyOf(c), ConnOK(c)'
  PROVE  PluginInv'
<1>1. ASSUME NEW d \in Conns, d # c
      PROVE  ConnOK(d)'
  <2>1. TimersOf(d)' = TimersOf(d)
    BY <1>1 DEF OnlyOf, TimersOf
  <2> QED BY <1>1, <2>1, OthersKept DEF PluginInv, OnlyOf
<1> QED BY <1>1 DEF PluginInv, OnlyOf

\* initPlugin, the confirmation of a registration and a client that attaches again:
\* the challenge of c starts anew, for a connection that is there.
LEMMA RescheduleInv ==
  ASSUME IrcTypeOK, PluginInv, NEW c \in Conns, Live(c), RescheduleKeepaliveTimer(c),
         enabled' = [enabled EXCEPT ![c] = TRUE], UNCHANGED <<memory, epoch>>,
         \A d \in Conns : (sock'[d] = "closed") <=> (sock[d] = "closed"),
         silent' \in [Conns -> BOOLEAN], registered' \in [Conns -> BOOLEAN]
  PROVE  PluginInv'
<1> DEFINE new == NewTimer(c, "challenge", KeepaliveInterval)
<1>1. PluginTypeOK /\ ConnOK(c)
  BY DEF PluginInv
<1>2. /\ new \in TimerRecord /\ new.id # NoTimer /\ new.conn = c /\ new.kind = "challenge"
      /\ new.id \in Nat
  <2>1. "challenge" \in Kinds
    BY DEF Kinds
  <2>2. /\ new \in TimerRecord /\ new.id # NoTimer /\ new.conn = c /\ new.kind = "challenge"
    BY <1>1, <2>1, Intervals, NewTimerFacts
  <2> QED BY <2>2, TimerFields
<1>3. /\ timers' = Cleared(c) \cup {new}
      /\ challengeTimeouts' = [challengeTimeouts EXCEPT ![c] = NoTimer]
      /\ challenges' = [challenges EXCEPT ![c] = new.id]
  BY DEF RescheduleKeepaliveTimer
<1> HIDE DEF new
<1>4. /\ Cleared(c) \subseteq timers /\ IsFiniteSet(Cleared(c))
      /\ \A t \in timers : t \in Cleared(c) <=> t.conn # c \/ t.kind = "reconnect"
  BY ClearedFacts
<1>5. PluginTypeOK'
  <2>1. IsFiniteSet(timers')
    BY <1>3, <1>4, FS_AddElement
  <2> QED BY <1>1, <1>2, <1>3, <1>4, <2>1 DEF PluginTypeOK, NoTimer
<1>6. OnlyOf(c)
  BY <1>1, <1>2, <1>3, <1>4, <1>5 DEF OnlyOf, PluginTypeOK
<1>7. /\ challenges'[c] = new.id /\ challengeTimeouts'[c] = NoTimer /\ enabled'[c]
      /\ memory'[c] = "live"
  BY <1>1, <1>3 DEF PluginTypeOK, Live
<1>8. \A t \in TimersOf(c)' : t = new \/ (t \in TimersOf(c) /\ t.kind = "reconnect")
  BY <1>3, <1>4 DEF TimersOf
<1>9. new \in TimersOf(c)'
  BY <1>2, <1>3 DEF TimersOf
<1>10. Tabled(c)' /\ OneOfAKind(c)'
  BY <1>1, <1>2, <1>7, <1>8, <1>9 DEF ConnOK, Tabled, OneOfAKind
<1>11. EnabledKnown(c)' /\ TimeoutsFit(c)' /\ ReconnectsClosed(c)'
  BY <1>1, <1>2, <1>7, <1>8 DEF ConnOK, EnabledKnown, TimeoutsFit, ReconnectsClosed, Live
<1> QED BY <1>6, <1>10, <1>11, OnlyOfInv DEF ConnOK

\* finiPlugin, and then perhaps the connection is freed.
LEMMA FiniInv ==
  ASSUME PluginInv, NEW c \in Conns, FiniPlugin(c), enabled' = [enabled EXCEPT ![c] = FALSE],
         memory[c] # "unused", memory'[c] # "unused", UNCHANGED epoch,
         \A d \in Conns : d # c => memory'[d] = memory[d],
         \A d \in Conns : d # c => ((sock'[d] = "closed") <=> (sock[d] = "closed")),
         sock[c] = "closed" => sock'[c] = "closed",
         silent' \in [Conns -> BOOLEAN], registered' \in [Conns -> BOOLEAN]
  PROVE  PluginInv'
<1>1. PluginTypeOK /\ ConnOK(c)
  BY DEF PluginInv
<1>2. /\ timers' = Cleared(c)
      /\ challengeTimeouts' = [challengeTimeouts EXCEPT ![c] = NoTimer]
      /\ challenges' = [challenges EXCEPT ![c] = NoTimer]
  BY DEF FiniPlugin
<1>3. /\ Cleared(c) \subseteq timers /\ IsFiniteSet(Cleared(c))
      /\ \A t \in timers : t \in Cleared(c) <=> t.conn # c \/ t.kind = "reconnect"
  BY ClearedFacts
<1>4. PluginTypeOK'
  BY <1>1, <1>2, <1>3 DEF PluginTypeOK, NoTimer
<1>5. OnlyOf(c)
  BY <1>1, <1>2, <1>3, <1>4 DEF OnlyOf, PluginTypeOK
<1>6. challenges'[c] = NoTimer /\ challengeTimeouts'[c] = NoTimer /\ ~enabled'[c]
  BY <1>1, <1>2 DEF PluginTypeOK
<1>7. \A t \in TimersOf(c)' : t \in TimersOf(c) /\ t.kind = "reconnect"
  BY <1>2, <1>3 DEF TimersOf
<1>8. ConnOK(c)'
  BY <1>1, <1>6, <1>7 DEF ConnOK, Tabled, OneOfAKind, EnabledKnown, TimeoutsFit, ReconnectsClosed, Live
<1> QED BY <1>5, <1>8, OnlyOfInv

LEMMA CreatePluginInv ==
  ASSUME IrcInv, PluginInv, NEW c \in Conns, NEW th \in BOOLEAN, CreatePart(c, th),
         UNCHANGED <<plugin, peer>>
  PROVE  PluginInv'
<1>1. PluginTypeOK /\ ConnOK(c)
  BY DEF PluginInv
<1>2. /\ memory \in [Conns -> {"unused", "live", "freed"}] /\ sock \in [Conns -> SockStates]
  BY DEF IrcInv, IrcTypeOK
<1>3. /\ memory[c] = "unused" /\ memory' = [memory EXCEPT ![c] = "live"]
      /\ UNCHANGED epoch
      /\ \E s \in {"connecting", "connected"} : sock' = [sock EXCEPT ![c] = s]
  BY DEF CreatePart
<1>4. PluginTypeOK' /\ OnlyOf(c)
  BY <1>1, <1>2, <1>3 DEF PluginTypeOK, OnlyOf, plugin, peer
<1>5. TimersOf(c) = {} /\ TimersOf(c)' = {} /\ ~enabled[c] /\ memory'[c] = "live"
  BY <1>1, <1>2, <1>3 DEF ConnOK, EnabledKnown, Live, TimersOf, plugin
<1>6. ConnOK(c)'
  BY <1>1, <1>5 DEF ConnOK, Tabled, OneOfAKind, EnabledKnown, TimeoutsFit, ReconnectsClosed, Live, plugin
<1> QED BY <1>4, <1>6, OnlyOfInv

\* The bouncer ends: whether the plugin was enabled or not.
LEMMA FreePluginInv ==
  ASSUME IrcInv, PluginInv, NEW c \in Conns, Free(c)
  PROVE  PluginInv'
<1>1. PluginTypeOK /\ ConnOK(c)
  BY DEF PluginInv
<1>2. /\ memory \in [Conns -> {"unused", "live", "freed"}] /\ sock \in [Conns -> SockStates]
  BY DEF IrcInv, IrcTypeOK
<1>3. /\ memory[c] = "live" /\ memory' = [memory EXCEPT ![c] = "freed"]
      /\ sock' = [sock EXCEPT ![c] = "closed"] /\ UNCHANGED epoch
      /\ silent' = silent /\ registered' = registered
  BY DEF Free, FreePart, Live, peer
<1>4. CASE enabled[c]
  BY <1>1, <1>2, <1>3, <1>4, FiniInv DEF Free, PluginTypeOK
<1>5. CASE ~enabled[c]
  <2>1. /\ enabled' = [enabled EXCEPT ![c] = FALSE] /\ timers' = timers
        /\ challenges' = challenges /\ challengeTimeouts' = challengeTimeouts
    BY <1>5 DEF Free
  <2>2. PluginTypeOK' /\ OnlyOf(c)
    BY <1>1, <1>2, <1>3, <2>1 DEF PluginTypeOK, OnlyOf
  <2>3. TimersOf(c)' = TimersOf(c) /\ ~enabled'[c] /\ memory'[c] = "freed" /\ sock'[c] = "closed"
    BY <1>1, <1>2, <1>3, <2>1 DEF TimersOf, PluginTypeOK
  <2>4. \A t \in TimersOf(c) : t.kind # "timeout"
    BY <1>1, <1>5 DEF ConnOK, Tabled, EnabledKnown
  <2>5. ConnOK(c)'
    BY <1>1, <1>5, <2>1, <2>3, <2>4
       DEF ConnOK, Tabled, OneOfAKind, EnabledKnown, TimeoutsFit, ReconnectsClosed, Live
  <2> QED BY <2>2, <2>5, OnlyOfInv
<1> QED BY <1>4, <1>5

\* When an attempt to reconnect is due, every timeout of the connection has ended.
LEMMA NoTimeoutLeft ==
  ASSUME TimeoutFirst, PluginInv, NEW t \in timers, t.kind = "reconnect", t.left = 0,
         TimeoutBefore(t)
  PROVE  /\ t.conn \in Conns /\ sock[t.conn] = "closed"
         /\ \A u \in TimersOf(t.conn) : u.kind # "timeout" /\ (u.kind = "reconnect" => u = t)
<1>1. timers \subseteq TimerRecord
  BY DEF PluginInv, PluginTypeOK
<1>2. t.conn \in Conns /\ t \in TimersOf(t.conn)
  BY <1>1, TimerFields DEF TimersOf
<1>3. ConnOK(t.conn)
  BY <1>2 DEF PluginInv
<1>4. sock[t.conn] = "closed"
  BY <1>2, <1>3 DEF ConnOK, ReconnectsClosed
<1>5. \A u \in TimersOf(t.conn) : u.kind = "reconnect" => u = t
  BY <1>2, <1>3 DEF ConnOK, OneOfAKind
<1>6. ASSUME NEW u \in TimersOf(t.conn), u.kind = "timeout"
      PROVE  FALSE
  <2>1. u.left \in Nat
    BY <1>1, TimerFields DEF TimersOf
  <2>2. \E r \in TimersOf(t.conn) : r.kind = "reconnect" /\ u.left <= r.left
    BY <1>3, <1>4, <1>6 DEF ConnOK, TimeoutsFit
  <2>3. u.left > 0
    BY <1>6 DEF TimeoutFirst, TimeoutBefore, Timer, TimersOf
  <2> QED BY <1>5, <2>1, <2>2, <2>3
<1> QED BY <1>2, <1>4, <1>5, <1>6

\* reconnect: whatever comes of the attempt, new is the timer of the next one, if any.
LEMMA ReconnectTimers ==
  ASSUME TimeoutFirst, PluginInv, PluginTypeOK', NEW new,
         NEW t \in timers, t.kind = "reconnect", t.left = 0, TimeoutBefore(t),
         timers' = (timers \ {t}) \cup new,
         \A u \in new : u.conn = t.conn /\ u.kind = "reconnect" /\ sock'[t.conn] = "closed",
         \A u, v \in new : u = v,
         UNCHANGED <<enabled, challenges, challengeTimeouts, memory, epoch>>,
         \A d \in Conns : d # t.conn => sock'[d] = sock[d]
  PROVE  PluginInv'
<1> DEFINE c == t.conn
<1>1. c \in Conns /\ ConnOK(c) /\ t \in TimersOf(c)
  BY NoTimeoutLeft DEF PluginInv, TimersOf
<1>2. \A u \in TimersOf(c) : u.kind # "timeout" /\ (u.kind = "reconnect" => u = t)
  BY NoTimeoutLeft
<1>3. OnlyOf(c)
  BY DEF OnlyOf
<1>4. \A u \in TimersOf(c)' : \/ u \in new /\ u.kind = "reconnect"
                              \/ u \in TimersOf(c) /\ u.kind # "timeout" /\ u.kind # "reconnect"
  BY <1>2 DEF TimersOf
<1>5. \A u \in TimersOf(c) : u.kind # "reconnect" => u \in TimersOf(c)'
  BY DEF TimersOf
<1>6. \A u \in TimersOf(c)' : u.kind # "timeout" /\ (u.kind = "reconnect" => sock'[c] = "closed")
  BY <1>4
<1> HIDE DEF c
<1>7. Tabled(c)'
  BY <1>1, <1>2, <1>4, <1>5 DEF ConnOK, Tabled
<1>8. OneOfAKind(c)'
  BY <1>1, <1>4 DEF ConnOK, OneOfAKind
<1>9. EnabledKnown(c)'
  BY <1>1 DEF ConnOK, EnabledKnown, Live
<1>10. TimeoutsFit(c)' /\ ReconnectsClosed(c)'
  BY <1>6 DEF TimeoutsFit, ReconnectsClosed
<1> QED BY <1>1, <1>3, <1>7, <1>8, <1>9, <1>10, OnlyOfInv DEF ConnOK

LEMMA ReconnectInv ==
  ASSUME TimeoutFirst, KeepaliveInv, NEW t \in timers, Reconnect(t)
  PROVE  KeepaliveInv'
<1> DEFINE c == t.conn
           new == NewTimer(c, "reconnect", ReconnectTimeout)
<1>1. /\ IrcInv /\ PluginInv /\ PluginTypeOK /\ IrcTypeOK
      /\ t.kind = "reconnect" /\ t.left = 0 /\ TimeoutBefore(t) /\ Idle /\ Live(c)
      /\ UNCHANGED <<enabled, challenges, challengeTimeouts, peer>>
  BY DEF KeepaliveInv, IrcInv, PluginInv, Reconnect, Due
<1>2. c \in Conns /\ sock[c] = "closed"
  BY <1>1, NoTimeoutLeft
<1>3. new \in TimerRecord /\ new.conn = c /\ new.kind = "reconnect"
  <2>1. "reconnect" \in Kinds
    BY DEF Kinds
  <2> QED BY <1>1, <1>2, <2>1, Intervals, NewTimerFacts
<1>4. \E more \in {{}, {new}} :
        /\ timers' = (timers \ {t}) \cup more
        /\ more = {} => ReconnectPart(c)
        /\ more # {} => UNCHANGED ircVars
  <2>1. CASE ReconnectPart(c) /\ timers' = (timers \ {t}) \cup Retried(c, TRUE)
    BY <2>1 DEF Retried
  <2>2. CASE UNCHANGED ircVars /\ timers' = (timers \ {t}) \cup Retried(c, FALSE)
    BY <2>2 DEF Retried
  <2> QED BY <1>2, <2>1, <2>2 DEF Reconnect
<1>5. PICK more \in {{}, {new}} :
        /\ timers' = (timers \ {t}) \cup more
        /\ more = {} => ReconnectPart(c)
        /\ more # {} => UNCHANGED ircVars
  BY <1>4
<1> HIDE DEF new
<1>6. PluginTypeOK'
  <2>1. IsFiniteSet(timers \ {t})
    BY <1>1, FS_RemoveElement DEF PluginTypeOK
  <2>2. IsFiniteSet((timers \ {t}) \cup {new}) /\ (timers \ {t}) \cup {} = timers \ {t}
    BY <2>1, FS_AddElement
  <2>3. IsFiniteSet(timers')
    BY <1>5, <2>1, <2>2
  <2> QED BY <1>1, <1>3, <1>5, <2>3 DEF PluginTypeOK, peer
<1>7. IrcInv' /\ UNCHANGED <<memory, epoch>> /\ (\A d \in Conns : d # c => sock'[d] = sock[d])
      /\ (more # {} => sock'[c] = "closed")
  <2>1. CASE more = {}
    BY <1>1, <1>2, <1>5, <2>1, ReconnectPartInv DEF ReconnectPart
  <2>2. CASE more # {}
    <3>1. UNCHANGED ircVars
      BY <1>5, <2>2
    <3>2. IrcInv'
      BY <1>1, <3>1, SameIrc
    <3> QED BY <1>2, <3>1, <3>2 DEF ircVars, link
  <2> QED BY <2>1, <2>2
<1>8. /\ \A u \in more : u.conn = c /\ u.kind = "reconnect" /\ sock'[c] = "closed"
      /\ \A u, v \in more : u = v
  BY <1>3, <1>5, <1>7
<1>9. PluginInv'
  BY <1>1, <1>5, <1>6, <1>7, <1>8, ReconnectTimers
<1> QED BY <1>7, <1>9 DEF KeepaliveInv

\* A timer of the tables, and what the tables know of it.
LEMMA DueTimer ==
  ASSUME PluginInv, NEW t \in timers, t.kind \in {"challenge", "timeout"}
  PROVE  /\ t.conn \in Conns /\ t \in TimersOf(t.conn) /\ ConnOK(t.conn)
         /\ \A u \in TimersOf(t.conn) : u.kind = t.kind => u = t
         /\ memory[t.conn] = "live"
<1>1. t.conn \in Conns /\ t \in TimersOf(t.conn)
  BY TimerFields DEF PluginInv, PluginTypeOK, TimersOf
<1>2. ConnOK(t.conn)
  BY <1>1 DEF PluginInv
<1>3. memory[t.conn] = "live"
  BY <1>1, <1>2 DEF ConnOK, Tabled, EnabledKnown, Live
<1> QED BY <1>1, <1>2, <1>3 DEF ConnOK, OneOfAKind

\* challenge, as far as the plugin goes: the next challenge and, for a connected
\* connection that owes no answer yet, a timeout.
LEMMA ChallengeTimers ==
  ASSUME PluginInv, PluginTypeOK', NEW t \in timers, t.kind = "challenge",
         NEW more \in SUBSET TimerRecord, timers' = (timers \ {t}) \cup more,
         \A u \in more : /\ u.conn = t.conn /\ u.id # NoTimer
                         /\ \/ u.kind = "challenge" /\ u.id = challenges'[t.conn]
                            \/ /\ u.kind = "timeout" /\ u.id = challengeTimeouts'[t.conn]
                               /\ u.left = KeepaliveTimeout /\ u.epoch = epoch[t.conn]
                               /\ sock[t.conn] # "closed" /\ challengeTimeouts[t.conn] = NoTimer,
         \A u, v \in more : u.kind = v.kind => u = v,
         challenges'[t.conn] # NoTimer => \E u \in more : u.kind = "challenge",
         challengeTimeouts'[t.conn] # challengeTimeouts[t.conn] => \E u \in more : u.kind = "timeout",
         UNCHANGED <<enabled, memory, epoch>>,
         \A d \in Conns : d # t.conn => /\ challenges'[d] = challenges[d]
                                        /\ challengeTimeouts'[d] = challengeTimeouts[d],
         \A d \in Conns : (sock'[d] = "closed") <=> (sock[d] = "closed")
  PROVE  PluginInv'
<1> DEFINE c == t.conn
<1>1. c \in Conns /\ ConnOK(c) /\ t \in TimersOf(c) /\ memory[c] = "live"
  BY DueTimer
<1>2. \A u \in TimersOf(c) : u.kind = "challenge" => u = t
  BY DueTimer
<1>3. OnlyOf(c)
  BY DEF OnlyOf
<1>4. \A u \in TimersOf(c)' : \/ u \in more
                              \/ u \in TimersOf(c) /\ u.kind # "challenge"
  BY <1>2 DEF TimersOf
<1>5. /\ \A u \in TimersOf(c) : u.kind # "challenge" => u \in TimersOf(c)'
      /\ \A u \in more : u \in TimersOf(c)'
  BY DEF TimersOf
<1>6. (\E u \in more : u.kind = "timeout") => \A u \in TimersOf(c) : u.kind # "timeout"
  BY <1>1 DEF ConnOK, Tabled
<1>7. (\A u \in more : u.kind # "timeout") => challengeTimeouts'[c] = challengeTimeouts[c]
  OBVIOUS
<1>8. t.kind # "timeout" /\ enabled[c]
  BY <1>1 DEF ConnOK, Tabled, EnabledKnown
<1> HIDE DEF c
<1>9. Tabled(c)'
  <2>1. \A u \in TimersOf(c)' : u.kind = "challenge" => u.id = challenges'[c] /\ u.id # NoTimer
    BY <1>4 DEF c
  <2>2. \A u \in TimersOf(c)' : u.kind = "timeout" => u.id = challengeTimeouts'[c] /\ u.id # NoTimer
    <3>1. ASSUME NEW u \in TimersOf(c)', u.kind = "timeout"
          PROVE  u.id = challengeTimeouts'[c] /\ u.id # NoTimer
      <4>1. CASE u \in more
        BY <3>1, <4>1 DEF c
      <4>2. CASE u \notin more
        <5>1. u \in TimersOf(c)
          BY <1>4, <3>1, <4>2
        <5>2. u.id = challengeTimeouts[c] /\ u.id # NoTimer
          BY <1>1, <3>1, <5>1 DEF ConnOK, Tabled
        <5>3. \A w \in more : w.kind # "timeout"
          BY <1>6, <3>1, <5>1
        <5> QED BY <1>7, <5>2, <5>3
      <4> QED BY <4>1, <4>2
    <3> QED BY <3>1
  <2>3. challenges'[c] # NoTimer => \E u \in TimersOf(c)' : u.kind = "challenge"
    BY <1>5 DEF c
  <2>4. challengeTimeouts'[c] # NoTimer => \E u \in TimersOf(c)' : u.kind = "timeout"
    <3>1. CASE challengeTimeouts'[c] = challengeTimeouts[c]
      BY <1>1, <1>5, <3>1 DEF ConnOK, Tabled
    <3>2. CASE challengeTimeouts'[c] # challengeTimeouts[c]
      BY <1>5, <3>2 DEF c
    <3> QED BY <3>1, <3>2
  <2> QED BY <2>1, <2>2, <2>3, <2>4 DEF Tabled
<1>10. OneOfAKind(c)'
  <2>1. ASSUME NEW u \in TimersOf(c)', NEW v \in TimersOf(c)', u.kind = v.kind
        PROVE  u = v
    <3>1. CASE u \in more /\ v \in more
      BY <2>1, <3>1
    <3>2. CASE u \in TimersOf(c) /\ v \in TimersOf(c)
      BY <1>1, <2>1, <3>2 DEF ConnOK, OneOfAKind
    <3>3. \A x \in more, y \in TimersOf(c)' : x.kind = y.kind /\ y \notin more => FALSE
      BY <1>4, <1>6
    <3> QED BY <1>4, <2>1, <3>1, <3>2, <3>3
  <2> QED BY <2>1 DEF OneOfAKind
<1>11. EnabledKnown(c)'
  BY <1>1, <1>8 DEF ConnOK, EnabledKnown, Live
<1>12. TimeoutsFit(c)'
  <2>1. ASSUME NEW u \in TimersOf(c)', u.kind = "timeout"
        PROVE  /\ u.left <= KeepaliveTimeout
               /\ sock'[c] # "closed" => u.epoch = epoch'[c]
               /\ sock'[c] = "closed" => \E r \in TimersOf(c)' : r.kind = "reconnect" /\ u.left <= r.left
    <3>1. CASE u \in more
      BY <1>1, <2>1, <3>1, Intervals DEF c
    <3>2. CASE u \in TimersOf(c)
      BY <1>1, <1>5, <2>1, <3>2 DEF ConnOK, TimeoutsFit
    <3> QED BY <1>4, <3>1, <3>2
  <2> QED BY <2>1 DEF TimeoutsFit
<1>13. ReconnectsClosed(c)'
  <2>1. \A u \in more : u.kind # "reconnect"
    OBVIOUS
  <2> QED BY <1>1, <1>4, <2>1 DEF ConnOK, ReconnectsClosed
<1> QED BY <1>1, <1>3, <1>9, <1>10, <1>11, <1>12, <1>13, OnlyOfInv DEF ConnOK

LEMMA ChallengeInv ==
  ASSUME KeepaliveInv, NEW t \in timers, Challenge(t)
  PROVE  KeepaliveInv'
<1> DEFINE c == t.conn
           next == NewTimer(c, "challenge", KeepaliveInterval)
           timeout == NewTimeout(c)
<1>1. /\ IrcInv /\ PluginInv /\ PluginTypeOK /\ IrcTypeOK
      /\ t.kind = "challenge" /\ Idle /\ Live(c)
      /\ UNCHANGED <<memory, epoch, throttle, debt, throttled, asked, poll, enabled, peer>>
  BY DEF KeepaliveInv, IrcInv, PluginInv, Challenge, Due
<1>2. c \in Conns
  BY <1>1, DueTimer
<1>3. /\ next \in TimerRecord /\ next.id # NoTimer /\ next.conn = c /\ next.kind = "challenge"
      /\ next.id \in Nat
  <2>1. "challenge" \in Kinds
    BY DEF Kinds
  <2>2. /\ next \in TimerRecord /\ next.id # NoTimer /\ next.conn = c /\ next.kind = "challenge"
    BY <1>1, <1>2, <2>1, Intervals, NewTimerFacts
  <2> QED BY <2>2, TimerFields
<1>4. /\ timeout \in TimerRecord /\ timeout.id # NoTimer /\ timeout.conn = c
      /\ timeout.kind = "timeout" /\ timeout.id \in Nat /\ timeout.left = KeepaliveTimeout
      /\ timeout.epoch = epoch[c]
  <2>1. "timeout" \in Kinds
    BY DEF Kinds
  <2>2. /\ timeout \in TimerRecord /\ timeout.id # NoTimer /\ timeout.conn = c
        /\ timeout.kind = "timeout" /\ timeout.left = KeepaliveTimeout /\ timeout.epoch = epoch[c]
    BY <1>1, <1>2, <2>1, Intervals, NewTimerFacts DEF NewTimeout
  <2> QED BY <2>2, TimerFields
<1>5. /\ challenges \in [Conns -> Nat] /\ challengeTimeouts \in [Conns -> Nat] /\ NoTimer \in Nat
      /\ silent' = silent /\ registered' = registered
  BY <1>1 DEF PluginTypeOK, NoTimer, peer
<1>6. IsFiniteSet(timers \ {t}) /\ timers \ {t} \subseteq TimerRecord
  BY <1>1, FS_RemoveElement DEF PluginTypeOK
<1>7. \/ /\ sock[c] # "connected" /\ timers' = timers \ {t}
         /\ challenges' = [challenges EXCEPT ![c] = NoTimer]
         /\ UNCHANGED <<sock, obuffer, server, challengeTimeouts>>
      \/ /\ sock[c] = "connected" /\ timers' = (timers \ {t}) \cup {next}
         /\ challenges' = [challenges EXCEPT ![c] = next.id]
         /\ UNCHANGED <<sock, obuffer, server, challengeTimeouts>>
      \/ /\ sock[c] = "connected" /\ challengeTimeouts[c] = NoTimer
         /\ timers' = (timers \ {t}) \cup {next, timeout}
         /\ challenges' = [challenges EXCEPT ![c] = next.id]
         /\ challengeTimeouts' = [challengeTimeouts EXCEPT ![c] = timeout.id]
         /\ IrcSendFirst(c, NewLine(c, "ping", timeout.id))
  BY DEF Challenge
<1> HIDE DEF next, timeout
<1>8. CASE UNCHANGED <<sock, obuffer, server, challengeTimeouts>>
  <2>1. UNCHANGED ircVars
    BY <1>1, <1>8 DEF ircVars, link, queue
  <2>2. IrcInv'
    BY <1>1, <2>1, SameIrc
  <2>3. CASE timers' = timers \ {t} /\ challenges' = [challenges EXCEPT ![c] = NoTimer]
    <3>1. PluginTypeOK' /\ timers' = (timers \ {t}) \cup {} /\ challenges'[c] = NoTimer
          /\ \A d \in Conns : d # c => challenges'[d] = challenges[d]
      BY <1>1, <1>2, <1>5, <1>6, <1>8, <2>3 DEF PluginTypeOK
    <3>2. {} \in SUBSET TimerRecord
      OBVIOUS
    <3>3. PluginInv'
      BY <1>1, <1>8, <3>1, <3>2, ChallengeTimers
    <3> QED BY <2>2, <3>3 DEF KeepaliveInv
  <2>4. CASE timers' = (timers \ {t}) \cup {next} /\ challenges' = [challenges EXCEPT ![c] = next.id]
    <3>1. IsFiniteSet((timers \ {t}) \cup {next})
      BY <1>6, FS_AddElement
    <3>2. PluginTypeOK' /\ challenges'[c] = next.id
          /\ \A d \in Conns : d # c => challenges'[d] = challenges[d]
      BY <1>1, <1>2, <1>3, <1>5, <1>6, <1>8, <2>4, <3>1 DEF PluginTypeOK
    <3>3. {next} \in SUBSET TimerRecord
      BY <1>3
    <3>4. PluginInv'
      BY <1>1, <1>3, <1>8, <2>4, <3>2, <3>3, ChallengeTimers
    <3> QED BY <2>2, <3>4 DEF KeepaliveInv
  <2>5. \/ timers' = timers \ {t} /\ challenges' = [challenges EXCEPT ![c] = NoTimer]
        \/ timers' = (timers \ {t}) \cup {next} /\ challenges' = [challenges EXCEPT ![c] = next.id]
    <3>1. challengeTimeouts[c] = NoTimer => challengeTimeouts' # [challengeTimeouts EXCEPT ![c] = timeout.id]
      BY <1>2, <1>4, <1>5, <1>8
    <3> QED BY <1>7, <3>1
  <2> QED BY <2>3, <2>4, <2>5
<1>9. CASE /\ sock[c] = "connected" /\ challengeTimeouts[c] = NoTimer
           /\ timers' = (timers \ {t}) \cup {next, timeout}
           /\ challenges' = [challenges EXCEPT ![c] = next.id]
           /\ challengeTimeouts' = [challengeTimeouts EXCEPT ![c] = timeout.id]
           /\ IrcSendFirst(c, NewLine(c, "ping", timeout.id))
  <2>1. IrcInv' /\ \A d \in Conns : (sock'[d] = "closed") <=> (sock[d] = "closed")
    BY <1>1, <1>2, <1>4, <1>9, PlaysPing
  <2>2. IsFiniteSet((timers \ {t}) \cup {next, timeout})
    <3>1. IsFiniteSet((timers \ {t}) \cup {next})
      BY <1>6, FS_AddElement
    <3>2. IsFiniteSet(((timers \ {t}) \cup {next}) \cup {timeout})
      BY <3>1, FS_AddElement
    <3>3. ((timers \ {t}) \cup {next}) \cup {timeout} = (timers \ {t}) \cup {next, timeout}
      OBVIOUS
    <3> QED BY <3>2, <3>3
  <2>3. /\ PluginTypeOK' /\ challenges'[c] = next.id /\ challengeTimeouts'[c] = timeout.id
        /\ \A d \in Conns : d # c => /\ challenges'[d] = challenges[d]
                                     /\ challengeTimeouts'[d] = challengeTimeouts[d]
    BY <1>1, <1>2, <1>3, <1>4, <1>5, <1>6, <1>9, <2>2 DEF PluginTypeOK
  <2>4. {next, timeout} \in SUBSET TimerRecord
    BY <1>3, <1>4
  <2>5. PluginInv'
    <3> DEFINE more == {next, timeout}
    <3>1. /\ \A u \in more : u = next \/ u = timeout
          /\ next \in more /\ timeout \in more /\ more \in SUBSET TimerRecord
          /\ timers' = (timers \ {t}) \cup more
      BY <1>9, <2>4
    <3> HIDE DEF more
    <3>2. \A u \in more : /\ u.conn = t.conn /\ u.id # NoTimer
                          /\ \/ u.kind = "challenge" /\ u.id = challenges'[t.conn]
                             \/ /\ u.kind = "timeout" /\ u.id = challengeTimeouts'[t.conn]
                                /\ u.left = KeepaliveTimeout /\ u.epoch = epoch[t.conn]
                                /\ sock[t.conn] # "closed" /\ challengeTimeouts[t.conn] = NoTimer
      BY <1>3, <1>4, <1>9, <2>3, <3>1
    <3>3. \A u, v \in more : u.kind = v.kind => u = v
      BY <1>3, <1>4, <3>1
    <3>4. (\E u \in more : u.kind = "challenge") /\ (\E u \in more : u.kind = "timeout")
      BY <1>3, <1>4, <3>1
    <3> QED BY <1>1, <2>1, <2>3, <3>1, <3>2, <3>3, <3>4, ChallengeTimers
  <2> QED BY <2>1, <2>5 DEF KeepaliveInv
<1> QED BY <1>7, <1>8, <1>9

\* The timeout of c is over: the answer came, or nobody waits for it any more.
LEMMA TimeoutOver ==
  ASSUME PluginInv, NEW c \in Conns,
         timers' = {t \in timers : ~(t.conn = c /\ t.kind = "timeout")},
         challengeTimeouts' = [challengeTimeouts EXCEPT ![c] = NoTimer],
         UNCHANGED <<enabled, challenges, memory, epoch, peer>>,
         \A d \in Conns : (sock'[d] = "closed") <=> (sock[d] = "closed")
  PROVE  PluginInv'
<1>1. PluginTypeOK /\ ConnOK(c)
  BY DEF PluginInv
<1>2. PluginTypeOK'
  <2>1. timers' \in SUBSET timers
    OBVIOUS
  <2>2. IsFiniteSet(timers')
    BY <1>1, <2>1, FS_Subset DEF PluginTypeOK
  <2> QED BY <1>1, <2>1, <2>2 DEF PluginTypeOK, NoTimer, peer
<1>3. OnlyOf(c)
  BY <1>1, <1>2 DEF OnlyOf, PluginTypeOK
<1>4. \A u : u \in TimersOf(c)' <=> u \in TimersOf(c) /\ u.kind # "timeout"
  BY DEF TimersOf
<1>5. challengeTimeouts'[c] = NoTimer
  BY <1>1 DEF PluginTypeOK
<1>6. Tabled(c)' /\ OneOfAKind(c)'
  BY <1>1, <1>4, <1>5 DEF ConnOK, Tabled, OneOfAKind
<1>7. EnabledKnown(c)'
  BY <1>1, <1>4, <1>5 DEF ConnOK, EnabledKnown, Live
<1>8. TimeoutsFit(c)' /\ ReconnectsClosed(c)'
  BY <1>1, <1>4 DEF ConnOK, TimeoutsFit, ReconnectsClosed
<1> QED BY <1>3, <1>6, <1>7, <1>8, OnlyOfInv DEF ConnOK

\* disconnectSocket, which leaves the rest to the poll timer.
LEMMA DropInv ==
  ASSUME IrcInv, NEW c \in Conns, sock' = Drops(c),
         UNCHANGED <<memory, epoch, queue, server, asked, poll>>
  PROVE  IrcInv' /\ \A d \in Conns : (sock'[d] = "closed") <=> (sock[d] = "closed")
<1>1. IrcTypeOK
  BY DEF IrcInv
<1>2. /\ sock' \in [Conns -> SockStates]
      /\ \A d \in Conns : (sock'[d] = "closed") <=> (sock[d] = "closed")
  BY <1>1 DEF IrcTypeOK, Drops, SockStates
<1>3. /\ ServerOK' /\ sent' = sent /\ stage' = stage /\ round' = round
      /\ asked' = asked /\ asked \in 0..MaxUser
  BY <1>1 DEF IrcTypeOK, ServerOK, server, poll
<1>4. asked \in Nat /\ asked <= asked
  BY <1>3, IrcAssumption
<1> QED BY <1>2, <1>3, <1>4, QuietInv DEF Stale

\* challenge_timeout.
LEMMA ChallengeTimeoutInv ==
  ASSUME KeepaliveInv, NEW t \in timers, ChallengeTimeout(t)
  PROVE  KeepaliveInv'
<1> DEFINE c == t.conn
<1>1. /\ IrcInv /\ PluginInv /\ t.kind = "timeout"
      /\ timers' = timers \ {t} /\ sock' = Drops(c)
      /\ challengeTimeouts' = [challengeTimeouts EXCEPT ![c] = NoTimer]
      /\ UNCHANGED <<memory, epoch, queue, server, asked, poll, enabled, challenges, peer>>
  BY DEF KeepaliveInv, ChallengeTimeout
<1>2. /\ c \in Conns
      /\ \A u \in timers : u.conn = c /\ u.kind = "timeout" => u = t
  <2>1. c \in Conns /\ \A u \in TimersOf(c) : u.kind = "timeout" => u = t
    BY <1>1, DueTimer
  <2> QED BY <2>1 DEF TimersOf
<1>3. IrcInv' /\ \A d \in Conns : (sock'[d] = "closed") <=> (sock[d] = "closed")
  BY <1>1, <1>2, DropInv
<1>4. timers' = {u \in timers : ~(u.conn = c /\ u.kind = "timeout")}
  BY <1>1, <1>2
<1>5. PluginInv'
  BY <1>1, <1>2, <1>3, <1>4, TimeoutOver
<1> QED BY <1>3, <1>5 DEF KeepaliveInv

\* listener_remoteDisconnect.
LEMMA PollDisconnectInv ==
  ASSUME TimeoutFirst, KeepaliveInv, NEW c \in Conns, PollDisconnect(c)
  PROVE  KeepaliveInv'
<1> DEFINE new == NewTimer(c, "reconnect", ReconnectTimeout)
<1>1. /\ IrcInv /\ PluginInv /\ PluginTypeOK /\ IrcTypeOK /\ ConnOK(c)
      /\ UNCHANGED <<memory, enabled, challenges, challengeTimeouts>>
  BY DEF KeepaliveInv, IrcInv, PluginInv, PollDisconnect, PollDisconnectPart
<1>2. IrcInv'
  BY <1>1, PollDisconnectPartInv DEF PollDisconnect
<1>3. sock[c] # "closed"
  BY <1>1 DEF IrcInv, RoundKnown, PollDisconnect, PollDisconnectPart, Polling
<1>4. /\ sock'[c] = "closed"
      /\ \A d \in Conns : d # c => sock'[d] = sock[d] /\ epoch'[d] = epoch[d]
  BY <1>1 DEF PollDisconnect, PollDisconnectPart, IrcTypeOK
<1>5. /\ new \in TimerRecord /\ new.conn = c /\ new.kind = "reconnect"
      /\ new.left = ReconnectTimeout
  <2>1. "reconnect" \in Kinds
    BY DEF Kinds
  <2> QED BY <1>1, <2>1, Intervals, NewTimerFacts
<1>6. timers' = IF enabled[c] THEN timers \cup {new} ELSE timers
  BY DEF PollDisconnect
<1> HIDE DEF new
<1>7. PluginTypeOK'
  <2>1. IsFiniteSet(timers \cup {new})
    BY <1>1, FS_AddElement DEF PluginTypeOK
  <2> QED BY <1>1, <1>5, <1>6, <2>1 DEF PluginTypeOK, PollDisconnect
<1>8. OnlyOf(c)
  BY <1>1, <1>4, <1>5, <1>6, <1>7 DEF OnlyOf
<1>9. /\ \A u \in TimersOf(c) : u \in TimersOf(c)' /\ u.kind # "reconnect"
      /\ \A u \in TimersOf(c)' : u \in TimersOf(c) \/ u = new
      /\ enabled[c] => new \in TimersOf(c)'
  BY <1>1, <1>3, <1>5, <1>6 DEF TimersOf, ConnOK, ReconnectsClosed
<1>10. Tabled(c)' /\ OneOfAKind(c)'
  BY <1>1, <1>5, <1>9 DEF ConnOK, Tabled, OneOfAKind
<1>11. EnabledKnown(c)'
  <2>1. memory[c] # "unused"
    BY <1>1 DEF IrcInv, RoundKnown, PollDisconnect, PollDisconnectPart, Polling, Live
  <2> QED BY <1>1, <2>1 DEF ConnOK, EnabledKnown, Live
<1>12. TimeoutsFit(c)'
  <2>1. ASSUME NEW u \in TimersOf(c)', u.kind = "timeout"
        PROVE  /\ u.left <= KeepaliveTimeout
               /\ \E r \in TimersOf(c)' : r.kind = "reconnect" /\ u.left <= r.left
    <3>1. u \in TimersOf(c)
      BY <1>5, <1>9, <2>1
    <3>2. enabled[c] /\ u.left <= KeepaliveTimeout
      BY <1>1, <2>1, <3>1 DEF ConnOK, Tabled, EnabledKnown, TimeoutsFit
    <3>3. u.left \in Nat
      BY <1>1, <3>1, TimerFields DEF PluginTypeOK, TimersOf
    <3>4. u.left <= new.left
      BY <1>5, <3>2, <3>3, Intervals DEF TimeoutFirst
    <3> QED BY <1>5, <1>9, <3>2, <3>4
  <2> QED BY <1>4, <2>1 DEF TimeoutsFit
<1>13. ReconnectsClosed(c)'
  BY <1>4 DEF ReconnectsClosed
<1> QED BY <1>1, <1>2, <1>8, <1>10, <1>11, <1>12, <1>13, OnlyOfInv DEF ConnOK, KeepaliveInv

\* A line of the server that needs no answer leaves the connections alone.
LEMMA LineInv ==
  ASSUME IrcInv, NEW c \in Conns, LinePart(c), UNCHANGED <<sock, obuffer, sent, greeted>>,
         pings' \in [Conns -> Seq(Nat)]
  PROVE  IrcInv'
<1>1. /\ IrcTypeOK /\ stage = "poll" /\ stage' = stage /\ round' = round \ {c}
      /\ asked' = asked
  BY DEF IrcInv, LinePart, Polling, Polled
<1>2. asked \in 0..MaxUser /\ asked <= asked
  BY <1>1, IrcAssumption DEF IrcTypeOK
<1>3. ServerOK' /\ sock' \in [Conns -> SockStates] /\ UNCHANGED <<memory, epoch, queue, stage>>
  BY <1>1 DEF IrcTypeOK, ServerOK, LinePart, queue
<1> QED BY <1>1, <1>2, <1>3, QuietInv

\* The registration is confirmed.
LEMMA PollRegisteredInv ==
  ASSUME KeepaliveInv, NEW c \in Conns, PollRegistered(c)
  PROVE  KeepaliveInv'
<1>1. /\ IrcInv /\ PluginInv /\ PluginTypeOK /\ IrcTypeOK /\ LinePart(c)
      /\ sock[c] = "connected" /\ Live(c)
      /\ UNCHANGED <<sock, obuffer, server, enabled, silent, memory, epoch>>
      /\ registered' = [registered EXCEPT ![c] = TRUE]
  BY DEF KeepaliveInv, IrcInv, PluginInv, PollRegistered, LinePart, Polling, RoundKnown
<1>2. pings' \in [Conns -> Seq(Nat)] /\ sent' = sent /\ greeted' = greeted
  BY <1>1 DEF IrcTypeOK, server
<1>3. IrcInv'
  BY <1>1, <1>2, LineInv
<1>4. silent' \in [Conns -> BOOLEAN] /\ registered' \in [Conns -> BOOLEAN]
  BY <1>1 DEF PluginTypeOK
<1>5. CASE enabled[c]
  <2>1. RescheduleKeepaliveTimer(c)
    BY <1>5 DEF PollRegistered
  <2>2. enabled' = [enabled EXCEPT ![c] = TRUE]
    BY <1>1, <1>5 DEF PluginTypeOK
  <2> QED BY <1>1, <1>3, <1>4, <2>1, <2>2, RescheduleInv DEF KeepaliveInv
<1>6. CASE ~enabled[c]
  <2>1. UNCHANGED plugin
    BY <1>1, <1>6 DEF PollRegistered, plugin
  <2> QED BY <1>1, <1>3, <1>4, <2>1, PluginUnchanged DEF KeepaliveInv
<1> QED BY <1>5, <1>6

LEMMA PollNothingInv ==
  ASSUME IrcInv, NEW c \in Conns, PollNothing(c)
  PROVE  IrcInv'
<1>1. /\ IrcTypeOK /\ stage = "poll" /\ stage' = stage /\ round' = round \ {c} /\ asked' = asked
      /\ UNCHANGED <<link, queue, server>>
  BY DEF IrcInv, PollNothing, Polling, Polled
<1>2. asked \in 0..MaxUser /\ asked <= asked
  BY <1>1, IrcAssumption DEF IrcTypeOK
<1>3. /\ ServerOK' /\ sent' = sent /\ sock' = sock
      /\ sock' \in [Conns -> SockStates] /\ UNCHANGED <<memory, epoch, queue, stage>>
  BY <1>1 DEF IrcTypeOK, ServerOK, server, link
<1> QED BY <1>1, <1>2, <1>3, QuietInv

LEMMA PongLineInv ==
  ASSUME IrcInv, NEW c \in Conns, NEW id, PollPong(c, id)
  PROVE  IrcInv'
<1> DEFINE s == pings[c]
           I == {i \in DOMAIN s : s[i] # id}
<1>1. LinePart(c) /\ UNCHANGED <<sock, obuffer, greeted, sent>>
      /\ pings' = [pings EXCEPT ![c] = Selected(s, I)]
  BY DEF PollPong
<1>2. s \in Seq(Nat) /\ pings \in [Conns -> Seq(Nat)]
  BY DEF IrcInv, IrcTypeOK
<1>3. I \in SUBSET (1..Len(s))
  BY <1>2
<1> HIDE DEF s, I
<1>4. Selected(s, I) \in Seq(Nat)
  BY <1>2, <1>3, SelectedFacts
<1>5. pings' \in [Conns -> Seq(Nat)]
  BY <1>1, <1>2, <1>4
<1> QED BY <1>1, <1>5, LineInv

\* The server answers a PING, of this challenge or of an older one.
LEMMA PollPongInv ==
  ASSUME KeepaliveInv, NEW c \in Conns, NEW id \in ToSet(pings[c]), PollPong(c, id)
  PROVE  KeepaliveInv'
<1>1. /\ IrcInv /\ PluginInv /\ PluginTypeOK /\ IrcTypeOK /\ ConnOK(c) /\ LinePart(c)
      /\ UNCHANGED <<sock, obuffer, greeted, sent, enabled, challenges, peer, memory, epoch>>
  BY DEF KeepaliveInv, IrcInv, PluginInv, PollPong, LinePart
<1>3. IrcInv'
  BY <1>1, PongLineInv
<1>4. CASE enabled[c] /\ challengeTimeouts[c] = id
  <2>1. timers' = timers \ WithId(c, "timeout", id)
        /\ challengeTimeouts' = [challengeTimeouts EXCEPT ![c] = NoTimer]
    BY <1>4 DEF PollPong
  <2>2. \A t \in timers : t.conn = c /\ t.kind = "timeout" => t.id = id
    BY <1>1, <1>4 DEF ConnOK, Tabled, TimersOf
  <2>3. timers' = {t \in timers : ~(t.conn = c /\ t.kind = "timeout")}
    BY <2>1, <2>2 DEF WithId, Timer
  <2> QED BY <1>1, <1>3, <2>1, <2>3, TimeoutOver DEF KeepaliveInv
<1>5. CASE ~(enabled[c] /\ challengeTimeouts[c] = id)
  <2>1. UNCHANGED plugin
    BY <1>1, <1>5 DEF PollPong, plugin
  <2>2. silent' \in [Conns -> BOOLEAN] /\ registered' \in [Conns -> BOOLEAN]
    BY <1>1 DEF PluginTypeOK, peer
  <2> QED BY <1>1, <1>3, <2>1, <2>2, PluginUnchanged DEF KeepaliveInv
<1> QED BY <1>4, <1>5

\* What users do with the plugin.
LEMMA EnablePluginInv ==
  ASSUME KeepaliveInv, NEW c \in Conns, EnablePlugin(c)
  PROVE  KeepaliveInv'
<1>1. /\ IrcInv /\ PluginInv /\ PluginTypeOK /\ IrcTypeOK /\ ConnOK(c) /\ Live(c) /\ ~enabled[c]
      /\ UNCHANGED <<ircVars, peer>> /\ enabled' = [enabled EXCEPT ![c] = TRUE]
  BY DEF KeepaliveInv, IrcInv, PluginInv, EnablePlugin
<1>2. IrcInv'
  BY <1>1, SameIrc
<1>3. UNCHANGED <<memory, epoch, sock, silent, registered>>
  BY <1>1 DEF ircVars, link, peer
<1>4. silent' \in [Conns -> BOOLEAN] /\ registered' \in [Conns -> BOOLEAN]
  BY <1>1, <1>3 DEF PluginTypeOK
<1>5. CASE sock[c] = "connected"
  <2>1. RescheduleKeepaliveTimer(c)
    BY <1>5 DEF EnablePlugin
  <2> QED BY <1>1, <1>2, <1>3, <1>4, <2>1, RescheduleInv DEF KeepaliveInv
<1>6. CASE sock[c] # "connected"
  <2>1. timers' = timers /\ challenges' = challenges /\ challengeTimeouts' = challengeTimeouts
    BY <1>6 DEF EnablePlugin
  <2>2. PluginTypeOK' /\ OnlyOf(c)
    BY <1>1, <1>3, <2>1 DEF PluginTypeOK, OnlyOf
  <2>3. TimersOf(c)' = TimersOf(c) /\ enabled'[c]
    BY <1>1, <2>1 DEF TimersOf, PluginTypeOK
  <2>4. ConnOK(c)'
    BY <1>1, <1>3, <2>1, <2>3
       DEF ConnOK, Tabled, OneOfAKind, EnabledKnown, TimeoutsFit, ReconnectsClosed, Live
  <2> QED BY <1>1, <1>2, <2>2, <2>4, OnlyOfInv DEF KeepaliveInv
<1> QED BY <1>5, <1>6

\* Users have done one thing more, and nothing happened to the connections.
LEMMA AskedInv ==
  ASSUME IrcInv, asked < MaxUser, asked' = asked + 1, UNCHANGED <<link, queue, server, poll>>
  PROVE  IrcInv'
<1>1. IrcTypeOK
  BY DEF IrcInv
<1>2. asked' \in 0..MaxUser /\ asked <= asked'
  BY <1>1, IrcAssumption DEF IrcTypeOK
<1>3. /\ ServerOK' /\ sent' = sent /\ round' = round /\ sock' = sock
      /\ sock' \in [Conns -> SockStates] /\ UNCHANGED <<memory, epoch, queue, stage>>
  BY <1>1 DEF IrcTypeOK, ServerOK, server, link, poll
<1> QED BY <1>2, <1>3, QuietInv DEF Stale

LEMMA DisablePluginInv ==
  ASSUME KeepaliveInv, NEW c \in Conns, DisablePlugin(c)
  PROVE  KeepaliveInv'
<1>1. IrcInv /\ PluginInv /\ PluginTypeOK /\ memory[c] = "live"
  BY DEF KeepaliveInv, PluginInv, DisablePlugin, Live
<1>2. IrcInv'
  BY <1>1, AskedInv DEF DisablePlugin
<1>3. UNCHANGED <<memory, epoch, sock, silent, registered>>
  BY DEF DisablePlugin, link, peer
<1>4. PluginInv'
  BY <1>1, <1>3, FiniInv DEF DisablePlugin, PluginTypeOK
<1> QED BY <1>2, <1>4 DEF KeepaliveInv

LEMMA BouncerReattachedInv ==
  ASSUME KeepaliveInv, NEW c \in Conns, BouncerReattached(c)
  PROVE  KeepaliveInv'
<1>1. IrcInv /\ PluginInv /\ PluginTypeOK /\ IrcTypeOK /\ Live(c)
  BY DEF KeepaliveInv, IrcInv, PluginInv, BouncerReattached
<1>2. IrcInv'
  BY <1>1, AskedInv DEF BouncerReattached
<1>3. UNCHANGED <<memory, epoch, sock, silent, registered>>
  BY DEF BouncerReattached, link, peer
<1>4. enabled' = [enabled EXCEPT ![c] = TRUE]
  BY <1>1 DEF PluginTypeOK, BouncerReattached
<1>5. PluginInv'
  BY <1>1, <1>3, <1>4, RescheduleInv DEF BouncerReattached, PluginTypeOK
<1> QED BY <1>2, <1>5 DEF KeepaliveInv

Later(t) == [t EXCEPT !.left = t.left - 1]

LEMMA LaterFacts ==
  ASSUME PluginTypeOK, Tick, NEW t \in timers
  PROVE  /\ Later(t) \in TimerRecord /\ Later(t).id = t.id /\ Later(t).conn = t.conn
         /\ Later(t).kind = t.kind /\ Later(t).epoch = t.epoch
         /\ Later(t).left = t.left - 1 /\ t.left \in Nat
<1>1. t \in TimerRecord /\ t.left > 0
  BY DEF PluginTypeOK, Tick, NotDue
<1>2. t.left \in Nat /\ t.left - 1 \in Nat
  BY <1>1, TimerFields
<1> QED BY <1>1, <1>2 DEF TimerRecord, Later

LEMMA TickTyped ==
  ASSUME PluginTypeOK, Tick
  PROVE  timers' = {Later(t) : t \in timers} /\ PluginTypeOK'
<1>1. timers' = {Later(t) : t \in timers}
  BY DEF Tick, Later
<1>2. IsFiniteSet(timers')
  <2> DEFINE f == [t \in timers |-> Later(t)]
  <2>1. timers' = {f[t] : t \in timers} /\ DOMAIN f = timers
    BY <1>1
  <2> HIDE DEF f
  <2> QED BY <2>1, ImageFinite DEF PluginTypeOK
<1> QED BY <1>1, <1>2, LaterFacts DEF PluginTypeOK, Tick, peer

\* A tick: every timer waits one tick less.
LEMMA TickInv ==
  ASSUME KeepaliveInv, Tick
  PROVE  KeepaliveInv'
<1>1. /\ IrcInv /\ PluginInv /\ PluginTypeOK
      /\ UNCHANGED <<memory, epoch, sock, enabled, challenges, challengeTimeouts, silent, registered>>
  BY DEF KeepaliveInv, PluginInv, Tick, TickPart, link, peer
<1>2. IrcInv'
  BY <1>1, TickPartInv DEF Tick
<1>3. ASSUME NEW t \in timers
      PROVE  /\ Later(t) \in TimerRecord /\ Later(t).id = t.id /\ Later(t).conn = t.conn
             /\ Later(t).kind = t.kind /\ Later(t).epoch = t.epoch
             /\ Later(t).left = t.left - 1 /\ t.left \in Nat
  BY <1>1, LaterFacts
<1>5. timers' = {Later(t) : t \in timers} /\ PluginTypeOK'
  BY <1>1, TickTyped
<1>6. ASSUME NEW c \in Conns
      PROVE  ConnOK(c)'
  <2>1. ConnOK(c)
    BY <1>1 DEF PluginInv
  <2>2. /\ \A t \in TimersOf(c) : t \in timers /\ Later(t) \in TimersOf(c)'
        /\ \A u \in TimersOf(c)' : \E t \in TimersOf(c) : u = Later(t)
    BY <1>3, <1>5 DEF TimersOf
  <2>3. Tabled(c)'
    BY <1>1, <1>3, <2>1, <2>2 DEF ConnOK, Tabled
  <2>4. OneOfAKind(c)'
    BY <1>3, <2>1, <2>2 DEF ConnOK, OneOfAKind
  <2>5. EnabledKnown(c)'
    BY <1>1, <2>1, <2>2 DEF ConnOK, EnabledKnown, Live
  <2>6. TimeoutsFit(c)'
    <3>1. ASSUME NEW t \in TimersOf(c), t.kind = "timeout"
          PROVE  /\ Later(t).left <= KeepaliveTimeout
                 /\ sock[c] # "closed" => Later(t).epoch = epoch[c]
                 /\ sock[c] = "closed" => \E r \in TimersOf(c)' : r.kind = "reconnect" /\ Later(t).left <= r.left
      <4>1. /\ t.left <= KeepaliveTimeout
            /\ sock[c] # "closed" => t.epoch = epoch[c]
            /\ sock[c] = "closed" => \E r \in TimersOf(c) : r.kind = "reconnect" /\ t.left <= r.left
        BY <2>1, <3>1 DEF ConnOK, TimeoutsFit
      <4>2. Later(t).left <= KeepaliveTimeout
        BY <1>3, <2>2, <4>1, Intervals
      <4>3. \A r \in TimersOf(c) : r.kind = "reconnect" /\ t.left <= r.left =>
              Later(r) \in TimersOf(c)' /\ Later(r).kind = "reconnect" /\ Later(t).left <= Later(r).left
        BY <1>3, <2>2
      <4> QED BY <1>3, <2>2, <4>1, <4>2, <4>3
    <3> QED BY <1>1, <1>3, <2>2, <3>1 DEF TimeoutsFit
  <2>7. ReconnectsClosed(c)'
    BY <1>1, <1>3, <2>1, <2>2 DEF ConnOK, ReconnectsClosed
  <2> QED BY <2>3, <2>4, <2>5, <2>6, <2>7 DEF ConnOK
<1> QED BY <1>2, <1>5, <1>6 DEF KeepaliveInv, PluginInv

-----------------------------------------------------------------------------
(* The specification.                                                      *)

LEMMA InitInv == Init => KeepaliveInv
<1> SUFFICES ASSUME Init PROVE KeepaliveInv
  OBVIOUS
<1>1. IrcInv
  BY IrcInitInv DEF Init
<1>2. /\ timers = {} /\ enabled = [c \in Conns |-> FALSE]
      /\ challenges = [c \in Conns |-> NoTimer] /\ challengeTimeouts = [c \in Conns |-> NoTimer]
      /\ silent = [c \in Conns |-> FALSE] /\ registered = [c \in Conns |-> FALSE]
  BY DEF Init
<1>3. PluginTypeOK
  BY <1>2, FS_EmptySet DEF PluginTypeOK, NoTimer
<1>4. ASSUME NEW c \in Conns
      PROVE  ConnOK(c)
  <2>1. TimersOf(c) = {} /\ ~enabled[c] /\ challenges[c] = NoTimer /\ challengeTimeouts[c] = NoTimer
    BY <1>2 DEF TimersOf
  <2> QED BY <2>1 DEF ConnOK, Tabled, OneOfAKind, EnabledKnown, TimeoutsFit, ReconnectsClosed
<1> QED BY <1>1, <1>3, <1>4 DEF KeepaliveInv, PluginInv

\* The plugin does not take part.
LEMMA PluginRests ==
  ASSUME KeepaliveInv, IrcInv', UNCHANGED <<plugin, peer>>, UNCHANGED <<memory, epoch>>,
         \A d \in Conns : (sock'[d] = "closed") <=> (sock[d] = "closed")
  PROVE  KeepaliveInv'
<1>1. PluginInv /\ silent' \in [Conns -> BOOLEAN] /\ registered' \in [Conns -> BOOLEAN]
  BY DEF KeepaliveInv, PluginInv, PluginTypeOK, peer
<1> QED BY <1>1, PluginUnchanged DEF KeepaliveInv

\* The other steps of the poll timer.
LEMMA OtherStepsInv ==
  ASSUME KeepaliveInv, NEW c \in Conns, UNCHANGED <<plugin, peer>>,
         \/ StartPoll \/ SocketsPolled \/ EndPoll
         \/ OtherPoll(c) \/ ThrottleStep(c) \/ UserSends(c)
  PROVE  KeepaliveInv'
<1>1. IrcInv /\ IrcTypeOK
  BY DEF KeepaliveInv, IrcInv
<1>2. CASE StartPoll \/ SocketsPolled \/ EndPoll
  <2>1. UNCHANGED link
    BY <1>2 DEF StartPoll, SocketsPolled, EndPoll
  <2> QED BY <1>1, <1>2, <2>1, StagesInv, PluginRests DEF link
<1>3. CASE PollNothing(c)
  <2>1. UNCHANGED <<memory, epoch, sock>>
    BY <1>3 DEF PollNothing, link
  <2> QED BY <1>1, <1>3, <2>1, PollNothingInv, PluginRests
<1>4. CASE PollConnected(c)
  <2>1. UNCHANGED <<memory, epoch>>
    BY <1>4 DEF PollConnected
  <2> QED BY <1>1, <1>4, <2>1, PollConnectedInv, PluginRests
<1>5. CASE PingPart(c)
  <2>1. UNCHANGED <<memory, epoch>>
    BY <1>5 DEF PingPart, LinePart
  <2> QED BY <1>1, <1>5, <2>1, PingPartInv, PluginRests
<1>6. CASE ThrottleStep(c)
  <2>1. UNCHANGED <<memory, epoch>>
    BY <1>6 DEF ThrottleStep
  <2> QED BY <1>1, <1>6, <2>1, ThrottleStepInv, PluginRests
<1>7. CASE UserSends(c)
  <2>1. UNCHANGED <<memory, epoch>>
    BY <1>7 DEF UserSends
  <2> QED BY <1>1, <1>7, <2>1, UserSendsInv, PluginRests
<1> QED BY <1>2, <1>3, <1>4, <1>5, <1>6, <1>7 DEF OtherPoll

LEMMA UserStepInv ==
  ASSUME KeepaliveInv, UserStep
  PROVE  KeepaliveInv'
<1>1. IrcInv /\ PluginInv
  BY DEF KeepaliveInv
<1>2. PICK c \in Conns :
        \/ \E th \in BOOLEAN : Create(c, th)
        \/ EnablePlugin(c) \/ DisablePlugin(c) \/ Free(c) \/ BouncerReattached(c)
        \/ FallSilent(c)
        \/ UserSends(c) /\ UNCHANGED <<plugin, peer>>
  BY DEF UserStep
<1>3. CASE \E th \in BOOLEAN : Create(c, th)
  <2>1. PICK th \in BOOLEAN : Create(c, th)
    BY <1>3
  <2>2. Idle /\ CreatePart(c, th) /\ UNCHANGED <<plugin, peer>>
    BY <2>1 DEF Create
  <2> QED BY <1>1, <2>2, CreateInv, CreatePluginInv DEF KeepaliveInv
<1>4. CASE EnablePlugin(c)
  BY <1>4, EnablePluginInv
<1>5. CASE DisablePlugin(c)
  BY <1>5, DisablePluginInv
<1>6. CASE Free(c)
  <2>1. Idle /\ FreePart(c)
    BY <1>6 DEF Free
  <2> QED BY <1>1, <1>6, <2>1, FreeInv, FreePluginInv DEF KeepaliveInv
<1>7. CASE BouncerReattached(c)
  BY <1>7, BouncerReattachedInv
<1>8. CASE FallSilent(c)
  <2>1. UNCHANGED <<ircVars, plugin, registered>> /\ silent' = [silent EXCEPT ![c] = TRUE]
    BY <1>8 DEF FallSilent
  <2>2. UNCHANGED <<memory, epoch, sock>>
    BY <2>1 DEF ircVars, link
  <2>3. silent' \in [Conns -> BOOLEAN] /\ registered' \in [Conns -> BOOLEAN]
    BY <1>1, <2>1 DEF PluginInv, PluginTypeOK
  <2> QED BY <1>1, <2>1, <2>2, <2>3, SameIrc, PluginUnchanged DEF KeepaliveInv
<1>9. CASE UserSends(c) /\ UNCHANGED <<plugin, peer>>
  BY <1>9, OtherStepsInv
<1> QED BY <1>2, <1>3, <1>4, <1>5, <1>6, <1>7, <1>8, <1>9

LEMMA PollStepInv ==
  ASSUME TimeoutFirst, KeepaliveInv, PollStep
  PROVE  KeepaliveInv'
<1>1. CASE (StartPoll \/ SocketsPolled \/ EndPoll) /\ UNCHANGED <<plugin, peer>>
  <2>1. IrcInv /\ UNCHANGED link
    BY <1>1 DEF KeepaliveInv, StartPoll, SocketsPolled, EndPoll
  <2> QED BY <1>1, <2>1, StagesInv, PluginRests DEF link
<1>2. CASE \E c \in Conns : (OtherPoll(c) \/ ThrottleStep(c)) /\ UNCHANGED <<plugin, peer>>
  BY <1>2, OtherStepsInv
<1>3. CASE \E c \in Conns : PollDisconnect(c)
  BY <1>3, PollDisconnectInv
<1>4. CASE \E c \in Conns : PollRegistered(c)
  BY <1>4, PollRegisteredInv
<1>5. CASE \E c \in Conns : \E id \in ToSet(pings[c]) : PollPong(c, id)
  BY <1>5, PollPongInv
<1> QED BY <1>1, <1>2, <1>3, <1>4, <1>5 DEF PollStep

LEMMA StepInv ==
  ASSUME TimeoutFirst, KeepaliveInv, [Next]_vars
  PROVE  KeepaliveInv'
<1>1. CASE PollStep
  BY <1>1, PollStepInv
<1>2. CASE TimerStep
  BY <1>2, ReconnectInv, ChallengeInv, ChallengeTimeoutInv DEF TimerStep
<1>3. CASE UserStep
  BY <1>3, UserStepInv
<1>4. CASE Tick
  BY <1>4, TickInv
<1>5. CASE UNCHANGED vars
  <2>1. /\ UNCHANGED ircVars /\ UNCHANGED <<plugin, peer>> /\ UNCHANGED <<memory, epoch, sock>>
        /\ IrcInv
    BY <1>5 DEF vars, ircVars, link, KeepaliveInv
  <2> QED BY <2>1, SameIrc, PluginRests
<1> QED BY <1>1, <1>2, <1>3, <1>4, <1>5 DEF Next

-----------------------------------------------------------------------------
(* What holds whatever the timeouts are: the connections' invariant and    *)
(* the types of the plugin's state.                                        *)

TypedInv == IrcInv /\ PluginTypeOK

\* Timers are stopped, and at most two are set.
LEMMA TimersTyped ==
  ASSUME PluginTypeOK, NEW s \in TimerRecord, NEW t \in TimerRecord,
         timers' \subseteq timers \cup {s, t},
         challenges' \in [Conns -> Nat], challengeTimeouts' \in [Conns -> Nat],
         enabled' \in [Conns -> BOOLEAN],
         silent' \in [Conns -> BOOLEAN], registered' \in [Conns -> BOOLEAN]
  PROVE  PluginTypeOK'
<1>1. IsFiniteSet((timers \cup {s}) \cup {t})
  BY FS_AddElement DEF PluginTypeOK
<1>2. timers' \subseteq (timers \cup {s}) \cup {t}
  OBVIOUS
<1>3. IsFiniteSet(timers')
  BY <1>1, <1>2, FS_Subset
<1> QED BY <1>3 DEF PluginTypeOK

\* The timers that the plugin sets for c.
LEMMA NewTimersTyped ==
  ASSUME TypedInv, NEW c \in Conns
  PROVE  /\ NewTimer(c, "challenge", KeepaliveInterval) \in TimerRecord
         /\ NewTimer(c, "challenge", KeepaliveInterval).id \in Nat
         /\ NewTimeout(c) \in TimerRecord /\ NewTimeout(c).id \in Nat
         /\ NewTimer(c, "reconnect", ReconnectTimeout) \in TimerRecord
<1>1. {"challenge", "timeout", "reconnect"} \subseteq Kinds
  BY DEF Kinds
<1>2. IrcTypeOK /\ PluginTypeOK
  BY DEF TypedInv, IrcInv
<1> QED BY <1>1, <1>2, Intervals, NewTimerFacts, TimerFields DEF NewTimeout

\* The keepalive timers of c are stopped, and the challenge perhaps set again.
LEMMA ClearedTyped ==
  ASSUME TypedInv, NEW c \in Conns, RescheduleKeepaliveTimer(c) \/ FiniPlugin(c),
         enabled' \in [Conns -> BOOLEAN],
         silent' \in [Conns -> BOOLEAN], registered' \in [Conns -> BOOLEAN]
  PROVE  PluginTypeOK'
<1> DEFINE new == NewTimer(c, "challenge", KeepaliveInterval)
<1>1. new \in TimerRecord /\ new.id \in Nat /\ NoTimer \in Nat
  BY NewTimersTyped DEF NoTimer
<1>2. \E id \in Nat : /\ timers' \subseteq timers \cup {new}
                      /\ challengeTimeouts' = [challengeTimeouts EXCEPT ![c] = NoTimer]
                      /\ challenges' = [challenges EXCEPT ![c] = id]
  BY <1>1 DEF RescheduleKeepaliveTimer, FiniPlugin, Cleared
<1>3. challenges' \in [Conns -> Nat] /\ challengeTimeouts' \in [Conns -> Nat]
  BY <1>1, <1>2 DEF TypedInv, PluginTypeOK
<1> HIDE DEF new
<1> QED BY <1>1, <1>2, <1>3, TimersTyped DEF TypedInv

LEMMA TypedTimerStep ==
  ASSUME TypedInv, NEW t \in timers, Reconnect(t) \/ Challenge(t) \/ ChallengeTimeout(t)
  PROVE  TypedInv'
<1> DEFINE c == t.conn
<1>1. /\ IrcInv /\ IrcTypeOK /\ PluginTypeOK /\ c \in Conns /\ t \in TimerRecord
      /\ NoTimer \in Nat /\ Idle /\ Live(c) /\ peer' = peer /\ enabled' = enabled
  BY TimerFields DEF TypedInv, IrcInv, PluginTypeOK, NoTimer, Reconnect, Challenge, ChallengeTimeout, Due
<1>2. /\ enabled' \in [Conns -> BOOLEAN]
      /\ silent' \in [Conns -> BOOLEAN] /\ registered' \in [Conns -> BOOLEAN]
      /\ challenges \in [Conns -> Nat] /\ challengeTimeouts \in [Conns -> Nat]
  BY <1>1 DEF PluginTypeOK, peer
<1>3. CASE Reconnect(t)
  <2> DEFINE new == NewTimer(c, "reconnect", ReconnectTimeout)
  <2>1. new \in TimerRecord
    BY <1>1, NewTimersTyped
  <2>2. /\ timers' \subseteq timers \cup {new}
        /\ challenges' = challenges /\ challengeTimeouts' = challengeTimeouts
    BY <1>3 DEF Reconnect, Retried
  <2> HIDE DEF new
  <2>3. PluginTypeOK'
    BY <1>1, <1>2, <2>1, <2>2, TimersTyped
  <2>4. UNCHANGED ircVars \/ ReconnectPart(c)
    BY <1>3 DEF Reconnect
  <2> QED BY <1>1, <2>3, <2>4, SameIrc, ReconnectPartInv DEF TypedInv
<1>4. CASE Challenge(t)
  <2> DEFINE next == NewTimer(c, "challenge", KeepaliveInterval)
             timeout == NewTimeout(c)
  <2>1. /\ next \in TimerRecord /\ timeout \in TimerRecord
        /\ next.id \in Nat /\ timeout.id \in Nat
    BY <1>1, NewTimersTyped
  <2>2. /\ timers' \subseteq timers \cup {next, timeout}
        /\ \E id \in Nat : challenges' = [challenges EXCEPT ![c] = id]
        /\ \/ UNCHANGED <<sock, obuffer, server, challengeTimeouts>>
           \/ /\ sock[c] = "connected"
              /\ challengeTimeouts' = [challengeTimeouts EXCEPT ![c] = timeout.id]
              /\ IrcSendFirst(c, NewLine(c, "ping", timeout.id))
        /\ UNCHANGED <<memory, epoch, throttle, debt, throttled, asked, poll>>
    BY <1>1, <1>4, <2>1 DEF Challenge
  <2> HIDE DEF next, timeout
  <2>3. challenges' \in [Conns -> Nat] /\ challengeTimeouts' \in [Conns -> Nat]
    BY <1>2, <2>1, <2>2
  <2>4. PluginTypeOK'
    BY <1>1, <1>2, <2>1, <2>2, <2>3, TimersTyped
  <2>5. CASE UNCHANGED <<sock, obuffer, server, challengeTimeouts>>
    <3>1. UNCHANGED ircVars
      BY <2>2, <2>5 DEF ircVars, link, queue
    <3> QED BY <1>1, <2>4, <3>1, SameIrc DEF TypedInv
  <2>6. CASE sock[c] = "connected" /\ IrcSendFirst(c, NewLine(c, "ping", timeout.id))
    BY <1>1, <2>1, <2>2, <2>4, <2>6, PlaysPing DEF TypedInv
  <2> QED BY <2>2, <2>5, <2>6
<1>5. CASE ChallengeTimeout(t)
  <2>1. /\ timers' \subseteq timers \cup {t} /\ challenges' = challenges
        /\ challengeTimeouts' = [challengeTimeouts EXCEPT ![c] = NoTimer] /\ sock' = Drops(c)
        /\ UNCHANGED <<memory, epoch, queue, server, asked, poll>>
    BY <1>5 DEF ChallengeTimeout
  <2>2. challengeTimeouts' \in [Conns -> Nat]
    BY <1>1, <1>2, <2>1
  <2>3. PluginTypeOK'
    BY <1>1, <1>2, <2>1, <2>2, TimersTyped
  <2>4. IrcInv'
    BY <1>1, <2>1, DropInv
  <2> QED BY <2>3, <2>4 DEF TypedInv
<1> QED BY <1>3, <1>4, <1>5

\* The plugin is not concerned, or only hears of it.
LEMMA TypedRest ==
  ASSUME PluginTypeOK, UNCHANGED <<timers, challenges, challengeTimeouts>>,
         enabled' \in [Conns -> BOOLEAN],
         silent' \in [Conns -> BOOLEAN], registered' \in [Conns -> BOOLEAN]
  PROVE  PluginTypeOK'
BY DEF PluginTypeOK

LEMMA TypedPollStep ==
  ASSUME TypedInv, PollStep
  PROVE  TypedInv'
<1>1. IrcInv /\ IrcTypeOK /\ PluginTypeOK
  BY DEF TypedInv, IrcInv
<1>2. CASE (StartPoll \/ SocketsPolled \/ EndPoll) /\ UNCHANGED <<plugin, peer>>
  <2>1. PluginTypeOK'
    BY <1>1, <1>2 DEF PluginTypeOK, plugin, peer
  <2> QED BY <1>1, <1>2, <2>1, StagesInv DEF TypedInv
<1>3. ASSUME NEW c \in Conns, OtherPoll(c) \/ ThrottleStep(c), UNCHANGED <<plugin, peer>>
      PROVE  TypedInv'
  <2>1. PluginTypeOK'
    BY <1>1, <1>3 DEF PluginTypeOK, plugin, peer
  <2>2. PollNothing(c) => IrcInv'
    BY <1>1, PollNothingInv
  <2> QED BY <1>1, <1>3, <2>1, <2>2, PollConnectedInv, PingPartInv, ThrottleStepInv DEF TypedInv, OtherPoll
<1>4. ASSUME NEW c \in Conns, PollDisconnect(c)
      PROVE  TypedInv'
  <2> DEFINE new == NewTimer(c, "reconnect", ReconnectTimeout)
  <2>1. new \in TimerRecord /\ timers' \subseteq timers \cup {new}
    BY <1>4, NewTimersTyped DEF PollDisconnect
  <2>2. /\ challenges' \in [Conns -> Nat] /\ challengeTimeouts' \in [Conns -> Nat]
        /\ enabled' \in [Conns -> BOOLEAN]
        /\ silent' \in [Conns -> BOOLEAN] /\ registered' \in [Conns -> BOOLEAN]
    BY <1>1, <1>4 DEF PluginTypeOK, PollDisconnect
  <2> HIDE DEF new
  <2>3. PluginTypeOK'
    BY <1>1, <2>1, <2>2, TimersTyped
  <2> QED BY <1>1, <1>4, <2>3, PollDisconnectPartInv DEF PollDisconnect, TypedInv
<1>5. ASSUME NEW c \in Conns, PollRegistered(c)
      PROVE  TypedInv'
  <2>1. /\ enabled' \in [Conns -> BOOLEAN]
        /\ silent' \in [Conns -> BOOLEAN] /\ registered' \in [Conns -> BOOLEAN]
    BY <1>1, <1>5 DEF PluginTypeOK, PollRegistered
  <2>2. PluginTypeOK'
    BY <1>1, <1>5, <2>1, TypedRest, ClearedTyped DEF PollRegistered
  <2>3. /\ UNCHANGED <<sock, obuffer, sent, greeted>> /\ pings' \in [Conns -> Seq(Nat)]
    BY <1>1, <1>5 DEF PollRegistered, server, IrcTypeOK
  <2>4. IrcInv'
    BY <1>1, <1>5, <2>3, LineInv DEF PollRegistered
  <2> QED BY <2>2, <2>4 DEF TypedInv
<1>6. ASSUME NEW c \in Conns, NEW id \in ToSet(pings[c]), PollPong(c, id)
      PROVE  TypedInv'
  <2>1. IrcInv'
    BY <1>1, <1>6, PongLineInv
  <2>2. /\ timers' \subseteq timers /\ challenges' \in [Conns -> Nat]
        /\ challengeTimeouts' \in [Conns -> Nat] /\ enabled' \in [Conns -> BOOLEAN]
        /\ silent' \in [Conns -> BOOLEAN] /\ registered' \in [Conns -> BOOLEAN]
    BY <1>1, <1>6 DEF PluginTypeOK, PollPong, peer, NoTimer
  <2>3. IsFiniteSet(timers')
    BY <1>1, <2>2, FS_Subset DEF PluginTypeOK
  <2>4. PluginTypeOK'
    BY <1>1, <2>2, <2>3 DEF PluginTypeOK
  <2> QED BY <2>1, <2>4 DEF TypedInv
<1> QED BY <1>2, <1>3, <1>4, <1>5, <1>6 DEF PollStep

LEMMA TypedUserStep ==
  ASSUME TypedInv, UserStep
  PROVE  TypedInv'
<1>1. IrcInv /\ IrcTypeOK /\ PluginTypeOK
  BY DEF TypedInv, IrcInv
<1>2. PICK c \in Conns :
        \/ \E th \in BOOLEAN : Create(c, th)
        \/ EnablePlugin(c) \/ DisablePlugin(c) \/ Free(c) \/ BouncerReattached(c)
        \/ FallSilent(c)
        \/ UserSends(c) /\ UNCHANGED <<plugin, peer>>
  BY DEF UserStep
<1>3. /\ enabled' \in [Conns -> BOOLEAN]
      /\ silent' \in [Conns -> BOOLEAN] /\ registered' \in [Conns -> BOOLEAN]
  BY <1>1, <1>2 DEF PluginTypeOK, plugin, peer, Create, EnablePlugin, DisablePlugin, Free,
                    BouncerReattached, FallSilent
<1>4. PluginTypeOK'
  <2>1. \/ UNCHANGED <<timers, challenges, challengeTimeouts>>
        \/ RescheduleKeepaliveTimer(c) \/ FiniPlugin(c)
    BY <1>2 DEF plugin, Create, EnablePlugin, DisablePlugin, Free, BouncerReattached, FallSilent
  <2> QED BY <1>1, <1>3, <2>1, TypedRest, ClearedTyped
<1>5. CASE \E th \in BOOLEAN : Create(c, th)
  BY <1>1, <1>4, <1>5, CreateInv DEF Create, TypedInv
<1>6. CASE Free(c)
  BY <1>1, <1>4, <1>6, FreeInv DEF Free, TypedInv
<1>7. CASE DisablePlugin(c) \/ BouncerReattached(c)
  BY <1>1, <1>4, <1>7, AskedInv DEF DisablePlugin, BouncerReattached, TypedInv
<1>8. CASE EnablePlugin(c) \/ FallSilent(c)
  BY <1>1, <1>4, <1>8, SameIrc DEF EnablePlugin, FallSilent, TypedInv
<1>9. CASE UserSends(c)
  BY <1>1, <1>4, <1>9, UserSendsInv DEF TypedInv
<1> QED BY <1>2, <1>5, <1>6, <1>7, <1>8, <1>9

LEMMA TypedStep ==
  ASSUME TypedInv, [Next]_vars
  PROVE  TypedInv'
<1>1. CASE PollStep
  BY <1>1, TypedPollStep
<1>2. CASE TimerStep
  BY <1>2, TypedTimerStep DEF TimerStep
<1>3. CASE UserStep
  BY <1>3, TypedUserStep
<1>4. CASE Tick
  <2>1. PluginTypeOK'
    BY <1>4, TickTyped DEF TypedInv
  <2> QED BY <1>4, <2>1, TickPartInv DEF TypedInv, Tick
<1>5. CASE UNCHANGED vars
  <2>1. UNCHANGED ircVars /\ PluginTypeOK'
    BY <1>5 DEF vars, plugin, peer, TypedInv, PluginTypeOK
  <2> QED BY <2>1, SameIrc DEF TypedInv
<1> QED BY <1>1, <1>2, <1>3, <1>4, <1>5 DEF Next

-----------------------------------------------------------------------------
(* Theorems.                                                               *)

\* Every connection, queue and timer is always what the code says it is, for
\* any lengths of the timeouts.
THEOREM ConnectionsTyped == Spec => []TypeOK
<1>1. Init => TypedInv
  BY InitInv DEF KeepaliveInv, PluginInv, TypedInv
<1>2. TypedInv /\ [Next]_vars => TypedInv'
  BY TypedStep
<1>3. TypedInv => TypeOK
  BY DEF TypedInv, TypeOK, IrcInv, PluginTypeOK
<1> QED BY <1>1, <1>2, <1>3, PTL DEF Spec

\* Users' lines leave in the order of the ircSend calls, on the connection they
\* were sent on, for any number of connections and any throttle: the queue of a
\* connection that has ended is dropped before the plugin connects again.
THEOREM UsersLinesInOrder == Spec => []LinesInOrder
<1>1. Init => TypedInv
  BY InitInv DEF KeepaliveInv, PluginInv, TypedInv
<1>2. TypedInv /\ [Next]_vars => TypedInv'
  BY TypedStep
<1>3. TypedInv => LinesInOrder
  BY IrcInvImplies DEF TypedInv
<1> QED BY <1>1, <1>2, <1>3, PTL DEF Spec

\* The plugin's tables and its timers agree, each disconnect is followed by one
\* reconnect and no connection is dropped for another one's silence, provided
\* that the plugin does not wait longer for an answer than it waits to reconnect.
THEOREM KeepaliveTimersConsistent == ASSUME TimeoutFirst PROVE Spec => []TimersConsistent
<1>1. Init => KeepaliveInv
  BY InitInv
<1>2. KeepaliveInv /\ [Next]_vars => KeepaliveInv'
  BY StepInv
<1>3. KeepaliveInv => TimersConsistent
  BY PluginInvImplies DEF KeepaliveInv
<1> QED BY <1>1, <1>2, <1>3, PTL DEF Spec

=============================================================================
