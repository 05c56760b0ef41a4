-------------------------------- MODULE Irc --------------------------------
(***************************************************************************)
(* IRC connections (src/src/modules/irc/irc.c): asynchronous connecting    *)
(* and reconnecting, authentication, and the output queue of a throttled   *)
(* connection.                                                             *)
(*                                                                         *)
(* The module is driven by the poll timer of the socket module (stage,     *)
(* round): pollSockets goes through the connections, then the event        *)
(* "sockets_polled" drives the throttle.  Operators whose names end in     *)
(* "Part" say what a listener of this module does in an event; modules     *)
(* that listen to the same events add their own part (Keepalive).          *)
(*                                                                         *)
(* A line is a record; the three lines of an authentication are one line.  *)
(* A write to a connected socket succeeds, fails, or fails with a broken   *)
(* pipe, which disconnects the socket.                                     *)
(***************************************************************************)
EXTENDS Integers, Sequences, FiniteSets, SequencesExt, FiniteSetsExt, Selection

CONSTANTS
  Conns,       \* the connections; each is allocated at most once
  MaxUser,     \* number of things that users do
  Limit,       \* throttle time that may be used up in advance
  Penalty      \* throttle time a line costs

ASSUME IrcAssumption ==
  /\ IsFiniteSet(Conns) /\ MaxUser \in Nat
  /\ Limit \in Nat \ {0} /\ Penalty \in Nat \ {0}

VARIABLES
  memory,      \* which connections are allocated, and which have been freed
  sock,        \* the connection's socket: see SockStates
  epoch,       \* number of connections that have ended, modulo 2
  throttle,    \* the connection is throttled
  obuffer,     \* its output queue
  debt,        \* throttle_time - now
  throttled,   \* queue of the throttled connections
  greeted,     \* first line the server got on this connection
  sent,        \* history: user lines written, with the epoch of their writing
  asked,       \* number of things that users have done
  pings,       \* PING challenges that the server may still answer
  stage, round \* poll timer: where it is, connections it has still to poll

link == <<memory, sock, epoch>>
queue == <<throttle, obuffer, debt, throttled>>
server == <<greeted, sent, pings>>
poll == <<stage, round>>
ircVars == <<link, queue, server, asked, poll>>

\* "dropped": not connected any more, but the poll timer has yet to notice.
SockStates == {"closed", "connecting", "connected", "dropped"}
Line == [kind : {"auth", "user", "pong", "ping", "perform"}, id : Nat, epoch : 0..1]
SentLine == [id : Nat, asked : 0..1, written : 0..1]

IrcTypeOK ==
  /\ memory \in [Conns -> {"unused", "live", "freed"}]
  /\ sock \in [Conns -> SockStates] /\ epoch \in [Conns -> 0..1]
  /\ throttle \in [Conns -> BOOLEAN] /\ obuffer \in [Conns -> Seq(Line)]
  /\ debt \in [Conns -> Nat] /\ throttled \in Seq(Conns)
  /\ greeted \in [Conns -> {"none", "auth", "other"}]
  /\ sent \in [Conns -> Seq(SentLine)]
  /\ pings \in [Conns -> Seq(Nat)] /\ asked \in 0..MaxUser
  /\ stage \in {"due", "poll", "throttle", "idle"} /\ round \subseteq Conns

IrcInit ==
  /\ memory = [c \in Conns |-> "unused"]
  /\ sock = [c \in Conns |-> "closed"] /\ epoch = [c \in Conns |-> 0]
  /\ throttle = [c \in Conns |-> FALSE]
  /\ obuffer = [c \in Conns |-> <<>>] /\ debt = [c \in Conns |-> 0]
  /\ throttled = <<>>
  /\ greeted = [c \in Conns |-> "none"] /\ sent = [c \in Conns |-> <<>>]
  /\ pings = [c \in Conns |-> <<>>] /\ asked = 0
  /\ stage = "due" /\ round = {}

Live(c) == memory[c] = "live"
\* Other timers' callbacks run: no poll is under way.
Idle == stage \in {"idle", "due"}
NewLine(c, kind, id) == [kind |-> kind, id |-> id, epoch |-> epoch[c]]

-----------------------------------------------------------------------------
(* Writing.                                                                *)

Places(lines, kind) == {i \in DOMAIN lines : lines[i].kind = kind}
Ids(lines, kind) == {lines[i].id : i \in Places(lines, kind)}

\* The server answers one of the last two PINGs, or none.
LastTwo(s) == SubSeq(s, Max({1, Len(s) - 1}), Len(s))

\* The server gets the lines out.
Received(c, out) ==
  /\ greeted' = [greeted EXCEPT ![c] =
       IF @ # "none" \/ out = <<>> THEN @
       ELSE IF Head(out).kind = "auth" THEN "auth" ELSE "other"]
  /\ sent' = [sent EXCEPT ![c] =
       LET users == Selected(out, Places(out, "user"))
       IN  @ \o [i \in DOMAIN users |->
                   [id |-> users[i].id, asked |-> users[i].epoch, written |-> epoch[c]]]]
  /\ pings' = [pings EXCEPT ![c] =
       LET new == Selected(out, Places(out, "ping"))
       IN  LastTwo(@ \o [i \in DOMAIN new |-> new[i].id])]

\* The lines are written one after the other to the socket of c, which is in
\* state now.
Write(c, now, lines) ==
  IF now # "connected" \/ lines = <<>>
  THEN sock' = [sock EXCEPT ![c] = now] /\ UNCHANGED server
  ELSE \E W \in SUBSET DOMAIN lines :
         /\ \/ sock' = [sock EXCEPT ![c] = now]
            \/ /\ \E j \in DOMAIN lines : W = 1..(j - 1)
               /\ sock' = [sock EXCEPT ![c] = "dropped"]
         /\ Received(c, Selected(lines, W))

\* ircSend for each of the lines.
IrcSend(c, now, lines) ==
  IF throttle[c]
  THEN /\ obuffer' = [obuffer EXCEPT ![c] = @ \o lines]
       /\ sock' = [sock EXCEPT ![c] = now] /\ UNCHANGED server
  ELSE Write(c, now, lines) /\ UNCHANGED obuffer

IrcSendFirst(c, line) ==
  IF throttle[c]
  THEN /\ obuffer' = [obuffer EXCEPT ![c] = <<line>> \o @]
       /\ UNCHANGED <<sock, server>>
  ELSE Write(c, sock[c], <<line>>) /\ UNCHANGED obuffer

-----------------------------------------------------------------------------
(* The life of a connection.                                               *)

\* enableIrcConnectionThrottle, when the connection is not throttled.
EnableThrottle(c) ==
  /\ throttle' = [throttle EXCEPT ![c] = TRUE]
  /\ obuffer' = [obuffer EXCEPT ![c] = <<>>]
  /\ debt' = [debt EXCEPT ![c] = 0]
  /\ throttled' = Append(throttled, c)

\* disableIrcConnectionThrottle without flushing.
DisableThrottle(c) ==
  /\ throttle' = [throttle EXCEPT ![c] = FALSE]
  /\ obuffer' = [obuffer EXCEPT ![c] = <<>>]
  /\ debt' = [debt EXCEPT ![c] = 0]
  /\ throttled' = Selected(throttled, {i \in DOMAIN throttled : throttled[i] # c})

\* createIrcConnectionByStore: the socket is connecting, or was connected at
\* once.  In the latter case the event "connected" comes before the socket is
\* in the table of connections, so that nobody authenticates it.
CreatePart(c, throttled_too) ==
  /\ memory[c] = "unused"
  /\ memory' = [memory EXCEPT ![c] = "live"]
  /\ \E s \in {"connecting", "connected"} : sock' = [sock EXCEPT ![c] = s]
  /\ IF throttled_too THEN EnableThrottle(c) ELSE UNCHANGED queue
  /\ UNCHANGED <<epoch, server, asked, poll>>

\* freeIrcConnection.
FreePart(c) ==
  /\ Live(c)
  /\ IF throttle[c] THEN DisableThrottle(c) ELSE UNCHANGED queue
  /\ memory' = [memory EXCEPT ![c] = "freed"]
  /\ sock' = [sock EXCEPT ![c] = "closed"]
  /\ round' = round \ {c} /\ UNCHANGED <<epoch, server, asked, stage>>

\* reconnectIrcConnection of a connection that is not connected: connecting
\* has begun, or was connected at once (the listener authenticates it).
ReconnectPart(c) ==
  /\ Live(c) /\ sock[c] # "connected"
  /\ \/ sock' = [sock EXCEPT ![c] = "connecting"] /\ UNCHANGED <<obuffer, server>>
     \/ IrcSend(c, "connected", <<NewLine(c, "auth", 0)>>)
  /\ UNCHANGED <<memory, epoch, throttle, debt, throttled, asked, poll>>

\* A user of the module sends a line.
UserSends(c) ==
  /\ Idle /\ Live(c) /\ asked < MaxUser
  /\ asked' = asked + 1
  /\ IrcSend(c, sock[c], <<NewLine(c, "user", asked + 1)>>)
  /\ UNCHANGED <<memory, epoch, throttle, debt, throttled, poll>>

-----------------------------------------------------------------------------
(* The poll timer.                                                         *)

StartPoll ==
  /\ stage = "due" /\ stage' = "poll"
  /\ round' = {c \in Conns : Live(c) /\ sock[c] # "closed"}
  /\ UNCHANGED <<link, queue, server, asked>>

Polling(c) == stage = "poll" /\ c \in round
Polled(c) == round' = round \ {c} /\ UNCHANGED stage

\* Nothing happens on the socket.
PollNothing(c) ==
  /\ Polling(c) /\ sock[c] # "dropped" /\ Polled(c)
  /\ UNCHANGED <<link, queue, server, asked>>

\* The connection is established: listener_ircConnected authenticates it.
PollConnected(c) ==
  /\ Polling(c) /\ sock[c] = "connecting" /\ Polled(c)
  /\ IrcSend(c, "connected", <<NewLine(c, "auth", 0)>>)
  /\ UNCHANGED <<memory, epoch, throttle, debt, throttled, asked>>

\* Connecting failed or timed out, or the connection has ended: the socket's
\* event "disconnect", which triggers that of the connection.
PollDisconnectPart(c) ==
  /\ Polling(c) /\ Polled(c)
  /\ sock' = [sock EXCEPT ![c] = "closed"]
  /\ epoch' = [epoch EXCEPT ![c] = (@ + 1) % 2]
  /\ greeted' = [greeted EXCEPT ![c] = "none"]
  /\ pings' = [pings EXCEPT ![c] = <<>>]
  /\ UNCHANGED <<memory, queue, sent, asked>>

\* A line has been read that needs no answer.
LinePart(c) ==
  /\ Polling(c) /\ sock[c] = "connected" /\ Polled(c)
  /\ UNCHANGED <<memory, epoch, throttle, debt, throttled, asked>>

\* listener_ircLine: the server pings, not again before the answer is written.
PingPart(c) ==
  /\ LinePart(c) /\ Ids(obuffer[c], "pong") = {}
  /\ IrcSendFirst(c, NewLine(c, "pong", 0))

\* The lines of the queue for which there is throttle time left.
Affordable(c) ==
  LET n == Len(obuffer[c])
  IN  CHOOSE k \in 0..n :
        /\ \A i \in 0..(k - 1) : debt[c] + i * Penalty < Limit
        /\ k < n => debt[c] + k * Penalty >= Limit

\* Mutation: the throttle does not look at the socket.
NeverEnds(c) == FALSE

\* Throttling ends when the connection is found closed.
ThrottleEnds(c) == sock[c] # "connected"

\* What listener_throttlePoll does with a throttled connection.
ThrottlePoll(c) ==
  IF ThrottleEnds(c)
  THEN DisableThrottle(c) /\ UNCHANGED <<sock, server>>
  ELSE LET k == Affordable(c)
       IN  /\ Write(c, sock[c], SubSeq(obuffer[c], 1, k))
           /\ obuffer' = [obuffer EXCEPT ![c] = SubSeq(@, k + 1, Len(@))]
           /\ debt' = [debt EXCEPT ![c] = @ + k * Penalty]
           /\ UNCHANGED <<throttle, throttled>>

\* The event "sockets_polled": listener_throttlePoll goes through the throttled
\* connections.
SocketsPolled ==
  /\ stage = "poll" /\ round = {}
  /\ stage' = "throttle" /\ round' = ToSet(throttled)
  /\ UNCHANGED <<link, queue, server, asked>>

ThrottleStep(c) ==
  /\ stage = "throttle" /\ c \in round /\ Polled(c)
  /\ ThrottlePoll(c) /\ UNCHANGED <<memory, epoch, asked>>

EndPoll ==
  /\ stage = "throttle" /\ round = {}
  /\ stage' = "idle" /\ UNCHANGED <<round, link, queue, server, asked>>

\* Time passes: the penalties wear off.
TickPart ==
  /\ stage = "idle" /\ stage' = "due"
  /\ debt' = [c \in Conns |-> Max({debt[c] - 1, 0})]
  /\ UNCHANGED <<link, throttle, obuffer, throttled, server, asked, round>>
=============================================================================
