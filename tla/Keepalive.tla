----------------------------- MODULE Keepalive -----------------------------
(***************************************************************************)
(* The keepalive plugin of the IRC proxy (src/src/modules/ircpp_keepalive/ *)
(* ircpp_keepalive.c) on top of the IRC connections: every proxy with the  *)
(* plugin has a timer that sends a PING with a challenge, one that drops   *)
(* the connection when no PONG answers it, and, after a disconnect, one    *)
(* that reconnects.                                                        *)
(*                                                                         *)
(* A proxy is identified with its connection.  Time is counted in ticks; a *)
(* timer that is due is called before the next tick.  A timer's time,      *)
(* which is also the text of the challenge, is a number that nothing else  *)
(* in use has.  The server may fall silent without closing the connection. *)
(***************************************************************************)
EXTENDS Irc

CONSTANTS
  KeepaliveInterval, KeepaliveTimeout, ReconnectTimeout,  \* in ticks
  Liberties    \* what else may happen

\* A proxy is freed, or its plugin disabled, while it waits to reconnect.
EndWhileWaiting == "ended while a reconnect is due"

ASSUME KeepaliveAssumption ==
  /\ {KeepaliveInterval, KeepaliveTimeout, ReconnectTimeout} \subseteq Nat \ {0}
  /\ Liberties \subseteq {EndWhileWaiting}

VARIABLES
  enabled,     \* the plugin is enabled for the proxy
  timers,      \* timers of the plugin: number, proxy, kind, ticks left
  challenges, challengeTimeouts,  \* the plugin's tables: number of the timer
  silent,      \* the server does not say anything any more
  registered   \* the server has confirmed the registration (251)

plugin == <<enabled, timers, challenges, challengeTimeouts>>
peer == <<silent, registered>>
vars == <<ircVars, plugin, peer>>

NoTimer == 0
Kinds == {"challenge", "timeout", "reconnect"}
\* The epoch is history: which connection the timer was set for.
TimerRecord == [id : Nat, conn : Conns, kind : Kinds, left : Nat, epoch : 0..1]

TypeOK ==
  /\ IrcTypeOK
  /\ enabled \in [Conns -> BOOLEAN] /\ timers \subseteq TimerRecord
  /\ challenges \in [Conns -> Nat] /\ challengeTimeouts \in [Conns -> Nat]
  /\ silent \in [Conns -> BOOLEAN] /\ registered \in [Conns -> BOOLEAN]

Init ==
  /\ IrcInit
  /\ enabled = [c \in Conns |-> FALSE] /\ timers = {}
  /\ challenges = [c \in Conns |-> NoTimer]
  /\ challengeTimeouts = [c \in Conns |-> NoTimer]
  /\ silent = [c \in Conns |-> FALSE] /\ registered = [c \in Conns |-> FALSE]

-----------------------------------------------------------------------------
(* Timers.                                                                 *)

Timer(c, kind) == {t \in timers : t.conn = c /\ t.kind = kind}
WithId(c, kind, id) == {t \in Timer(c, kind) : t.id = id}
NotDue == \A t \in timers : t.left > 0

\* A number that no timer of the kind, no table and no PING under way has.
Used(c, kind) ==
  {t.id : t \in Timer(c, kind)}
    \cup IF kind = "challenge" THEN {challenges[c]}
         ELSE {challengeTimeouts[c]} \cup ToSet(pings[c]) \cup Ids(obuffer[c], "ping")
Fresh(c, kind) == Min((1..(Cardinality(Used(c, kind)) + 1)) \ Used(c, kind))

NewTimer(c, kind, left) ==
  [id |-> IF kind = "reconnect" THEN 1 ELSE Fresh(c, kind),
   conn |-> c, kind |-> kind, left |-> left, epoch |-> epoch[c]]

\* Mutation: the timeout of a challenge under way is not stopped.
ClearedChallenge(c) == timers \ WithId(c, "challenge", challenges[c])

\* clearKeepaliveTimers, given that both timers are where the tables say.
Cleared(c) ==
  timers \ (WithId(c, "timeout", challengeTimeouts[c]) \cup WithId(c, "challenge", challenges[c]))

\* rescheduleKeepaliveTimer.
RescheduleKeepaliveTimer(c) ==
  LET new == NewTimer(c, "challenge", KeepaliveInterval)
  IN  /\ timers' = Cleared(c) \cup {new}
      /\ challengeTimeouts' = [challengeTimeouts EXCEPT ![c] = NoTimer]
      /\ challenges' = [challenges EXCEPT ![c] = new.id]

\* finiPlugin: the timers in the tables are stopped.
FiniPlugin(c) ==
  /\ timers' = Cleared(c)
  /\ challengeTimeouts' = [challengeTimeouts EXCEPT ![c] = NoTimer]
  /\ challenges' = [challenges EXCEPT ![c] = NoTimer]

-----------------------------------------------------------------------------
(* The proxy and its plugin.                                               *)

Create(c, throttled_too) ==
  Idle /\ CreatePart(c, throttled_too) /\ UNCHANGED <<plugin, peer>>

\* initPlugin: a connected proxy gets its keepalive timer.
EnablePlugin(c) ==
  /\ Idle /\ Live(c) /\ ~enabled[c]
  /\ enabled' = [enabled EXCEPT ![c] = TRUE]
  /\ IF sock[c] = "connected" THEN RescheduleKeepaliveTimer(c)
     ELSE UNCHANGED <<timers, challenges, challengeTimeouts>>
  /\ UNCHANGED <<ircVars, peer>>

MayEnd(c) == EndWhileWaiting \in Liberties \/ Timer(c, "reconnect") = {}

DisablePlugin(c) ==
  /\ Idle /\ Live(c) /\ enabled[c] /\ MayEnd(c) /\ asked < MaxUser
  /\ enabled' = [enabled EXCEPT ![c] = FALSE]
  /\ FiniPlugin(c) /\ asked' = asked + 1
  /\ UNCHANGED <<link, queue, server, poll, peer>>

\* The bouncer ends: the plugins of the proxy are disabled, then the proxy and
\* its connection are freed.
Free(c) ==
  /\ Idle /\ MayEnd(c) /\ FreePart(c)
  /\ enabled' = [enabled EXCEPT ![c] = FALSE]
  /\ IF enabled[c] THEN FiniPlugin(c)
     ELSE UNCHANGED <<timers, challenges, challengeTimeouts>>
  /\ UNCHANGED peer

-----------------------------------------------------------------------------
(* Callbacks of the timers.                                                *)

Due(t) == Idle /\ t \in timers /\ t.left = 0

\* Mutations: a failed attempt is the last; one is due although connecting began.
NotRetried(c, begun) == {}
\* Another attempt is due when connecting did not even begin.
Retried(c, begun) == IF begun THEN {} ELSE {NewTimer(c, "reconnect", ReconnectTimeout)}

\* The callbacks of a tick run in the order of their times: a timeout, set before
\* the disconnect that the reconnect is for, runs first unless it is the longer one.
TimeoutBefore(t) ==
  KeepaliveTimeout <= ReconnectTimeout => \A u \in Timer(t.conn, "timeout") : u.left > 0

\* reconnect: nothing to do, connecting again, or another attempt later.
Reconnect(t) ==
  LET c == t.conn
      rest == timers \ {t}
  IN  /\ Due(t) /\ t.kind = "reconnect" /\ TimeoutBefore(t) /\ Live(c)
      /\ \/ sock[c] = "connected" /\ timers' = rest /\ UNCHANGED ircVars
         \/ ReconnectPart(c) /\ timers' = rest \cup Retried(c, TRUE)
         \/ /\ sock[c] # "connected" /\ UNCHANGED ircVars
            /\ timers' = rest \cup Retried(c, FALSE)
      /\ UNCHANGED <<enabled, challenges, challengeTimeouts, peer>>

\* The expiration of a challenge.
NewTimeout(c) == NewTimer(c, "timeout", KeepaliveTimeout)

\* challenge.
Challenge(t) ==
  LET c == t.conn
      rest == timers \ {t}
      next == NewTimer(c, "challenge", KeepaliveInterval)
      timeout == NewTimeout(c)
  IN  /\ Due(t) /\ t.kind = "challenge" /\ Live(c)
      /\ \/ /\ sock[c] # "connected" /\ timers' = rest
            /\ challenges' = [challenges EXCEPT ![c] = NoTimer]
            /\ UNCHANGED <<sock, obuffer, server, challengeTimeouts>>
         \/ /\ sock[c] = "connected" /\ challengeTimeouts[c] # NoTimer
            /\ timers' = rest \cup {next}
            /\ challenges' = [challenges EXCEPT ![c] = next.id]
            /\ UNCHANGED <<sock, obuffer, server, challengeTimeouts>>
         \/ /\ sock[c] = "connected" /\ challengeTimeouts[c] = NoTimer
            /\ timers' = rest \cup {next, timeout}
            /\ challenges' = [challenges EXCEPT ![c] = next.id]
            /\ challengeTimeouts' = [challengeTimeouts EXCEPT ![c] = timeout.id]
            /\ IrcSendFirst(c, NewLine(c, "ping", timeout.id))
      /\ UNCHANGED <<memory, epoch, throttle, debt, throttled, asked, poll, enabled, peer>>

\* Mutation: only a connection that is not registered yet is dropped.
DropsUnregistered(c) ==
  [sock EXCEPT ![c] = IF @ = "connected" /\ ~registered[c] THEN "dropped" ELSE @]

\* disconnectSocket.
Drops(c) == [sock EXCEPT ![c] = IF @ = "connected" THEN "dropped" ELSE @]

\* challenge_timeout: the connection is dropped.
ChallengeTimeout(t) ==
  LET c == t.conn
  IN  /\ Due(t) /\ t.kind = "timeout" /\ Live(c)
      /\ timers' = timers \ {t}
      /\ challengeTimeouts' = [challengeTimeouts EXCEPT ![c] = NoTimer]
      /\ sock' = Drops(c)
      /\ UNCHANGED <<memory, epoch, queue, server, asked, poll, enabled, challenges, peer>>

-----------------------------------------------------------------------------
(* Events of the connection.                                               *)

\* listener_remoteDisconnect: a connection attempt failed, or the connection
\* has ended.
PollDisconnect(c) ==
  /\ PollDisconnectPart(c)
  /\ timers' = IF enabled[c]
               THEN timers \cup {NewTimer(c, "reconnect", ReconnectTimeout)}
               ELSE timers
  /\ silent' = [silent EXCEPT ![c] = FALSE]
  /\ registered' = [registered EXCEPT ![c] = FALSE]
  /\ UNCHANGED <<enabled, challenges, challengeTimeouts>>

\* The registration is confirmed (251): the connection's "reconnect" event.
PollRegistered(c) ==
  /\ LinePart(c) /\ ~silent[c] /\ greeted[c] = "auth" /\ ~registered[c]
  /\ UNCHANGED <<sock, obuffer, server>>
  /\ registered' = [registered EXCEPT ![c] = TRUE]
  /\ IF enabled[c] THEN RescheduleKeepaliveTimer(c)
     ELSE UNCHANGED <<timers, challenges, challengeTimeouts>>
  /\ UNCHANGED <<enabled, silent>>

\* The server answers a PING: the timeout of that challenge is stopped.
PollPong(c, id) ==
  /\ LinePart(c) /\ ~silent[c] /\ id \in ToSet(pings[c])
  /\ pings' = [pings EXCEPT ![c] = Selected(@, {i \in DOMAIN @ : @[i] # id})]
  /\ UNCHANGED <<sock, obuffer, greeted, sent>>
  /\ IF enabled[c] /\ challengeTimeouts[c] = id
     THEN /\ timers' = timers \ WithId(c, "timeout", id)
          /\ challengeTimeouts' = [challengeTimeouts EXCEPT ![c] = NoTimer]
     ELSE UNCHANGED <<timers, challengeTimeouts>>
  /\ UNCHANGED <<enabled, challenges, peer>>

\* A client attaches to the bouncer again: listener_bouncerReattached.
BouncerReattached(c) ==
  /\ Idle /\ Live(c) /\ enabled[c] /\ asked < MaxUser
  /\ RescheduleKeepaliveTimer(c)
  /\ asked' = asked + 1
  /\ UNCHANGED <<link, queue, server, poll, enabled, peer>>

\* The server's host fails.
FallSilent(c) ==
  /\ Live(c) /\ sock[c] = "connected" /\ ~silent[c]
  /\ silent' = [silent EXCEPT ![c] = TRUE]
  /\ UNCHANGED <<ircVars, plugin, registered>>

\* The remaining events; a silent server neither sends nor closes.
OtherPoll(c) == PollNothing(c) \/ PollConnected(c) \/ (PingPart(c) /\ ~silent[c])

-----------------------------------------------------------------------------
Tick ==
  /\ TickPart /\ NotDue
  /\ timers' = {[t EXCEPT !.left = @ - 1] : t \in timers}
  /\ UNCHANGED <<enabled, challenges, challengeTimeouts, peer>>

PollStep ==
  \/ (StartPoll \/ SocketsPolled \/ EndPoll) /\ UNCHANGED <<plugin, peer>>
  \/ \E c \in Conns :
       \/ (OtherPoll(c) \/ ThrottleStep(c)) /\ UNCHANGED <<plugin, peer>>
       \/ PollDisconnect(c) /\ (silent[c] => sock[c] = "dropped")
       \/ PollRegistered(c) \/ \E id \in ToSet(pings[c]) : PollPong(c, id)

TimerStep == \E t \in timers : Reconnect(t) \/ Challenge(t) \/ ChallengeTimeout(t)

UserStep ==
  \E c \in Conns :
    \/ \E th \in BOOLEAN : Create(c, th)
    \/ EnablePlugin(c) \/ DisablePlugin(c) \/ Free(c) \/ BouncerReattached(c)
    \/ FallSilent(c)
    \/ UserSends(c) /\ UNCHANGED <<plugin, peer>>

Next == PollStep \/ TimerStep \/ UserStep \/ Tick

Spec == Init /\ [][Next]_vars

\* The event loop goes round for ever, so that the poll timer, the plugin's
\* timers and time all make progress, and among the attempts of a reconnect
\* timer that is called again and again one starts to connect.
Fairness ==
  /\ WF_vars(PollStep) /\ WF_vars(TimerStep) /\ WF_vars(Tick)
  /\ SF_vars(\E t \in timers : Reconnect(t) /\ timers' = timers \ {t})

FairSpec == Spec /\ Fairness

-----------------------------------------------------------------------------
(* Properties.                                                             *)

\* Users' lines are written in the order of the ircSend calls, whatever PINGs
\* and PONGs ircSendFirst puts in front of them, and a line sent while one
\* connection lasts is never written to a later one: the queue of a throttled
\* connection does not survive a reconnect (listener_throttlePoll).
LinesInOrder ==
  \A c \in Conns : \A i \in DOMAIN sent[c] :
    /\ sent[c][i].asked = sent[c][i].written
    /\ \A j \in 1..(i - 1) : sent[c][j].id < sent[c][i].id

\* The plugin's tables hold exactly the timers that wait: TIMER_DEL is never
\* given the time of a timer that was called already, and no challenge is
\* forgotten.
TablesAgree ==
  \A c \in Conns :
    /\ {t.id : t \in Timer(c, "challenge")} = {challenges[c]} \ {NoTimer}
    /\ {t.id : t \in Timer(c, "timeout")} = {challengeTimeouts[c]} \ {NoTimer}

\* Nobody reconnects a connection that is up or connecting: one reconnect for
\* each disconnect.  (connectClientSocketAsync called twice would trip the
\* assertion of pollConnectingSocket.)
OneReconnect ==
  \A c \in Conns :
    /\ Cardinality(Timer(c, "reconnect")) <= 1
    /\ Timer(c, "reconnect") # {} => sock[c] = "closed"

\* challenge_timeout drops no connection other than the one that did not answer:
\* a timeout that survives a disconnect is called before the plugin reconnects.
\* This needs a keepaliveTimeout that is not above the reconnectTimeout.
OwnChallengeDrops ==
  \A t \in timers :
    t.kind = "timeout" /\ sock[t.conn] = "connected" => t.epoch = epoch[t.conn]

\* However pings, answers, timeouts and reconnects follow each other, the plugin
\* neither loses a timer nor uses one that is gone, reconnects once, and drops no
\* connection for the silence of another one.
TimersConsistent == TablesAgree /\ OneReconnect /\ OwnChallengeDrops

\* A server that falls silent after the registration is found out: the
\* connection is dropped, unless the plugin is disabled.
SilenceDetected ==
  \A c \in Conns :
    registered[c] /\ silent[c] /\ enabled[c] /\ challenges[c] # NoTimer
      ~> sock[c] # "connected" \/ ~enabled[c]

\* A connection that is lost while the plugin is enabled is tried again for as
\* long as it takes: the plugin never gives up.
TriedAgain ==
  \A c \in Conns :
    Timer(c, "reconnect") # {} ~> sock[c] # "closed" \/ ~Live(c)
=============================================================================
