----------------------------- MODULE SocketPoll -----------------------------
(***************************************************************************)
(* The socket module: the life of a socket (src/src/modules/socket/        *)
(* socket.c, util.c) and the polling engine that turns what happens on it  *)
(* into events (poll.c).                                                   *)
(*                                                                         *)
(* Everything runs on the main thread.  A timer calls pollSockets, which   *)
(* goes through the sockets that are connecting and then through the table *)
(* of polled sockets, triggering events; `events' are the triggerEvent     *)
(* calls under way, whose listeners may use every operation of the module. *)
(* Other timers' callbacks use them while no poll is under way.            *)
(*                                                                         *)
(* The table is keyed by file descriptor.  The kernel gives out the lowest *)
(* free number; what it answers to the other calls is any of the answers   *)
(* that the code distinguishes, except that making an open descriptor      *)
(* non-blocking does not fail.  Data that is read or written is left out.  *)
(***************************************************************************)
EXTENDS Integers, Sequences, SequencesExt

CONSTANTS
  Sockets,       \* addresses of sockets; each is allocated at most once
  Kinds,         \* the kinds of sockets that are created
  MaxFd,         \* the file descriptors are 0 .. MaxFd
  Liberties      \* what the users of the module do beyond the normal case

\* A client is connected once more after its disconnect event, "you can either
\* recall this function or free the socket" (poll.i).
Reconnect == "connect again after a disconnect"
\* connectClientSocketAsync is called while the socket is still connecting.
ConnectTwice == "connect again while connecting"
\* freeSocket is called for a socket that is still connecting.
FreeConnecting == "free while connecting"

ASSUME SocketAssumption ==
  /\ "none" \notin Sockets
  /\ MaxFd \in Nat /\ Kinds \subseteq {"client", "server", "shell"}
  /\ Liberties \subseteq {Reconnect, ConnectTwice, FreeConnecting}

VARIABLES
  memory,      \* which sockets are allocated, and which have been freed
  type, fd, connected, custom,    \* the fields of the sockets
  open,        \* descriptors that are open
  lost,        \* descriptors that are never closed
  poll_table,  \* the socket polled under a descriptor, or NoSocket
  connecting,  \* queue of the sockets that are connecting
  stage,       \* where pollSockets is
  round,       \* the sockets it has still to go through
  events,      \* triggerEvent calls under way, innermost last
  wanted       \* sockets whose polling was asked for and not ended since

fields == <<memory, type, fd, connected, custom>>
kernel == <<open, lost>>
poll == <<stage, round, events>>
vars == <<fields, kernel, poll_table, connecting, poll, wanted>>

Fds == 0..MaxFd
NoFd == -1
NoSocket == "none"
Types == {"client", "server", "server_client", "shell"}
Frame == [sock : Sockets, event : {"connected", "disconnect", "read", "accept", "error"},
          caller : {"connect", "pollConnecting", "pollSocket"},
          fd : Fds \cup {NoFd}, remove : BOOLEAN]

TypeOK ==
  /\ memory \in [Sockets -> {"unused", "live", "freed"}]
  /\ type \in [Sockets -> Types]
  /\ fd \in [Sockets -> Fds \cup {NoFd}]
  /\ connected \in [Sockets -> BOOLEAN] /\ custom \in [Sockets -> BOOLEAN]
  /\ open \subseteq Fds /\ lost \subseteq open
  /\ poll_table \in [Fds -> Sockets \cup {NoSocket}]
  /\ connecting \in Seq(Sockets)
  /\ stage \in {"idle", "connecting", "sockets"}
  /\ round \in Seq(Sockets) /\ (stage = "idle" => round = <<>>)
  /\ events \in Seq(Frame)
  /\ wanted \subseteq Sockets

Init ==
  /\ memory = [s \in Sockets |-> "unused"]
  /\ type = [s \in Sockets |-> "client"]
  /\ fd = [s \in Sockets |-> NoFd]
  /\ connected = [s \in Sockets |-> FALSE]
  /\ custom = [s \in Sockets |-> FALSE]
  /\ open = {} /\ lost = {}
  /\ poll_table = [f \in Fds |-> NoSocket]
  /\ connecting = <<>>
  /\ stage = "idle" /\ round = <<>> /\ events = <<>>
  /\ wanted = {}

-----------------------------------------------------------------------------
Live(s) == memory[s] = "live"

\* Code of the module's users runs: a listener, or another timer's callback.
UserRuns == stage = "idle" \/ events # <<>>

\* The kernel opens the lowest descriptor that is free.
Opens(f) == f \in Fds \ open /\ \A g \in Fds \ open : f <= g

Unpolled(f) == IF f = NoFd THEN poll_table ELSE [poll_table EXCEPT ![f] = NoSocket]
Polled(s) == fd[s] # NoFd /\ poll_table[fd[s]] # NoSocket

\* The entry for descriptor f is removed when the innermost listeners return.
LeavesTable(f) ==
  events # <<>> /\ Last(events).caller = "pollSocket" /\ Last(events).remove
  /\ Last(events).fd = f

\* g_queue_remove: the queue without the first of the places of s.
Removed(queue, s) ==
  LET places == {i \in DOMAIN queue : queue[i] = s}
  IN IF places = {} THEN queue
     ELSE RemoveAt(queue, CHOOSE i \in places : \A j \in places : i <= j)

\* The queue without the socket whose pollConnectingSocket is under way, which is
\* removed when its listeners return.  (Only the first of the calls can be one of
\* pollConnectingSocket.)
WaitingQueue ==
  IF events # <<>> /\ Head(events).caller = "pollConnecting"
  THEN Removed(connecting, Head(events).sock) ELSE connecting

\* s waits for its connection.
Connecting(s) == s \in ToSet(WaitingQueue)

Trigger(s, event, caller, remove) ==
  Append(events, [sock |-> s, event |-> event, caller |-> caller,
                  fd |-> fd[s], remove |-> remove])

-----------------------------------------------------------------------------
(* The life of a socket.                                                   *)

CreateSocket(s, t) ==
  /\ UserRuns /\ memory[s] = "unused"
  /\ memory' = [memory EXCEPT ![s] = "live"]
  /\ type' = [type EXCEPT ![s] = t]
  /\ UNCHANGED <<fd, connected, custom, kernel, poll_table, connecting, poll,
                 wanted>>

MayConnect(s) ==
  /\ UserRuns /\ Live(s) /\ ~connected[s] /\ type[s] # "server_client"
  /\ fd[s] # NoFd => Reconnect \in Liberties /\ type[s] = "client"
  /\ \A f \in Fds : poll_table[f] = s => LeavesTable(f)
  /\ \A i \in DOMAIN events : events[i].sock = s => events[i].event # "connected"
  /\ Connecting(s) => ConnectTwice \in Liberties

\* socket() fails, and its result is the socket's descriptor.
ConnectWithoutFd(s) ==
  /\ MayConnect(s)
  /\ fd' = [fd EXCEPT ![s] = NoFd]
  /\ UNCHANGED <<memory, type, connected, custom, kernel, poll_table, connecting,
                 poll, wanted>>

\* connectSocket succeeds.
ConnectSocket(s, f) ==
  /\ MayConnect(s) /\ Opens(f)
  /\ open' = open \cup {f} /\ UNCHANGED lost
  /\ fd' = [fd EXCEPT ![s] = f]
  /\ connected' = [connected EXCEPT ![s] = TRUE]
  /\ UNCHANGED <<memory, type, custom, poll_table, connecting, poll, wanted>>

\* The connection cannot be made: the descriptor is closed again, and a client
\* keeps its number.  connectSocket frees a server or shell socket; the latter
\* is not marked connected yet, so that freeSocket does not close it.
ConnectFails(s, f) ==
  /\ MayConnect(s) /\ Opens(f)
  /\ fd' = [fd EXCEPT ![s] = f]
  /\ lost' = IF type[s] = "shell" THEN lost \cup {f} ELSE lost
  /\ open' = open \cup lost'
  /\ IF type[s] = "client"
       THEN UNCHANGED <<memory, poll_table>>
       ELSE /\ memory' = [memory EXCEPT ![s] = "freed"]
            /\ poll_table' = Unpolled(f)
  /\ UNCHANGED <<type, connected, custom, connecting, poll, wanted>>

\* connectClientSocketAsync has to wait for the connection.
ConnectDelayed(s, f) ==
  /\ MayConnect(s) /\ type[s] = "client" /\ Opens(f)
  /\ open' = open \cup {f} /\ UNCHANGED lost
  /\ fd' = [fd EXCEPT ![s] = f]
  /\ custom' = [custom EXCEPT ![s] = TRUE]
  /\ connecting' = Append(connecting, s)
  /\ UNCHANGED <<memory, type, connected, poll_table, poll, wanted>>

\* connectClientSocketAsync connects at once, and triggers the event before
\* it enables the polling.
ConnectDirectly(s, f) ==
  /\ MayConnect(s) /\ type[s] = "client" /\ Opens(f)
  /\ open' = open \cup {f} /\ UNCHANGED lost
  /\ fd' = [fd EXCEPT ![s] = f]
  /\ connected' = [connected EXCEPT ![s] = TRUE]
  /\ events' = Trigger(s, "connected", "connect", FALSE)
  /\ UNCHANGED <<memory, type, custom, poll_table, connecting, stage, round,
                 wanted>>

\* disconnectSocket: the descriptor is closed and keeps its place in the
\* table until the next poll.
Disconnect(s) ==
  /\ open' = open \ {fd[s]}
  /\ connected' = [connected EXCEPT ![s] = FALSE]
  /\ wanted' = wanted \ {s}
  /\ UNCHANGED lost

\* Called by a user, also when socketWriteRaw meets a broken pipe.
DisconnectSocket(s) ==
  /\ UserRuns /\ Live(s) /\ connected[s]
  /\ Disconnect(s)
  /\ UNCHANGED <<memory, type, fd, custom, poll_table, connecting, poll>>

\* "MUST NOT be called from a (descendent of a) socket_read hook" (socket.i):
\* a socket is freed in its own disconnect listener or while nothing is polled.
MayFree(s) ==
  /\ Connecting(s) => FreeConnecting \in Liberties
  /\ \/ stage = "idle" /\ events = <<>>
     \/ /\ events # <<>> /\ Last(events).sock = s /\ Last(events).event = "disconnect"
        /\ \A i \in 1..(Len(events) - 1) : events[i].sock # s

\* Mutation: the socket keeps its place in the table.
FreeKeepsEntry(s) ==
  /\ Live(s) /\ MayFree(s)
  /\ IF connected[s] THEN Disconnect(s)
                     ELSE UNCHANGED <<connected, kernel>> /\ wanted' = wanted \ {s}
  /\ memory' = [memory EXCEPT ![s] = "freed"]
  /\ UNCHANGED <<type, fd, custom, poll_table, connecting, poll>>

FreeSocket(s) ==
  /\ Live(s) /\ MayFree(s)
  /\ IF connected[s] THEN Disconnect(s)
                     ELSE UNCHANGED <<connected, kernel>> /\ wanted' = wanted \ {s}
  /\ poll_table' = Unpolled(fd[s])
  /\ memory' = [memory EXCEPT ![s] = "freed"]
  /\ UNCHANGED <<type, fd, custom, connecting, poll>>

\* enableSocketPolling returns false if the descriptor is in the table.
Enable(s) ==
  /\ poll_table' = IF Polled(s) THEN poll_table
                   ELSE [poll_table EXCEPT ![fd[s]] = s]
  /\ wanted' = IF connected[s] THEN wanted \cup {s} ELSE wanted

EnableSocketPolling(s) ==
  /\ UserRuns /\ Live(s) /\ connected[s]
  /\ Enable(s)
  /\ UNCHANGED <<fields, kernel, connecting, poll>>

DisableSocketPolling(s) ==
  /\ UserRuns /\ Live(s) /\ connected[s]
  /\ poll_table' = Unpolled(fd[s])
  /\ wanted' = wanted \ {s}
  /\ UNCHANGED <<fields, kernel, connecting, poll>>

-----------------------------------------------------------------------------
(* pollSockets                                                             *)

\* Mutation: the sockets that are connecting are not gone through.
SkipsConnecting ==
  /\ stage = "idle" /\ events = <<>>
  /\ stage' = "connecting"
  /\ round' = <<>>
  /\ UNCHANGED <<fields, kernel, poll_table, connecting, events, wanted>>

\* The timer's callback; a nested call finds the polling flag set and returns.
PollSockets ==
  /\ stage = "idle" /\ events = <<>>
  /\ stage' = "connecting"
  /\ round' = connecting
  /\ UNCHANGED <<fields, kernel, poll_table, connecting, events, wanted>>

\* pollConnectingSocket or pollSocket is called for socket s.
Polls(where, s) ==
  /\ stage = where /\ events = <<>> /\ round # <<>> /\ s = Head(round)
  /\ round' = Tail(round)

\* No answer yet, or nothing to read.
NothingHappened(s) ==
  /\ \/ Polls("connecting", s)
     \/ Polls("sockets", s) /\ connected[s] /\ type[s] # "server"
  /\ UNCHANGED <<fields, kernel, poll_table, connecting, stage, events, wanted>>

\* The connection timed out or failed.
ConnectionFailed(s) ==
  /\ Polls("connecting", s)
  /\ open' = open \ {fd[s]}
  /\ events' = Trigger(s, "disconnect", "pollConnecting", TRUE)
  /\ UNCHANGED <<fields, lost, poll_table, connecting, stage, wanted>>

ConnectionMade(s) ==
  /\ Polls("connecting", s)
  /\ connected' = [connected EXCEPT ![s] = TRUE]
  /\ events' = Trigger(s, "connected", "pollConnecting", TRUE)
  /\ UNCHANGED <<memory, type, fd, custom, kernel, poll_table, connecting,
                 stage, wanted>>

\* The connecting sockets are done; the values of the table, in any order,
\* are next.
ConnectingDone ==
  /\ stage = "connecting" /\ events = <<>> /\ round = <<>>
  /\ stage' = "sockets"
  /\ LET fds == {f \in Fds : poll_table[f] # NoSocket}
     IN \E order \in SetToSeqs(fds) :
          round' = [i \in DOMAIN order |-> poll_table[order[i]]]
  /\ UNCHANGED <<fields, kernel, poll_table, connecting, events, wanted>>

FoundDisconnected(s) ==
  /\ Polls("sockets", s) /\ ~connected[s]
  /\ events' = Trigger(s, "disconnect", "pollSocket", TRUE)
  /\ UNCHANGED <<fields, kernel, poll_table, connecting, stage, wanted>>

\* End of file or an error: recv or accept disconnects the socket.
PeerGone(s) ==
  /\ Polls("sockets", s) /\ connected[s]
  /\ Disconnect(s)
  /\ events' = Trigger(s, "disconnect", "pollSocket", TRUE)
  /\ UNCHANGED <<memory, type, fd, custom, poll_table, connecting, stage>>

DataRead(s) ==
  /\ Polls("sockets", s) /\ connected[s] /\ type[s] # "server"
  /\ events' = Trigger(s, "read", "pollSocket", FALSE)
  /\ UNCHANGED <<fields, kernel, poll_table, connecting, stage, wanted>>

\* accept yields the descriptor f of a new socket c.
Accepted(s, c, f) ==
  /\ Polls("sockets", s) /\ connected[s] /\ type[s] = "server"
  /\ memory[c] = "unused" /\ Opens(f)
  /\ open' = open \cup {f} /\ UNCHANGED lost
  /\ memory' = [memory EXCEPT ![c] = "live"]
  /\ type' = [type EXCEPT ![c] = "server_client"]
  /\ fd' = [fd EXCEPT ![c] = f]
  /\ connected' = [connected EXCEPT ![c] = TRUE]
  /\ events' = Trigger(s, "accept", "pollSocket", FALSE)
  /\ UNCHANGED <<custom, poll_table, connecting, stage, wanted>>

\* No one to accept.
NothingAccepted(s) ==
  /\ Polls("sockets", s) /\ connected[s] /\ type[s] = "server"
  /\ events' = Trigger(s, "error", "pollSocket", FALSE)
  /\ UNCHANGED <<fields, kernel, poll_table, connecting, stage, wanted>>

\* Mutation: the descriptor is read from the socket after its listeners ran.
RemovesCurrentFd ==
  LET e == Last(events)
  IN /\ events # <<>>
     /\ events' = Front(events)
     /\ IF e.event = "connected" THEN Enable(e.sock)
        ELSE /\ poll_table' = IF e.caller = "pollSocket" /\ e.remove
                              THEN Unpolled(fd[e.sock]) ELSE poll_table
             /\ UNCHANGED wanted
     /\ connecting' = IF e.caller = "pollConnecting"
                      THEN Removed(connecting, e.sock) ELSE connecting
     /\ UNCHANGED <<fields, kernel, stage, round>>

\* The listeners return, and the caller of triggerEvent goes on: a socket that
\* has connected is polled from now on, one that is disconnected is not.
ListenersReturn ==
  LET e == Last(events)
  IN /\ events # <<>>
     /\ events' = Front(events)
     /\ IF e.event = "connected" THEN Enable(e.sock)
        ELSE /\ poll_table' = IF e.caller = "pollSocket" /\ e.remove
                              THEN Unpolled(e.fd) ELSE poll_table
             /\ UNCHANGED wanted
     /\ connecting' = IF e.caller = "pollConnecting"
                      THEN Removed(connecting, e.sock) ELSE connecting
     /\ UNCHANGED <<fields, kernel, stage, round>>

PollDone ==
  /\ stage = "sockets" /\ events = <<>> /\ round = <<>>
  /\ stage' = "idle"
  /\ UNCHANGED <<fields, kernel, poll_table, connecting, round, events, wanted>>

-----------------------------------------------------------------------------
PollStep(s) ==
  \/ NothingHappened(s) \/ ConnectionFailed(s) \/ ConnectionMade(s)
  \/ FoundDisconnected(s) \/ PeerGone(s) \/ DataRead(s) \/ NothingAccepted(s)
  \/ \E c \in Sockets, f \in Fds : Accepted(s, c, f)

UserStep(s) ==
  \/ \E t \in Kinds : CreateSocket(s, t)
  \/ ConnectWithoutFd(s)
  \/ \E f \in Fds : \/ ConnectSocket(s, f) \/ ConnectFails(s, f)
                    \/ ConnectDelayed(s, f) \/ ConnectDirectly(s, f)
  \/ DisconnectSocket(s) \/ FreeSocket(s)
  \/ EnableSocketPolling(s) \/ DisableSocketPolling(s)

PollTimer == PollSockets \/ ConnectingDone \/ PollDone

Next == PollTimer \/ ListenersReturn \/ \E s \in Sockets : PollStep(s) \/ UserStep(s)

Spec == Init /\ [][Next]_vars

\* The poll timer is added anew by its own callback and the main loop serves
\* every timer, also if other timers' callbacks keep it busy; pollSockets goes
\* through its lists; a listener returns, however many events are triggered
\* inside it; and a connection that is polled over and over is made, fails or
\* times out.
Fairness ==
  /\ SF_vars(PollTimer)
  /\ \A n \in 1..(Cardinality(Sockets) + 1) :
       SF_vars(Len(events) = n /\ ListenersReturn)
  /\ WF_vars(\E s \in Sockets : PollStep(s))
  /\ \A s \in Sockets : SF_vars(ConnectionFailed(s) \/ ConnectionMade(s))

FairSpec == Spec /\ Fairness

-----------------------------------------------------------------------------
(* Properties                                                              *)

\* pollSockets never calls pollSocket or pollConnectingSocket for a socket that
\* has been freed, although it walks over copies of the queue and the table
\* while listeners free sockets (poll.c 203-223, freeSocket).
PolledAlive ==
  stage # "idle" /\ events = <<>> /\ round # <<>> => Live(Head(round))

\* The three assertions at the start of pollConnectingSocket hold whenever it is
\* called (poll.c 256-258).
AssertsHold ==
  stage = "connecting" /\ events = <<>> /\ round # <<>> =>
    LET s == Head(round) IN ~connected[s] /\ type[s] = "client" /\ custom[s]

\* Between two polls the table holds only sockets that exist, each under its
\* own descriptor: closing and freeing sockets and connecting them again
\* leaves no orphan behind (freeSocket, disableSocketPolling, pollSockets).
TableAlive ==
  stage = "idle" =>
    \A f \in Fds : poll_table[f] # NoSocket =>
      Live(poll_table[f]) /\ fd[poll_table[f]] = f

\* The open descriptors are exactly those of the sockets that are connected or
\* connecting, one each: none is closed under another socket, and none stays
\* open but those of shell sockets that could not be started (closeSocket and
\* its callers).
DescriptorsOwned ==
  LET owners == {s \in Sockets : Live(s) /\ (connected[s] \/ Connecting(s))}
  IN /\ open \ lost = {fd[s] : s \in owners}
     /\ \A s, t \in owners : fd[s] = fd[t] => s = t

\* Whatever the listeners do while a poll goes through its copies: sockets that
\* it works with exist, its assertions hold, the table has no orphans and every
\* descriptor has one owner.
PollSound ==
  TypeOK /\ PolledAlive /\ AssertsHold /\ TableAlive /\ DescriptorsOwned

\* "will start polling automatically" (poll.i): a socket for which polling was
\* enabled, by its user or because it connected, is in the table until it is
\* disconnected, freed or disabled.
EnabledIsPolled == \A s \in wanted : poll_table[fd[s]] = s

\* The number of s is not its own: another socket still has it, or an entry
\* under this number is about to be removed.  The kernel has given it out again
\* before closeSocket's caller was done with it.
Shared(s) ==
  \/ \E t \in Sockets \ {s} : fd[t] = fd[s]
  \/ \E i \in DOMAIN events :
       events[i].caller = "pollSocket" /\ events[i].remove /\ events[i].fd = fd[s]

\* A socket that is polled stays in the table until it is disconnected, freed
\* or disabled, whatever its listeners do and however often it is connected
\* again, unless it shares its number (enableSocketPolling, pollSockets,
\* freeSocket).
PollingKept ==
  [][\A s \in wanted \cap wanted' :
       poll_table[fd[s]] = s => poll_table'[fd'[s]] = s \/ Shared(s)]_vars

\* s waits for pollSockets: for the answer to connectClientSocketAsync, or, as
\* a socket that was disconnected while it is polled, for the disconnect event
\* in which its owner frees it or connects it again.
Waiting(s) ==
  \/ Connecting(s)
  \/ /\ Live(s) /\ ~connected[s] /\ fd[s] # NoFd /\ poll_table[fd[s]] = s
     /\ ~Shared(s)
     /\ \A i \in DOMAIN events : events[i].sock # s \/ events[i].event # "disconnect"

\* Nobody waits for ever: a pending connection is made or fails (by its
\* timeout at the latest), and a disconnect is notified (pollConnectingSocket,
\* pollSocket).
WaitingEnds == \A s \in Sockets : Waiting(s) ~> ~Waiting(s)

=============================================================================
