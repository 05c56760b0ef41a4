--------------------------------- MODULE Rpc ---------------------------------
(***************************************************************************)
(* Remote procedure calls (src/src/modules/rpc): a server that collects    *)
(* the lines of its clients (line_server.c), and the services that they    *)
(* list and call (rpc.c).                                                  *)
(*                                                                         *)
(* The first line of a request is one symbol, given by RpcLines; a path is *)
(* a text.  What an implementation is given stands for what it returns.    *)
(***************************************************************************)
EXTENDS HttpServer

CONSTANTS
  Callers,     \* clients of the line server
  CallStreams, \* the texts that they send
  RpcLines,    \* symbol -> [method, path]
  Paths        \* paths of services

ASSUME RpcAssumption == IsFiniteSet(Callers) /\ CallStreams \subseteq Seq(STRING)

VARIABLES
  lineServer,  \* [state, open]
  caller,      \* what a caller's connection has received: lines, line buffer
  callWire,    \* what the caller has still to send
  callGot,     \* history: what has arrived of it
  replies,     \* history: the answers to the caller
  services     \* paths that are bound

callVars == <<caller, callWire, callGot, replies>>
rpcVars == <<lineServer, callVars, services>>

NoCaller == [on |-> FALSE, lines |-> <<>>, buf |-> <<>>]
NoLineServer == [state |-> "freed", open |-> 0]

-----------------------------------------------------------------------------
(* line_server.c *)

StartLineServer == [state |-> "running", open |-> 0]

TryFreeLineServer(s) == IF s.state = "stopped" /\ s.open = 0 THEN NoLineServer ELSE s

StopLineServer(s) == TryFreeLineServer([s EXCEPT !.state = "stopped"])

AcceptCaller(c) ==
  /\ ~ caller[c].on /\ lineServer.state = "running"
  /\ lineServer' = [lineServer EXCEPT !.open = @ + 1]
  /\ caller' = [caller EXCEPT ![c] = [NoCaller EXCEPT !.on = TRUE]]
  /\ \E text \in CallStreams : callWire' = [callWire EXCEPT ![c] = text]
  /\ callGot' = [callGot EXCEPT ![c] = <<>>] /\ replies' = [replies EXCEPT ![c] = <<>>]
  /\ UNCHANGED <<httpVars, services>>

\* clientSocketDisconnected
CallerGone(c) ==
  /\ caller' = [caller EXCEPT ![c] = NoCaller] /\ callWire' = [callWire EXCEPT ![c] = <<>>]
  /\ lineServer' = TryFreeLineServer([lineServer EXCEPT !.open = @ - 1])

DisconnectCaller(c) ==
  /\ caller[c].on /\ CallerGone(c)
  /\ UNCHANGED <<httpVars, services, callGot, replies>>

-----------------------------------------------------------------------------
(* rpc.c *)

MatchFirstLine(line) == Len(line) = 1 /\ line[1] \in DOMAIN RpcLines
FindMatchingServices(path) == {p \in services : IsPrefix(path, p)}

\* callRpc: every schema accepts every store.
CallRpc(path, request) ==
  IF path \in services THEN [kind |-> "result", path |-> path, request |-> request]
  ELSE [kind |-> "failed"]

\* The store is parsed from all lines after the first.
ProcessCallRequest(lines, path) == CallRpc(path, Tail(lines))
ProcessListRequest(path) ==
  IF FindMatchingServices(path) = {} THEN [kind |-> "no services"]
  ELSE [kind |-> "list", services |-> FindMatchingServices(path)]

\* mutant: the request begins after its first line
ProcessRequestLate(lines, emptyLine) ==
  IF emptyLine = 1 THEN [kind |-> "empty request"]
  ELSE IF ~ MatchFirstLine(lines[1]) THEN [kind |-> "invalid"]
  ELSE LET q == RpcLines[lines[1][1]]
       IN IF q.method = "list" THEN ProcessListRequest(q.path)
          ELSE CallRpc(q.path, Tail(Tail(lines)))

ProcessRequest(lines, emptyLine) ==
  IF emptyLine = 1 THEN [kind |-> "empty request"]
  ELSE IF ~ MatchFirstLine(lines[1]) THEN [kind |-> "invalid"]
  ELSE LET q == RpcLines[lines[1][1]]
       IN IF q.method = "list" THEN ProcessListRequest(q.path)
          ELSE ProcessCallRequest(lines, q.path)

\* lineServerCallback: the caller is answered and disconnected as soon as
\* there is an empty line.
LineServerCallback(c, lines) ==
  LET empty == {i \in DOMAIN lines : lines[i] = <<>>} IN
  /\ empty # {}
  /\ replies' = [replies EXCEPT ![c] = Append(@, ProcessRequest(lines, Min(empty)))]
  /\ CallerGone(c)

\* clientSocketRead and processClientBuffer.
ReadCaller(c, n) ==
  LET cut == ServerLines(caller[c].buf \o SubSeq(callWire[c], 1, n))
      lines == caller[c].lines \o cut.lines
      waits == cut.lines = <<>> \/ \A i \in DOMAIN lines : lines[i] # <<>>
  IN
  /\ caller[c].on
  /\ callGot' = [callGot EXCEPT ![c] = @ \o SubSeq(callWire[c], 1, n)]
  /\ \/ /\ waits
        /\ caller' = [caller EXCEPT ![c].lines = lines, ![c].buf = cut.rest]
        /\ callWire' = [callWire EXCEPT ![c] = SubSeq(@, n + 1, Len(@))]
        /\ UNCHANGED <<lineServer, replies>>
     \/ ~ waits /\ LineServerCallback(c, lines)
  /\ UNCHANGED <<httpVars, services>>

\* MODULE_INIT: the line server, and a status page on the shared server.
LoadRpc ==
  /\ "shared_http_server" \in loaded /\ "rpc" \notin loaded /\ lineServer.state = "freed"
  /\ services' = {} /\ lineServer' = StartLineServer
  /\ server' = [server EXCEPT !["shared"] =
                  RegisterShared(@, "/rpc", <<"/status">>, "renderRpcStatusPage")]
  /\ modules' = Counted("/rpc", 1) /\ loaded' = loaded \cup {"rpc"}
  /\ UNCHANGED <<connVars, callVars>>

\* MODULE_FINALIZE; connections stay open until the callers close them.
StopRpc ==
  /\ services' = {}
  /\ lineServer' = IF "rpc" \notin loaded THEN lineServer
                   ELSE StopLineServer(lineServer)
  /\ UNCHANGED callVars

RegisterRpc(path) ==
  /\ "rpc" \in loaded /\ path \notin services /\ services' = services \cup {path}
  /\ UNCHANGED <<httpVars, lineServer, callVars>>

UnregisterRpc(path) ==
  /\ path \in services /\ services' = services \ {path}
  /\ UNCHANGED <<httpVars, lineServer, callVars>>

RpcNext ==
  \/ LoadRpc
  \/ \E p \in Paths : RegisterRpc(p) \/ UnregisterRpc(p)
  \/ \E c \in Callers :
       AcceptCaller(c) \/ DisconnectCaller(c) \/ \E n \in 1..Len(callWire[c]) : ReadCaller(c, n)

\* The line server counts its connections, lives as long as there is one and
\* is freed with the last one once it was stopped (tryFreeServer).
LineServerAccounted ==
  /\ lineServer.open = Cardinality({c \in Callers : caller[c].on})
  /\ lineServer.open > 0 => lineServer.state # "freed"
  /\ lineServer.state = "stopped" => lineServer.open > 0

\* The lines of a text, without the blanks around them.
LineEnds(text) == {i \in DOMAIN text : text[i] = "LF"}
Line(text, i) == Strip(SubSeq(text, LineStart(text, i), i - 1))
Lines(text) == [k \in 1..Cardinality(LineEnds(text)) |-> Line(text, Nth(LineEnds(text), k))]

\* A caller has its answer as soon as the empty line has arrived, and the
\* service that it named is called with the lines that it sent after the first
\* one, in whatever pieces (processClientBuffer, lineServerCallback,
\* processCallRequest).
CalledAsSent ==
  \A c \in Callers :
    LET said == Lines(callGot[c])
    IN /\ replies[c] # <<>> <=> HeaderEnds(callGot[c]) # {}
       /\ caller[c].on => replies[c] = <<>>
       /\ \A i \in DOMAIN replies[c] : replies[c][i].kind = "result" =>
            /\ replies[c][i].path = RpcLines[said[1][1]].path
            /\ replies[c][i].request = Tail(said)
=============================================================================
