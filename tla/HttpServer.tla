----------------------------- MODULE HttpServer -----------------------------
(***************************************************************************)
(* The HTTP servers: src/src/modules/http_server (connections, requests    *)
(* that arrive in pieces, handlers), and the one that modules share        *)
(* (shared_http_server) with the pages that http_server_demo adds to it.   *)
(*                                                                         *)
(* A request is a text: a request line or a Content-Length line is one     *)
(* symbol, given by the constants RequestLines and LengthLines; the length *)
(* of a text is its number of symbols.  The content of a page is left out. *)
(***************************************************************************)
EXTENDS Text, TLC

CONSTANTS
  Clients,      \* HTTP clients
  Streams,      \* the texts that clients send
  RequestLines, \* symbol -> [method, uri]
  LengthLines,  \* symbol -> the announced length
  UnloadBusy    \* TRUE iff servers, and modules with pages, may go while requests arrive

ASSUME HttpAssumption ==
  /\ IsFiniteSet(Clients) /\ Streams \subseteq Seq(STRING) /\ UnloadBusy \in BOOLEAN
  /\ \A l \in DOMAIN LengthLines : LengthLines[l] \in Nat

VARIABLES
  server,    \* "shared" and "feed": the two HttpServer objects
  conn,      \* ServerRequestMapping: the server of a client's connection, and its request
  wire,      \* what the client has still to send
  got,       \* history: what has arrived of it
  answers,   \* history: the requests that were answered on the connection
  modules,   \* number of handlers by prefix (ModuleStatus)
  loaded     \* loaded modules

connVars == <<conn, wire, got, answers>>
httpVars == <<server, connVars, modules, loaded>>

NoPath == <<"NULL">>
NoParams == [k \in {} |-> <<>>]
NewRequest == [method |-> "UNKNOWN", path |-> NoPath,
               params |-> NoParams, length |-> -1, empty |-> FALSE, buf |-> <<>>]
Connection(s) == [server |-> s, request |-> NewRequest]
Nobody == Connection("none")
NewServer == [state |-> "created", open |-> 0, mappings |-> <<>>]
NoServer == [NewServer EXCEPT !.state = "freed"]

-----------------------------------------------------------------------------
(* http_parser.c *)

\* g_uri_unescape_string; the symbol "%" is an escape it does not accept.
Unescape(text) == IF Has(text, "%") THEN NoPath ELSE text

ParseParameter(params, keyvalue) ==
  LET parts == Split(keyvalue, "=")
  IN IF Len(parts) = 2 /\ Unescape(parts[1]) # NoPath /\ Unescape(parts[2]) # NoPath
     THEN (parts[1] :> parts[2]) @@ params ELSE params

ParseParameters(params, query) == FoldLeft(ParseParameter, params, Split(query, "&"))

ParseUri(r, uri) ==
  LET parts == Split(uri, "?") IN
  CASE ~ Has(uri, "?") -> [r EXCEPT !.path = Unescape(uri)]
    [] Len(parts) = 2 -> [r EXCEPT !.path = Unescape(parts[1]),
                                   !.params = ParseParameters(@, parts[2])]
    [] OTHER -> r

TryParseMethodLine(r, line) ==
  IF Len(line) = 1 /\ line[1] \in DOMAIN RequestLines
  THEN ParseUri([r EXCEPT !.method = RequestLines[line[1]].method],
                RequestLines[line[1]].uri)
  ELSE r

TryParseContentLength(r, line) ==
  IF Len(line) = 1 /\ line[1] \in DOMAIN LengthLines
  THEN [r EXCEPT !.length = LengthLines[line[1]]] ELSE r

ParseHttpRequestLine(r, line) ==
  [TryParseContentLength(TryParseMethodLine(r, line), line) EXCEPT !.empty = @ \/ line = <<>>]

-----------------------------------------------------------------------------
(* http_server.c *)

\* mutant: the part after the last newline is dropped
LinesOnly(r) ==
  LET parts == Split(r.buf, "LF")
      done == [i \in 1..(Len(parts) - 1) |-> Strip(parts[i])]
  IN IF r.empty \/ ~ Has(r.buf, "LF") THEN r
     ELSE [FoldLeft(ParseHttpRequestLine, r, done) EXCEPT !.buf = <<>>]

\* Once the empty line was met, the code puts the whole message back into
\* the buffer for every line that follows.
ProcessAvailableLines(r) ==
  LET parts == Split(r.buf, "LF")
      count == Len(parts) - 1
      blank == {i \in 1..count : Strip(parts[i]) = <<>>}
      parsed == IF blank = {} THEN count ELSE Min(blank)
      lines == [i \in 1..parsed |-> Strip(parts[i])]
      back == FlattenSeq([i \in 1..(count - parsed) |-> r.buf])
  IN IF r.empty \/ ~ Has(r.buf, "LF") THEN r
     ELSE [FoldLeft(ParseHttpRequestLine, r, lines) EXCEPT !.buf = Last(parts) \o back]

\* The regular expression of a mapping is "^" regexp "$".
Anchored(regexp) == <<"^">> \o regexp \o <<"$">>
Mapping(regexp, handler, userdata) ==
  [regexp |-> Anchored(regexp), handler |-> handler, userdata |-> userdata]

\* ".*" stands for any rest of the path, "[^/]*" for at most one symbol.
Matches(regexp, path) ==
  LET core == SelectSeq(regexp, LAMBDA x : x \notin {"^", "$"}) IN
  CASE Last(core) = ".*" -> IsPrefix(Front(core), path)
    [] Last(core) = "[^/]*" -> IsPrefix(Front(core), path) /\ Len(path) <= Len(core)
    [] OTHER -> core = path

\* The handler that answers; every handler of the repository returns true.
HandleHttpRequest(mappings, r) ==
  LET matching == {i \in DOMAIN mappings : Matches(mappings[i].regexp, r.path)} IN
  CASE r.method = "UNKNOWN" \/ r.path = NoPath -> "400 Bad Request"
    [] matching = {} -> "404 Not Found"
    [] OTHER -> mappings[Min(matching)].handler

RegisterHandler(s, mapping) == [s EXCEPT !.mappings = Append(@, mapping)]

\* The expression is compared with the one of the mapping, which is anchored.
UnregisterHandler(s, regexp, handler, userdata) ==
  LET same == {i \in DOMAIN s.mappings :
                 s.mappings[i] = [regexp |-> regexp, handler |-> handler,
                                  userdata |-> userdata]}
  IN IF same = {} THEN s ELSE [s EXCEPT !.mappings = RemoveAt(@, Max(same))]

\* mutant: the server is only freed by destroyHttpServer
FreeLater(s) == s

TryFreeServer(s) == IF s.state = "freeing" /\ s.open = 0 THEN NoServer ELSE s

\* The socket is bound and polled: the port is free.
StartHttpServer(s) == [s EXCEPT !.state = "running"]

DestroyHttpServer(s) == TryFreeServer([s EXCEPT !.state = "freeing"])

\* clientSocketDisconnected
Disconnected(c, s) == TryFreeServer([s EXCEPT !.open = @ - 1])

Accept(c, s) ==
  /\ conn[c] = Nobody /\ server[s].state = "running"
  /\ (s = "feed" => "feed" \in loaded) \/ UnloadBusy
  /\ server' = [server EXCEPT ![s].open = @ + 1]
  /\ conn' = [conn EXCEPT ![c] = Connection(s)]
  /\ \E stream \in Streams : wire' = [wire EXCEPT ![c] = stream]
  /\ UNCHANGED <<got, answers, modules, loaded>>

ConnectionGone(c) ==
  /\ server' = [server EXCEPT ![conn[c].server] = Disconnected(c, @)]
  /\ conn' = [conn EXCEPT ![c] = Nobody] /\ wire' = [wire EXCEPT ![c] = <<>>]
  /\ got' = [got EXCEPT ![c] = <<>>] /\ answers' = [answers EXCEPT ![c] = <<>>]

CloseConnection(c) == conn[c] # Nobody /\ ConnectionGone(c) /\ UNCHANGED <<modules, loaded>>

\* A request that is complete is answered, with every further piece again.
Complete(r) ==
  /\ r.empty
  /\ \/ r.method = "GET"
     \/ r.method = "POST" /\ r.length >= 0 /\ Len(r.buf) >= r.length

\* clientSocketRead; the answer may meet a broken pipe, which disconnects.
Read(c, n) ==
  LET r == ProcessAvailableLines([conn[c].request EXCEPT !.buf = @ \o SubSeq(wire[c], 1, n)])
      body == IF r.method = "POST" THEN ParseParameters(r.params, r.buf) ELSE r.params
      handled == [r EXCEPT !.params = body]
      answer == [method |-> r.method, path |-> r.path, params |-> body,
                 by |-> HandleHttpRequest(server[conn[c].server].mappings, r)]
  IN
  /\ conn[c] # Nobody /\ UNCHANGED <<modules, loaded>>
  /\ \/ /\ wire' = [wire EXCEPT ![c] = SubSeq(@, n + 1, Len(@))] /\ UNCHANGED server
        /\ got' = [got EXCEPT ![c] = @ \o SubSeq(wire[c], 1, n)]
        /\ conn' = [conn EXCEPT ![c].request = IF Complete(r) THEN handled ELSE r]
        /\ answers' = [answers EXCEPT ![c] = IF Complete(r) THEN Append(@, answer) ELSE @]
     \/ Complete(r) /\ ConnectionGone(c)

-----------------------------------------------------------------------------
(* shared_http_server.c, http_server_demo.c *)

RegisterShared(s, prefix, regexp, handler) ==
  RegisterHandler(s, Mapping(<<prefix>> \o regexp, handler, "none"))

\* MODULE_INIT of the shared server.
LoadShared ==
  /\ server["shared"].state = "freed" /\ "shared_http_server" \notin loaded
  /\ server' = [server EXCEPT !["shared"] =
                  StartHttpServer(RegisterHandler(NewServer, Mapping(<<"/">>, "homePage", "none")))]
  /\ modules' = [p \in {} |-> 0]
  /\ loaded' = loaded \cup {"shared_http_server"}
  /\ UNCHANGED connVars

Counted(prefix, n) ==
  (prefix :> n + (IF prefix \in DOMAIN modules THEN modules[prefix] ELSE 0)) @@ modules

\* MODULE_INIT of the demo: three pages.
LoadDemo ==
  /\ "shared_http_server" \in loaded /\ "http_server_demo" \notin loaded
  /\ server' = [server EXCEPT !["shared"] =
                  RegisterShared(RegisterShared(RegisterShared(@,
                    "/demo", <<"/mirror">>, "mirrorHandler"),
                    "/demo", <<"/postdemo">>, "postDemoHandler"),
                    "/demo", <<".*">>, "indexHandler")]
  /\ modules' = Counted("/demo", 3) /\ loaded' = loaded \cup {"http_server_demo"}
  /\ UNCHANGED connVars

\* A module takes a page back
\* (unregisterSharedHttpServerRequestHandlerWithPrefix).
UnregisterPage(prefix, regexp, handler) ==
  /\ "shared_http_server" \in loaded
  /\ server' = [server EXCEPT !["shared"] =
                  UnregisterHandler(@, <<prefix>> \o regexp, handler, "none")]
  /\ prefix \in DOMAIN modules
  /\ modules' = IF modules[prefix] <= 1 THEN [p \in DOMAIN modules \ {prefix} |-> modules[p]]
                ELSE [modules EXCEPT ![prefix] = @ - 1]
  /\ UNCHANGED <<connVars, loaded>>

Quiet(s) == \A c \in Clients : conn[c].server = s => wire[c] = <<>>

\* The last user of the shared server goes, and the server with it.  Only the
\* finalizer of the shared server does something here.
UnloadShared ==
  /\ "shared_http_server" \in loaded
  /\ Quiet("shared") \/ UnloadBusy
  /\ server' = [server EXCEPT !["shared"] = DestroyHttpServer(@)]
  /\ modules' = [p \in {} |-> 0]
  /\ loaded' = loaded \ {"shared_http_server", "http_server_demo", "rpc"}
  /\ UNCHANGED connVars

HttpInit ==
  /\ server = [s \in {"shared", "feed"} |-> NoServer]
  /\ conn = [c \in Clients |-> Nobody] /\ wire = [c \in Clients |-> <<>>]
  /\ got = [c \in Clients |-> <<>>] /\ answers = [c \in Clients |-> <<>>]
  /\ modules = [p \in {} |-> 0] /\ loaded = {}

HttpNext ==
  \/ LoadShared \/ LoadDemo
  \/ \E c \in Clients, s \in DOMAIN server : Accept(c, s)
  \/ \E c \in Clients : CloseConnection(c) \/ \E n \in 1..Len(wire[c]) : Read(c, n)
  \/ UnregisterPage("/rpc", <<"/status">>, "renderRpcStatusPage")

-----------------------------------------------------------------------------
(* Properties *)

\* A server knows how many connections it has and lives as long as there is
\* one; after destroyHttpServer it is freed with its last connection
\* (tryFreeServer, clientAccepted, clientSocketDisconnected).
ServersAccounted ==
  \A s \in DOMAIN server :
    /\ server[s].open = Cardinality({c \in Clients : conn[c].server = s})
    /\ server[s].open > 0 => server[s].state # "freed"
    /\ server[s].state = "freeing" => server[s].open > 0

\* What a request says, read from its whole text: the header ends with the
\* first line that has no more than blanks in it.
Before(text, i, sym) == {k \in 1..(i - 1) : text[k] = sym}
LineStart(text, i) ==
  IF Before(text, i, "LF") = {} THEN 1 ELSE Max(Before(text, i, "LF")) + 1
HeaderEnds(text) ==
  {i \in DOMAIN text : /\ text[i] = "LF"
                       /\ \A j \in LineStart(text, i)..(i - 1) : text[j] \in {"CR", "SP"}}
Asked(head) == {RequestLines[head[i]] : i \in {j \in DOMAIN head : head[j] \in DOMAIN RequestLines}}
Announced(head) == {LengthLines[head[i]] : i \in {j \in DOMAIN head : head[j] \in DOMAIN LengthLines}}
PathOf(uri) ==
  LET marks == {i \in DOMAIN uri : uri[i] = "?"}
      path == IF marks = {} THEN uri ELSE SubSeq(uri, 1, Min(marks) - 1)
  IN IF Cardinality(marks) > 1 \/ Has(path, "%") THEN NoPath ELSE path

\* A client is answered once, when its request is complete, and for the
\* method, the path and the body that it sent, in whatever pieces they have
\* arrived (clientSocketRead, processAvailableLines, parseHttpRequestLine).
AnsweredAsSent ==
  \A c \in Clients : conn[c] # Nobody =>
    LET ends == HeaderEnds(got[c])
        head == SubSeq(got[c], 1, Min(ends))
        body == SubSeq(got[c], Min(ends) + 1, Len(got[c]))
        complete == ends # {} /\ \E q \in Asked(head) :
                      \/ q.method = "GET"
                      \/ q.method = "POST" /\ \E n \in Announced(head) : Len(body) >= n
    IN /\ complete <=> Len(answers[c]) = 1
       /\ ~ complete <=> answers[c] = <<>>
       /\ complete => \E q \in Asked(head) :
            /\ answers[c][1].method = q.method /\ answers[c][1].path = PathOf(q.uri)
            /\ q.method = "POST" => answers[c][1].params = ParseParameters(NoParams, body)

=============================================================================
