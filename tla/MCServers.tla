------------------------------ MODULE MCServers ------------------------------
(* Requests, calls and pages for the model checker. *)
EXTENDS Servers

\* Method, path and parameters, of which one is malformed.
MCRequestLines ==
  [get |-> [method |-> "GET", uri |-> <<"/demo", "/mirror", "?", "k", "=", "v">>],
   bad |-> [method |-> "GET", uri |-> <<"/demo", "%">>],
   post |-> [method |-> "POST", uri |-> <<"/demo", "/postdemo">>]]
MCLengthLines == [three |-> 3]
\* A header in any order, lines that end with and without a carriage return,
\* a body of exactly the announced length; a POST that announces nothing.
MCStreams ==
  {<<"host", "LF", "get", "CR", "LF", "CR", "LF">>,
   <<"bad", "LF", "LF">>, <<"post", "LF", "LF", "k">>,
   <<"three", "LF", "post", "LF", "LF", "k", "=", "v">>}
MCRpcLines == [list |-> [method |-> "list", path |-> <<>>],
               call |-> [method |-> "call", path |-> <<"a", "b">>]]
MCCallStreams ==
  {<<"call", "LF", "s", "CR", "t", "LF", "SP", "CR", "LF">>,
   <<"list", "LF", "LF", "s">>, <<"CR", "LF">>}
MCPaths == {<<"a", "b">>}
=============================================================================
