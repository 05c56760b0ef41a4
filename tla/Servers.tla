------------------------------- MODULE Servers -------------------------------
(***************************************************************************)
(* The servers of one program: the shared HTTP server with its demo, the   *)
(* feed server and the line server of the remote procedure calls, which    *)
(* registers a page on the shared server and is unloaded before it.        *)
(***************************************************************************)
EXTENDS Feed, Rpc

serverVars == <<httpVars, feeds, rpcVars>>

ServersInit ==
  /\ HttpInit /\ feeds = [n \in {} |-> NewFeed]
  /\ lineServer = NoLineServer /\ services = {}
  /\ caller = [c \in Callers |-> NoCaller] /\ callWire = [c \in Callers |-> <<>>]
  /\ callGot = [c \in Callers |-> <<>>] /\ replies = [c \in Callers |-> <<>>]

\* Nobody needs the shared server any more: the modules with pages on it are
\* finalized, then the server itself.
UnloadAll ==
  /\ UnloadShared /\ StopRpc /\ UNCHANGED feeds
  /\ (\A c \in Callers : callWire[c] = <<>>) \/ UnloadBusy

ServersNext ==
  \/ HttpNext /\ UNCHANGED <<feeds, rpcVars>>
  \/ FeedNext /\ UNCHANGED rpcVars
  \/ RpcNext /\ UNCHANGED feeds
  \/ UnloadAll

ServersSpec == ServersInit /\ [][ServersNext]_serverVars

\* Type correctness of what the servers and their clients hold.
ServersTypeOK ==
  /\ \A s \in DOMAIN server : server[s].state \in {"running", "freeing", "freed"}
                              /\ server[s].open \in 0..Cardinality(Clients)
  /\ loaded \subseteq {"shared_http_server", "http_server_demo", "rpc", "feed"}
  /\ DOMAIN feeds \subseteq FeedNames /\ services \subseteq Paths
  /\ lineServer.state \in {"running", "stopped", "freed"}
  /\ \A c \in Clients : conn[c].request.method \in {"UNKNOWN", "GET", "POST"}

\* The servers know their connections: see ServersAccounted, LineServerAccounted.
ConnectionsCounted == ServersAccounted /\ LineServerAccounted
=============================================================================
