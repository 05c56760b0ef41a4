---------------------------- MODULE MCSocketPoll ----------------------------
(* Two sockets for TLC, and a descriptor more than they can use at a time.  *)
EXTENDS SocketPoll

CONSTANTS s1, s2

TwoSockets == {s1, s2}
AllKinds == {"client", "server", "shell"}
WithReconnect == {Reconnect}

=============================================================================
