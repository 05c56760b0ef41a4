----------------------------- MODULE MCBouncer -----------------------------
(* Instances of Bouncer for TLC.                                           *)
EXTENDS Bouncer, TLC

\* Every plugin is in a pool; plugin is together with a bot and with a plugin
\* that keeps messages.
MCPools == {{"plugin", "messagebuffer"}, {"plugin", "perform"}, {"lua", "messagelog"},
            {"autoinvite", "log"}}

Symmetry == Permutations(Proxies) \cup Permutations(Clients)
=============================================================================
