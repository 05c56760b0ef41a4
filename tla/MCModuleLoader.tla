--------------------------- MODULE MCModuleLoader ---------------------------
(***************************************************************************)
(* A small set of modules for TLC.                                         *)
(***************************************************************************)
EXTENDS ModuleLoaderInductive

CONSTANTS a, b, c, d

MCModules == {a, b, c, d}
Dep(m, v) == [name |-> m, version |-> v]
MCVersion == [m \in MCModules |-> 2]
MCBcVersion == [m \in MCModules |-> 1]

\* A diamond: a needs b and c, and both need d.  The initializer of d makes a
\* depend on d, which happens while a is still loading its dependencies, the
\* one of b requests modules, which may need b itself, and the event loop
\* tries to make d depend on a, which would close a cycle of any length.
DiamondDeps ==
  [m \in MCModules |->
     CASE m = a -> <<Dep(b, 1), Dep(c, 2)>>
       [] m = b -> <<Dep(d, 2)>>
       [] m = c -> <<Dep(d, 1)>>
       [] m = d -> <<>>]
DiamondRequesters == {b}
DiamondCalls == {<<d, a, d>>, <<Core, d, a>>}

=============================================================================
