----------------------- MODULE ModuleLoaderInductive ------------------------
(***************************************************************************)
(* The inductive invariant behind ModuleLoaderSafety, and the rule about   *)
(* initializers that it needs and that every module of the repository      *)
(* keeps to.                                                               *)
(***************************************************************************)
EXTENDS ModuleLoaderSafety

\* No module lists a dependency twice.  addModuleRuntimeDependency is called
\* for two different modules, and from an initializer only to make another
\* module depend on the one being initialized, which that other module does
\* not list as a dependency anyway (gtksourceview.c:35 is such a call).
ASSUME CallsAssumption ==
  /\ \A m \in Modules : \A i, j \in DOMAIN Deps[m] :
       Deps[m][i].name = Deps[m][j].name => i = j
  /\ \A caller \in Owners, s, t \in Modules :
       <<caller, s, t>> \in RuntimeCalls =>
         /\ s # t
         /\ caller # Core => caller = t /\ t \notin StaticDeps(s)

\* The frames of needModule are those of distinct modules, and each module
\* that waits for a dependency waits for the module of the next frame.
LoadingStack ==
  /\ \A m \in Modules :
       phase[m] # "none" <=> \E i \in 1..Len(loading) : loading[i] = m
  /\ \A i, j \in 1..Len(loading) : loading[i] = loading[j] => i = j
  /\ \A i \in 1..Len(loading) : i < Len(loading) =>
       LET p == loading[i]
       IN /\ phase[p] \in {"deps", "init"}
          /\ phase[p] = "deps" => /\ nextDep[p] \in DOMAIN Deps[p]
                                  /\ loading[i + 1] = Deps[p][nextDep[p]].name

\* A module is in the table exactly as long as it is referenced.
Table ==
  /\ \A m \in Modules : m \in modules <=> rc[m] > 0
  /\ \A m \in Modules : phase[m] # "none" => m \in modules \ loaded
  /\ \A m \in Modules : phase[m] \in {"deps", "init"} => m \in handle
  /\ loaded \subseteq handle
  /\ handle \subseteq modules
  /\ \A m \in timers : m \in loaded \/ phase[m] = "init"

\* What a module under way has got: nobody depends on it while its own
\* dependencies are loaded, those before nextDep are there, and it has not
\* taken a reference to the ones to come.
UnderWay ==
  /\ \A m \in Modules : Core \in rdeps[m] => m \in loaded
  /\ \A m \in Modules : phase[m] = "deps" =>
       /\ rdeps[m] = {}
       /\ \A i \in DOMAIN Deps[m] :
            IF i < nextDep[m]
              THEN Deps[m][i].name \in dependencies[m] \cap loaded
              ELSE Deps[m][i].name \notin dependencies[m]
  /\ \A m \in Modules : phase[m] = "init" \/ m \in loaded =>
       StaticDeps(m) \subseteq dependencies[m] \cap loaded

\* Modules being emptied are out of the table, only they and modules in the
\* table have dependencies, and freeModules runs on top of everything else.
UnloadingStack ==
  /\ \A i \in 1..Len(unloading) : unloading[i] \notin modules
  /\ \A p \in Modules : dependencies[p] # {} =>
       p \in modules \/ \E i \in 1..Len(unloading) : unloading[i] = p
  /\ state = "running" =>
       \A i \in 1..Len(unloading) : unloading[i] # Core
  /\ state # "running" => loading = <<>> /\ forcing = <<>>
  /\ state = "freeing" =>
       \A i \in 1..Len(unloading) : unloading[i] = Core <=> i = 1
  /\ state = "freed" => unloading = <<>> /\ dependencies[Core] = {}
  /\ forcing # <<>> => loading = <<>>

Inv ==
  /\ TypeOK
  /\ LoadingStack
  /\ Table
  /\ EdgesAgree
  /\ RefCounts
  /\ NoDangling
  /\ UnderWay
  /\ UnloadingStack
  /\ Acyclic

=============================================================================
