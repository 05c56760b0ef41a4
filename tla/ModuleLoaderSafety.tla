------------------------- MODULE ModuleLoaderSafety -------------------------
(***************************************************************************)
(* What the module loader promises.                                        *)
(***************************************************************************)
EXTENDS ModuleLoader

\* dependencies and rdeps are two views of one relation: every needModule,
\* unneedModule and addModuleRuntimeDependency updates both.
EdgesAgree ==
  \A p \in Owners, m \in Modules : p \in rdeps[m] <=> m \in dependencies[p]

\* The reference count is the number of recorded dependents, plus the one
\* reference that needModule takes for a parent before it is recorded.
RefCounts ==
  \A m \in Modules :
    rc[m] = Cardinality(rdeps[m]) + (IF phase[m] = "none" THEN 0 ELSE 1)

\* No table that a call of the loader still goes through holds a pointer to a
\* module that has been freed, also none of a module on its way out.
NoDangling == \A p \in Owners : dependencies[p] \subseteq modules

\* A module runs, and is finalized, with everything it lists as a dependency
\* loaded: initializers run after, and finalizers before, those of the
\* dependencies, and their code is mapped.
StaticDepsLoaded ==
  \A m \in loaded :
    StaticDeps(m) \subseteq dependencies[m] \cap loaded \cap handle

\* addModuleRuntimeDependency and needModule never close a cycle: every set
\* of modules has one that no other of the set depends on.
Acyclic ==
  \A S \in SUBSET Modules :
    S # {} => \E m \in S : rdeps[m] \cap S = {}

\* Reference counting collects everything: whenever the loader is not
\* working, each module in the table is needed, through some chain of
\* dependencies, by what has been requested.
OnlyNeededModules == Idle => \A m \in modules : DependsOn(Core, m)

\* The assertions of freeModules hold, and no library is left open (but for
\* the ones lost by a meta data error) and no timer of a module is left.
FreedClean ==
  state = "freed" => modules = {} /\ handle = {} /\ timers = {}

\* A timer never outlives the code of its callback: removeModuleTimers is
\* called for every module that can own one before its library is closed.
TimersOwned == timers \subseteq handle \cap modules

\* What a module depends on, as listed or through addModuleRuntimeDependency,
\* is there as long as the module is loaded, and the graph that unneedModule
\* walks over has no cycle.
GraphSound == StaticDepsLoaded /\ Acyclic

\* Whatever was requested, revoked, forced out or failed half way: modules,
\* libraries and timers that nobody needs any more are gone.
EverythingReleased == OnlyNeededModules /\ FreedClean /\ TimersOwned

\* A dependency, once taken, "remains effective until the source module is
\* revoked" (module.i): a module in the table never loses one, so what it
\* depends on cannot be unloaded before it is.
DependenciesKept ==
  [][\A p \in modules \cap modules' : dependencies[p] \subseteq dependencies'[p]]_vars

-----------------------------------------------------------------------------
\* Every step of the loader is executed, for it has the main thread; and an
\* initializer returns in the end, however many requestModule calls it makes.
Fairness ==
  /\ \A p \in Modules : WF_vars(LoadStep(p)) /\ SF_vars(InitReturns(p))
  /\ \A p \in Owners : WF_vars(UnneedStep(p))
  /\ WF_vars(ForceStep)

FairSpec == Spec /\ Fairness

\* Every call of the loader returns: neither circular dependencies nor
\* failures in the middle of a load or an unload make it run for ever.
CallsReturn == (state = "running" /\ ~Idle) ~> Idle

=============================================================================
