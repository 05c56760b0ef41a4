---------------------------- MODULE ModuleLoader ----------------------------
(***************************************************************************)
(* The module loader of the Kalisko core (src/src/module.c): a table of    *)
(* reference counted modules, loaded on demand together with the modules   *)
(* they depend on, and unloaded as soon as nobody needs them any more.     *)
(*                                                                         *)
(* The loader runs on the main thread only.  needModule and unneedModule   *)
(* recurse, and the initializers they call may call the loader's API       *)
(* again, so the C stack is explicit state here: `loading' holds the       *)
(* needModule calls that are under way, `forcing' the forceUnloadModule    *)
(* calls and `unloading' the modules whose dependency tables are being     *)
(* emptied.  Calls nest in that order, so the step that may happen next is *)
(* always the one of the innermost call.                                   *)
(*                                                                         *)
(* Data left out: author, description, file names, log messages, and the   *)
(* order of a hash table's elements (any element may come next).           *)
(***************************************************************************)
EXTENDS Naturals, Sequences, FiniteSets

CONSTANTS
  Modules,       \* the modules whose libraries may be on the search path
  Core,          \* the symbolic core module, parent of what is requested
  Deps,          \* Deps[m]: what MODULE_DEPENDS of m lists, in order
  Version,       \* Version[m] and BcVersion[m]: the version of m and the
  BcVersion,     \* oldest one m is compatible with
  Requesters,    \* modules whose initializer calls requestModule
  RuntimeCalls   \* <<caller, source, target>>: the calls of
                 \* addModuleRuntimeDependency; caller is the module whose
                 \* initializer makes it, or Core for the event loop

ModuleDependency == [name : Modules, version : Nat]

ASSUME ModulesAssumption ==
  /\ IsFiniteSet(Modules)
  /\ Core \notin Modules
  /\ Deps \in [Modules -> Seq(ModuleDependency)]
  /\ Version \in [Modules -> Nat]
  /\ BcVersion \in [Modules -> Nat]
  /\ Requesters \subseteq Modules
  /\ RuntimeCalls \subseteq (Modules \cup {Core}) \X Modules \X Modules

VARIABLES
  modules,       \* keys of the table of all modules
  loaded,        \* modules whose initializer has succeeded
  rc,            \* reference counts
  dependencies,  \* dependencies[p]: the modules p has taken a reference to
  rdeps,         \* rdeps[m]: the modules, or Core, recorded as needing m
  handle,        \* modules whose library handle is open
  leaked,        \* libraries that were opened and whose handle was lost
  timers,        \* modules that own a pending timer
  loading,       \* stack of needModule calls, innermost last
  phase,         \* where the needModule call of a module is
  nextDep,       \* index of the next entry of Deps[m] to be needed
  forcing,       \* stack of forceUnloadModule calls, innermost last
  unloading,     \* stack of modules giving up their dependencies
  state          \* "running", "freeing" (in freeModules) or "freed"

tables == <<modules, loaded, rc, dependencies, rdeps, handle, leaked, timers>>
calls == <<loading, phase, nextDep>>
vars == <<tables, calls, forcing, unloading, state>>

Owners == Modules \cup {Core}
Phases == {"none", "deps", "init", "fail"}

TypeOK ==
  /\ modules \subseteq Modules
  /\ loaded \subseteq Modules
  /\ rc \in [Modules -> Nat]
  /\ dependencies \in [Owners -> SUBSET Modules]
  /\ rdeps \in [Modules -> SUBSET Owners]
  /\ handle \subseteq Modules
  /\ leaked \subseteq Modules
  /\ timers \subseteq Modules
  /\ loading \in Seq(Modules)
  /\ phase \in [Modules -> Phases]
  /\ nextDep \in [Modules -> Nat \ {0}]
  /\ forcing \in Seq([mod : Modules, todo : SUBSET Modules])
  /\ unloading \in Seq(Owners)
  /\ state \in {"running", "freeing", "freed"}

Init ==
  /\ modules = {} /\ loaded = {}
  /\ rc = [m \in Modules |-> 0]
  /\ dependencies = [p \in Owners |-> {}]
  /\ rdeps = [m \in Modules |-> {}]
  /\ handle = {} /\ leaked = {} /\ timers = {}
  /\ loading = <<>>
  /\ phase = [m \in Modules |-> "none"]
  /\ nextDep = [m \in Modules |-> 1]
  /\ forcing = <<>> /\ unloading = <<>>
  /\ state = "running"

-----------------------------------------------------------------------------
Top(stack) == stack[Len(stack)]
Pop(stack) == SubSeq(stack, 1, Len(stack) - 1)

StaticDeps(m) == {Deps[m][i].name : i \in DOMAIN Deps[m]}

\* Both version checks of needModule accept exactly these versions.
VersionFits(dep) ==
  /\ dep.version >= BcVersion[dep.name]
  /\ dep.version <= Version[dep.name]

\* checkModuleDependencyByModule: t is reachable from s by at least one edge.
DependsOn(s, t) ==
  \A S \in SUBSET Modules :
    (/\ dependencies[s] \subseteq S
     /\ \A m \in S : dependencies[m] \subseteq S) => t \in S

\* Nothing of the loader is on the C stack: the event loop is running.
Idle ==
  /\ state = "running"
  /\ loading = <<>> /\ forcing = <<>> /\ unloading = <<>>

\* needModule of the innermost module runs, and no unloading inside it.
LoadingTop(p) ==
  /\ state = "running" /\ forcing = <<>> /\ unloading = <<>>
  /\ loading # <<>> /\ p = Top(loading)

\* The initializer of the innermost module runs.
InInit(p) == LoadingTop(p) /\ phase[p] = "init"

\* The parent argument of the needModule call for the innermost module: the
\* module whose dependencies are being loaded, or Core for requestModule.
Parent ==
  IF Len(loading) > 1 /\ phase[Top(Pop(loading))] = "deps"
    THEN Top(Pop(loading)) ELSE Core

AddEdge(p, m) ==
  /\ dependencies' = [dependencies EXCEPT ![p] = @ \cup {m}]
  /\ rdeps' = [rdeps EXCEPT ![m] = @ \cup {p}]

\* Mutation: the reference is not counted.
TakeReferenceUncounted(m, p) ==
  /\ m \in loaded
  /\ AddEdge(p, m)
  /\ UNCHANGED <<rc, modules, loaded, handle, leaked, timers>>

\* The branch of needModule for a module that is loaded already.
TakeReference(m, p) ==
  /\ m \in loaded
  /\ rc' = [rc EXCEPT ![m] = @ + 1]
  /\ AddEdge(p, m)
  /\ UNCHANGED <<modules, loaded, handle, leaked, timers>>

\* needModule creates the module, opens its library lazily and reads its
\* meta data without an error.
CreateModule(m) ==
  /\ m \notin modules
  /\ modules' = modules \cup {m}
  /\ handle' = handle \cup {m}
  /\ rc' = [rc EXCEPT ![m] = 1]
  /\ loading' = Append(loading, m)
  /\ phase' = [phase EXCEPT ![m] = "deps"]
  /\ nextDep' = [nextDep EXCEPT ![m] = 1]
  /\ UNCHANGED <<loaded, dependencies, rdeps, leaked, timers, forcing,
                 unloading, state>>

\* The library of an absent module cannot be opened, or it opens and its meta
\* data is in error: then the table entry goes but dlclose is never called.
MayFailToCreate(m) ==
  /\ m \notin modules
  /\ leaked' \in {leaked, leaked \cup {m}}

\* unneedModule: p gives up its reference to m.
Unreference(m, p) ==
  /\ rdeps' = [rdeps EXCEPT ![m] = @ \ {p}]
  /\ rc' = [rc EXCEPT ![m] = @ - 1]

StillNeeded == UNCHANGED <<modules, loaded, handle, timers, unloading>>

\* unneedModule: m is finalized and goes; what is left of it is to empty its
\* table of dependencies.
Unload(m, openHandles, pendingTimers) ==
  /\ modules' = modules \ {m} /\ loaded' = loaded \ {m}
  /\ handle' = openHandles /\ timers' = pendingTimers
  /\ unloading' = Append(unloading, m)

\* Mutation: a module that is still needed gives up its dependencies.
UnneedNoReturn(m, p) ==
  /\ Unreference(m, p)
  /\ IF rc[m] > 1
       THEN /\ UNCHANGED <<modules, loaded, handle, timers>>
            /\ unloading' = Append(unloading, m)
       ELSE Unload(m, handle \ {m}, timers \ {m})

\* unneedModule up to the point where it empties the module's own table:
\* the last reference finalizes m, removes its timers if it was loaded,
\* closes its library and takes it out of the table.
UnneedModule(m, p) ==
  /\ Unreference(m, p)
  /\ IF rc[m] > 1
       THEN StillNeeded
       ELSE Unload(m, handle \ {m},
                   IF m \in loaded THEN timers \ {m} ELSE timers)

-----------------------------------------------------------------------------
(* requestModule, from the event loop or from an initializer.              *)

MayRequest == Idle \/ \E p \in Requesters : InInit(p)

RequestLoaded(m) ==
  /\ MayRequest /\ m \notin dependencies[Core]
  /\ TakeReference(m, Core)
  /\ UNCHANGED <<calls, forcing, unloading, state>>

RequestAbsent(m) ==
  /\ MayRequest /\ m \notin dependencies[Core]
  /\ CreateModule(m)

RequestFails(m) ==
  /\ MayRequest /\ m \notin dependencies[Core]
  /\ MayFailToCreate(m)
  /\ UNCHANGED <<modules, loaded, rc, dependencies, rdeps, handle, timers,
                 calls, forcing, unloading, state>>

-----------------------------------------------------------------------------
(* needModule: the loop over the dependencies of the innermost module.     *)

Needed(p) == Deps[p][nextDep[p]]

NeedsNext(p) ==
  /\ LoadingTop(p) /\ phase[p] = "deps"
  /\ nextDep[p] \in DOMAIN Deps[p]

NeedLoaded(p) ==
  /\ NeedsNext(p) /\ VersionFits(Needed(p))
  /\ TakeReference(Needed(p).name, p)
  /\ nextDep' = [nextDep EXCEPT ![p] = @ + 1]
  /\ UNCHANGED <<loading, phase, forcing, unloading, state>>

NeedAbsent(p) ==
  /\ NeedsNext(p) /\ VersionFits(Needed(p))
  /\ CreateModule(Needed(p).name)

\* Mutation: the result of the recursive call is ignored.
NeedFailsIgnored(p) ==
  /\ NeedsNext(p)
  /\ MayFailToCreate(Needed(p).name)
  /\ nextDep' = [nextDep EXCEPT ![p] = @ + 1]
  /\ UNCHANGED <<modules, loaded, rc, dependencies, rdeps, handle, timers,
                 loading, phase, forcing, unloading, state>>

\* A circular dependency, a version that does not fit, or a library that
\* cannot be used: the recursive call returns false.
NeedFails(p) ==
  /\ NeedsNext(p)
  /\ \/ /\ Needed(p).name \in modules
        /\ Needed(p).name \in loaded => ~VersionFits(Needed(p))
        /\ UNCHANGED leaked
     \/ MayFailToCreate(Needed(p).name)
  /\ phase' = [phase EXCEPT ![p] = "fail"]
  /\ UNCHANGED <<modules, loaded, rc, dependencies, rdeps, handle, timers,
                 loading, nextDep, forcing, unloading, state>>

\* All dependencies are there: the library is closed, opened again with its
\* symbols resolved, and the initializer is called.
StartInit(p) ==
  /\ LoadingTop(p) /\ phase[p] = "deps"
  /\ nextDep[p] \notin DOMAIN Deps[p]
  /\ phase' = [phase EXCEPT ![p] = "init"]
  /\ UNCHANGED <<tables, loading, nextDep, forcing, unloading, state>>

\* The library cannot be opened again (its handle is NULL then), or it has no
\* initializer.
StartInitFails(p) ==
  /\ LoadingTop(p) /\ phase[p] = "deps"
  /\ nextDep[p] \notin DOMAIN Deps[p]
  /\ handle' \in {handle, handle \ {p}}
  /\ phase' = [phase EXCEPT ![p] = "fail"]
  /\ UNCHANGED <<modules, loaded, rc, dependencies, rdeps, leaked, timers,
                 loading, nextDep, forcing, unloading, state>>

\* The initializer returns true; the parent records its dependency and goes
\* on with its own next one.
InitSucceeds(p) ==
  /\ InInit(p)
  /\ loaded' = loaded \cup {p}
  /\ AddEdge(Parent, p)
  /\ loading' = Pop(loading)
  /\ phase' = [phase EXCEPT ![p] = "none"]
  /\ nextDep' = [m \in Modules |->
                   IF m = p THEN 1
                   ELSE IF m = Parent THEN nextDep[m] + 1 ELSE nextDep[m]]
  /\ UNCHANGED <<modules, rc, handle, leaked, timers, forcing, unloading,
                 state>>

\* The initializer returns false.  No initializer of the repository does so
\* after it has registered a timer.
InitFails(p) ==
  /\ InInit(p) /\ p \notin timers
  /\ phase' = [phase EXCEPT ![p] = "fail"]
  /\ UNCHANGED <<tables, loading, nextDep, forcing, unloading, state>>

\* Mutation: the failure is not passed on, and the parent tries again.
AbandonRetries(p) ==
  /\ LoadingTop(p) /\ phase[p] = "fail"
  /\ UnneedModule(p, Parent)
  /\ loading' = Pop(loading)
  /\ phase' = [phase EXCEPT ![p] = "none"]
  /\ nextDep' = [nextDep EXCEPT ![p] = 1]
  /\ UNCHANGED <<dependencies, leaked, forcing, state>>

\* Mutation: the reference held for the parent is not given up.
AbandonKeeps(p) ==
  /\ LoadingTop(p) /\ phase[p] = "fail"
  /\ loading' = Pop(loading)
  /\ phase' = [m \in Modules |->
                 IF m = p THEN "none"
                 ELSE IF m = Parent THEN "fail" ELSE phase[m]]
  /\ nextDep' = [nextDep EXCEPT ![p] = 1]
  /\ UNCHANGED <<tables, unloading, forcing, state>>

\* A failed load gives up the reference held for the parent, and the failure
\* is passed on to a parent that is loading its dependencies.
Abandon(p) ==
  /\ LoadingTop(p) /\ phase[p] = "fail"
  /\ UnneedModule(p, Parent)
  /\ loading' = Pop(loading)
  /\ phase' = [m \in Modules |->
                 IF m = p THEN "none"
                 ELSE IF m = Parent THEN "fail" ELSE phase[m]]
  /\ nextDep' = [nextDep EXCEPT ![p] = 1]
  /\ UNCHANGED <<dependencies, leaked, forcing, state>>

-----------------------------------------------------------------------------
(* unneedModule: the module on top gives up its dependencies one by one.   *)

\* g_hash_table_foreach_remove drops the entry when the wrapper returns; no
\* one looks at the table of a module on its way out before that.
UnneedDependency(p, m) ==
  /\ unloading # <<>> /\ p = Top(unloading)
  /\ m \in dependencies[p]
  /\ UnneedModule(m, p)
  /\ dependencies' = [dependencies EXCEPT ![p] = @ \ {m}]
  /\ UNCHANGED <<leaked, calls, forcing, state>>

\* The table is empty: the module's memory is freed, or freeModules has
\* emptied the core's table and frees everything.
UnneedDone(p) ==
  /\ unloading # <<>> /\ p = Top(unloading)
  /\ dependencies[p] = {}
  /\ unloading' = Pop(unloading)
  /\ state' = IF p = Core THEN "freed" ELSE state
  /\ UNCHANGED <<tables, calls, forcing>>

RevokeModule(m) ==
  /\ Idle /\ m \in dependencies[Core]
  /\ dependencies' = [dependencies EXCEPT ![Core] = @ \ {m}]
  /\ UnneedModule(m, Core)
  /\ UNCHANGED <<leaked, calls, forcing, state>>

-----------------------------------------------------------------------------
(* forceUnloadModule                                                       *)

ForceFrame(m) == [mod |-> m, todo |-> rdeps[m] \ {Core}]

ForceUnloadModule(m) ==
  /\ Idle /\ m \in modules
  /\ forcing' = <<ForceFrame(m)>>
  /\ UNCHANGED <<tables, calls, unloading, state>>

ForcingTop(f) ==
  /\ forcing # <<>> /\ unloading = <<>>
  /\ f = Top(forcing)

\* The next name of the list is looked up.  The list was taken before any
\* module was unloaded: a module that is gone by now has freed the string,
\* which is then not the name of a module, and the whole chain of calls
\* returns false.
ForceNext(x) ==
  LET f == Top(forcing)
      rest == Append(Pop(forcing), [f EXCEPT !.todo = @ \ {x}])
  IN /\ ForcingTop(f) /\ x \in f.todo
     /\ forcing' = IF x \in modules THEN Append(rest, ForceFrame(x)) ELSE <<>>
     /\ UNCHANGED <<tables, calls, unloading, state>>

\* The list is done and the module is still there: it is revoked, and if the
\* core has not requested it the whole chain of calls returns false.
ForceRevoke ==
  LET f == Top(forcing)
  IN /\ ForcingTop(f) /\ f.todo = {} /\ f.mod \in modules
     /\ IF f.mod \in dependencies[Core]
          THEN /\ dependencies' = [dependencies EXCEPT ![Core] = @ \ {f.mod}]
               /\ UnneedModule(f.mod, Core)
               /\ forcing' = Pop(forcing)
          ELSE /\ forcing' = <<>>
               /\ UNCHANGED <<modules, loaded, rc, dependencies, rdeps,
                              handle, timers, unloading>>
     /\ UNCHANGED <<leaked, calls, state>>

\* The list is done and the module went with the modules that needed it.
ForceDone ==
  LET f == Top(forcing)
  IN /\ ForcingTop(f) /\ f.todo = {} /\ f.mod \notin modules
     /\ forcing' = Pop(forcing)
     /\ UNCHANGED <<tables, calls, unloading, state>>

-----------------------------------------------------------------------------
(* addModuleRuntimeDependency, timers of modules, and the end.             *)

AddModuleRuntimeDependency(caller, s, t) ==
  /\ <<caller, s, t>> \in RuntimeCalls
  /\ IF caller = Core THEN Idle ELSE InInit(caller)
  /\ s \in modules /\ t \in modules
  /\ ~DependsOn(s, t) /\ ~DependsOn(t, s)
  /\ AddEdge(s, t)
  /\ rc' = [rc EXCEPT ![t] = @ + 1]
  /\ UNCHANGED <<modules, loaded, handle, leaked, timers, calls, forcing,
                 unloading, state>>

\* A module registers a timer from its initializer or from the event loop.
AddTimer(m) ==
  /\ InInit(m) \/ (Idle /\ m \in loaded)
  /\ timers' = timers \cup {m}
  /\ UNCHANGED <<modules, loaded, rc, dependencies, rdeps, handle, leaked,
                 calls, forcing, unloading, state>>

\* The last pending timer of a module is run or deleted.
TimersDone(m) ==
  /\ Idle /\ m \in timers
  /\ timers' = timers \ {m}
  /\ UNCHANGED <<modules, loaded, rc, dependencies, rdeps, handle, leaked,
                 calls, forcing, unloading, state>>

\* main leaves the event loop.
FreeModules ==
  /\ Idle
  /\ state' = "freeing"
  /\ unloading' = <<Core>>
  /\ UNCHANGED <<tables, calls, forcing>>

Terminated == state = "freed" /\ UNCHANGED vars

-----------------------------------------------------------------------------
LoadStep(p) ==
  \/ NeedLoaded(p) \/ NeedAbsent(p) \/ NeedFails(p)
  \/ StartInit(p) \/ StartInitFails(p) \/ Abandon(p)

InitReturns(p) == InitSucceeds(p) \/ InitFails(p)

UnneedStep(p) == UnneedDone(p) \/ \E m \in Modules : UnneedDependency(p, m)

ForceStep == (\E x \in Modules : ForceNext(x)) \/ ForceRevoke \/ ForceDone

Next ==
  \/ \E m \in Modules :
       \/ RequestLoaded(m) \/ RequestAbsent(m) \/ RequestFails(m)
       \/ RevokeModule(m) \/ ForceUnloadModule(m)
       \/ AddTimer(m) \/ TimersDone(m)
       \/ LoadStep(m) \/ InitReturns(m)
  \/ \E p \in Owners : UnneedStep(p)
  \/ ForceStep
  \/ \E c \in RuntimeCalls : AddModuleRuntimeDependency(c[1], c[2], c[3])
  \/ FreeModules
  \/ Terminated

Spec == Init /\ [][Next]_vars

=============================================================================
