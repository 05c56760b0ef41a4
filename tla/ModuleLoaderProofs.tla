------------------------- MODULE ModuleLoaderProofs -------------------------
(***************************************************************************)
(* Proofs about the module loader, for every set of modules, every list of *)
(* dependencies and all calls that keep to CallsAssumption.                *)
(***************************************************************************)
EXTENDS ModuleLoaderInductive, FiniteSetTheorems, SequenceTheorems, TLAPS

\* The top of a non-empty stack, and what is left when it is popped.
LEMMA PopFacts ==
  ASSUME NEW S, NEW s \in Seq(S), s # <<>>
  PROVE  /\ Len(s) \in Nat \ {0}
         /\ Top(s) \in S
         /\ Pop(s) \in Seq(S)
         /\ Len(Pop(s)) = Len(s) - 1
         /\ \A i \in 1..(Len(s) - 1) : Pop(s)[i] = s[i]
<1>1. Len(s) \in Nat \ {0}
  BY EmptySeq
<1>2. Top(s) \in S
  BY <1>1 DEF Top
<1>3. \A i \in 1..(Len(s) - 1) : s[i] \in S
  BY <1>1
<1>4. Pop(s) \in Seq(S)
  BY <1>1 DEF Pop
<1>5. Len(Pop(s)) = Len(s) - 1
  <2>1. PICK n \in Nat : Len(s) = n + 1
    <3>1. Len(s) - 1 \in Nat /\ Len(s) = (Len(s) - 1) + 1
      BY <1>1
    <3> QED BY <3>1
  <2>2. \A i \in 1..n : s[i] \in S
    BY <1>3, <2>1
  <2>3. Len(SubSeq(s, 1, n)) = IF 1 <= n THEN n - 1 + 1 ELSE 0
    BY <2>2, SubSeqProperties
  <2>4. Len(SubSeq(s, 1, n)) = n
    BY <2>3
  <2> QED BY <2>1, <2>4 DEF Pop
<1>6. \A i \in 1..(Len(s) - 1) : Pop(s)[i] = s[i]
  BY <1>1 DEF Pop
<1> QED BY <1>1, <1>2, <1>4, <1>5, <1>6

\* What a stack holds after a push.
LEMMA PushFacts ==
  ASSUME NEW S, NEW s \in Seq(S), NEW e \in S
  PROVE  /\ Append(s, e) \in Seq(S)
         /\ Len(s) \in Nat
         /\ Len(Append(s, e)) = Len(s) + 1
         /\ \A i \in 1..Len(s) : Append(s, e)[i] = s[i]
         /\ Append(s, e)[Len(s) + 1] = e
BY AppendProperties, LenProperties

\* The parent of the innermost needModule call is the core or a module that
\* is walking its dependency list.
LEMMA ParentFacts ==
  ASSUME TypeOK, loading # <<>>
  PROVE  /\ Parent \in Owners
         /\ \/ Parent = Core
            \/ /\ Len(loading) > 1
               /\ Parent = loading[Len(loading) - 1]
               /\ phase[Parent] = "deps"
<1>1. Len(loading) \in Nat \ {0} /\ loading \in Seq(Modules)
  BY PopFacts DEF TypeOK
<1>2. Pop(loading) \in Seq(Modules) /\ Len(Pop(loading)) = Len(loading) - 1
      /\ \A i \in 1..(Len(loading) - 1) : Pop(loading)[i] = loading[i]
  BY <1>1, PopFacts
<1>3. CASE Len(loading) > 1
  <2>1. Top(Pop(loading)) = loading[Len(loading) - 1]
    BY <1>1, <1>2, <1>3 DEF Top
  <2>2. Top(Pop(loading)) \in Modules
    BY <1>1, <1>3, <2>1
  <2> QED BY <1>3, <2>1, <2>2 DEF Parent, Owners
<1>4. CASE ~(Len(loading) > 1)
  BY <1>4 DEF Parent, Owners
<1> QED BY <1>3, <1>4

\* The next entry of a dependency list names a module.
LEMMA NeededFacts ==
  ASSUME NEW p \in Modules, nextDep[p] \in DOMAIN Deps[p]
  PROVE  /\ Needed(p).name \in Modules
         /\ Needed(p).name = Deps[p][nextDep[p]].name
<1>1. Deps[p] \in Seq(ModuleDependency)
  BY ModulesAssumption
<1>2. Deps[p][nextDep[p]] \in ModuleDependency
  BY <1>1
<1> QED BY <1>2 DEF Needed, ModuleDependency

-----------------------------------------------------------------------------
(* Type correctness.                                                       *)

\* requestModule.
LEMMA RequestTypes ==
  ASSUME TypeOK, NEW m \in Modules,
         RequestLoaded(m) \/ RequestAbsent(m) \/ RequestFails(m)
  PROVE  TypeOK'
<1>1. CASE RequestLoaded(m)
  BY <1>1 DEF TypeOK, RequestLoaded, TakeReference, AddEdge, calls, Owners
<1>2. CASE RequestAbsent(m)
  <2>1. Append(loading, m) \in Seq(Modules)
    BY PushFacts DEF TypeOK
  <2> QED BY <1>2, <2>1 DEF TypeOK, RequestAbsent, CreateModule, Phases
<1>3. CASE RequestFails(m)
  BY <1>3 DEF TypeOK, RequestFails, MayFailToCreate, calls
<1> QED BY <1>1, <1>2, <1>3

\* The steps of needModule, up to a module_init that fails.
LEMMA LoadTypes ==
  ASSUME TypeOK, NEW p \in Modules,
         \/ NeedLoaded(p) \/ NeedAbsent(p) \/ NeedFails(p)
         \/ StartInit(p) \/ StartInitFails(p) \/ InitFails(p)
  PROVE  TypeOK'
<1>1. ASSUME NeedsNext(p) PROVE Needed(p).name \in Modules
  BY <1>1, NeededFacts DEF NeedsNext
<1>2. CASE NeedLoaded(p)
  BY <1>1, <1>2 DEF TypeOK, NeedLoaded, TakeReference, AddEdge, Owners
<1>3. CASE NeedAbsent(p)
  <2>1. Needed(p).name \in Modules /\ CreateModule(Needed(p).name)
    BY <1>1, <1>3 DEF NeedAbsent
  <2>2. Append(loading, Needed(p).name) \in Seq(Modules)
    BY <2>1, PushFacts DEF TypeOK
  <2> QED BY <2>1, <2>2 DEF TypeOK, CreateModule, Phases
<1>4. CASE NeedFails(p)
  BY <1>1, <1>4 DEF TypeOK, NeedFails, MayFailToCreate, Phases
<1>5. CASE StartInit(p) \/ InitFails(p)
  BY <1>5 DEF TypeOK, StartInit, InitFails, tables, Phases
<1>6. CASE StartInitFails(p)
  BY <1>6 DEF TypeOK, StartInitFails, Phases
<1> QED BY <1>2, <1>3, <1>4, <1>5, <1>6

\* module_init returned true: the module enters its parent's dependencies.
LEMMA InitSucceedsTypes ==
  ASSUME TypeOK, NEW p \in Modules, InitSucceeds(p)
  PROVE  TypeOK'
<1>1. loading # <<>>
  BY DEF InitSucceeds, InInit, LoadingTop
<1>2. Pop(loading) \in Seq(Modules)
  BY <1>1, PopFacts DEF TypeOK
<1>3. Parent \in Owners
  BY <1>1, ParentFacts
<1>4. /\ dependencies' \in [Owners -> SUBSET Modules]
      /\ rdeps' \in [Modules -> SUBSET Owners]
  BY <1>3 DEF TypeOK, InitSucceeds, AddEdge, Owners
<1>5. phase' \in [Modules -> Phases]
  BY DEF TypeOK, InitSucceeds, Phases
<1>6. nextDep' \in [Modules -> Nat \ {0}]
  BY DEF TypeOK, InitSucceeds
<1> QED BY <1>2, <1>4, <1>5, <1>6 DEF TypeOK, InitSucceeds

\* The part of unneedModule before the recursion.
LEMMA UnneedModuleTypes ==
  ASSUME TypeOK, NEW m \in Modules, rc[m] > 0, NEW p, UnneedModule(m, p)
  PROVE  /\ modules' \subseteq Modules
         /\ loaded' \subseteq Modules
         /\ rc' \in [Modules -> Nat]
         /\ rdeps' \in [Modules -> SUBSET Owners]
         /\ handle' \subseteq Modules
         /\ timers' \subseteq Modules
         /\ unloading' \in Seq(Owners)
<1>1. Append(unloading, m) \in Seq(Owners)
  BY PushFacts DEF TypeOK, Owners
<1>2. rc[m] - 1 \in Nat
  BY DEF TypeOK
<1>3. rc' \in [Modules -> Nat]
  BY <1>2 DEF TypeOK, UnneedModule, Unreference, Unload, StillNeeded
<1> QED BY <1>1, <1>3 DEF TypeOK, UnneedModule, Unreference, Unload, StillNeeded

\* The steps of unneedModule.
LEMMA UnneedTypes ==
  ASSUME TypeOK, Table, NoDangling, LoadingStack,
         \/ \E p \in Modules : Abandon(p)
         \/ \E p \in Owners : UnneedStep(p)
         \/ \E m \in Modules : RevokeModule(m)
  PROVE  TypeOK'
<1>1. ASSUME NEW p \in Modules, Abandon(p) PROVE TypeOK'
  <2>1. loading # <<>> /\ phase[p] # "none"
    BY <1>1 DEF Abandon, LoadingTop
  <2>2. Pop(loading) \in Seq(Modules)
    BY <2>1, PopFacts DEF TypeOK
  <2>3. rc[p] > 0
    BY <2>1 DEF Table
  <2> QED BY <1>1, <2>2, <2>3, UnneedModuleTypes DEF TypeOK, Abandon, Phases
<1>2. ASSUME NEW p \in Owners, NEW m \in Modules, UnneedDependency(p, m)
      PROVE  TypeOK'
  <2>1. m \in modules /\ rc[m] > 0
    BY <1>2 DEF UnneedDependency, NoDangling, Table
  <2> QED BY <1>2, <2>1, UnneedModuleTypes
          DEF TypeOK, UnneedDependency, calls, Owners
<1>3. ASSUME NEW p \in Owners, UnneedDone(p) PROVE TypeOK'
  <2>1. Pop(unloading) \in Seq(Owners)
    BY <1>3, PopFacts DEF TypeOK, UnneedDone
  <2> QED BY <1>3, <2>1 DEF TypeOK, UnneedDone, tables, calls
<1>4. ASSUME NEW m \in Modules, RevokeModule(m) PROVE TypeOK'
  <2>1. m \in modules /\ rc[m] > 0
    BY <1>4 DEF RevokeModule, NoDangling, Table, Owners
  <2> QED BY <1>4, <2>1, UnneedModuleTypes
          DEF TypeOK, RevokeModule, calls, Owners
<1> QED BY <1>1, <1>2, <1>3, <1>4 DEF UnneedStep

\* forceUnload.
LEMMA ForceTypes ==
  ASSUME TypeOK, Table, NoDangling,
         ForceStep \/ \E m \in Modules : ForceUnloadModule(m)
  PROVE  TypeOK'
<1> DEFINE Frame == [mod : Modules, todo : SUBSET Modules]
<1>1. \A m \in Modules : ForceFrame(m) \in Frame
  BY DEF ForceFrame, TypeOK, Owners
<1>2. ASSUME forcing # <<>>
      PROVE  /\ Pop(forcing) \in Seq(Frame)
             /\ Top(forcing) \in Frame
             /\ Top(forcing).mod \in Modules
             /\ Top(forcing).todo \subseteq Modules
  <2>1. forcing \in Seq(Frame)
    BY DEF TypeOK
  <2>2. Pop(forcing) \in Seq(Frame) /\ Top(forcing) \in Frame
    BY <1>2, <2>1, PopFacts
  <2> QED BY <2>2
<1>3. ASSUME NEW m \in Modules, ForceUnloadModule(m) PROVE TypeOK'
  <2>1. <<ForceFrame(m)>> \in Seq(Frame)
    BY <1>1
  <2> QED BY <1>3, <2>1 DEF TypeOK, ForceUnloadModule, tables, calls
<1>4. ASSUME NEW x \in Modules, ForceNext(x) PROVE TypeOK'
  <2> DEFINE f == Top(forcing)
             g == [f EXCEPT !.todo = @ \ {x}]
             rest == Append(Pop(forcing), g)
  <2>1. forcing # <<>>
    BY <1>4 DEF ForceNext, ForcingTop
  <2>2. g \in Frame
    BY <1>2, <2>1
  <2>3. rest \in Seq(Frame)
    BY <1>2, <2>1, <2>2, PushFacts
  <2>4. Append(rest, ForceFrame(x)) \in Seq(Frame)
    BY <1>1, <2>3, PushFacts
  <2>5. forcing' \in Seq(Frame)
    <3>1. forcing' = IF x \in modules THEN Append(rest, ForceFrame(x)) ELSE <<>>
      BY <1>4 DEF ForceNext
    <3> HIDE DEF rest
    <3> QED BY <2>4, <3>1, EmptySeq
  <2> QED BY <1>4, <2>5 DEF TypeOK, ForceNext, tables, calls
<1>5. ASSUME ForceRevoke PROVE TypeOK'
  <2> DEFINE m == Top(forcing).mod
  <2>1. forcing # <<>> /\ m \in modules
    BY <1>5 DEF ForceRevoke, ForcingTop
  <2>2. m \in Modules /\ rc[m] > 0 /\ Pop(forcing) \in Seq(Frame)
    BY <1>2, <2>1 DEF Table
  <2>3. forcing' \in Seq(Frame)
    BY <1>5, <2>2, EmptySeq DEF ForceRevoke
  <2>4. CASE m \in dependencies[Core]
    <3>1. UnneedModule(m, Core)
          /\ dependencies' = [dependencies EXCEPT ![Core] = @ \ {m}]
      BY <1>5, <2>4 DEF ForceRevoke
    <3> HIDE DEF m
    <3>2. dependencies' \in [Owners -> SUBSET Modules]
      BY <3>1 DEF TypeOK, Owners
    <3> QED BY <1>5, <2>2, <2>3, <3>1, <3>2, UnneedModuleTypes
            DEF TypeOK, ForceRevoke, calls
  <2>5. CASE m \notin dependencies[Core]
    BY <1>5, <2>3, <2>5 DEF TypeOK, ForceRevoke, calls
  <2> QED BY <2>4, <2>5
<1>6. ASSUME ForceDone PROVE TypeOK'
  <2>1. forcing' \in Seq(Frame)
    BY <1>2, <1>6 DEF ForceDone, ForcingTop
  <2> QED BY <1>6, <2>1 DEF TypeOK, ForceDone, tables, calls
<1> QED BY <1>3, <1>4, <1>5, <1>6 DEF ForceStep

\* Every other step.
LEMMA OtherTypes ==
  ASSUME TypeOK,
         \/ \E m \in Modules : AddTimer(m) \/ TimersDone(m)
         \/ \E c \in RuntimeCalls : AddModuleRuntimeDependency(c[1], c[2], c[3])
         \/ FreeModules \/ Terminated \/ UNCHANGED vars
  PROVE  TypeOK'
<1>1. ASSUME NEW m \in Modules, AddTimer(m) \/ TimersDone(m) PROVE TypeOK'
  BY <1>1 DEF TypeOK, AddTimer, TimersDone, calls
<1>2. ASSUME NEW c \in RuntimeCalls,
             AddModuleRuntimeDependency(c[1], c[2], c[3])
      PROVE  TypeOK'
  <2>1. c[2] \in Modules /\ c[3] \in Modules
    BY ModulesAssumption
  <2>2. /\ rc' = [rc EXCEPT ![c[3]] = @ + 1]
        /\ dependencies' = [dependencies EXCEPT ![c[2]] = @ \cup {c[3]}]
        /\ rdeps' = [rdeps EXCEPT ![c[3]] = @ \cup {c[2]}]
    BY <1>2 DEF AddModuleRuntimeDependency, AddEdge
  <2>3. /\ rc' \in [Modules -> Nat]
        /\ dependencies' \in [Owners -> SUBSET Modules]
        /\ rdeps' \in [Modules -> SUBSET Owners]
    BY <2>1, <2>2 DEF TypeOK, Owners
  <2>4. UNCHANGED <<state, modules, loaded, handle, leaked, timers, loading, phase,
                    nextDep, forcing, unloading>>
    BY <1>2 DEF AddModuleRuntimeDependency, calls
  <2> QED BY <2>3, <2>4 DEF TypeOK
<1>3. ASSUME FreeModules PROVE TypeOK'
  <2>1. <<Core>> \in Seq(Owners)
    BY DEF Owners
  <2> QED BY <1>3, <2>1 DEF TypeOK, FreeModules, tables, calls
<1>4. ASSUME Terminated \/ UNCHANGED vars PROVE TypeOK'
  BY <1>4 DEF TypeOK, Terminated, vars, tables, calls
<1> QED BY <1>1, <1>2, <1>3, <1>4

\* Every step preserves the types.
LEMMA TypeStep ==
  ASSUME Inv, [Next]_vars
  PROVE  TypeOK'
BY RequestTypes, LoadTypes, InitSucceedsTypes, UnneedTypes, ForceTypes,
   OtherTypes DEF Inv, Next, LoadStep, InitReturns

-----------------------------------------------------------------------------
(* Facts about the dependency relation.                                    *)

\* The reverse dependencies of a module are finitely many.
LEMMA FiniteRdeps ==
  ASSUME TypeOK, NEW m \in Modules
  PROVE  IsFiniteSet(rdeps[m]) /\ Cardinality(rdeps[m]) \in Nat
<1>1. IsFiniteSet(Modules \cup {Core})
  BY ModulesAssumption, FS_AddElement
<1>2. rdeps[m] \subseteq Modules \cup {Core}
  BY DEF TypeOK, Owners
<1>3. IsFiniteSet(rdeps[m])
  BY <1>1, <1>2, FS_Subset
<1> QED BY <1>3, FS_CardinalityType

\* Removing edges, and adding edges from the core, makes no cycle.
LEMMA AcyclicFewer ==
  ASSUME Acyclic, \A m \in Modules : rdeps'[m] \subseteq rdeps[m] \cup {Core}
  PROVE  Acyclic'
<1> SUFFICES ASSUME NEW S \in SUBSET Modules, S # {}
             PROVE  \E m \in S : rdeps'[m] \cap S = {}
  BY DEF Acyclic
<1>1. PICK m \in S : rdeps[m] \cap S = {}
  BY DEF Acyclic
<1>2. rdeps'[m] \cap S = {}
  BY <1>1, ModulesAssumption
<1> QED BY <1>2

\* Adding edges from a module nobody depends on makes no cycle.
LEMMA AcyclicSource ==
  ASSUME Acyclic, NEW p \in Modules, rdeps'[p] = {},
         \A m \in Modules : rdeps'[m] \subseteq rdeps[m] \cup {p}
  PROVE  Acyclic'
<1> SUFFICES ASSUME NEW S \in SUBSET Modules, S # {}
             PROVE  \E m \in S : rdeps'[m] \cap S = {}
  BY DEF Acyclic
<1>1. CASE p \in S
  BY <1>1
<1>2. CASE p \notin S
  <2>1. PICK m \in S : rdeps[m] \cap S = {}
    BY DEF Acyclic
  <2>2. rdeps'[m] \cap S = {}
    BY <1>2, <2>1
  <2> QED BY <2>2
<1> QED BY <1>1, <1>2

\* Adding an edge from s to t makes no cycle unless t depends on s: a set
\* closed under dependencies that holds all t needs, but not s, splits every
\* set that contains both.
LEMMA AcyclicRuntime ==
  ASSUME TypeOK, EdgesAgree, Acyclic, NEW s \in Modules, NEW t \in Modules,
         s # t, ~DependsOn(t, s),
         rdeps' = [rdeps EXCEPT ![t] = @ \cup {s}]
  PROVE  Acyclic'
<1> SUFFICES ASSUME NEW S \in SUBSET Modules, S # {}
             PROVE  \E m \in S : rdeps'[m] \cap S = {}
  BY DEF Acyclic
<1>1. PICK C \in SUBSET Modules :
        /\ dependencies[t] \subseteq C
        /\ \A m \in C : dependencies[m] \subseteq C
        /\ s \notin C
  BY DEF DependsOn
<1>2. CASE s \in S
  <2> DEFINE R == S \ (C \cup {t})
  <2>1. R \in SUBSET Modules /\ s \in R
    BY <1>1, <1>2
  <2>2. PICK m \in R : rdeps[m] \cap R = {}
    BY <2>1 DEF Acyclic
  <2>3. rdeps'[m] = rdeps[m]
    BY <2>2 DEF TypeOK
  <2>4. ASSUME NEW x \in S, x \in rdeps[m] PROVE FALSE
    <3>1. m \in dependencies[x]
      BY <2>4 DEF EdgesAgree, Owners
    <3>2. x \notin C /\ x # t
      BY <1>1, <3>1
    <3> QED BY <2>2, <2>4, <3>2
  <2> QED BY <2>3, <2>4
<1>3. CASE s \notin S
  <2>1. PICK m \in S : rdeps[m] \cap S = {}
    BY DEF Acyclic
  <2>2. rdeps'[m] \subseteq rdeps[m] \cup {s}
    BY DEF TypeOK
  <2> QED BY <1>3, <2>1, <2>2
<1> QED BY <1>2, <1>3

\* One more dependent is one more in the count of the dependents.
LEMMA AddReference ==
  ASSUME TypeOK, EdgesAgree, NEW m \in Modules, NEW p \in Owners,
         p \notin rdeps[m], AddEdge(p, m)
  PROVE  /\ EdgesAgree'
         /\ Cardinality(rdeps'[m]) = Cardinality(rdeps[m]) + 1
         /\ rdeps'[m] = rdeps[m] \cup {p}
         /\ \A k \in Modules : k # m => rdeps'[k] = rdeps[k]
         /\ dependencies'[p] = dependencies[p] \cup {m}
         /\ \A q \in Owners : q # p => dependencies'[q] = dependencies[q]
<1>1. /\ rdeps'[m] = rdeps[m] \cup {p}
      /\ \A k \in Modules : k # m => rdeps'[k] = rdeps[k]
  BY DEF TypeOK, AddEdge
<1>2. /\ dependencies'[p] = dependencies[p] \cup {m}
      /\ \A q \in Owners : q # p => dependencies'[q] = dependencies[q]
  BY DEF TypeOK, AddEdge
<1>3. EdgesAgree'
  BY <1>1, <1>2 DEF EdgesAgree
<1>4. Cardinality(rdeps[m] \cup {p}) = Cardinality(rdeps[m]) + 1
  BY FiniteRdeps, FS_AddElement
<1> QED BY <1>1, <1>2, <1>3, <1>4

\* One dependent less is one less in the count of the dependents.
LEMMA DropReference ==
  ASSUME TypeOK, EdgesAgree, NEW m \in Modules, NEW p \in Owners,
         m \in dependencies[p], UnneedModule(m, p),
         dependencies' = [dependencies EXCEPT ![p] = @ \ {m}]
  PROVE  /\ EdgesAgree'
         /\ Cardinality(rdeps'[m]) = Cardinality(rdeps[m]) - 1
         /\ rdeps'[m] = rdeps[m] \ {p}
         /\ \A k \in Modules : k # m => rdeps'[k] = rdeps[k]
         /\ dependencies'[p] = dependencies[p] \ {m}
         /\ \A q \in Owners : q # p => dependencies'[q] = dependencies[q]
<1>1. /\ rdeps'[m] = rdeps[m] \ {p}
      /\ \A k \in Modules : k # m => rdeps'[k] = rdeps[k]
  BY DEF TypeOK, UnneedModule, Unreference, Unload, StillNeeded
<1>2. /\ dependencies'[p] = dependencies[p] \ {m}
      /\ \A q \in Owners : q # p => dependencies'[q] = dependencies[q]
  BY DEF TypeOK
<1>3. EdgesAgree'
  BY <1>1, <1>2 DEF EdgesAgree
<1>4. Cardinality(rdeps[m] \ {p}) = Cardinality(rdeps[m]) - 1
  <2>1. p \in rdeps[m]
    BY DEF EdgesAgree
  <2> QED BY <2>1, FiniteRdeps, FS_RemoveElement
<1> QED BY <1>1, <1>2, <1>3, <1>4

-----------------------------------------------------------------------------
(* Steps that leave the dependency relation and the stacks alone.          *)

\* Such a step preserves the invariant.
LEMMA QuietStep ==
  ASSUME Inv, TypeOK',
         UNCHANGED <<modules, loaded, rc, dependencies, rdeps, handle,
                     loading, phase, nextDep, unloading, state>>,
         forcing' # <<>> => loading = <<>> /\ state = "running",
         \A m \in timers' : m \in timers \/ m \in loaded \/ phase[m] = "init"
  PROVE  Inv'
<1>1. LoadingStack' /\ EdgesAgree' /\ RefCounts' /\ NoDangling' /\ UnderWay'
  BY DEF Inv, LoadingStack, EdgesAgree, RefCounts, NoDangling, UnderWay
<1>2. Table'
  BY DEF Inv, Table
<1>3. UnloadingStack'
  BY DEF Inv, UnloadingStack
<1>4. Acyclic'
  BY DEF Inv, Acyclic
<1> QED BY <1>1, <1>2, <1>3, <1>4 DEF Inv

\* The actions of this kind.
LEMMA QuietSteps ==
  ASSUME Inv, TypeOK',
         \/ \E m \in Modules : RequestFails(m) \/ AddTimer(m) \/ TimersDone(m)
         \/ \E m \in Modules : ForceUnloadModule(m) \/ ForceNext(m)
         \/ ForceDone \/ Terminated \/ UNCHANGED vars
  PROVE  Inv'
<1>0. forcing # <<>> => loading = <<>> /\ state = "running"
  BY DEF Inv, UnloadingStack, TypeOK
<1>1. ASSUME NEW m \in Modules, RequestFails(m) PROVE Inv'
  BY <1>0, <1>1, QuietStep DEF RequestFails, calls
<1>2. ASSUME NEW m \in Modules, AddTimer(m) PROVE Inv'
  BY <1>0, <1>2, QuietStep DEF AddTimer, InInit, calls
<1>3. ASSUME NEW m \in Modules, TimersDone(m) PROVE Inv'
  BY <1>0, <1>3, QuietStep DEF TimersDone, calls
<1>4. ASSUME NEW m \in Modules, ForceUnloadModule(m) PROVE Inv'
  BY <1>4, QuietStep DEF ForceUnloadModule, Idle, tables, calls
<1>5. ASSUME NEW m \in Modules, ForceNext(m) PROVE Inv'
  BY <1>0, <1>5, QuietStep DEF ForceNext, ForcingTop, tables, calls
<1>6. ASSUME ForceDone PROVE Inv'
  BY <1>0, <1>6, QuietStep DEF ForceDone, ForcingTop, tables, calls
<1>7. ASSUME Terminated \/ UNCHANGED vars PROVE Inv'
  BY <1>0, <1>7, QuietStep DEF Terminated, vars, tables, calls
<1> QED BY <1>1, <1>2, <1>3, <1>4, <1>5, <1>6, <1>7

-----------------------------------------------------------------------------
(* The innermost needModule call changes its phase.                        *)

\* The innermost needModule call is the last on the stack.
LEMMA TopFacts ==
  ASSUME TypeOK, LoadingStack, NEW p \in Modules, LoadingTop(p)
  PROVE  /\ Len(loading) \in Nat \ {0}
         /\ p = loading[Len(loading)]
         /\ phase[p] # "none"
<1>1. loading # <<>> /\ loading \in Seq(Modules) /\ p = Top(loading)
  BY DEF LoadingTop, TypeOK
<1>2. Len(loading) \in Nat \ {0}
  BY <1>1, PopFacts
<1> QED BY <1>1, <1>2 DEF Top, LoadingStack

\* The invariant survives a change of the innermost call's phase.
LEMMA PhaseChange ==
  ASSUME TypeOK, LoadingStack, NEW p \in Modules, LoadingTop(p),
         NEW new \in {"init", "fail"}, phase' = [phase EXCEPT ![p] = new],
         UNCHANGED <<loading, nextDep>>
  PROVE  LoadingStack'
<1>1. /\ Len(loading) \in Nat \ {0}
      /\ p = loading[Len(loading)]
      /\ phase[p] # "none"
  BY TopFacts
<1>2. \A m \in Modules : phase'[m] = IF m = p THEN new ELSE phase[m]
  BY DEF TypeOK
<1>3. \A m \in Modules :
        phase'[m] # "none" <=> \E i \in 1..Len(loading) : loading[i] = m
  BY <1>1, <1>2 DEF LoadingStack
<1>4. ASSUME NEW i \in 1..Len(loading), i < Len(loading)
      PROVE  /\ loading[i] \in Modules /\ loading[i] # p
             /\ phase'[loading[i]] = phase[loading[i]]
  <2>1. loading[i] \in Modules
    BY DEF TypeOK
  <2>2. loading[i] # p
    BY <1>1, <1>4 DEF LoadingStack
  <2> QED BY <1>2, <2>1, <2>2
<1> QED BY <1>3, <1>4 DEF LoadingStack

\* The actions of this kind.
LEMMA PhaseSteps ==
  ASSUME Inv, TypeOK', NEW p \in Modules,
         NeedFails(p) \/ StartInit(p) \/ StartInitFails(p) \/ InitFails(p)
  PROVE  Inv'
<1>1. PICK new \in {"init", "fail"} :
        /\ phase' = [phase EXCEPT ![p] = new]
        /\ new = "init" => /\ phase[p] = "deps"
                           /\ nextDep[p] \notin DOMAIN Deps[p]
                           /\ UNCHANGED handle
  BY DEF NeedFails, StartInit, StartInitFails, InitFails, tables
<1>2. /\ LoadingTop(p)
      /\ UNCHANGED <<modules, loaded, rc, dependencies, rdeps, timers,
                     loading, nextDep, forcing, unloading, state>>
      /\ handle' \in {handle, handle \ {p}}
      /\ phase[p] = "init" => p \notin timers
  BY DEF NeedFails, NeedsNext, StartInit, StartInitFails, InitFails, InInit,
         tables
<1>3. phase[p] # "none"
  BY <1>2, TopFacts DEF Inv
<1>4. \A m \in Modules : phase'[m] = IF m = p THEN new ELSE phase[m]
  BY <1>1 DEF Inv, TypeOK
<1>5. LoadingStack'
  BY <1>1, <1>2, PhaseChange DEF Inv
<1>6. Table'
  BY <1>1, <1>2, <1>3, <1>4 DEF Inv, Table, TypeOK
<1>7. RefCounts'
  BY <1>2, <1>3, <1>4 DEF Inv, RefCounts
<1>8. EdgesAgree' /\ NoDangling'
  BY <1>2 DEF Inv, EdgesAgree, NoDangling
<1>9. UnderWay'
  <2>1. \A m \in Modules : Core \in rdeps'[m] => m \in loaded'
    BY <1>2 DEF Inv, UnderWay
  <2>2. ASSUME NEW m \in Modules, phase'[m] = "deps" PROVE phase[m] = "deps"
    BY <1>4, <2>2
  <2>3. ASSUME NEW m \in Modules, phase'[m] = "init" \/ m \in loaded'
        PROVE  StaticDeps(m) \subseteq dependencies[m] \cap loaded
    <3>1. CASE phase[m] = "init" \/ m \in loaded
      BY <3>1 DEF Inv, UnderWay
    <3>2. CASE ~(phase[m] = "init" \/ m \in loaded)
      <4>1. m = p /\ phase[p] = "deps" /\ nextDep[p] \notin DOMAIN Deps[p]
        BY <1>1, <1>2, <1>4, <2>3, <3>2
      <4>2. Deps[p] \in Seq(ModuleDependency) /\ nextDep[p] \in Nat \ {0}
        BY ModulesAssumption DEF Inv, TypeOK
      <4>3. \A i \in DOMAIN Deps[p] : i < nextDep[p]
        BY <4>1, <4>2
      <4>4. \A i \in DOMAIN Deps[p] :
              Deps[p][i].name \in dependencies[p] \cap loaded
        BY <4>1, <4>3 DEF Inv, UnderWay
      <4> QED BY <4>1, <4>4 DEF StaticDeps
    <3> QED BY <3>1, <3>2
  <2> QED BY <1>2, <2>1, <2>2, <2>3 DEF Inv, UnderWay
<1>10. UnloadingStack'
  BY <1>2 DEF Inv, UnloadingStack
<1>11. Acyclic'
  BY <1>2 DEF Inv, Acyclic
<1> QED BY <1>5, <1>6, <1>7, <1>8, <1>9, <1>10, <1>11 DEF Inv

-----------------------------------------------------------------------------
(* A module that is loaded gets one more dependent.                        *)

\* The reference, the two edges and the acyclicity, for any dependent that
\* is still loading or is the core.
LEMMA TakeReferenceEffect ==
  ASSUME Inv, TypeOK', NEW m \in Modules, NEW p \in Owners,
         TakeReference(m, p), m \notin dependencies[p],
         p = Core \/ (p \in Modules /\ phase[p] = "deps"),
         UNCHANGED <<phase, loading, forcing, unloading, state>>,
         state = "running"
  PROVE  /\ Table' /\ EdgesAgree' /\ RefCounts' /\ NoDangling'
         /\ UnloadingStack' /\ Acyclic'
         /\ m \in loaded /\ phase[m] = "none"
         /\ rdeps'[m] = rdeps[m] \cup {p}
         /\ \A k \in Modules : k # m => rdeps'[k] = rdeps[k]
         /\ dependencies'[p] = dependencies[p] \cup {m}
         /\ \A q \in Owners : q # p => dependencies'[q] = dependencies[q]
<1>1. m \in loaded /\ m \in modules /\ phase[m] = "none"
  BY DEF TakeReference, Inv, Table, TypeOK
<1>2. p \notin rdeps[m]
  BY DEF Inv, EdgesAgree
<1>3. /\ EdgesAgree'
      /\ Cardinality(rdeps'[m]) = Cardinality(rdeps[m]) + 1
      /\ rdeps'[m] = rdeps[m] \cup {p}
      /\ \A k \in Modules : k # m => rdeps'[k] = rdeps[k]
      /\ dependencies'[p] = dependencies[p] \cup {m}
      /\ \A q \in Owners : q # p => dependencies'[q] = dependencies[q]
  BY <1>2, AddReference DEF TakeReference, Inv
<1>4. \A k \in Modules : rc'[k] = IF k = m THEN rc[k] + 1 ELSE rc[k]
  BY DEF TakeReference, Inv, TypeOK
<1>5. UNCHANGED <<modules, loaded, handle, timers>>
  BY DEF TakeReference
<1>6. Table'
  <2>1. ASSUME NEW k \in Modules PROVE k \in modules <=> rc'[k] > 0
    <3>1. rc[k] \in Nat /\ (k \in modules <=> rc[k] > 0)
      BY DEF Inv, Table, TypeOK
    <3> QED BY <1>1, <1>4, <3>1
  <2> QED BY <1>5, <2>1 DEF Inv, Table
<1>7. RefCounts'
  <2>1. ASSUME NEW k \in Modules
        PROVE  rc'[k] = Cardinality(rdeps'[k])
                        + (IF phase[k] = "none" THEN 0 ELSE 1)
    <3>1. Cardinality(rdeps[k]) \in Nat
      BY FiniteRdeps DEF Inv
    <3>2. rc[k] = Cardinality(rdeps[k])
                  + (IF phase[k] = "none" THEN 0 ELSE 1)
      BY DEF Inv, RefCounts
    <3>3. CASE k = m
      <4>1. rc[m] = Cardinality(rdeps[m]) /\ rc'[m] = rc[m] + 1
        BY <1>1, <1>4, <3>1, <3>2, <3>3
      <4>2. Cardinality(rdeps[m]) \in Nat
        BY <3>1, <3>3
      <4>3. rc'[m] = Cardinality(rdeps'[m])
        BY <1>3, <4>1
      <4>4. rc'[m] = Cardinality(rdeps'[m]) + 0
        BY <1>3, <4>2, <4>3
      <4> QED BY <1>1, <3>3, <4>4
    <3>4. CASE k # m
      BY <1>3, <1>4, <3>2, <3>4
    <3> QED BY <3>3, <3>4
  <2> QED BY <2>1 DEF RefCounts
<1>8. NoDangling'
  BY <1>1, <1>3, <1>5 DEF Inv, NoDangling
<1>9. UnloadingStack'
  <2>1. p = Core \/ p \in modules
    BY DEF Inv, Table
  <2>2. ASSUME NEW q \in Modules, dependencies'[q] # {}
        PROVE  q \in modules \/ \E i \in 1..Len(unloading) : unloading[i] = q
    <3>1. CASE q = p
      BY <2>1, <3>1, ModulesAssumption
    <3>2. CASE q # p
      BY <1>3, <2>2, <3>2 DEF Inv, UnloadingStack, Owners
    <3> QED BY <3>1, <3>2
  <2> QED BY <1>5, <2>2 DEF Inv, UnloadingStack
<1>10. Acyclic'
  <2>1. CASE p = Core
    BY <1>3, <2>1, AcyclicFewer DEF Inv
  <2>2. CASE p \in Modules /\ phase[p] = "deps"
    <3>1. rdeps[p] = {} /\ p # m
      BY <1>1, <2>2 DEF Inv, UnderWay
    <3> QED BY <1>3, <2>2, <3>1, AcyclicSource DEF Inv
  <2> QED BY <2>1, <2>2
<1> QED BY <1>1, <1>3, <1>6, <1>7, <1>8, <1>9, <1>10

\* requestModule finds the module in the table.
LEMMA RequestLoadedStep ==
  ASSUME Inv, TypeOK', NEW m \in Modules, RequestLoaded(m)
  PROVE  Inv'
<1>1. /\ TakeReference(m, Core) /\ m \notin dependencies[Core]
      /\ UNCHANGED <<loading, phase, nextDep, forcing, unloading, state>>
      /\ state = "running" /\ Core \in Owners
  BY DEF RequestLoaded, MayRequest, Idle, InInit, LoadingTop, calls, Owners
<1>2. /\ Table' /\ EdgesAgree' /\ RefCounts' /\ NoDangling'
      /\ UnloadingStack' /\ Acyclic'
      /\ m \in loaded /\ phase[m] = "none"
      /\ rdeps'[m] = rdeps[m] \cup {Core}
      /\ \A k \in Modules : k # m => rdeps'[k] = rdeps[k]
      /\ \A q \in Owners : q # Core => dependencies'[q] = dependencies[q]
  BY <1>1, TakeReferenceEffect
<1>3. LoadingStack'
  BY <1>1 DEF Inv, LoadingStack
<1>4. UnderWay'
  <2>1. \A k \in Modules : dependencies'[k] = dependencies[k]
    BY <1>2, ModulesAssumption DEF Owners
  <2>2. UNCHANGED loaded
    BY <1>1 DEF TakeReference
  <2> QED BY <1>1, <1>2, <2>1, <2>2 DEF Inv, UnderWay
<1> QED BY <1>2, <1>3, <1>4 DEF Inv

\* needModule finds a dependency in the table.
LEMMA NeedLoadedStep ==
  ASSUME Inv, TypeOK', NEW p \in Modules, NeedLoaded(p)
  PROVE  Inv'
<1> DEFINE m == Deps[p][nextDep[p]].name
<1>1. /\ LoadingTop(p) /\ phase[p] = "deps" /\ nextDep[p] \in DOMAIN Deps[p]
      /\ nextDep' = [nextDep EXCEPT ![p] = @ + 1]
      /\ UNCHANGED <<loading, phase, forcing, unloading, state>>
      /\ state = "running" /\ p \in Owners
  BY DEF NeedLoaded, NeedsNext, LoadingTop, Owners
<1>2. m \in Modules /\ TakeReference(m, p)
  BY <1>1, NeededFacts DEF NeedLoaded
<1>3. Deps[p] \in Seq(ModuleDependency) /\ nextDep[p] \in Nat \ {0}
  BY ModulesAssumption DEF Inv, TypeOK
<1>4. m \notin dependencies[p]
  BY <1>1, <1>3 DEF Inv, UnderWay
<1>5. /\ Table' /\ EdgesAgree' /\ RefCounts' /\ NoDangling'
      /\ UnloadingStack' /\ Acyclic'
      /\ m \in loaded /\ phase[m] = "none"
      /\ rdeps'[m] = rdeps[m] \cup {p}
      /\ \A k \in Modules : k # m => rdeps'[k] = rdeps[k]
      /\ dependencies'[p] = dependencies[p] \cup {m}
      /\ \A q \in Owners : q # p => dependencies'[q] = dependencies[q]
  <2> HIDE DEF m
  <2> QED BY <1>1, <1>2, <1>4, TakeReferenceEffect
<1>6. \A k \in Modules : nextDep'[k] = IF k = p THEN nextDep[k] + 1
                                                ELSE nextDep[k]
  BY <1>1 DEF Inv, TypeOK
<1>7. LoadingStack'
  <2>1. /\ Len(loading) \in Nat \ {0}
        /\ p = loading[Len(loading)]
    BY <1>1, TopFacts DEF Inv
  <2>2. ASSUME NEW i \in 1..Len(loading), i < Len(loading)
        PROVE  nextDep'[loading[i]] = nextDep[loading[i]]
    <3>1. loading[i] \in Modules
      BY DEF Inv, TypeOK
    <3>2. loading[i] # p
      BY <2>1, <2>2 DEF Inv, LoadingStack
    <3> QED BY <1>6, <3>1, <3>2
  <2> QED BY <1>1, <2>2 DEF Inv, LoadingStack
<1>8. UnderWay'
  <2>1. UNCHANGED loaded
    BY <1>2 DEF TakeReference
  <2>2. \A k \in Modules : Core \in rdeps'[k] => k \in loaded'
    BY <1>5, <2>1, ModulesAssumption DEF Inv, UnderWay
  <2>3. ASSUME NEW k \in Modules, phase'[k] = "deps"
        PROVE  /\ rdeps'[k] = {}
               /\ \A i \in DOMAIN Deps[k] :
                    IF i < nextDep'[k]
                      THEN Deps[k][i].name \in dependencies'[k] \cap loaded'
                      ELSE Deps[k][i].name \notin dependencies'[k]
    <3>1. k # m /\ rdeps'[k] = {}
      BY <1>1, <1>5, <2>3 DEF Inv, UnderWay
    <3>2. CASE k # p
      BY <1>1, <1>5, <1>6, <2>1, <2>3, <3>1, <3>2 DEF Inv, UnderWay, Owners
    <3>3. CASE k = p
      <4>1. ASSUME NEW i \in DOMAIN Deps[p]
            PROVE  IF i < nextDep'[p]
                     THEN Deps[p][i].name \in dependencies'[p] \cap loaded'
                     ELSE Deps[p][i].name \notin dependencies'[p]
        <5>1. i \in Nat /\ nextDep'[p] = nextDep[p] + 1
          BY <1>3, <1>6
        <5>2. CASE i < nextDep[p]
          <6>1. Deps[p][i].name \in dependencies[p] \cap loaded
            BY <1>1, <5>2 DEF Inv, UnderWay
          <6>2. i < nextDep'[p]
            BY <1>3, <5>1, <5>2
          <6> QED BY <1>5, <2>1, <6>1, <6>2
        <5>3. CASE i = nextDep[p]
          BY <1>3, <1>5, <2>1, <5>1, <5>3
        <5>4. CASE i > nextDep[p]
          <6>1. Deps[p][i].name \notin dependencies[p]
            BY <1>1, <1>3, <5>1, <5>4 DEF Inv, UnderWay
          <6>2. Deps[p][i].name # m
            BY <1>1, <1>3, <5>1, <5>4, CallsAssumption
          <6> QED BY <1>3, <1>5, <5>1, <5>4, <6>1, <6>2
        <5> QED BY <1>3, <5>1, <5>2, <5>3, <5>4
      <4> QED BY <3>1, <3>3, <4>1
    <3> QED BY <3>2, <3>3
  <2>4. ASSUME NEW k \in Modules, phase'[k] = "init" \/ k \in loaded'
        PROVE  StaticDeps(k) \subseteq dependencies'[k] \cap loaded'
    BY <1>1, <1>5, <2>1, <2>4 DEF Inv, UnderWay, Owners
  <2> QED BY <2>2, <2>3, <2>4 DEF UnderWay
<1> QED BY <1>5, <1>7, <1>8 DEF Inv

-----------------------------------------------------------------------------
(* The two cases of the reference count.                                   *)

\* The invariant, case by case.
LEMMA Counts ==
  ASSUME TypeOK, RefCounts, NEW m \in Modules
  PROVE  /\ rc[m] \in Nat /\ Cardinality(rdeps[m]) \in Nat
         /\ phase[m] = "none" => rc[m] = Cardinality(rdeps[m])
         /\ phase[m] # "none" => rc[m] = Cardinality(rdeps[m]) + 1
<1>1. rc[m] \in Nat /\ Cardinality(rdeps[m]) \in Nat
  BY FiniteRdeps DEF TypeOK
<1>2. rc[m] = Cardinality(rdeps[m]) + (IF phase[m] = "none" THEN 0 ELSE 1)
  BY DEF RefCounts
<1> QED BY <1>1, <1>2

\* The two cases give back the invariant in the next state.
LEMMA CountsAfter ==
  ASSUME TypeOK',
         \A m \in Modules :
           /\ phase'[m] = "none" => rc'[m] = Cardinality(rdeps'[m])
           /\ phase'[m] # "none" => rc'[m] = Cardinality(rdeps'[m]) + 1
  PROVE  RefCounts'
<1>1. ASSUME NEW m \in Modules
      PROVE  rc'[m] = Cardinality(rdeps'[m])
                      + (IF phase'[m] = "none" THEN 0 ELSE 1)
  <2>1. rc'[m] \in Nat
    BY DEF TypeOK
  <2>2. CASE phase'[m] = "none"
    <3>1. rc'[m] = Cardinality(rdeps'[m]) /\ rc'[m] + 0 = rc'[m]
      BY <2>1, <2>2
    <3> QED BY <2>2, <3>1
  <2>3. CASE phase'[m] # "none"
    BY <2>3
  <2> QED BY <2>2, <2>3
<1> QED BY <1>1 DEF RefCounts

-----------------------------------------------------------------------------
(* addModuleRuntimeDependency.                                             *)

\* The check for a circular dependency keeps the relation acyclic.
LEMMA RuntimeStep ==
  ASSUME Inv, TypeOK', NEW c \in RuntimeCalls,
         AddModuleRuntimeDependency(c[1], c[2], c[3])
  PROVE  Inv'
<1>1. PICK caller \in Owners, s \in Modules, t \in Modules :
        c = <<caller, s, t>> /\ AddModuleRuntimeDependency(caller, s, t)
  BY ModulesAssumption DEF Owners
<1>2. /\ s # t
      /\ caller # Core => caller = t /\ t \notin StaticDeps(s)
  BY <1>1, CallsAssumption
<1>3. /\ s \in modules /\ t \in modules /\ s \in Owners
      /\ ~DependsOn(s, t) /\ ~DependsOn(t, s)
      /\ AddEdge(s, t)
      /\ rc' = [rc EXCEPT ![t] = @ + 1]
      /\ UNCHANGED <<modules, loaded, handle, timers, loading, phase, nextDep,
                     forcing, unloading, state>>
      /\ state = "running"
      /\ IF caller = Core THEN Idle ELSE InInit(caller)
  BY <1>1 DEF AddModuleRuntimeDependency, calls, Idle, InInit, LoadingTop,
              Owners
<1>4. t \notin dependencies[s]
  BY <1>3 DEF DependsOn
<1>5. s \notin rdeps[t]
  BY <1>3, <1>4 DEF Inv, EdgesAgree
<1>6. /\ EdgesAgree'
      /\ Cardinality(rdeps'[t]) = Cardinality(rdeps[t]) + 1
      /\ rdeps'[t] = rdeps[t] \cup {s}
      /\ \A k \in Modules : k # t => rdeps'[k] = rdeps[k]
      /\ dependencies'[s] = dependencies[s] \cup {t}
      /\ \A q \in Owners : q # s => dependencies'[q] = dependencies[q]
  BY <1>3, <1>5, AddReference DEF Inv
<1>7. \A k \in Modules : rc'[k] = IF k = t THEN rc[k] + 1 ELSE rc[k]
  BY <1>3 DEF Inv, TypeOK
<1>8. phase[t] # "deps"
  \* t is idle, or the module whose initializer makes the call
  <2>1. CASE caller = Core
    <3>1. loading = <<>>
      BY <1>3, <2>1 DEF Idle
    <3> QED BY <3>1 DEF Inv, LoadingStack
  <2>2. CASE caller # Core
    BY <1>2, <1>3, <2>2 DEF InInit
  <2> QED BY <2>1, <2>2
<1>9. LoadingStack'
  BY <1>3 DEF Inv, LoadingStack
<1>10. Table'
  <2>1. ASSUME NEW k \in Modules PROVE k \in modules <=> rc'[k] > 0
    <3>1. rc[k] \in Nat /\ (k \in modules <=> rc[k] > 0)
      BY DEF Inv, Table, TypeOK
    <3> QED BY <1>3, <1>7, <3>1
  <2> QED BY <1>3, <2>1 DEF Inv, Table
<1>11. RefCounts'
  <2>1. ASSUME NEW k \in Modules
        PROVE  /\ phase[k] = "none" => rc'[k] = Cardinality(rdeps'[k])
               /\ phase[k] # "none" => rc'[k] = Cardinality(rdeps'[k]) + 1
    <3>1. /\ rc[k] \in Nat /\ Cardinality(rdeps[k]) \in Nat
          /\ phase[k] = "none" => rc[k] = Cardinality(rdeps[k])
          /\ phase[k] # "none" => rc[k] = Cardinality(rdeps[k]) + 1
      BY Counts DEF Inv
    <3>2. CASE k = t
      BY <1>6, <1>7, <3>1, <3>2
    <3>3. CASE k # t
      BY <1>6, <1>7, <3>1, <3>3
    <3> QED BY <3>2, <3>3
  <2> QED BY <1>3, <2>1, CountsAfter
<1>12. NoDangling'
  BY <1>3, <1>6 DEF Inv, NoDangling
<1>13. UnderWay'
  <2>1. \A k \in Modules : Core \in rdeps'[k] => k \in loaded'
    <3>1. s # Core
      BY ModulesAssumption
    <3>2. \A k \in Modules : Core \in rdeps'[k] => Core \in rdeps[k]
      BY <1>6, <3>1
    <3> QED BY <1>3, <3>2 DEF Inv, UnderWay
  <2>2. ASSUME NEW k \in Modules, phase'[k] = "deps"
        PROVE  /\ rdeps'[k] = {}
               /\ \A i \in DOMAIN Deps[k] :
                    IF i < nextDep'[k]
                      THEN Deps[k][i].name \in dependencies'[k] \cap loaded'
                      ELSE Deps[k][i].name \notin dependencies'[k]
    <3>1. rdeps'[k] = {} /\ phase[k] = "deps"
      BY <1>3, <1>6, <1>8, <2>2 DEF Inv, UnderWay
    <3>2. CASE k # s
      BY <1>3, <1>6, <3>1, <3>2 DEF Inv, UnderWay, Owners
    <3>3. CASE k = s
      <4>1. caller # Core
        <5>1. SUFFICES ASSUME caller = Core PROVE FALSE
          OBVIOUS
        <5>2. loading = <<>>
          BY <1>3, <5>1 DEF Idle
        <5> QED BY <3>1, <5>2 DEF Inv, LoadingStack
      <4>2. \A i \in DOMAIN Deps[s] : Deps[s][i].name # t
        BY <1>2, <4>1 DEF StaticDeps
      <4>3. \A i \in DOMAIN Deps[s] :
              IF i < nextDep[s]
                THEN Deps[s][i].name \in dependencies[s] \cap loaded
                ELSE Deps[s][i].name \notin dependencies[s]
        BY <3>1, <3>3 DEF Inv, UnderWay
      <4> QED BY <1>3, <1>6, <3>1, <3>3, <4>2, <4>3
    <3> QED BY <3>2, <3>3
  <2>3. ASSUME NEW k \in Modules, phase'[k] = "init" \/ k \in loaded'
        PROVE  StaticDeps(k) \subseteq dependencies'[k] \cap loaded'
    <3>1. StaticDeps(k) \subseteq dependencies[k] \cap loaded
      BY <1>3, <2>3 DEF Inv, UnderWay
    <3>2. dependencies[k] \subseteq dependencies'[k]
      BY <1>6 DEF Owners
    <3> QED BY <1>3, <3>1, <3>2
  <2> QED BY <2>1, <2>2, <2>3 DEF UnderWay
<1>14. UnloadingStack'
  <2>1. ASSUME NEW q \in Modules, dependencies'[q] # {}
        PROVE  q \in modules \/ \E i \in 1..Len(unloading) : unloading[i] = q
    <3>1. CASE q = s
      BY <1>3, <3>1
    <3>2. CASE q # s
      BY <1>6, <2>1, <3>2 DEF Inv, UnloadingStack, Owners
    <3> QED BY <3>1, <3>2
  <2> QED BY <1>3, <2>1 DEF Inv, UnloadingStack
<1>15. Acyclic'
  BY <1>2, <1>3, AcyclicRuntime DEF Inv, AddEdge
<1> QED BY <1>6, <1>9, <1>10, <1>11, <1>12, <1>13, <1>14, <1>15 DEF Inv

-----------------------------------------------------------------------------
(* A needModule call for an absent module begins.                          *)

\* The new module has the one reference of the call that loads it.
LEMMA CreateStep ==
  ASSUME Inv, TypeOK', NEW m \in Modules, CreateModule(m),
         state = "running", forcing = <<>>, unloading = <<>>,
         \/ loading = <<>>
         \/ \E p \in Modules : InInit(p)
         \/ \E p \in Modules : /\ LoadingTop(p) /\ phase[p] = "deps"
                               /\ nextDep[p] \in DOMAIN Deps[p]
                               /\ m = Deps[p][nextDep[p]].name
  PROVE  Inv'
<1>1. /\ loading \in Seq(Modules) /\ Len(loading) \in Nat
      /\ loading' \in Seq(Modules)
      /\ Len(loading') = Len(loading) + 1
      /\ \A i \in 1..Len(loading) : loading'[i] = loading[i]
      /\ loading'[Len(loading) + 1] = m
  BY PushFacts DEF CreateModule, Inv, TypeOK
<1>2. /\ UNCHANGED <<loaded, dependencies, rdeps, timers, forcing, unloading,
                     state>>
      /\ m \notin modules
      /\ modules' = modules \cup {m}
      /\ handle' = handle \cup {m}
  BY DEF CreateModule
<1>3. /\ \A k \in Modules : rc'[k] = IF k = m THEN 1 ELSE rc[k]
      /\ \A k \in Modules : phase'[k] = IF k = m THEN "deps" ELSE phase[k]
      /\ \A k \in Modules : nextDep'[k] = IF k = m THEN 1 ELSE nextDep[k]
  BY DEF CreateModule, Inv, TypeOK
<1>4. phase[m] = "none" /\ rdeps[m] = {} /\ m \notin loaded
  <2>1. phase[m] = "none" /\ m \notin loaded
    BY <1>2 DEF Inv, Table
  <2>2. \A p \in Owners : m \notin dependencies[p]
    BY <1>2 DEF Inv, NoDangling
  <2> QED BY <2>1, <2>2 DEF Inv, EdgesAgree, TypeOK
<1>5. dependencies[m] = {}
  <2>1. Len(unloading) = 0
    BY EmptySeq
  <2> QED BY <1>2, <2>1 DEF Inv, UnloadingStack
<1>6. LoadingStack'
  <2>1. \A i \in 1..Len(loading) : loading[i] \in Modules /\ loading[i] # m
    BY <1>1, <1>4 DEF Inv, LoadingStack
  <2>2. ASSUME NEW k \in Modules
        PROVE  phase'[k] # "none"
                 <=> \E i \in 1..Len(loading') : loading'[i] = k
    <3>1. CASE k = m
      BY <1>1, <1>3, <3>1
    <3>2. CASE k # m
      BY <1>1, <1>3, <3>2 DEF Inv, LoadingStack
    <3> QED BY <3>1, <3>2
  <2>3. ASSUME NEW i \in 1..Len(loading'), NEW j \in 1..Len(loading'),
               loading'[i] = loading'[j]
        PROVE  i = j
    BY <1>1, <2>1, <2>3 DEF Inv, LoadingStack
  <2>4. ASSUME NEW i \in 1..Len(loading'), i < Len(loading')
        PROVE  LET p == loading'[i]
               IN /\ phase'[p] \in {"deps", "init"}
                  /\ phase'[p] = "deps" =>
                       /\ nextDep'[p] \in DOMAIN Deps[p]
                       /\ loading'[i + 1] = Deps[p][nextDep'[p]].name
    <3> DEFINE p == loading[i]
    <3>1. /\ i \in 1..Len(loading) /\ loading'[i] = p
          /\ p \in Modules /\ p # m
      BY <1>1, <2>1, <2>4
    <3>2. phase'[p] = phase[p] /\ nextDep'[p] = nextDep[p]
      BY <1>3, <3>1
    <3>3. CASE i < Len(loading)
      <4>1. loading'[i + 1] = loading[i + 1]
        BY <1>1, <3>1, <3>3
      <4>2. /\ phase[p] \in {"deps", "init"}
            /\ phase[p] = "deps" => /\ nextDep[p] \in DOMAIN Deps[p]
                                    /\ loading[i + 1] = Deps[p][nextDep[p]].name
        BY <3>1, <3>3 DEF Inv, LoadingStack
      <4> QED BY <3>1, <3>2, <4>1, <4>2
    <3>4. CASE ~(i < Len(loading))
      <4>1. i = Len(loading) /\ loading'[i + 1] = m /\ loading # <<>>
        BY <1>1, <3>1, <3>4, EmptySeq
      <4>2. Top(loading) = p
        BY <4>1 DEF Top
      <4>3. \/ phase[p] = "init"
            \/ /\ phase[p] = "deps" /\ nextDep[p] \in DOMAIN Deps[p]
               /\ m = Deps[p][nextDep[p]].name
        BY <4>1, <4>2 DEF InInit, LoadingTop
      <4> QED BY <3>1, <3>2, <4>1, <4>3
    <3> QED BY <3>3, <3>4
  <2> QED BY <2>2, <2>3, <2>4 DEF LoadingStack
<1>7. Table'
  <2>1. ASSUME NEW k \in Modules PROVE k \in modules' <=> rc'[k] > 0
    <3>1. k \in modules <=> rc[k] > 0
      BY DEF Inv, Table
    <3> QED BY <1>2, <1>3, <3>1
  <2>2. \A k \in timers' : k \in loaded' \/ phase'[k] = "init"
    BY <1>2, <1>3, <1>4 DEF Inv, Table, TypeOK
  <2>3. \A k \in Modules : phase'[k] # "none" => k \in modules' \ loaded'
    BY <1>2, <1>3, <1>4 DEF Inv, Table
  <2>4. \A k \in Modules : phase'[k] \in {"deps", "init"} => k \in handle'
    BY <1>2, <1>3 DEF Inv, Table
  <2> QED BY <1>2, <2>1, <2>2, <2>3, <2>4 DEF Inv, Table
<1>8. EdgesAgree'
  BY <1>2 DEF Inv, EdgesAgree
<1>9. RefCounts'
  <2>1. ASSUME NEW k \in Modules
        PROVE  /\ phase'[k] = "none" => rc'[k] = Cardinality(rdeps'[k])
               /\ phase'[k] # "none" => rc'[k] = Cardinality(rdeps'[k]) + 1
    <3>1. CASE k = m
      <4>1. Cardinality(rdeps'[m]) = 0 /\ rc'[m] = 1 /\ phase'[m] = "deps"
        BY <1>2, <1>3, <1>4, FS_EmptySet
      <4> QED BY <3>1, <4>1
    <3>2. CASE k # m
      BY <1>2, <1>3, <3>2, Counts DEF Inv
    <3> QED BY <3>1, <3>2
  <2> QED BY <2>1, CountsAfter
<1>10. NoDangling'
  BY <1>2 DEF Inv, NoDangling
<1>11. UnderWay'
  <2>1. \A k \in Modules : Core \in rdeps'[k] => k \in loaded'
    BY <1>2 DEF Inv, UnderWay
  <2>2. ASSUME NEW k \in Modules, phase'[k] = "deps"
        PROVE  /\ rdeps'[k] = {}
               /\ \A i \in DOMAIN Deps[k] :
                    IF i < nextDep'[k]
                      THEN Deps[k][i].name \in dependencies'[k] \cap loaded'
                      ELSE Deps[k][i].name \notin dependencies'[k]
    <3>1. CASE k # m
      BY <1>2, <1>3, <2>2, <3>1 DEF Inv, UnderWay
    <3>2. CASE k = m
      <4>1. Deps[m] \in Seq(ModuleDependency)
        BY ModulesAssumption
      <4>2. \A i \in DOMAIN Deps[m] : ~(i < 1)
        BY <4>1
      <4> QED BY <1>2, <1>3, <1>4, <1>5, <3>2, <4>2
    <3> QED BY <3>1, <3>2
  <2>3. ASSUME NEW k \in Modules, phase'[k] = "init" \/ k \in loaded'
        PROVE  StaticDeps(k) \subseteq dependencies'[k] \cap loaded'
    BY <1>2, <1>3, <2>3 DEF Inv, UnderWay
  <2> QED BY <2>1, <2>2, <2>3 DEF UnderWay
<1>12. UnloadingStack'
  <2>1. Len(unloading) = 0
    BY EmptySeq
  <2> QED BY <1>2, <2>1 DEF Inv, UnloadingStack
<1>13. Acyclic'
  BY <1>2 DEF Inv, Acyclic
<1> QED BY <1>6, <1>7, <1>8, <1>9, <1>10, <1>11, <1>12, <1>13 DEF Inv

\* The actions that begin such a call.
LEMMA CreateSteps ==
  ASSUME Inv, TypeOK', NEW m \in Modules, RequestAbsent(m) \/ NeedAbsent(m)
  PROVE  Inv'
<1>1. CASE RequestAbsent(m)
  BY <1>1, CreateStep, ModulesAssumption
     DEF RequestAbsent, MayRequest, Idle, InInit, LoadingTop
<1>2. CASE NeedAbsent(m)
  <2>1. /\ LoadingTop(m) /\ phase[m] = "deps"
        /\ nextDep[m] \in DOMAIN Deps[m]
        /\ CreateModule(Needed(m).name)
    BY <1>2 DEF NeedAbsent, NeedsNext
  <2>2. /\ Needed(m).name \in Modules
        /\ Needed(m).name = Deps[m][nextDep[m]].name
    BY <2>1, NeededFacts
  <2> QED BY <2>1, <2>2, CreateStep DEF LoadingTop
<1> QED BY <1>1, <1>2

-----------------------------------------------------------------------------
(* The innermost needModule call returns.                                  *)

\* The parent of the innermost call does not depend on its module yet.
LEMMA ParentOfTop ==
  ASSUME Inv, NEW p \in Modules, LoadingTop(p)
  PROVE  /\ Parent \in Owners /\ Parent # p
         /\ Parent \notin rdeps[p] /\ p \notin dependencies[Parent]
         /\ \/ Parent = Core
            \/ /\ Parent \in Modules /\ phase[Parent] = "deps"
               /\ Len(loading) > 1 /\ Parent = loading[Len(loading) - 1]
               /\ nextDep[Parent] \in DOMAIN Deps[Parent]
               /\ p = Deps[Parent][nextDep[Parent]].name
<1>1. TypeOK /\ loading # <<>>
  BY DEF Inv, LoadingTop
<1>2. /\ Len(loading) \in Nat \ {0} /\ p = loading[Len(loading)]
      /\ phase[p] # "none"
  BY TopFacts DEF Inv
<1>3. p \notin loaded
  BY <1>2 DEF Inv, Table
<1>4. CASE Parent = Core
  <2>1. Core \notin rdeps[p] /\ Core \in Owners /\ Core # p
    BY <1>3, ModulesAssumption DEF Inv, UnderWay, Owners
  <2>2. p \notin dependencies[Core]
    BY <2>1 DEF Inv, EdgesAgree
  <2> QED BY <1>4, <2>1, <2>2
<1>5. CASE Parent # Core
  <2> DEFINE n == Len(loading) - 1
  <2>1. /\ Len(loading) > 1 /\ Parent = loading[n] /\ phase[Parent] = "deps"
        /\ Parent \in Owners
    BY <1>1, <1>5, ParentFacts
  <2>2. n \in 1..Len(loading) /\ n < Len(loading) /\ n + 1 = Len(loading)
    BY <1>2, <2>1
  <2>3. Parent \in Modules
    BY <1>5, <2>1 DEF Owners
  <2>4. /\ nextDep[Parent] \in DOMAIN Deps[Parent]
        /\ loading[n + 1] = Deps[Parent][nextDep[Parent]].name
    <3> HIDE DEF n
    <3> QED BY <2>1, <2>2 DEF Inv, LoadingStack
  <2>5. p = Deps[Parent][nextDep[Parent]].name
    BY <1>2, <2>2, <2>4
  <2>6. Parent # p
    <3> HIDE DEF n
    <3> QED BY <1>2, <2>1, <2>2 DEF Inv, LoadingStack
  <2>7. p \notin dependencies[Parent]
    <3>1. Deps[Parent] \in Seq(ModuleDependency) /\ nextDep[Parent] \in Nat
      BY <1>1, <2>3, ModulesAssumption DEF TypeOK
    <3> QED BY <2>1, <2>3, <2>4, <2>5, <3>1 DEF Inv, UnderWay
  <2>8. Parent \notin rdeps[p]
    BY <2>1, <2>7 DEF Inv, EdgesAgree
  <2> QED BY <2>1, <2>3, <2>4, <2>5, <2>6, <2>7, <2>8
<1> QED BY <1>4, <1>5

\* The stack without its innermost call is still a stack of calls.
LEMMA ReturnStack ==
  ASSUME Inv, NEW p \in Modules, LoadingTop(p), loading' = Pop(loading),
         phase'[p] = "none",
         \A k \in Modules : k # p => (phase'[k] = "none" <=> phase[k] = "none"),
         \A k \in Modules :
           k # p /\ k # Parent => /\ phase'[k] = phase[k]
                                  /\ nextDep'[k] = nextDep[k]
  PROVE  LoadingStack'
<1>1. /\ Len(loading) \in Nat \ {0} /\ p = loading[Len(loading)]
      /\ loading \in Seq(Modules)
  BY TopFacts DEF Inv, TypeOK
<1>2. /\ Len(loading') = Len(loading) - 1
      /\ \A i \in 1..(Len(loading) - 1) : loading'[i] = loading[i]
  BY <1>1, PopFacts DEF LoadingTop
<1>3. \A i, j \in 1..Len(loading) : loading[i] = loading[j] => i = j
  BY DEF Inv, LoadingStack
<1>4. \A i \in 1..Len(loading') :
        /\ i \in 1..Len(loading) /\ i # Len(loading)
        /\ loading'[i] = loading[i] /\ loading[i] \in Modules
        /\ loading[i] # p
  BY <1>1, <1>2, <1>3
<1>5. ASSUME NEW k \in Modules
      PROVE  phase'[k] # "none" <=> \E i \in 1..Len(loading') : loading'[i] = k
  <2>1. CASE k = p
    BY <1>4, <2>1
  <2>2. CASE k # p
    <3>1. phase[k] # "none" <=> \E i \in 1..Len(loading) : loading[i] = k
      BY DEF Inv, LoadingStack
    <3>2. ASSUME NEW i \in 1..Len(loading), loading[i] = k
          PROVE  i \in 1..Len(loading') /\ loading'[i] = k
      <4>1. i # Len(loading)
        BY <1>1, <2>2, <3>2
      <4> QED BY <1>1, <1>2, <3>2, <4>1
    <3> QED BY <1>4, <2>2, <3>1, <3>2
  <2> QED BY <2>1, <2>2
<1>6. \A i, j \in 1..Len(loading') : loading'[i] = loading'[j] => i = j
  BY <1>3, <1>4
<1>7. ASSUME NEW i \in 1..Len(loading'), i < Len(loading')
      PROVE  /\ phase'[loading'[i]] = phase[loading[i]]
             /\ nextDep'[loading'[i]] = nextDep[loading[i]]
             /\ loading'[i + 1] = loading[i + 1] /\ i < Len(loading)
             /\ loading'[i] = loading[i] /\ i \in 1..Len(loading)
  <2>1. /\ i \in 1..(Len(loading) - 1) /\ i + 1 \in 1..(Len(loading) - 1)
        /\ i \in 1..Len(loading) /\ i < Len(loading)
        /\ Len(loading) - 1 \in 1..Len(loading) /\ i # Len(loading) - 1
    BY <1>1, <1>2, <1>7
  <2>2. loading[i] # Parent
    <3>1. loading[i] # loading[Len(loading) - 1]
      BY <1>3, <2>1
    <3>2. loading[i] # Core
      BY <1>4, <2>1, ModulesAssumption
    <3> QED BY <3>1, <3>2, ParentOfTop
  <2> QED BY <1>2, <1>4, <2>1, <2>2
<1> QED BY <1>5, <1>6, <1>7 DEF Inv, LoadingStack

\* The reference of the call becomes the reference of the parent.
LEMMA InitSucceedsStep ==
  ASSUME Inv, TypeOK', NEW p \in Modules, InitSucceeds(p)
  PROVE  Inv'
<1>1. /\ LoadingTop(p) /\ phase[p] = "init"
      /\ loaded' = loaded \cup {p}
      /\ AddEdge(Parent, p)
      /\ loading' = Pop(loading)
      /\ UNCHANGED <<modules, rc, handle, timers, forcing, unloading, state>>
      /\ state = "running"
  BY DEF InitSucceeds, InInit, LoadingTop
<1>2. /\ Parent \in Owners /\ Parent # p
      /\ Parent \notin rdeps[p] /\ p \notin dependencies[Parent]
      /\ \/ Parent = Core
         \/ /\ Parent \in Modules /\ phase[Parent] = "deps"
            /\ nextDep[Parent] \in DOMAIN Deps[Parent]
            /\ p = Deps[Parent][nextDep[Parent]].name
  BY <1>1, ParentOfTop
<1>3. /\ \A k \in Modules : phase'[k] = IF k = p THEN "none" ELSE phase[k]
      /\ \A k \in Modules : nextDep'[k] =
           IF k = p THEN 1
           ELSE IF k = Parent THEN nextDep[k] + 1 ELSE nextDep[k]
  BY DEF InitSucceeds, Inv, TypeOK
<1>4. /\ EdgesAgree'
      /\ Cardinality(rdeps'[p]) = Cardinality(rdeps[p]) + 1
      /\ rdeps'[p] = rdeps[p] \cup {Parent}
      /\ \A k \in Modules : k # p => rdeps'[k] = rdeps[k]
      /\ dependencies'[Parent] = dependencies[Parent] \cup {p}
      /\ \A q \in Owners : q # Parent => dependencies'[q] = dependencies[q]
  BY <1>1, <1>2, AddReference DEF Inv
<1>5. p \in modules /\ p \in handle /\ p \notin loaded
  BY <1>1 DEF Inv, Table
<1>6. LoadingStack'
  BY <1>1, <1>3, ReturnStack
<1>7. Table'
  <2>1. \A k \in Modules : phase'[k] # "none" => k \in modules' \ loaded'
    BY <1>1, <1>3 DEF Inv, Table
  <2>2. \A k \in timers' : k \in loaded' \/ phase'[k] = "init"
    BY <1>1, <1>3 DEF Inv, Table, TypeOK
  <2>3. \A k \in Modules : phase'[k] \in {"deps", "init"} => k \in handle'
    BY <1>1, <1>3 DEF Inv, Table
  <2> QED BY <1>1, <1>5, <2>1, <2>2, <2>3 DEF Inv, Table
<1>8. RefCounts'
  <2>1. ASSUME NEW k \in Modules
        PROVE  /\ phase'[k] = "none" => rc'[k] = Cardinality(rdeps'[k])
               /\ phase'[k] # "none" => rc'[k] = Cardinality(rdeps'[k]) + 1
    <3>1. /\ phase[k] = "none" => rc[k] = Cardinality(rdeps[k])
          /\ phase[k] # "none" => rc[k] = Cardinality(rdeps[k]) + 1
      BY Counts DEF Inv
    <3>2. CASE k = p
      BY <1>1, <1>3, <1>4, <3>1, <3>2
    <3>3. CASE k # p
      BY <1>1, <1>3, <1>4, <3>1, <3>3
    <3> QED BY <3>2, <3>3
  <2> QED BY <2>1, CountsAfter
<1>9. NoDangling'
  BY <1>1, <1>4, <1>5 DEF Inv, NoDangling
<1>10. UnderWay'
  <2>1. \A k \in Modules : Core \in rdeps'[k] => k \in loaded'
    BY <1>1, <1>4 DEF Inv, UnderWay
  <2>2. ASSUME NEW k \in Modules, phase'[k] = "deps"
        PROVE  /\ rdeps'[k] = {}
               /\ \A i \in DOMAIN Deps[k] :
                    IF i < nextDep'[k]
                      THEN Deps[k][i].name \in dependencies'[k] \cap loaded'
                      ELSE Deps[k][i].name \notin dependencies'[k]
    <3>1. k # p /\ phase[k] = "deps" /\ rdeps'[k] = {}
      BY <1>3, <1>4, <2>2 DEF Inv, UnderWay
    <3>2. \A i \in DOMAIN Deps[k] :
            IF i < nextDep[k]
              THEN Deps[k][i].name \in dependencies[k] \cap loaded
              ELSE Deps[k][i].name \notin dependencies[k]
      BY <3>1 DEF Inv, UnderWay
    <3>3. CASE k # Parent
      BY <1>1, <1>3, <1>4, <3>1, <3>2, <3>3 DEF Owners
    <3>4. CASE k = Parent
      <4>1. /\ nextDep'[k] = nextDep[k] + 1 /\ nextDep[k] \in DOMAIN Deps[k]
            /\ p = Deps[k][nextDep[k]].name
            /\ dependencies'[k] = dependencies[k] \cup {p}
        BY <1>2, <1>3, <1>4, <3>1, <3>4, ModulesAssumption
      <4>2. Deps[k] \in Seq(ModuleDependency) /\ nextDep[k] \in Nat \ {0}
        BY ModulesAssumption DEF Inv, TypeOK
      <4>3. ASSUME NEW i \in DOMAIN Deps[k]
            PROVE  IF i < nextDep'[k]
                     THEN Deps[k][i].name \in dependencies'[k] \cap loaded'
                     ELSE Deps[k][i].name \notin dependencies'[k]
        <5>1. i \in Nat
          BY <4>2
        <5>2. CASE i < nextDep[k]
          <6>1. i < nextDep'[k]
            BY <4>1, <4>2, <5>1, <5>2
          <6> QED BY <1>1, <3>2, <4>1, <5>2, <6>1
        <5>3. CASE i = nextDep[k]
          <6>1. i < nextDep'[k]
            BY <4>1, <4>2, <5>3
          <6> QED BY <1>1, <4>1, <5>3, <6>1
        <5>4. CASE i > nextDep[k]
          <6>1. ~(i < nextDep'[k]) /\ ~(i < nextDep[k]) /\ i # nextDep[k]
            BY <4>1, <4>2, <5>1, <5>4
          <6>2. Deps[k][i].name # p
            BY <4>1, <6>1, CallsAssumption
          <6> QED BY <3>2, <4>1, <6>1, <6>2
        <5> QED BY <4>2, <5>1, <5>2, <5>3, <5>4
      <4> QED BY <3>1, <4>3
    <3> QED BY <3>3, <3>4
  <2>3. ASSUME NEW k \in Modules, phase'[k] = "init" \/ k \in loaded'
        PROVE  StaticDeps(k) \subseteq dependencies'[k] \cap loaded'
    <3>1. StaticDeps(k) \subseteq dependencies[k] \cap loaded
      BY <1>1, <1>3, <2>3 DEF Inv, UnderWay
    <3>2. dependencies[k] \subseteq dependencies'[k]
      BY <1>4 DEF Owners
    <3> QED BY <1>1, <3>1, <3>2
  <2> QED BY <2>1, <2>2, <2>3 DEF UnderWay
<1>11. UnloadingStack'
  <2>1. ASSUME NEW q \in Modules, dependencies'[q] # {}
        PROVE  q \in modules \/ \E i \in 1..Len(unloading) : unloading[i] = q
    <3>1. CASE q = Parent
      BY <1>2, <3>1, ModulesAssumption DEF Inv, Table
    <3>2. CASE q # Parent
      BY <1>4, <2>1, <3>2 DEF Inv, UnloadingStack, Owners
    <3> QED BY <3>1, <3>2
  <2>2. forcing = <<>>
    BY <1>1 DEF LoadingTop
  <2> QED BY <1>1, <2>1, <2>2 DEF Inv, UnloadingStack
<1>12. Acyclic'
  <2>1. CASE Parent = Core
    BY <1>4, <2>1, AcyclicFewer DEF Inv
  <2>2. CASE Parent # Core
    <3>1. Parent \in Modules /\ rdeps[Parent] = {}
      BY <1>2, <2>2 DEF Inv, UnderWay
    <3>2. rdeps'[Parent] = {}
      BY <1>2, <1>4, <3>1
    <3>3. \A k \in Modules : rdeps'[k] \subseteq rdeps[k] \cup {Parent}
      BY <1>4
    <3> QED BY <3>1, <3>2, <3>3, AcyclicSource DEF Inv
  <2> QED BY <2>1, <2>2
<1> QED BY <1>4, <1>6, <1>7, <1>8, <1>9, <1>10, <1>11, <1>12 DEF Inv

-----------------------------------------------------------------------------
(* References are given up.                                                *)

\* A module leaves the table with its last reference, and then nobody is
\* recorded as depending on it.
LEMMA AbandonStep ==
  ASSUME Inv, TypeOK', NEW p \in Modules, Abandon(p)
  PROVE  Inv'
<1>1. /\ LoadingTop(p) /\ phase[p] = "fail"
      /\ UnneedModule(p, Parent)
      /\ loading' = Pop(loading)
      /\ UNCHANGED <<dependencies, forcing, state>>
      /\ state = "running" /\ unloading = <<>> /\ forcing = <<>>
  BY DEF Abandon, LoadingTop
<1>2. /\ Parent \in Owners /\ Parent # p /\ Parent \notin rdeps[p]
      /\ Parent = Core \/ phase[Parent] = "deps"
  BY <1>1, ParentOfTop
<1>3. /\ \A k \in Modules : phase'[k] = IF k = p THEN "none"
                                        ELSE IF k = Parent THEN "fail"
                                        ELSE phase[k]
      /\ \A k \in Modules : nextDep'[k] = IF k = p THEN 1 ELSE nextDep[k]
  BY DEF Abandon, Inv, TypeOK
<1>4. /\ rdeps' = rdeps
      /\ \A k \in Modules : rc'[k] = IF k = p THEN rc[k] - 1 ELSE rc[k]
  BY <1>1, <1>2 DEF UnneedModule, Unreference, Unload, StillNeeded, Inv, TypeOK
<1>5. /\ rc[p] \in Nat /\ rc[p] > 0 /\ p \in modules /\ p \notin loaded
      /\ rc[p] = Cardinality(rdeps[p]) + 1
      /\ Cardinality(rdeps[p]) \in Nat
  BY <1>1, Counts DEF Inv, Table
<1>6. \/ /\ rc[p] > 1
         /\ UNCHANGED <<modules, loaded, handle, timers, unloading>>
      \/ /\ rc[p] = 1 /\ rdeps[p] = {}
         /\ modules' = modules \ {p} /\ handle' = handle \ {p}
         /\ UNCHANGED <<loaded, timers>>
         /\ unloading' = Append(unloading, p)
  <2>1. CASE rc[p] > 1
    BY <1>1, <2>1 DEF UnneedModule, Unreference, Unload, StillNeeded
  <2>2. CASE ~(rc[p] > 1)
    <3>1. rc[p] = 1 /\ Cardinality(rdeps[p]) = 0
      BY <1>5, <2>2
    <3>2. rdeps[p] = {}
      BY <3>1, FiniteRdeps, FS_EmptySet DEF Inv
    <3> QED BY <1>1, <1>5, <2>2, <3>1, <3>2 DEF UnneedModule, Unreference, Unload, StillNeeded
  <2> QED BY <2>1, <2>2
<1>7. LoadingStack'
  <2>1. \A k \in Modules : k # p => (phase'[k] = "none" <=> phase[k] = "none")
    BY <1>2, <1>3, ModulesAssumption
  <2> QED BY <1>1, <1>3, <2>1, ReturnStack
<1>8. Table'
  <2>1. ASSUME NEW k \in Modules PROVE k \in modules' <=> rc'[k] > 0
    <3>1. rc[k] \in Nat /\ (k \in modules <=> rc[k] > 0)
      BY DEF Inv, TypeOK, Table
    <3> QED BY <1>4, <1>5, <1>6, <3>1
  <2>2. ASSUME NEW k \in Modules, phase'[k] # "none"
        PROVE  k \in modules' \ loaded'
    <3>1. k # p /\ phase[k] # "none"
      BY <1>2, <1>3, <2>2, ModulesAssumption
    <3> QED BY <1>6, <3>1 DEF Inv, Table
  <2>3. ASSUME NEW k \in Modules, phase'[k] \in {"deps", "init"}
        PROVE  k \in handle'
    <3>1. k # p /\ phase[k] \in {"deps", "init"}
      BY <1>3, <2>3
    <3> QED BY <1>6, <3>1 DEF Inv, Table
  <2>4. ASSUME NEW k \in timers' PROVE k \in loaded' \/ phase'[k] = "init"
    <3>1. k \in Modules /\ (k \in loaded \/ phase[k] = "init")
      BY <1>6 DEF Inv, Table, TypeOK
    <3>2. CASE k \in loaded
      BY <1>6, <3>2
    <3>3. CASE phase[k] = "init"
      BY <1>1, <1>2, <1>3, <3>1, <3>3, ModulesAssumption
    <3> QED BY <3>1, <3>2, <3>3
  <2>5. loaded' \subseteq handle' /\ handle' \subseteq modules'
    BY <1>5, <1>6 DEF Inv, Table
  <2> QED BY <2>1, <2>2, <2>3, <2>4, <2>5 DEF Table
<1>9. EdgesAgree'
  BY <1>1, <1>4 DEF Inv, EdgesAgree
<1>10. RefCounts'
  <2>1. ASSUME NEW k \in Modules
        PROVE  /\ phase'[k] = "none" => rc'[k] = Cardinality(rdeps'[k])
               /\ phase'[k] # "none" => rc'[k] = Cardinality(rdeps'[k]) + 1
    <3>1. CASE k = p
      BY <1>3, <1>4, <1>5, <3>1
    <3>2. CASE k # p
      <4>1. phase'[k] = "none" <=> phase[k] = "none"
        BY <1>2, <1>3, <3>2, ModulesAssumption
      <4> QED BY <1>4, <3>2, <4>1, Counts DEF Inv
    <3> QED BY <3>1, <3>2
  <2> QED BY <2>1, CountsAfter
<1>11. NoDangling'
  <2>1. ASSUME NEW q \in Owners PROVE dependencies[q] \subseteq modules'
    <3>1. dependencies[q] \subseteq modules
      BY DEF Inv, NoDangling
    <3>2. rdeps[p] = {} => p \notin dependencies[q]
      BY DEF Inv, EdgesAgree
    <3> QED BY <1>6, <3>1, <3>2
  <2> QED BY <1>1, <2>1 DEF NoDangling
<1>12. UnderWay'
  <2>1. UNCHANGED <<loaded, dependencies, rdeps>>
    BY <1>1, <1>4, <1>6
  <2>2. \A k \in Modules :
          /\ phase'[k] = "deps" => phase[k] = "deps" /\ nextDep'[k] = nextDep[k]
          /\ phase'[k] = "init" => phase[k] = "init"
    BY <1>3
  <2> QED BY <2>1, <2>2 DEF Inv, UnderWay
<1>13. UnloadingStack'
  <2>1. Len(unloading) = 0
    BY <1>1, EmptySeq
  <2>2. unloading \in Seq(Owners) /\ p \in Owners
    BY DEF Inv, TypeOK, Owners
  <2>3. CASE rc[p] > 1
    BY <1>1, <1>6, <2>3 DEF Inv, UnloadingStack
  <2>4. CASE ~(rc[p] > 1)
    <3>1. /\ modules' = modules \ {p} /\ unloading' = Append(unloading, p)
      BY <1>6, <2>4
    <3>2. Len(unloading') = 1 /\ unloading'[1] = p
      BY <2>1, <2>2, <3>1, PushFacts
    <3>3. \A i \in 1..Len(unloading') : unloading'[i] = p
      BY <3>2
    <3>4. p # Core
      BY ModulesAssumption
    <3>5. \A q \in Modules : dependencies'[q] # {} =>
            q \in modules' \/ \E i \in 1..Len(unloading') : unloading'[i] = q
      BY <1>1, <2>1, <3>1, <3>2 DEF Inv, UnloadingStack
    <3> QED BY <1>1, <3>1, <3>3, <3>4, <3>5 DEF UnloadingStack
  <2> QED BY <2>3, <2>4
<1>14. Acyclic'
  BY <1>4 DEF Inv, Acyclic
<1> QED BY <1>7, <1>8, <1>9, <1>10, <1>11, <1>12, <1>13, <1>14 DEF Inv

\* unneedModule takes one dependent from a module, which is freed when it
\* was the last.
LEMMA ReleaseStep ==
  ASSUME Inv, TypeOK', NEW m \in Modules, NEW p \in Owners,
         m \in dependencies[p], p \notin modules,
         UnneedModule(m, p),
         dependencies' = [dependencies EXCEPT ![p] = @ \ {m}],
         UNCHANGED <<loading, phase, nextDep, state>>,
         state = "running" \/ unloading # <<>>,
         forcing' # <<>> => forcing # <<>>
  PROVE  Inv'
<1>1. /\ EdgesAgree'
      /\ Cardinality(rdeps'[m]) = Cardinality(rdeps[m]) - 1
      /\ rdeps'[m] = rdeps[m] \ {p}
      /\ \A k \in Modules : k # m => rdeps'[k] = rdeps[k]
      /\ dependencies'[p] = dependencies[p] \ {m}
      /\ \A q \in Owners : q # p => dependencies'[q] = dependencies[q]
  BY DropReference DEF Inv
<1>2. /\ m \in modules
      /\ rc[m] \in Nat /\ rc[m] > 0 /\ Cardinality(rdeps[m]) \in Nat
      /\ phase[m] = "none" => rc[m] = Cardinality(rdeps[m])
      /\ phase[m] # "none" => rc[m] = Cardinality(rdeps[m]) + 1
  BY Counts DEF Inv, NoDangling, Table
<1>3. /\ \A k \in Modules : rc'[k] = IF k = m THEN rc[k] - 1 ELSE rc[k]
      /\ Cardinality(rdeps'[m]) \in Nat
  <2>1. rc' = [rc EXCEPT ![m] = @ - 1] /\ rc \in [Modules -> Nat]
    BY DEF UnneedModule, Unreference, Inv, TypeOK
  <2>2. IsFiniteSet(rdeps[m])
    BY FiniteRdeps DEF Inv
  <2>3. Cardinality(rdeps'[m]) \in Nat
    BY <1>1, <2>2, FS_RemoveElement, FS_CardinalityType
  <2> QED BY <2>1, <2>3
<1>4. \/ /\ rc[m] > 1
         /\ UNCHANGED <<modules, loaded, handle, timers, unloading>>
      \/ /\ rc[m] = 1 /\ rdeps'[m] = {} /\ phase[m] = "none"
         /\ modules' = modules \ {m} /\ handle' = handle \ {m}
         /\ loaded' = loaded \ {m}
         /\ timers' = timers \ {m}
         /\ unloading' = Append(unloading, m)
  <2>1. CASE rc[m] > 1
    BY <2>1 DEF UnneedModule, Unreference, Unload, StillNeeded
  <2>2. CASE ~(rc[m] > 1)
    <3>1. rc[m] = 1 /\ Cardinality(rdeps'[m]) = 0 /\ phase[m] = "none"
      BY <1>1, <1>2, <1>3, <2>2
    <3>2. rdeps'[m] = {}
      <4>1. IsFiniteSet(rdeps[m] \ {p})
        BY FiniteRdeps, FS_RemoveElement DEF Inv
      <4>2. IsFiniteSet(rdeps'[m])
        BY <1>1, <4>1
      <4> QED BY <3>1, <4>2, FS_EmptySet
    <3>3. m \notin loaded => m \notin timers
      BY <3>1 DEF Inv, Table
    <3> QED BY <2>2, <3>1, <3>2, <3>3 DEF UnneedModule, Unreference, Unload, StillNeeded
  <2> QED BY <2>1, <2>2
<1>5. rdeps'[m] = {} => \A q \in Owners : m \notin dependencies'[q]
  BY <1>1 DEF EdgesAgree
<1>6. LoadingStack'
  BY DEF Inv, LoadingStack
<1>7. Table'
  <2>1. ASSUME NEW k \in Modules PROVE k \in modules' <=> rc'[k] > 0
    <3>1. rc[k] \in Nat /\ (k \in modules <=> rc[k] > 0)
      BY DEF Inv, TypeOK, Table
    <3> QED BY <1>2, <1>3, <1>4, <3>1
  <2>2. \A k \in Modules : phase'[k] # "none" => k \in modules' \ loaded'
    BY <1>4 DEF Inv, Table
  <2>3. \A k \in Modules : phase'[k] \in {"deps", "init"} => k \in handle'
    BY <1>4 DEF Inv, Table
  <2>4. \A k \in timers' : k \in loaded' \/ phase'[k] = "init"
    BY <1>4 DEF Inv, Table
  <2>5. loaded' \subseteq handle' /\ handle' \subseteq modules'
    BY <1>4 DEF Inv, Table
  <2> QED BY <2>1, <2>2, <2>3, <2>4, <2>5 DEF Table
<1>8. RefCounts'
  <2>1. ASSUME NEW k \in Modules
        PROVE  /\ phase'[k] = "none" => rc'[k] = Cardinality(rdeps'[k])
               /\ phase'[k] # "none" => rc'[k] = Cardinality(rdeps'[k]) + 1
    <3>1. CASE k = m
      <4>1. /\ rc'[m] = rc[m] - 1
            /\ Cardinality(rdeps'[m]) = Cardinality(rdeps[m]) - 1
        BY <1>1, <1>3
      <4>2. CASE phase[m] = "none"
        BY <1>2, <3>1, <4>1, <4>2
      <4>3. CASE phase[m] # "none"
        BY <1>2, <3>1, <4>1, <4>3
      <4> QED BY <3>1, <4>2, <4>3
    <3>2. CASE k # m
      BY <1>1, <1>3, <3>2, Counts DEF Inv
    <3> QED BY <3>1, <3>2
  <2> QED BY <2>1, CountsAfter
<1>9. NoDangling'
  <2>1. ASSUME NEW q \in Owners PROVE dependencies'[q] \subseteq modules'
    <3>1. dependencies'[q] \subseteq modules
      BY <1>1 DEF Inv, NoDangling
    <3> QED BY <1>4, <1>5, <3>1
  <2> QED BY <2>1 DEF NoDangling
<1>10. UnderWay'
  <2>1. \A k \in Modules : Core \in rdeps'[k] => k \in loaded'
    BY <1>1, <1>4 DEF Inv, UnderWay
  <2>2. ASSUME NEW k \in Modules, phase[k] \in {"deps", "init"} \/ k \in loaded
        PROVE  dependencies'[k] = dependencies[k]
    <3>1. k \in modules
      BY <2>2 DEF Inv, Table
    <3> QED BY <1>1, <3>1 DEF Owners
  <2>3. ASSUME NEW k \in Modules, phase'[k] = "deps"
        PROVE  /\ rdeps'[k] = {}
               /\ \A i \in DOMAIN Deps[k] :
                    IF i < nextDep'[k]
                      THEN Deps[k][i].name \in dependencies'[k] \cap loaded'
                      ELSE Deps[k][i].name \notin dependencies'[k]
    <3>1. rdeps'[k] = {}
      BY <1>1, <2>3 DEF Inv, UnderWay
    <3>2. dependencies'[k] = dependencies[k]
      BY <2>2, <2>3
    <3>3. \A i \in DOMAIN Deps[k] :
            IF i < nextDep[k]
              THEN Deps[k][i].name \in dependencies[k] \cap loaded
              ELSE Deps[k][i].name \notin dependencies[k]
      BY <2>3 DEF Inv, UnderWay
    <3>4. \A n \in dependencies[k] \cap loaded : n \in loaded'
      BY <1>4, <1>5, <3>2 DEF Owners
    <3> QED BY <3>1, <3>2, <3>3, <3>4
  <2>4. ASSUME NEW k \in Modules, phase'[k] = "init" \/ k \in loaded'
        PROVE  StaticDeps(k) \subseteq dependencies'[k] \cap loaded'
    <3>1. phase[k] = "init" \/ k \in loaded
      BY <1>4, <2>4
    <3>2. dependencies'[k] = dependencies[k]
      BY <2>2, <3>1
    <3>3. StaticDeps(k) \subseteq dependencies[k] \cap loaded
      BY <3>1 DEF Inv, UnderWay
    <3>4. \A n \in dependencies[k] \cap loaded : n \in loaded'
      BY <1>4, <1>5, <3>2 DEF Owners
    <3> QED BY <3>2, <3>3, <3>4
  <2> QED BY <2>1, <2>3, <2>4 DEF UnderWay
<1>11. UnloadingStack'
  <2>1. /\ unloading \in Seq(Owners) /\ m \in Owners /\ m # Core
        /\ Len(unloading) \in Nat
    BY ModulesAssumption, LenProperties DEF Inv, TypeOK, Owners
  <2>2. CASE rc[m] > 1
    <3>1. UNCHANGED <<modules, unloading>>
      BY <1>4, <2>2
    <3>2. \A q \in Modules : dependencies'[q] # {} => dependencies[q] # {}
      BY <1>1 DEF Owners
    <3>3. state = "freed" => FALSE
      BY DEF Inv, UnloadingStack
    <3> QED BY <3>1, <3>2, <3>3 DEF Inv, UnloadingStack
  <2>3. CASE ~(rc[m] > 1)
    <3>1. /\ modules' = modules \ {m}
          /\ Len(unloading') = Len(unloading) + 1
          /\ \A i \in 1..Len(unloading) : unloading'[i] = unloading[i]
          /\ unloading'[Len(unloading) + 1] = m
      BY <1>4, <2>1, <2>3, PushFacts
    <3>2. \A i \in 1..Len(unloading') :
            i \in 1..Len(unloading) \/ i = Len(unloading) + 1
      BY <2>1, <3>1
    <3>3. \A i \in 1..Len(unloading') : unloading'[i] \notin modules'
      BY <3>1, <3>2 DEF Inv, UnloadingStack
    <3>4. ASSUME NEW q \in Modules, dependencies'[q] # {}
          PROVE  \/ q \in modules'
                 \/ \E i \in 1..Len(unloading') : unloading'[i] = q
      <4>1. dependencies[q] # {}
        BY <1>1, <3>4 DEF Owners
      <4>2. CASE q = m
        BY <2>1, <3>1, <4>2
      <4>3. CASE q # m
        BY <2>1, <3>1, <4>1, <4>3 DEF Inv, UnloadingStack
      <4> QED BY <4>2, <4>3
    <3>5. state = "running" =>
            \A i \in 1..Len(unloading') : unloading'[i] # Core
      BY <2>1, <3>1, <3>2 DEF Inv, UnloadingStack
    <3>6. state = "freeing" =>
            \A i \in 1..Len(unloading') : unloading'[i] = Core <=> i = 1
      <4>1. SUFFICES ASSUME state = "freeing", NEW i \in 1..Len(unloading')
                     PROVE  unloading'[i] = Core <=> i = 1
        OBVIOUS
      <4>2. Len(unloading) \in Nat \ {0}
        BY <2>1, <4>1, EmptySeq
      <4>3. CASE i \in 1..Len(unloading)
        BY <3>1, <4>1, <4>3 DEF Inv, UnloadingStack
      <4>4. CASE i = Len(unloading) + 1
        BY <2>1, <3>1, <4>2, <4>4
      <4> QED BY <3>2, <4>3, <4>4
    <3>7. state # "freed"
      BY DEF Inv, UnloadingStack
    <3>8. /\ state # "running" => loading = <<>> /\ forcing' = <<>>
          /\ forcing' # <<>> => loading = <<>>
      BY DEF Inv, UnloadingStack
    <3> QED BY <3>3, <3>4, <3>5, <3>6, <3>7, <3>8 DEF UnloadingStack
  <2> QED BY <2>2, <2>3
<1>12. Acyclic'
  BY <1>1, AcyclicFewer DEF Inv
<1> QED BY <1>1, <1>6, <1>7, <1>8, <1>9, <1>10, <1>11, <1>12 DEF Inv

\* The actions that release a reference.
LEMMA ReleaseSteps ==
  ASSUME Inv, TypeOK',
         \/ \E p \in Owners, m \in Modules : UnneedDependency(p, m)
         \/ \E m \in Modules : RevokeModule(m)
         \/ ForceRevoke
  PROVE  Inv'
<1>1. Core \notin modules /\ Core \in Owners
  BY ModulesAssumption DEF Inv, TypeOK, Owners
<1>2. ASSUME NEW p \in Owners, NEW m \in Modules, UnneedDependency(p, m)
      PROVE  Inv'
  <2>1. unloading \in Seq(Owners) /\ unloading # <<>> /\ p = Top(unloading)
    BY <1>2 DEF UnneedDependency, Inv, TypeOK
  <2>2. Len(unloading) \in Nat \ {0}
    BY <2>1, PopFacts
  <2>3. p \notin modules
    BY <2>1, <2>2 DEF Top, Inv, UnloadingStack
  <2> QED BY <1>2, <2>1, <2>3, ReleaseStep DEF UnneedDependency, calls
<1>3. ASSUME NEW m \in Modules, RevokeModule(m) PROVE Inv'
  BY <1>1, <1>3, ReleaseStep DEF RevokeModule, Idle, calls
<1>4. ASSUME ForceRevoke PROVE Inv'
  <2> DEFINE m == Top(forcing).mod
  <2>1. /\ forcing # <<>> /\ m \in modules
        /\ UNCHANGED <<loading, phase, nextDep, state>>
    BY <1>4 DEF ForceRevoke, ForcingTop, calls
  <2>2. state = "running" /\ m \in Modules
    BY <2>1 DEF Inv, UnloadingStack, TypeOK
  <2>3. CASE m \in dependencies[Core]
    <3>1. /\ UnneedModule(m, Core)
          /\ dependencies' = [dependencies EXCEPT ![Core] = @ \ {m}]
      BY <1>4, <2>3 DEF ForceRevoke
    <3> HIDE DEF m
    <3> QED BY <1>1, <2>1, <2>2, <2>3, <3>1, ReleaseStep
  <2>4. CASE m \notin dependencies[Core]
    <3>1. /\ forcing' = <<>>
          /\ UNCHANGED <<modules, loaded, rc, dependencies, rdeps, handle,
                         timers, unloading>>
      BY <1>4, <2>4 DEF ForceRevoke
    <3> QED BY <2>1, <3>1, QuietStep
  <2> QED BY <2>3, <2>4
<1> QED BY <1>2, <1>3, <1>4

\* unneedModule has released all the dependencies of a module.
LEMMA UnneedDoneStep ==
  ASSUME Inv, TypeOK', NEW p \in Owners, UnneedDone(p)
  PROVE  Inv'
<1>1. /\ unloading \in Seq(Owners) /\ unloading # <<>> /\ p = Top(unloading)
      /\ dependencies[p] = {} /\ unloading' = Pop(unloading)
      /\ state' = IF p = Core THEN "freed" ELSE state
      /\ UNCHANGED <<modules, loaded, rc, dependencies, rdeps, handle, timers,
                     loading, phase, nextDep, forcing>>
  BY DEF UnneedDone, Inv, TypeOK, tables, calls
<1>2. /\ Len(unloading) \in Nat \ {0} /\ p = unloading[Len(unloading)]
      /\ Len(unloading') = Len(unloading) - 1
      /\ \A i \in 1..(Len(unloading) - 1) : unloading'[i] = unloading[i]
  <2>1. /\ Pop(unloading) \in Seq(Owners)
        /\ Len(Pop(unloading)) = Len(unloading) - 1
        /\ \A i \in 1..(Len(unloading) - 1) : Pop(unloading)[i] = unloading[i]
    BY <1>1, PopFacts
  <2>2. Len(unloading) \in Nat \ {0}
    BY <1>1
  <2> QED BY <1>1, <2>1, <2>2 DEF Top
<1>3. \A i \in 1..Len(unloading') :
        /\ i \in 1..Len(unloading) /\ unloading'[i] = unloading[i]
  BY <1>2
<1>4. UnloadingStack'
  <2>1. \A i \in 1..Len(unloading') : unloading'[i] \notin modules'
    BY <1>1, <1>3 DEF Inv, UnloadingStack
  <2>2. ASSUME NEW q \in Modules, dependencies'[q] # {}
        PROVE  \/ q \in modules'
               \/ \E i \in 1..Len(unloading') : unloading'[i] = q
    <3>1. q # p /\ dependencies[q] # {}
      BY <1>1, <2>2
    <3>2. ASSUME NEW i \in 1..Len(unloading), unloading[i] = q
          PROVE  i \in 1..Len(unloading') /\ unloading'[i] = q
      <4>1. i # Len(unloading)
        BY <1>2, <3>1, <3>2
      <4> QED BY <1>2, <3>2, <4>1
    <3> QED BY <1>1, <3>1, <3>2 DEF Inv, UnloadingStack
  <2>3. CASE p # Core
    <3>1. state' = state /\ state # "freed"
      BY <1>1, <2>3 DEF Inv, UnloadingStack
    <3> QED BY <1>1, <1>3, <2>1, <2>2, <3>1 DEF Inv, UnloadingStack
  <2>4. CASE p = Core
    <3>0. /\ Len(unloading) \in 1..Len(unloading)
          /\ unloading[Len(unloading)] = Core
      BY <1>2, <2>4
    <3>1. state = "freeing"
      <4>1. state # "running" /\ state # "freed"
        BY <1>1, <3>0 DEF Inv, UnloadingStack
      <4> QED BY <4>1 DEF Inv, TypeOK
    <3>2. Len(unloading) = 1
      BY <3>0, <3>1 DEF Inv, UnloadingStack
    <3>3. Len(unloading') = 0 /\ unloading' \in Seq(Owners)
      BY <1>2, <3>2 DEF TypeOK
    <3>4. unloading' = <<>>
      BY <3>3, EmptySeq
    <3> QED BY <1>1, <2>1, <2>2, <2>4, <3>1, <3>4 DEF Inv, UnloadingStack
  <2> QED BY <2>3, <2>4
<1>5. LoadingStack' /\ EdgesAgree' /\ RefCounts' /\ NoDangling' /\ UnderWay'
  BY <1>1 DEF Inv, LoadingStack, EdgesAgree, RefCounts, NoDangling, UnderWay
<1>6. Table'
  BY <1>1 DEF Inv, Table
<1>7. Acyclic'
  BY <1>1 DEF Inv, Acyclic
<1> QED BY <1>4, <1>5, <1>6, <1>7 DEF Inv

\* freeModules.
LEMMA FreeModulesStep ==
  ASSUME Inv, TypeOK', FreeModules
  PROVE  Inv'
<1>1. /\ state = "running" /\ loading = <<>> /\ forcing = <<>>
      /\ unloading = <<>> /\ state' = "freeing" /\ unloading' = <<Core>>
      /\ UNCHANGED <<modules, loaded, rc, dependencies, rdeps, handle, timers,
                     loading, phase, nextDep, forcing>>
  BY DEF FreeModules, Idle, tables, calls
<1>2. UnloadingStack'
  <2>1. Len(unloading) = 0 /\ Len(unloading') = 1 /\ unloading'[1] = Core
    BY <1>1, EmptySeq
  <2>2. \A i \in 1..Len(unloading') : i = 1 /\ unloading'[i] = Core
    BY <2>1
  <2>3. Core \notin modules
    BY ModulesAssumption DEF Inv, TypeOK
  <2>4. \A q \in Modules : dependencies[q] # {} => q \in modules
    BY <2>1 DEF Inv, UnloadingStack
  <2> QED BY <1>1, <2>2, <2>3, <2>4 DEF UnloadingStack
<1>3. LoadingStack' /\ EdgesAgree' /\ RefCounts' /\ NoDangling' /\ UnderWay'
  BY <1>1 DEF Inv, LoadingStack, EdgesAgree, RefCounts, NoDangling, UnderWay
<1>4. Table'
  BY <1>1 DEF Inv, Table
<1>5. Acyclic'
  BY <1>1 DEF Inv, Acyclic
<1> QED BY <1>2, <1>3, <1>4, <1>5 DEF Inv

-----------------------------------------------------------------------------
(* The theorems.                                                           *)

\* The invariant holds after initModules.
LEMMA InvInit ==
  ASSUME Init
  PROVE  Inv
<1>1. TypeOK
  BY EmptySeq DEF Init, TypeOK, Phases, Owners
<1>2. Len(loading) = 0 /\ Len(unloading) = 0
  BY EmptySeq DEF Init
<1>3. LoadingStack /\ UnloadingStack
  BY <1>2 DEF Init, LoadingStack, UnloadingStack, Owners
<1>4. Table /\ EdgesAgree /\ NoDangling
  BY DEF Init, Table, EdgesAgree, NoDangling, Owners
<1>5. RefCounts
  BY FS_EmptySet DEF Init, RefCounts
<1>6. UnderWay
  BY DEF Init, UnderWay
<1>7. Acyclic
  BY DEF Init, Acyclic
<1> QED BY <1>1, <1>3, <1>4, <1>5, <1>6, <1>7 DEF Inv

\* Every step preserves the invariant.
LEMMA InvStep ==
  ASSUME Inv, [Next]_vars
  PROVE  Inv'
<1>1. TypeOK'
  BY TypeStep
<1> QED BY <1>1, QuietSteps, PhaseSteps, RequestLoadedStep, NeedLoadedStep,
           RuntimeStep, CreateSteps, InitSucceedsStep, AbandonStep,
           ReleaseSteps, UnneedDoneStep, FreeModulesStep
        DEF Next, LoadStep, InitReturns, UnneedStep, ForceStep

\* The invariant holds throughout.
LEMMA InvAlways == Spec => []Inv
BY InvInit, InvStep, PTL DEF Spec

\* The reference count of a module is the number of its recorded dependents
\* plus the reference of the needModule call that is loading it, in every
\* state of needModule, unneedModule and addModuleRuntimeDependency.
THEOREM RefCountsCorrect == Spec => [](TypeOK /\ RefCounts /\ EdgesAgree)
BY InvAlways, PTL DEF Inv

\* No dependency table ever points to a freed module, and a loaded module has
\* everything it lists as a dependency loaded, with its library open.
THEOREM DependenciesLoaded == Spec => [](NoDangling /\ StaticDepsLoaded)
<1>1. Inv => NoDangling /\ StaticDepsLoaded
  BY DEF Inv, NoDangling, StaticDepsLoaded, UnderWay, Table, TypeOK
<1> QED BY <1>1, InvAlways, PTL

\* The dependency graph never has a cycle.
THEOREM NoCycles == Spec => []Acyclic
BY InvAlways, PTL DEF Inv

\* No callback of a module is left to be called when its library is closed.
THEOREM TimersAreOwned == Spec => []TimersOwned
<1>1. Inv => TimersOwned
  BY DEF Inv, Table, TypeOK, TimersOwned
<1> QED BY <1>1, InvAlways, PTL

\* When the loader has nothing on its stacks, a module in the table has a
\* dependent, and that is the core or a module in the table.
LEMMA HasDependent ==
  ASSUME Inv, loading = <<>>, unloading = <<>>, NEW m \in modules
  PROVE  \E p \in modules \cup {Core} : p \in rdeps[m] /\ m \in dependencies[p]
<1>1. Len(loading) = 0 /\ Len(unloading) = 0
  BY EmptySeq
<1>2. m \in Modules /\ phase[m] = "none"
  BY <1>1 DEF Inv, TypeOK, LoadingStack
<1>3. rdeps[m] # {}
  <2>1. rc[m] > 0
    BY <1>2 DEF Inv, Table
  <2>2. rc[m] = Cardinality(rdeps[m])
    BY <1>2, Counts DEF Inv
  <2>3. rdeps[m] = {} => rc[m] = 0
    BY <2>2, FS_EmptySet
  <2> QED BY <2>1, <2>3
<1>4. PICK p \in Owners : p \in rdeps[m]
  BY <1>2, <1>3 DEF Inv, TypeOK
<1>5. m \in dependencies[p]
  BY <1>2, <1>4 DEF Inv, EdgesAgree
<1>6. p \in modules \cup {Core}
  BY <1>1, <1>5 DEF Inv, UnloadingStack, Owners
<1> QED BY <1>4, <1>5, <1>6

\* Reference counting leaves nothing behind: between calls of the loader,
\* every module in the table is needed by what has been requested.  A module
\* that is not would have a dependent of the same kind, and so on for ever.
THEOREM NothingLeftBehind == Spec => []OnlyNeededModules
<1>1. ASSUME Inv, Idle, NEW m \in modules PROVE DependsOn(Core, m)
  <2>1. SUFFICES ASSUME NEW S \in SUBSET Modules,
                        dependencies[Core] \subseteq S,
                        \A k \in S : dependencies[k] \subseteq S,
                        m \notin S
                 PROVE  FALSE
    BY DEF DependsOn
  <2> DEFINE U == modules \ S
  <2>2. U \in SUBSET Modules /\ U # {}
    BY <1>1, <2>1 DEF Inv, TypeOK
  <2>3. PICK k \in U : rdeps[k] \cap U = {}
    BY <1>1, <2>2 DEF Inv, Acyclic
  <2>4. PICK p \in modules \cup {Core} : p \in rdeps[k] /\ k \in dependencies[p]
    BY <1>1, <2>3, HasDependent DEF Idle
  <2> QED BY <2>1, <2>3, <2>4
<1>2. Inv => OnlyNeededModules
  BY <1>1 DEF OnlyNeededModules
<1> QED BY <1>2, InvAlways, PTL

\* The assertions at the end of freeModules hold: when the core has given up
\* what it requested, every module is gone, and its library and timers too.
THEOREM FreeModulesAssertions == Spec => []FreedClean
<1>1. ASSUME Inv, state = "freed" PROVE modules = {}
  <2>1. /\ modules \subseteq Modules
        /\ loading = <<>> /\ unloading = <<>> /\ dependencies[Core] = {}
    BY <1>1 DEF Inv, TypeOK, UnloadingStack
  <2>2. SUFFICES ASSUME modules # {} PROVE FALSE
    OBVIOUS
  <2>3. PICK m \in modules : rdeps[m] \cap modules = {}
    BY <1>1, <2>1, <2>2 DEF Inv, Acyclic
  <2>4. PICK p \in modules \cup {Core} : p \in rdeps[m] /\ m \in dependencies[p]
    BY <1>1, <2>1, HasDependent
  <2> QED BY <2>1, <2>3, <2>4
<1>2. ASSUME Inv, modules = {} PROVE handle = {} /\ timers = {}
  BY <1>2 DEF Inv, Table, TypeOK
<1>3. Inv => FreedClean
  BY <1>1, <1>2 DEF FreedClean
<1> QED BY <1>3, InvAlways, PTL

\* A loaded module has its dependencies loaded, and the dependency graph has
\* no cycle.
THEOREM GraphIsSound == Spec => []GraphSound
BY DependenciesLoaded, NoCycles, PTL DEF GraphSound

\* Whatever sequence of requests, revocations, forced unloads and failures
\* went before: between calls only what is needed is in the table, pending
\* timers belong to modules that are there, and freeModules leaves nothing.
THEOREM EverythingIsReleased == Spec => []EverythingReleased
BY NothingLeftBehind, FreeModulesAssertions, TimersAreOwned, PTL
   DEF EverythingReleased

\* A module in the table keeps its dependencies until it is taken out of the
\* table, so that what it depends on is never unloaded before it.
THEOREM DependenciesAreKept == Spec => DependenciesKept
<1> DEFINE Keeps == \A p \in modules \cap modules' :
                      dependencies[p] \subseteq dependencies'[p]
<1>1. ASSUME Inv, [Next]_vars PROVE Keeps
  <2> SUFFICES ASSUME NEW p \in modules, p \in modules'
               PROVE  dependencies[p] \subseteq dependencies'[p]
    OBVIOUS
  <2>1. p \in Modules /\ p \in Owners /\ p # Core
    BY <1>1, ModulesAssumption DEF Inv, TypeOK, Owners
  <2>2. ASSUME NEW q, NEW m, AddEdge(q, m)
        PROVE  dependencies[p] \subseteq dependencies'[p]
    BY <1>1, <2>1, <2>2 DEF AddEdge, Inv, TypeOK
  <2>3. ASSUME NEW q \in Owners, q \notin modules, NEW m,
               dependencies' = [dependencies EXCEPT ![q] = @ \ {m}]
        PROVE  dependencies[p] \subseteq dependencies'[p]
    BY <1>1, <2>1, <2>3 DEF Inv, TypeOK
  <2>4. Core \in Owners /\ Core \notin modules
    BY <1>1, ModulesAssumption DEF Inv, TypeOK, Owners
  <2>5. ASSUME NEW q \in Owners, NEW m \in Modules, UnneedDependency(q, m)
        PROVE  dependencies[p] \subseteq dependencies'[p]
    <3>1. unloading \in Seq(Owners) /\ unloading # <<>> /\ q = Top(unloading)
      BY <1>1, <2>5 DEF UnneedDependency, Inv, TypeOK
    <3>2. Len(unloading) \in Nat \ {0}
      BY <3>1, PopFacts
    <3>3. q \notin modules
      BY <1>1, <3>1, <3>2 DEF Top, Inv, UnloadingStack
    <3> QED BY <2>3, <2>5, <3>3 DEF UnneedDependency
  <2>6. ASSUME NEW m \in Modules,
               \/ RequestLoaded(m) \/ NeedLoaded(m) \/ InitSucceeds(m)
        PROVE  dependencies[p] \subseteq dependencies'[p]
    BY <2>2, <2>6 DEF RequestLoaded, NeedLoaded, TakeReference, InitSucceeds
  <2>7. ASSUME NEW c \in RuntimeCalls,
               AddModuleRuntimeDependency(c[1], c[2], c[3])
        PROVE  dependencies[p] \subseteq dependencies'[p]
    BY <2>2, <2>7 DEF AddModuleRuntimeDependency
  <2>8. ASSUME ForceRevoke \/ \E m \in Modules : RevokeModule(m)
        PROVE  dependencies[p] \subseteq dependencies'[p]
    BY <2>3, <2>4, <2>8 DEF ForceRevoke, RevokeModule
  <2>9. ASSUME \/ UNCHANGED vars \/ Terminated \/ FreeModules \/ ForceDone
               \/ \E m \in Modules :
                    \/ RequestAbsent(m) \/ RequestFails(m)
                    \/ ForceUnloadModule(m) \/ AddTimer(m) \/ TimersDone(m)
                    \/ NeedAbsent(m) \/ NeedFails(m) \/ StartInit(m)
                    \/ StartInitFails(m) \/ Abandon(m) \/ InitFails(m)
                    \/ ForceNext(m)
               \/ \E q \in Owners : UnneedDone(q)
        PROVE  dependencies[p] \subseteq dependencies'[p]
    <3>1. UNCHANGED dependencies
      BY <2>9 DEF vars, tables, Terminated, FreeModules, ForceDone,
                  RequestAbsent, RequestFails, ForceUnloadModule, AddTimer,
                  TimersDone, NeedAbsent, NeedFails, StartInit,
                  StartInitFails, Abandon, InitFails, ForceNext, UnneedDone,
                  CreateModule
    <3> QED BY <3>1
  <2> QED BY <1>1, <2>5, <2>6, <2>7, <2>8, <2>9
          DEF Next, LoadStep, InitReturns, UnneedStep, ForceStep
<1>2. Inv /\ [Next]_vars => [Keeps]_vars
  BY <1>1
<1> QED BY <1>2, InvAlways, PTL DEF Spec, DependenciesKept

=============================================================================
