---------------------------- MODULE TimersSafety ----------------------------
(***************************************************************************)
(* What the timers and the event loop promise to the modules that use them.*)
(***************************************************************************)
EXTENDS Timers

\* No timer is lost and none is called twice or after its deletion: as long
\* as the tree exists, every timer that addTimer accepted is in the tree, or
\* was called, or was deleted, and only one of the three.  Two timers for the
\* same time must not share a position of the tree, and the entry must leave
\* the tree before its callback, which may add and delete timers, is called.
Accounting ==
  /\ ~exiting => Pending \cup fired \cup deleted = 1..created
  /\ Pending \cap (fired \cup deleted) = {}
  /\ fired \cap deleted = {}
  /\ \A e, f \in timers : e.time = f.time \/ e.id = f.id => e = f

\* A callback is called no earlier than the time its owner asked for, although
\* its position in the tree may have tv_usec beyond a second.
NotEarly == loop \in {"call", "run"} => NotAfter(entry.due, now)

\* The entry that notifyTimerCallbacks works with is in the tree until it is
\* removed: the pointers it takes from the entry are those of a live entry.
EntryAlive == loop \in {"ready", "call"} => entry \in timers

\* No callback of a module is called after removeModuleTimers, which the
\* loader calls when it unloads the module and its code disappears.
NoCallAfterUnload ==
  /\ loop \in {"call", "run"} => entry.module \notin unloaded
  /\ \A e \in timers : e.module \notin unloaded

\* notifyTimerCallbacks finds a first entry whenever hasMoreTimerCallbacks
\* said that there is one ("this should never happen, though").
FirstEntryFound == loop = "first" => timers # {}

\* While callbacks add, delete and unload, the loop works with entries that
\* are in the tree, finds the ones it expects and calls none before its time.
LoopSound == EntryAlive /\ FirstEntryFound /\ NotEarly

\* notifyTimerCallbacks calls all timers that are ready: when it returns, no
\* timer at or before the time it took is left, also none that a callback
\* added meanwhile.
AllReadyCalled ==
  [][loop \notin {"startup", "check"} /\ loop' = "check"
       => \A e \in timers : Before(time, e.time)]_vars

\* A timer is called in the end, unless it is deleted or exitGracefully was
\* called: main does not return on its own before that.
TimersServed ==
  \A id \in 1..MaxTimers :
    id \in Pending ~>
      (id \in fired \cup deleted \/ (exiting /\ loop # "done"))

-----------------------------------------------------------------------------
(* The inductive invariant of the proofs.                                  *)

\* The entry that the loop found stays what it is while the loop works on it.
\* Only a signal can take it away, and destroys the whole tree then.
Looking ==
  /\ loop \in {"ready", "call", "run"} =>
       /\ entry \in Entry /\ entry.id \in 1..created
       /\ NotAfter(entry.due, entry.time)
       /\ entry.module \notin unloaded
  /\ loop \in {"ready", "call"} =>
       /\ entry.id \notin fired \cup deleted
       /\ entry \in timers \/ exiting
  /\ loop = "ready" => IsFirst(entry) \/ exiting

\* What a signal at the wrong moment breaks.
Undisturbed ==
  Signals = FALSE =>
    /\ EntryAlive /\ FirstEntryFound
    /\ loop \in {"call", "run"} => NotAfter(entry.time, time)

Inv ==
  /\ TypeOK
  /\ IsFiniteSet(timers) /\ Pending \subseteq 1..created
  /\ NotAfter(time, now)
  /\ exiting => timers = {}
  /\ \A e \in timers : NotAfter(e.due, e.time) /\ e.module \notin unloaded
  /\ Accounting
  /\ Looking
  /\ Undisturbed

=============================================================================
