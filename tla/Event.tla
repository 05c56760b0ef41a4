------------------------------- MODULE Event --------------------------------
(***************************************************************************)
(* The event module (src/src/modules/event/event.c): queues of listeners,  *)
(* one per subject and event, that triggerEvent calls in their order.      *)
(*                                                                         *)
(* A listener may attach and detach listeners and trigger events itself,   *)
(* so the triggerEvent calls under way form a stack.  A recursive mutex is *)
(* held from the outermost call to its end; other threads wait meanwhile.  *)
(*                                                                         *)
(* A listener function together with its custom data is one value; an      *)
(* EventListenerEntry has a number that stands for its address.            *)
(***************************************************************************)
EXTENDS Integers, Sequences, SequencesExt

CONSTANTS
  Threads,      \* the threads that use events
  Subjects,
  Events,       \* event names, among them the next two
  Attached,     \* "listener_attached"
  Detached,     \* "listener_detached"
  Listeners,    \* pairs of a function and its custom data
  Priorities,   \* priorities that listeners are attached with
  IntRange,     \* an int holds the values -IntRange .. IntRange - 1
  MaxEntries,   \* bound on the number of entries ever allocated
  MaxTriggers,  \* bound on the number of triggerEvent calls that find listeners
  MaxNesting,   \* bound on the nesting of triggerEvent calls
  DetachPending \* TRUE iff listeners are detached that a triggerEvent call
                \* under way has still to call

NoThread == "none"

ASSUME EventAssumption ==
  /\ Attached \in Events /\ Detached \in Events /\ Attached # Detached
  /\ NoThread \notin Threads
  /\ IntRange \in Nat \ {0}
  /\ Priorities \subseteq (-IntRange)..(IntRange - 1)
  /\ MaxEntries \in Nat /\ MaxTriggers \in Nat /\ MaxNesting \in Nat
  /\ DetachPending \in BOOLEAN

LOWEST == -IntRange
HIGHEST == IntRange - 1

VARIABLES
  queue,      \* queue[<<s, e>>]: the entries, <<>> if there is no queue
  allocated,  \* the number of entries allocated so far
  freed,      \* the entries that were freed
  owner,      \* the thread that holds the mutex, or NoThread
  calls,      \* the triggerEvent calls under way, innermost last
  triggers    \* the number of triggerEvent calls so far

vars == <<queue, allocated, freed, owner, calls, triggers>>

Entry == [id : Nat \ {0}, listener : Listeners, priority : Int]

\* What triggerEvent works with: its copy of the queue, the number of entries
\* called so far and whether the last of them is running.
TriggerCall == [id : Nat, subject : Subjects, event : Events, list : Seq(Entry),
                counter : Nat, running : BOOLEAN]

TypeOK ==
  /\ queue \in [Subjects \X Events -> Seq(Entry)]
  /\ allocated \in Nat
  /\ freed \subseteq 1..allocated
  /\ owner \in Threads \cup {NoThread}
  /\ calls \in Seq(TriggerCall)
  /\ triggers \in Nat

Init ==
  /\ queue = [q \in Subjects \X Events |-> <<>>]
  /\ allocated = 0 /\ freed = {}
  /\ owner = NoThread /\ calls = <<>> /\ triggers = 0

-----------------------------------------------------------------------------
AsInt(x) == ((x + IntRange) % (2 * IntRange)) - IntRange

\* compareEventListeners: the difference of two ints is an int.
Compare(first, second) == AsInt(first.priority - second.priority)

\* Mutation: behind all entries.
InsertLast(q, entry) == Append(q, entry)

\* g_queue_insert_sorted: before the first entry that does not compare as
\* smaller, so that the last one attached comes first among equals.
InsertSorted(q, entry) ==
  LET smaller == {n \in 0..Len(q) : \A i \in 1..n : Compare(q[i], entry) < 0}
      n == CHOOSE n \in smaller : \A k \in smaller : k <= n
  IN InsertAt(q, n + 1, entry)

\* The position that the priority asks for.
Insert(q, entry) ==
  CASE entry.priority = LOWEST -> <<entry>> \o q
    [] entry.priority = HIGHEST -> Append(q, entry)
    [] OTHER -> InsertSorted(q, entry)

\* Entries that some triggerEvent call has still to call.
Pending == UNION {{calls[i].list[j].id : j \in (calls[i].counter + 1)..Len(calls[i].list)}
                    : i \in DOMAIN calls}

\* A thread without the mutex waits until it is free; the listener that runs
\* has it, and may call the module again.
MayCall(t) ==
  \/ owner = NoThread
  \/ owner = t /\ Last(calls).running

\* triggerEvent up to its loop, on the given queues: without listeners it
\* returns at once, and the outermost call gives the mutex back.
Trigger(t, s, e, queues) ==
  IF queues[<<s, e>>] = <<>>
    THEN UNCHANGED <<owner, calls, triggers>>
    ELSE /\ triggers < MaxTriggers /\ Len(calls) < MaxNesting
         /\ owner' = t
         /\ triggers' = triggers + 1
         /\ calls' = Append(calls, [id |-> triggers + 1, subject |-> s,
                                    event |-> e, list |-> queues[<<s, e>>],
                                    counter |-> 0, running |-> FALSE])

-----------------------------------------------------------------------------
AttachEventListener(t, s, e, priority, l) ==
  LET entry == [id |-> allocated + 1, listener |-> l, priority |-> priority]
      queues == [queue EXCEPT ![<<s, e>>] = Insert(@, entry)]
  IN /\ MayCall(t) /\ allocated < MaxEntries
     /\ allocated' = allocated + 1
     /\ queue' = queues
     /\ Trigger(t, s, Attached, queues)
     /\ UNCHANGED freed

\* The first entry of the listener is removed and freed.  Without such an
\* entry nothing happens, and no event is triggered.
DetachEventListener(t, s, e, l) ==
  LET q == queue[<<s, e>>]
      matches == {i \in DOMAIN q : q[i].listener = l}
      i == CHOOSE n \in matches : \A k \in matches : n <= k
      queues == [queue EXCEPT ![<<s, e>>] = RemoveAt(@, i)]
  IN /\ MayCall(t) /\ matches # {}
     /\ DetachPending \/ q[i].id \notin Pending
     /\ freed' = freed \cup {q[i].id}
     /\ queue' = queues
     /\ Trigger(t, s, Detached, queues)
     /\ UNCHANGED allocated

TriggerEvent(t, s, e) ==
  /\ MayCall(t) /\ queue[<<s, e>>] # <<>>
  /\ Trigger(t, s, e, queue)
  /\ UNCHANGED <<queue, allocated, freed>>

\* The next entry of the copied list is called.
Notify(t) ==
  LET c == Last(calls)
  IN /\ owner = t /\ ~c.running /\ c.counter < Len(c.list)
     /\ calls' = [calls EXCEPT ![Len(calls)].counter = @ + 1,
                               ![Len(calls)].running = TRUE]
     /\ UNCHANGED <<queue, allocated, freed, owner, triggers>>

ListenerReturns(t) ==
  /\ owner = t /\ Last(calls).running
  /\ calls' = [calls EXCEPT ![Len(calls)].running = FALSE]
  /\ UNCHANGED <<queue, allocated, freed, owner, triggers>>

\* Mutation: the mutex is not given back.
TriggerKeepsMutex(t) ==
  LET c == Last(calls)
  IN /\ owner = t /\ ~c.running /\ c.counter = Len(c.list)
     /\ calls' = IF Len(calls) = 1 THEN calls ELSE Front(calls)
     /\ UNCHANGED <<queue, allocated, freed, owner, triggers>>

\* The list is done: triggerEvent, and attachEventListener or
\* detachEventListener if they called it, return.
TriggerReturns(t) ==
  LET c == Last(calls)
  IN /\ owner = t /\ ~c.running /\ c.counter = Len(c.list)
     /\ calls' = Front(calls)
     /\ owner' = IF Len(calls) = 1 THEN NoThread ELSE owner
     /\ UNCHANGED <<queue, allocated, freed, triggers>>

\* The module is unloaded, and starts with empty tables if it is loaded again.
Finalize ==
  /\ owner = NoThread
  /\ queue' = [q \in Subjects \X Events |-> <<>>]
  /\ freed' = freed \cup UNION {{queue[q][i].id : i \in DOMAIN queue[q]}
                               : q \in Subjects \X Events}
  /\ UNCHANGED <<allocated, owner, calls, triggers>>

-----------------------------------------------------------------------------
TriggerStep(t) == Notify(t) \/ ListenerReturns(t) \/ TriggerReturns(t)

Next ==
  \/ Finalize
  \/ \E t \in Threads :
       \/ \E s \in Subjects, e \in Events :
            \/ \E l \in Listeners :
                 \/ \E priority \in Priorities :
                      AttachEventListener(t, s, e, priority, l)
                 \/ DetachEventListener(t, s, e, l)
            \/ TriggerEvent(t, s, e)
       \/ TriggerStep(t)

\* The thread that has the mutex goes on, and listeners return.
Fairness == \A t \in Threads : WF_vars(TriggerStep(t))

Spec == Init /\ [][Next]_vars
FairSpec == Spec /\ Fairness

-----------------------------------------------------------------------------
(* Properties                                                              *)

\* "The event listener with the lower priority will be called first"
\* (event.i): every queue, and what a triggerEvent call has to go through, is
\* in the order of the priorities, however listeners come and go.
Sorted(q) == \A i, j \in DOMAIN q : i < j => q[i].priority <= q[j].priority

Ordered ==
  /\ \A q \in Subjects \X Events : Sorted(queue[q])
  /\ \A i \in DOMAIN calls : Sorted(calls[i].list)

\* Every entry that was allocated is in exactly one place of one queue, or has
\* been freed: nothing leaks and no queue holds a freed entry.
EntriesAccounted ==
  LET places == UNION {{<<q, i>> : i \in DOMAIN queue[q]}
                         : q \in Subjects \X Events}
      EntryAt(p) == queue[p[1]][p[2]].id
  IN /\ {EntryAt(p) : p \in places} = (1..allocated) \ freed
     /\ \A p, r \in places : EntryAt(p) = EntryAt(r) => p = r

\* triggerEvent calls no listener of an entry that has been freed.  The copy of
\* the list that it makes "to make the event system reentrant" (event.c) is
\* meant for listeners that change the queue.
NoFreedEntryCalled ==
  \A i \in DOMAIN calls :
    ~calls[i].running /\ calls[i].counter < Len(calls[i].list)
      => calls[i].list[calls[i].counter + 1].id \notin freed

\* The mutex is held exactly as long as a triggerEvent call is under way, and
\* only the listener of the innermost call is running on its own.
MutexHeld ==
  /\ owner = NoThread <=> calls = <<>>
  /\ \A i \in DOMAIN calls : i < Len(calls) => calls[i].running

\* Nested triggers, and listeners that attach and detach, leave the queues and
\* the copies being walked in order, lose no entry and keep the mutex.
QueuesSound == TypeOK /\ Ordered /\ EntriesAccounted /\ MutexHeld

\* Every thread that waits gets its turn: the mutex is given back, whatever
\* the listeners do.
MutexReleased == owner # NoThread ~> owner = NoThread

=============================================================================
