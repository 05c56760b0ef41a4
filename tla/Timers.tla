------------------------------- MODULE Timers -------------------------------
(***************************************************************************)
(* The timers of the Kalisko core (src/src/timer.c) and the event loop of  *)
(* main (src/src/kalisko.c) that runs them.                                *)
(*                                                                         *)
(* Timers are kept in a tree ordered by their time, at most one per time:  *)
(* addTimer moves a new timer to the next free microsecond.  The event     *)
(* loop sleeps until the first timer is due and calls the callbacks of all *)
(* timers that are.  A callback, like the initializers that run before the *)
(* loop, may add and delete timers, unload a module or ask for the exit;   *)
(* the SIGINT handler may ask for the exit between any two steps.          *)
(*                                                                         *)
(* A time is a pair of seconds and microseconds, as in GTimeVal, and the   *)
(* clock advances on its own.  Callbacks and their data are represented by *)
(* a number that identifies the timer.                                     *)
(***************************************************************************)
EXTENDS Integers, FiniteSets

CONSTANTS
  Modules,      \* the modules that register timers
  UsecPerSec,   \* G_USEC_PER_SEC
  MinSleep,     \* MIN_SLEEP_TIME
  IntRange,     \* an int holds the values -IntRange .. IntRange - 1
  Timeouts,     \* arguments of addTimeout
  MaxTimers,    \* bound on the number of timers ever added
  MaxSec,       \* bound: only a sleep takes time once the clock has this second
  LastAdd,      \* bound: no timer is added once the clock has this second
  Signals       \* TRUE iff SIGINT is handled by the module sigint_exit

ASSUME TimersAssumption ==
  /\ UsecPerSec \in Nat \ {0}
  /\ MinSleep \in Nat
  /\ IntRange \in Nat \ {0}
  /\ Timeouts \subseteq Nat
  /\ MaxTimers \in Nat
  /\ MaxSec \in Nat /\ LastAdd \in Nat
  /\ Signals \in BOOLEAN

VARIABLES
  now,       \* the wall clock
  timers,    \* the entries of the tree
  exiting,   \* the tree has been destroyed: the pointer is NULL
  loop,      \* where main is
  time,      \* the time notifyTimerCallbacks took when it was called
  entry,     \* the entry that the loop looks at
  sleep,     \* when the sleep began, and when it ends
  created,   \* the number of timers added so far
  fired,     \* the timers whose callback was called
  deleted,   \* the timers deleted by delTimer or removeModuleTimers
  unloaded   \* the modules that have been unloaded

state == <<timers, exiting, created, deleted, unloaded>>
vars == <<now, loop, time, entry, sleep, fired, state>>

-----------------------------------------------------------------------------
\* The key of an entry may have tv_usec beyond a second, the clock never has.
GTimeVal == [tv_sec : Nat, tv_usec : Nat]
Clock == [tv_sec : Nat, tv_usec : 0..(UsecPerSec - 1)]
Entry == [time : GTimeVal, module : Modules, id : Nat \ {0}, due : Clock]
NoEntry == [id |-> 0]

Time(sec, usec) == [tv_sec |-> sec, tv_usec |-> usec]

\* compareTimes: seconds first, then microseconds.
Before(a, b) ==
  \/ a.tv_sec < b.tv_sec
  \/ a.tv_sec = b.tv_sec /\ a.tv_usec < b.tv_usec
NotAfter(a, b) == a = b \/ Before(a, b)

\* g_time_val_add
TimeAdd(t, usec) ==
  LET sum == t.tv_usec + usec
  IN Time(t.tv_sec + sum \div UsecPerSec, sum % UsecPerSec)

Usecs(t) == t.tv_sec * UsecPerSec + t.tv_usec

\* Assignment of a long to an int.
Int32(x) == ((x + IntRange) % (2 * IntRange)) - IntRange

Keys == {e.time : e \in timers}
Pending == {e.id : e \in timers}

\* Mutation: the position may be taken.
FreeTimeAny(t) == t

\* The first free position of the tree at or after t, where addTimer ends up
\* by incrementing tv_usec: the seconds are never carried.
FreeTime(t) ==
  LET At(n) == Time(t.tv_sec, t.tv_usec + n)
      free == CHOOSE n \in 0..Cardinality(timers) :
                /\ At(n) \notin Keys
                /\ \A k \in 0..(n - 1) : At(k) \in Keys
  IN At(free)

IsFirst(e) == e \in timers /\ \A f \in timers : NotAfter(e.time, f.time)

\* Mutation: the last timer does not count.
HasTwoTimers == ~exiting /\ Cardinality(timers) > 1

HasMoreTimerCallbacks == ~exiting /\ timers # {}

TypeOK ==
  /\ now \in Clock /\ time \in Clock
  /\ timers \subseteq Entry
  /\ exiting \in BOOLEAN
  /\ loop \in {"startup", "check", "nap", "sleep", "more", "first", "ready",
               "call", "run", "exit", "done"}
  /\ entry \in Entry \cup {NoEntry}
  /\ sleep \in [from : Nat, until : Nat]
  /\ created \in Nat
  /\ fired \subseteq 1..created /\ deleted \subseteq 1..created
  /\ unloaded \subseteq Modules

Init ==
  /\ now = Time(0, 0) /\ time = now
  /\ timers = {} /\ exiting = FALSE
  /\ loop = "startup"
  /\ entry = NoEntry
  /\ sleep = [from |-> 0, until |-> 0]
  /\ created = 0 /\ fired = {} /\ deleted = {} /\ unloaded = {}

-----------------------------------------------------------------------------
(* What initializers and callbacks do.                                     *)

Running == loop \in {"startup", "run"}

\* addTimeout and addTimer: with no tree, nothing is added.  g_tree_insert
\* would replace an entry with the same key.
AddTimeout(m, timeout) ==
  LET due == TimeAdd(now, timeout)
      free == FreeTime(due)
  IN /\ Running /\ m \notin unloaded
     /\ created < MaxTimers /\ now.tv_sec < LastAdd
     /\ ~exiting
     /\ created' = created + 1
     /\ timers' = {e \in timers : e.time # free}
                  \cup {[time |-> free, module |-> m, id |-> created + 1,
                         due |-> due]}
     /\ UNCHANGED <<now, exiting, loop, time, entry, sleep, fired, deleted,
                    unloaded>>

\* delTimer of a timer that has not been called yet: its owner drops the
\* pointer when the callback is called, as ircpp_keepalive does.
DelTimer(e) ==
  /\ Running /\ e \in timers
  /\ timers' = timers \ {e}
  /\ deleted' = deleted \cup {e.id}
  /\ UNCHANGED <<now, exiting, loop, time, entry, sleep, created, fired,
                 unloaded>>

\* Mutation: the timers of the module stay.
UnloadOnly(m) ==
  /\ Running /\ m \notin unloaded
  /\ loop = "run" => m # entry.module
  /\ unloaded' = unloaded \cup {m}
  /\ UNCHANGED <<now, timers, exiting, loop, time, entry, sleep, created,
                 fired, deleted>>

\* A module is unloaded, which ends with removeModuleTimers.  The module
\* whose callback is running is never unloaded (module_util takes care).
RemoveModuleTimers(m) ==
  /\ Running /\ m \notin unloaded
  /\ loop = "run" => m # entry.module
  /\ unloaded' = unloaded \cup {m}
  /\ timers' = {e \in timers : e.module # m}
  /\ deleted' = deleted \cup {e.id : e \in {f \in timers : f.module = m}}
  /\ UNCHANGED <<now, exiting, loop, time, entry, sleep, created, fired>>

\* exitGracefully destroys the tree with all the timers in it.
ExitGracefully ==
  /\ ~exiting
  /\ Running \/ Signals
  /\ exiting' = TRUE
  /\ timers' = {}
  /\ UNCHANGED <<now, loop, time, entry, sleep, created, fired, deleted,
                 unloaded>>

-----------------------------------------------------------------------------
(* main                                                                    *)

EnterLoop ==
  /\ loop = "startup"
  /\ loop' = "check"
  /\ UNCHANGED <<now, time, entry, sleep, fired, state>>

\* getNextTimerTime, which is zero if there is no timer (any more).
NextTimerTime ==
  IF timers = {} THEN Time(0, 0) ELSE (CHOOSE e \in timers : IsFirst(e)).time

\* getCurrentSleepTime: the difference is computed in ints.
CurrentSleepTime ==
  LET seconds == Int32((NextTimerTime.tv_sec - now.tv_sec) * UsecPerSec)
      sum == Int32(seconds + (NextTimerTime.tv_usec - now.tv_usec))
  IN IF sum > 0 THEN sum ELSE 0

\* The loop's condition.
Check ==
  /\ loop = "check"
  /\ loop' = IF HasMoreTimerCallbacks THEN "nap" ELSE "exit"
  /\ UNCHANGED <<now, time, entry, sleep, fired, state>>

\* getCurrentSleepTime is called and the sleep begins.
StartSleep ==
  /\ loop = "nap"
  /\ loop' = "sleep"
  /\ sleep' = [from |-> Usecs(now),
               until |-> Usecs(now) + IF CurrentSleepTime < MinSleep
                                      THEN MinSleep ELSE CurrentSleepTime]
  /\ UNCHANGED <<now, time, entry, fired, state>>

\* g_usleep returns, and notifyTimerCallbacks takes the time.
WakeUp ==
  /\ loop = "sleep" /\ Usecs(now) >= sleep.until
  /\ loop' = "more"
  /\ time' = now
  /\ UNCHANGED <<now, entry, sleep, fired, state>>

\* The condition of the loop in notifyTimerCallbacks.
More ==
  /\ loop = "more"
  /\ loop' = IF HasMoreTimerCallbacks THEN "first" ELSE "check"
  /\ entry' = NoEntry
  /\ UNCHANGED <<now, time, sleep, fired, state>>

\* g_tree_foreach finds the first entry, or none in a tree that is gone.
FindFirst ==
  /\ loop = "first"
  /\ entry' \in IF timers = {} THEN {NoEntry} ELSE {e \in timers : IsFirst(e)}
  /\ loop' = IF timers = {} THEN "check" ELSE "ready"
  /\ UNCHANGED <<now, time, sleep, fired, state>>

\* Mutation: the entry is not compared with the time.
AlwaysReady ==
  /\ loop = "ready"
  /\ loop' = "call"
  /\ UNCHANGED <<now, time, entry, sleep, fired, state>>

\* The entry is compared with the time, and its values are saved.  If the
\* tree was destroyed meanwhile, what is compared is freed memory.
CheckReady ==
  /\ loop = "ready"
  /\ loop' \in IF entry \notin timers THEN {"call", "check"}
               ELSE IF NotAfter(entry.time, time) THEN {"call"} ELSE {"check"}
  /\ UNCHANGED <<now, time, entry, sleep, fired, state>>

\* The entry is removed from the tree and its callback is called.
Call ==
  /\ loop = "call"
  /\ loop' = "run"
  /\ timers' = timers \ {entry}
  /\ fired' = fired \cup {entry.id}
  /\ UNCHANGED <<now, exiting, time, entry, sleep, created, deleted, unloaded>>

\* Mutation: one callback is called per sleep.
OneCallback ==
  /\ loop = "run"
  /\ loop' = "check"
  /\ UNCHANGED <<now, time, entry, sleep, fired, state>>

CallbackReturns ==
  /\ loop = "run"
  /\ loop' = "more"
  /\ UNCHANGED <<now, time, entry, sleep, fired, state>>

\* freeModules and freeTimers: no module and no tree is left.
FreeTimers ==
  /\ loop = "exit"
  /\ loop' = "done"
  /\ exiting' = TRUE /\ timers' = {}
  /\ unloaded' = Modules
  /\ UNCHANGED <<now, time, entry, sleep, created, fired, deleted>>

Terminated == loop = "done" /\ UNCHANGED vars

\* The clock advances by a microsecond; main may take as long as it wants for
\* each step, up to the bound.
Tick ==
  /\ \/ loop = "sleep" /\ Usecs(now) < sleep.until
     \/ loop # "done" /\ now.tv_sec < MaxSec
  /\ now' = TimeAdd(now, 1)
  /\ UNCHANGED <<loop, time, entry, sleep, fired, state>>

-----------------------------------------------------------------------------
MainStep ==
  \/ EnterLoop \/ Check \/ StartSleep \/ WakeUp \/ More \/ FindFirst
  \/ CheckReady \/ Call \/ CallbackReturns \/ FreeTimers

Next ==
  \/ \E m \in Modules :
       RemoveModuleTimers(m) \/ \E t \in Timeouts : AddTimeout(m, t)
  \/ \E e \in timers : DelTimer(e)
  \/ ExitGracefully
  \/ MainStep
  \/ Tick
  \/ Terminated

\* The clock runs, and main goes on: a callback returns in the end.
Fairness == WF_vars(MainStep) /\ WF_vars(Tick)

Spec == Init /\ [][Next]_vars
FairSpec == Spec /\ Fairness

=============================================================================
