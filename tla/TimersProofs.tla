---------------------------- MODULE TimersProofs ----------------------------
(***************************************************************************)
(* Proofs about the timers, for all modules, timeouts, widths of an int    *)
(* and lengths of a second.                                                *)
(***************************************************************************)
EXTENDS TimersSafety, FiniteSetTheorems, WellFoundedInduction, TLAPS

-----------------------------------------------------------------------------
(* compareTimes orders the times.                                          *)

\* compareTimes is transitive.
LEMMA NotAfterTransitive ==
  ASSUME NEW a \in GTimeVal, NEW b \in GTimeVal, NEW c \in GTimeVal,
         NotAfter(a, b), NotAfter(b, c)
  PROVE  NotAfter(a, c)
BY DEF NotAfter, Before, GTimeVal

\* compareTimes is total.
LEMMA BeforeTotal ==
  ASSUME NEW a \in GTimeVal, NEW b \in GTimeVal, ~NotAfter(a, b)
  PROVE  Before(b, a)
BY DEF NotAfter, Before, GTimeVal

\* A time of the clock is a GTimeVal.
LEMMA ClockTime == Clock \subseteq GTimeVal
BY TimersAssumption DEF Clock, GTimeVal

\* g_time_val_add yields a time with less than a second of microseconds.
LEMMA TimeAddType ==
  ASSUME NEW t \in Clock, NEW usec \in Nat
  PROVE  TimeAdd(t, usec) \in Clock
<1> DEFINE sum == t.tv_usec + usec
<1>1. t.tv_sec \in Nat /\ sum \in Nat
  BY TimersAssumption DEF Clock
<1>2. sum \div UsecPerSec \in Nat /\ sum % UsecPerSec \in 0..(UsecPerSec - 1)
  BY <1>1, TimersAssumption
<1> HIDE DEF sum
<1>3. t.tv_sec + sum \div UsecPerSec \in Nat
  BY <1>1, <1>2
<1> QED BY <1>2, <1>3 DEF TimeAdd, Time, Clock, sum

\* The clock does not run backwards.
LEMMA TickForward ==
  ASSUME NEW t \in Clock
  PROVE  NotAfter(t, TimeAdd(t, 1))
<1> DEFINE sum == t.tv_usec + 1
<1>1. t.tv_sec \in Nat /\ t.tv_usec \in Nat /\ t.tv_usec < UsecPerSec
      /\ sum \in Nat /\ UsecPerSec \in Nat /\ UsecPerSec > 0
  BY TimersAssumption DEF Clock
<1>2. CASE sum < UsecPerSec
  <2>1. sum \div UsecPerSec = 0 /\ sum % UsecPerSec = sum
    BY <1>1, <1>2
  <2> QED BY <1>1, <2>1 DEF TimeAdd, Time, NotAfter, Before
<1>3. CASE sum >= UsecPerSec
  <2>1. sum = UsecPerSec
    BY <1>1, <1>3
  <2>2. sum \div UsecPerSec = 1
    BY <1>1, <2>1
  <2> QED BY <1>1, <2>2 DEF TimeAdd, Time, NotAfter, Before
<1> QED BY <1>1, <1>2, <1>3

-----------------------------------------------------------------------------
(* addTimer finds a free position of the tree.                             *)

\* A set of numbers has a least element.
LEMMA LeastNatural ==
  ASSUME NEW S, S \subseteq Nat, S # {}
  PROVE  \E n \in S : \A k \in S : n <= k
<1> DEFINE Less == {ss \in Nat \X Nat : ss[1] < ss[2]}
<1>1. IsWellFoundedOn(Less, Nat)
  BY NatLessThanWellFounded DEF OpToRel
<1>2. PICK n \in S : \A k \in S : ~(<<k, n>> \in Less)
  <2> HIDE DEF Less
  <2> QED BY <1>1, WFMin
<1>3. \A k \in S : ~(k < n)
  BY <1>2
<1> QED BY <1>3

\* The search of addTimer ends at a position at or after the time asked for
\* that no other timer has.
LEMMA FreeTimeFacts ==
  ASSUME NEW t \in Clock, IsFiniteSet(timers), timers \subseteq Entry
  PROVE  /\ FreeTime(t) \in GTimeVal
         /\ FreeTime(t) \notin Keys
         /\ NotAfter(t, FreeTime(t))
<1> DEFINE At(n) == Time(t.tv_sec, t.tv_usec + n)
           Size == Cardinality(timers)
           Free == {n \in 0..Size : At(n) \notin Keys}
<1>1. Size \in Nat /\ t.tv_sec \in Nat /\ t.tv_usec \in Nat
  BY FS_CardinalityType, TimersAssumption DEF Clock
<1>2. \A n, k \in Nat : At(n) = At(k) => n = k
  BY <1>1 DEF Time
<1>3. Free # {}
  <2> SUFFICES ASSUME Free = {} PROVE FALSE
    OBVIOUS
  <2> DEFINE f == [n \in 0..Size |-> CHOOSE e \in timers : e.time = At(n)]
  <2>1. \A n \in 0..Size : \E e \in timers : e.time = At(n)
    BY DEF Keys
  <2>2. \A n \in 0..Size : f[n] \in timers /\ f[n].time = At(n)
    BY <2>1
  <2>3. f \in [0..Size -> timers]
    BY <2>2
  <2>4. IsFiniteSet(0..Size) /\ Cardinality(0..Size) = Size + 1
    BY FS_Interval, <1>1
  <2>5. Cardinality(timers) < Cardinality(0..Size)
    BY <2>4, <1>1
  <2>6. \E x, y \in 0..Size : x # y /\ f[x] = f[y]
    <3> DEFINE S == 0..Size
    <3>1. IsFiniteSet(S) /\ Cardinality(timers) < Cardinality(S)
          /\ f \in [S -> timers]
      BY <2>3, <2>4, <2>5
    <3> HIDE DEF S, f
    <3>2. \E x, y \in S : x # y /\ f[x] = f[y]
      BY ONLY <3>1, FS_PigeonHole, IsFiniteSet(timers)
    <3> QED BY <3>2 DEF S
  <2> HIDE DEF f
  <2> QED BY <2>6, <2>2, <1>1, <1>2
<1>4. PICK n \in Free : \A k \in Free : n <= k
  <2>1. Free \subseteq Nat
    BY <1>1
  <2> HIDE DEF Free
  <2> QED BY <1>3, <2>1, LeastNatural
<1>5. \A k \in 0..(n - 1) : At(k) \in Keys
  BY <1>1, <1>4
<1>6. \E m \in 0..Size : At(m) \notin Keys /\ \A k \in 0..(m - 1) : At(k) \in Keys
  BY <1>4, <1>5
<1> DEFINE free == CHOOSE m \in 0..Size :
              At(m) \notin Keys /\ \A k \in 0..(m - 1) : At(k) \in Keys
<1>7. free \in 0..Size /\ At(free) \notin Keys
  BY <1>6
<1>8. FreeTime(t) = At(free)
  BY DEF FreeTime
<1> HIDE DEF free
<1>9. At(free) \in GTimeVal /\ NotAfter(t, At(free))
  BY <1>1, <1>7 DEF GTimeVal, Time, NotAfter, Before, Clock
<1> QED BY <1>7, <1>8, <1>9

-----------------------------------------------------------------------------
(* Every step preserves the invariant.                                     *)

\* The invariant holds when main starts.
LEMMA InitInv == Init => Inv
<1> SUFFICES ASSUME Init PROVE Inv
  OBVIOUS
<1>1. Time(0, 0) \in Clock
  BY TimersAssumption DEF Time, Clock
<1>2. TypeOK
  BY <1>1 DEF Init, TypeOK
<1>3. IsFiniteSet(timers)
  BY FS_EmptySet DEF Init
<1>4. Accounting
  BY DEF Init, Accounting, Pending
<1> QED BY <1>2, <1>3, <1>4 DEF Init, Inv, Looking, Undisturbed, EntryAlive,
           FirstEntryFound, NotAfter, Pending

\* addTimeout keeps the timers that are in the tree: the new one takes a
\* position of its own.
LEMMA AddTimeoutInv ==
  ASSUME Inv, NEW m \in Modules, NEW timeout \in Timeouts,
         AddTimeout(m, timeout)
  PROVE  Inv'
<1> DEFINE due == TimeAdd(now, timeout)
           free == FreeTime(due)
           new == [time |-> free, module |-> m, id |-> created + 1, due |-> due]
<1>1. due \in Clock
  BY TimeAddType, TimersAssumption DEF Inv, TypeOK
<1>2. free \in GTimeVal /\ free \notin Keys /\ NotAfter(due, free)
  <2> HIDE DEF due
  <2> QED BY <1>1, FreeTimeFacts DEF Inv, TypeOK
<1>3. timers' = timers \cup {new}
  <2>1. {e \in timers : e.time # free} = timers
    BY <1>2 DEF Keys
  <2> QED BY <2>1 DEF AddTimeout
<1>4. created \in Nat /\ created' = created + 1 /\ 1..created' = (1..created) \cup {created'}
  BY DEF AddTimeout, Inv, TypeOK
<1>5. new \in Entry /\ new.id = created' /\ new.time = free /\ new.due = due
      /\ new.module = m
  <2> HIDE DEF due, free
  <2> QED BY <1>1, <1>2, <1>4 DEF Entry
<1> HIDE DEF new, due, free
<1>6. UNCHANGED <<now, exiting, loop, time, entry, sleep, fired, deleted, unloaded>>
      /\ ~exiting /\ loop \in {"startup", "run"} /\ m \notin unloaded
  BY DEF AddTimeout, Running
<1>7. TypeOK'
  BY <1>3, <1>4, <1>5, <1>6 DEF Inv, TypeOK
<1>8. IsFiniteSet(timers')
  BY <1>3, FS_AddElement DEF Inv
<1>9. Pending' = Pending \cup {created'}
  BY <1>3, <1>5 DEF Pending
<1>10. created' \notin Pending \cup fired \cup deleted
  BY <1>4 DEF Inv, TypeOK
<1>11. Accounting'
  <2>1. \A e, f \in timers' : e.time = f.time \/ e.id = f.id => e = f
    <3> SUFFICES ASSUME NEW e \in timers', NEW f \in timers',
                        e.time = f.time \/ e.id = f.id
                 PROVE  e = f
      OBVIOUS
    <3>1. \A g \in timers : g.time # new.time /\ g.id # new.id
      BY <1>2, <1>5, <1>10 DEF Keys, Pending
    <3> QED BY <1>3, <3>1 DEF Inv, Accounting
  <2> QED BY <2>1, <1>4, <1>6, <1>9, <1>10 DEF Inv, Accounting
<1>12. \A e \in timers' : NotAfter(e.due, e.time) /\ e.module \notin unloaded'
  BY <1>2, <1>3, <1>5, <1>6 DEF Inv
<1>13. Looking' /\ Undisturbed'
  BY <1>4, <1>6 DEF Inv, Looking, Undisturbed, EntryAlive, FirstEntryFound, TypeOK
<1> QED BY <1>4, <1>6, <1>7, <1>8, <1>9, <1>11, <1>12, <1>13 DEF Inv

\* Timers leave the tree: by delTimer, removeModuleTimers or the event loop.
\* What does not depend on the event loop is preserved.
LEMMA RemoveFacts ==
  ASSUME Inv, timers' \subseteq timers,
         UNCHANGED <<created, exiting>>,
         (fired \cup deleted)' = fired \cup deleted \cup {e.id : e \in timers \ timers'},
         fired' \cap deleted' = {}
  PROVE  /\ IsFiniteSet(timers')
         /\ Pending' \subseteq 1..created'
         /\ Accounting'
<1>1. IsFiniteSet(timers')
  BY FS_Subset DEF Inv
<1>2. Pending' \subseteq Pending /\ Pending = Pending' \cup {e.id : e \in timers \ timers'}
  BY DEF Pending
<1>3. Pending' \cap {e.id : e \in timers \ timers'} = {}
  BY DEF Pending, Inv, Accounting
<1>4. Accounting'
  <2>1. ~exiting' => Pending' \cup fired' \cup deleted' = 1..created'
    BY <1>2 DEF Inv, Accounting
  <2>2. Pending' \cap (fired' \cup deleted') = {}
    BY <1>2, <1>3 DEF Inv, Accounting
  <2> QED BY <2>1, <2>2 DEF Inv, Accounting
<1> QED BY <1>1, <1>2, <1>4 DEF Inv

\* delTimer.
LEMMA DelTimerInv ==
  ASSUME Inv, NEW e \in timers, DelTimer(e)
  PROVE  Inv'
<1>1. timers' \subseteq timers /\ timers \ timers' = {e} /\ deleted' = deleted \cup {e.id}
      /\ UNCHANGED <<now, exiting, loop, time, entry, sleep, created, fired, unloaded>>
      /\ loop \in {"startup", "run"}
  BY DEF DelTimer, Running
<1>2. e.id \in 1..created /\ e.id \notin fired
  BY DEF Inv, Accounting, Pending
<1>3. IsFiniteSet(timers') /\ Pending' \subseteq 1..created' /\ Accounting'
  <2>1. {f.id : f \in timers \ timers'} = {e.id}
    BY <1>1
  <2>2. fired' \cap deleted' = {}
    BY <1>1, <1>2 DEF Inv, Accounting
  <2> QED BY <1>1, <2>1, <2>2, RemoveFacts
<1>4. TypeOK'
  BY <1>1, <1>2 DEF Inv, TypeOK
<1>5. Looking' /\ Undisturbed'
  BY <1>1 DEF Inv, Looking, Undisturbed, EntryAlive, FirstEntryFound
<1> QED BY <1>1, <1>3, <1>4, <1>5 DEF Inv

\* removeModuleTimers, when a module is unloaded.
LEMMA RemoveModuleTimersInv ==
  ASSUME Inv, NEW m \in Modules, RemoveModuleTimers(m)
  PROVE  Inv'
<1> DEFINE gone == {f \in timers : f.module = m}
<1>1. timers' \subseteq timers /\ timers \ timers' = gone
      /\ deleted' = deleted \cup {e.id : e \in gone}
      /\ unloaded' = unloaded \cup {m}
      /\ UNCHANGED <<now, exiting, loop, time, entry, sleep, created, fired>>
      /\ loop \in {"startup", "run"} /\ (loop = "run" => m # entry.module)
  BY DEF RemoveModuleTimers, Running
<1>2. \A e \in timers' : e.module # m
  BY DEF RemoveModuleTimers
<1>3. {e.id : e \in gone} \subseteq 1..created /\ {e.id : e \in gone} \cap fired = {}
  BY DEF Inv, Accounting, Pending
<1> HIDE DEF gone
<1>4. IsFiniteSet(timers') /\ Pending' \subseteq 1..created' /\ Accounting'
  <2>1. fired' \cap deleted' = {}
    BY <1>1, <1>3 DEF Inv, Accounting
  <2> QED BY <1>1, <2>1, RemoveFacts
<1>5. TypeOK'
  BY <1>1, <1>3 DEF Inv, TypeOK
<1>6. Looking' /\ Undisturbed'
  BY <1>1 DEF Inv, Looking, Undisturbed, EntryAlive, FirstEntryFound
<1> QED BY <1>1, <1>2, <1>4, <1>5, <1>6 DEF Inv

\* exitGracefully, called by a callback or by the signal handler, and
\* freeTimers: the tree is destroyed.
LEMMA DestroyInv ==
  ASSUME Inv, ExitGracefully \/ FreeTimers
  PROVE  Inv'
<1>1. timers' = {} /\ exiting' = TRUE
      /\ UNCHANGED <<now, time, entry, sleep, created, fired, deleted>>
  BY DEF ExitGracefully, FreeTimers
<1>2. \/ loop' = loop /\ unloaded' = unloaded
         /\ (loop \in {"startup", "run"} \/ Signals = TRUE)
      \/ loop' = "done" /\ unloaded' = Modules
  BY TimersAssumption DEF ExitGracefully, FreeTimers, Running
<1>3. TypeOK'
  BY <1>1, <1>2 DEF Inv, TypeOK
<1>4. IsFiniteSet(timers') /\ Pending' = {}
  BY <1>1, FS_EmptySet DEF Pending
<1>5. Accounting'
  BY <1>1, <1>4 DEF Inv, Accounting
<1>6. Looking'
  BY <1>1, <1>2 DEF Inv, Looking
<1>7. Undisturbed'
  BY <1>1, <1>2 DEF Inv, Undisturbed, EntryAlive, FirstEntryFound
<1> QED BY <1>1, <1>3, <1>4, <1>5, <1>6, <1>7 DEF Inv

\* A step that only moves main, or the clock, forward preserves what the
\* invariant says of the tree.
LEMMA FrameFacts ==
  ASSUME Inv, UNCHANGED <<state, fired>>
  PROVE  /\ IsFiniteSet(timers') /\ Pending' \subseteq 1..created'
         /\ exiting' => timers' = {}
         /\ \A e \in timers' : NotAfter(e.due, e.time) /\ e.module \notin unloaded'
         /\ Accounting'
BY DEF Inv, state, Pending, Accounting

\* The clock.
LEMMA TickInv == Inv /\ Tick => Inv'
<1> SUFFICES ASSUME Inv, Tick PROVE Inv'
  OBVIOUS
<1>1. now' = TimeAdd(now, 1) /\ now \in Clock /\ time \in Clock
      /\ UNCHANGED <<loop, time, entry, sleep, fired, state>>
  BY DEF Tick, Inv, TypeOK
<1>2. now' \in Clock /\ NotAfter(now, now')
  BY <1>1, TimeAddType, TickForward
<1>3. NotAfter(time', now')
  BY <1>1, <1>2, ClockTime, NotAfterTransitive DEF Inv
<1>4. TypeOK'
  BY <1>1, <1>2 DEF Inv, TypeOK, state
<1>5. Looking' /\ Undisturbed'
  BY <1>1 DEF Inv, Looking, Undisturbed, EntryAlive, FirstEntryFound, IsFirst, state
<1> QED BY <1>1, <1>3, <1>4, <1>5, FrameFacts DEF Inv

\* A tree with an entry has a first entry.
LEMMA FirstExists ==
  ASSUME timers \subseteq Entry, timers # {}
  PROVE  \E e \in timers : IsFirst(e)
<1> DEFINE Secs == {e.time.tv_sec : e \in timers}
<1>1. \A e \in timers : e.time \in GTimeVal /\ e.time.tv_sec \in Nat
                       /\ e.time.tv_usec \in Nat
  BY DEF Entry, GTimeVal
<1>2. PICK s \in Secs : \A k \in Secs : s <= k
  <2>1. Secs \subseteq Nat /\ Secs # {}
    BY <1>1
  <2> HIDE DEF Secs
  <2> QED BY <2>1, LeastNatural
<1> DEFINE Usec == {e.time.tv_usec : e \in {f \in timers : f.time.tv_sec = s}}
<1>3. PICK u \in Usec : \A k \in Usec : u <= k
  <2>1. Usec \subseteq Nat /\ Usec # {}
    BY <1>1
  <2> HIDE DEF Usec
  <2> QED BY <2>1, LeastNatural
<1>4. PICK e \in timers : e.time.tv_sec = s /\ e.time.tv_usec = u
  OBVIOUS
<1>5. ASSUME NEW f \in timers PROVE NotAfter(e.time, f.time)
  <2>1. s <= f.time.tv_sec
    BY <1>2
  <2>2. f.time.tv_sec = s => u <= f.time.tv_usec
    BY <1>3
  <2>3. e.time = f.time \/ e.time.tv_sec # f.time.tv_sec
        \/ e.time.tv_usec # f.time.tv_usec
    BY <1>1 DEF GTimeVal
  <2> QED BY <1>1, <1>4, <2>1, <2>2, <2>3 DEF NotAfter, Before
<1> QED BY <1>5 DEF IsFirst

\* The sleep of the event loop has a length.
LEMMA StartSleepType ==
  ASSUME TypeOK, StartSleep
  PROVE  sleep' \in [from : Nat, until : Nat]
<1>1. Usecs(now) \in Nat
  BY TimersAssumption DEF TypeOK, Clock, Usecs
<1>2. NextTimerTime.tv_sec \in Int /\ NextTimerTime.tv_usec \in Int
  <2>1. CASE timers = {}
    BY <2>1 DEF NextTimerTime, Time
  <2>2. CASE timers # {}
    <3>1. (CHOOSE e \in timers : IsFirst(e)) \in timers
      BY <2>2, FirstExists DEF TypeOK
    <3> QED BY <2>2, <3>1 DEF NextTimerTime, TypeOK, Entry, GTimeVal
  <2> QED BY <2>1, <2>2
<1>3. \A x \in Int : Int32(x) \in Int
  BY TimersAssumption DEF Int32
<1>4. now.tv_sec \in Int /\ now.tv_usec \in Int /\ UsecPerSec \in Int
      /\ MinSleep \in Nat
  BY TimersAssumption DEF TypeOK, Clock
<1>5. CurrentSleepTime \in Nat
  <2> DEFINE secs == (NextTimerTime.tv_sec - now.tv_sec) * UsecPerSec
             sum == Int32(Int32(secs) + (NextTimerTime.tv_usec - now.tv_usec))
  <2>1. secs \in Int
    BY <1>2, <1>4
  <2>2. Int32(secs) + (NextTimerTime.tv_usec - now.tv_usec) \in Int
    <3> HIDE DEF secs
    <3> QED BY <1>2, <1>3, <1>4, <2>1
  <2>3. sum \in Int
    BY <1>3, <2>2
  <2>4. CurrentSleepTime = IF sum > 0 THEN sum ELSE 0
    BY DEF CurrentSleepTime
  <2> HIDE DEF sum
  <2> QED BY <2>3, <2>4
<1> QED BY <1>1, <1>4, <1>5 DEF StartSleep

\* The steps of main that do not touch the tree.
LEMMA ControlInv ==
  ASSUME Inv, EnterLoop \/ Check \/ StartSleep \/ WakeUp \/ More \/ CallbackReturns
  PROVE  Inv'
<1>1. UNCHANGED <<now, state, fired>>
      /\ loop' \in {"check", "nap", "exit", "sleep", "more", "first"}
      /\ (time' = time \/ time' = now)
      /\ (entry' = entry \/ entry' = NoEntry)
  BY DEF EnterLoop, Check, StartSleep, WakeUp, More, CallbackReturns
<1>2. sleep' \in [from : Nat, until : Nat]
  <2>1. CASE StartSleep
    BY <2>1, StartSleepType DEF Inv
  <2>2. CASE sleep' = sleep
    BY <2>2 DEF Inv, TypeOK
  <2> QED BY <2>1, <2>2 DEF EnterLoop, Check, WakeUp, More, CallbackReturns
<1>3. TypeOK'
  BY <1>1, <1>2 DEF Inv, TypeOK, state
<1>4. NotAfter(time', now')
  BY <1>1 DEF Inv, NotAfter
<1>5. Looking'
  BY <1>1 DEF Looking
<1>6. loop' = "first" => timers' # {}
  BY DEF EnterLoop, Check, StartSleep, WakeUp, More, CallbackReturns,
         HasMoreTimerCallbacks, state
<1>7. Undisturbed'
  BY <1>1, <1>6 DEF Undisturbed, EntryAlive, FirstEntryFound
<1> QED BY <1>1, <1>3, <1>4, <1>5, <1>7, FrameFacts DEF Inv

\* g_tree_foreach finds the first entry.
LEMMA FindFirstInv == Inv /\ FindFirst => Inv'
<1> SUFFICES ASSUME Inv, FindFirst PROVE Inv'
  OBVIOUS
<1>1. UNCHANGED <<now, time, sleep, fired, state>>
      /\ loop' \in {"check", "ready"} /\ loop = "first"
      /\ (loop' = "ready" => entry' \in timers /\ IsFirst(entry'))
      /\ (loop' = "check" => entry' = NoEntry)
  BY DEF FindFirst
<1>2. loop' = "ready" => /\ entry' \in Entry /\ entry'.id \in Pending
                         /\ NotAfter(entry'.due, entry'.time)
                         /\ entry'.module \notin unloaded
  BY <1>1 DEF Inv, TypeOK, Pending
<1>3. TypeOK'
  BY <1>1, <1>2 DEF Inv, TypeOK, state
<1>4. IsFirst(entry)' <=> IsFirst(entry')
  BY <1>1 DEF IsFirst, state
<1>5. Looking'
  BY <1>1, <1>2, <1>4 DEF Looking, Inv, Accounting, state
<1>6. Undisturbed'
  BY <1>1 DEF Undisturbed, EntryAlive, FirstEntryFound, state
<1> QED BY <1>1, <1>3, <1>5, <1>6, FrameFacts DEF Inv

\* The entry is compared with the time.
LEMMA CheckReadyInv == Inv /\ CheckReady => Inv'
<1> SUFFICES ASSUME Inv, CheckReady PROVE Inv'
  OBVIOUS
<1>1. UNCHANGED <<now, time, entry, sleep, fired, state>>
      /\ loop' \in {"check", "call"} /\ loop = "ready"
      /\ (loop' = "call" => entry \notin timers \/ NotAfter(entry.time, time))
  BY DEF CheckReady
<1>2. TypeOK'
  BY <1>1 DEF Inv, TypeOK, state
<1>3. Looking'
  BY <1>1 DEF Looking, Inv, state
<1>4. Undisturbed'
  BY <1>1 DEF Inv, Undisturbed, EntryAlive, FirstEntryFound, state
<1> QED BY <1>1, <1>2, <1>3, <1>4, FrameFacts DEF Inv

\* The entry is removed and its callback is called, also when the tree has
\* been destroyed meanwhile.
LEMMA CallInv == Inv /\ Call => Inv'
<1> SUFFICES ASSUME Inv, Call PROVE Inv'
  OBVIOUS
<1>1. timers' = timers \ {entry} /\ fired' = fired \cup {entry.id}
      /\ loop = "call" /\ loop' = "run"
      /\ UNCHANGED <<now, exiting, time, entry, sleep, created, deleted, unloaded>>
  BY DEF Call
<1>2. entry \in Entry /\ entry.id \in 1..created /\ entry.id \notin deleted
      /\ (entry \in timers \/ exiting)
  BY <1>1 DEF Inv, Looking
<1>3. IsFiniteSet(timers') /\ Pending' \subseteq 1..created' /\ Accounting'
  <2>1. fired' \cap deleted' = {}
    BY <1>1, <1>2 DEF Inv, Accounting
  <2>2. CASE entry \in timers
    <3>1. {f.id : f \in timers \ timers'} = {entry.id}
      BY <1>1, <2>2
    <3> QED BY <1>1, <2>1, <3>1, RemoveFacts
  <2>3. CASE exiting
    <3>1. timers = {} /\ timers' = {} /\ Pending' = {}
      BY <1>1, <2>3 DEF Inv, Pending
    <3> QED BY <1>1, <2>1, <2>3, <3>1, FS_EmptySet DEF Accounting
  <2> QED BY <1>2, <2>2, <2>3
<1>4. TypeOK'
  BY <1>1, <1>2 DEF Inv, TypeOK
<1>5. Looking'
  BY <1>1 DEF Inv, Looking
<1>6. Undisturbed'
  BY <1>1 DEF Inv, Undisturbed, EntryAlive, FirstEntryFound
<1> QED BY <1>1, <1>3, <1>4, <1>5, <1>6 DEF Inv

\* Every step preserves the invariant.
LEMMA NextInv == Inv /\ [Next]_vars => Inv'
<1> SUFFICES ASSUME Inv, [Next]_vars PROVE Inv'
  OBVIOUS
<1>1. ASSUME NEW m \in Modules, NEW t \in Timeouts, AddTimeout(m, t) PROVE Inv'
  BY <1>1, AddTimeoutInv
<1>2. ASSUME NEW m \in Modules, RemoveModuleTimers(m) PROVE Inv'
  BY <1>2, RemoveModuleTimersInv
<1>3. ASSUME NEW e \in timers, DelTimer(e) PROVE Inv'
  BY <1>3, DelTimerInv
<1>4. CASE ExitGracefully \/ FreeTimers
  BY <1>4, DestroyInv
<1>5. CASE EnterLoop \/ Check \/ StartSleep \/ WakeUp \/ More \/ CallbackReturns
  BY <1>5, ControlInv
<1>6. CASE FindFirst \/ CheckReady \/ Call
  BY <1>6, FindFirstInv, CheckReadyInv, CallInv
<1>7. CASE Tick
  BY <1>7, TickInv
<1>8. CASE UNCHANGED vars
  BY <1>8, FrameFacts DEF Inv, TypeOK, Looking, Undisturbed, EntryAlive,
     FirstEntryFound, IsFirst, vars, state
<1> QED BY <1>1, <1>2, <1>3, <1>4, <1>5, <1>6, <1>7, <1>8
        DEF Next, MainStep, Terminated

\* The invariant holds throughout.
LEMMA Invariance == Spec => []Inv
BY InitInv, NextInv, PTL DEF Spec

-----------------------------------------------------------------------------
(* The theorems.                                                           *)

\* Whatever the callbacks do, and also if a signal destroys the tree at any
\* moment, no timer is lost by addTimer, called twice, or called after
\* delTimer or removeModuleTimers.
THEOREM TimersAccounted == Spec => [](TypeOK /\ Accounting)
BY Invariance, PTL DEF Inv

\* No callback of an unloaded module is called and none is left in the tree.
THEOREM NoCallbackAfterUnload == Spec => []NoCallAfterUnload
<1>1. Inv => NoCallAfterUnload
  BY DEF Inv, Looking, NoCallAfterUnload
<1> QED BY <1>1, Invariance, PTL

\* Without a signal handler that destroys the tree, notifyTimerCallbacks never
\* works with an entry that is gone, always finds the first entry it expects,
\* and calls no callback before its time.
THEOREM CalledOnTime ==
  ASSUME Signals = FALSE
  PROVE  Spec => []LoopSound
<1>1. Inv => EntryAlive /\ FirstEntryFound /\ NotEarly
  <2> SUFFICES ASSUME Inv PROVE EntryAlive /\ FirstEntryFound /\ NotEarly
    OBVIOUS
  <2>1. EntryAlive /\ FirstEntryFound
    BY DEF Inv, Undisturbed
  <2>2. ASSUME loop \in {"call", "run"} PROVE NotAfter(entry.due, now)
    <3>1. NotAfter(entry.due, entry.time) /\ NotAfter(entry.time, time)
          /\ NotAfter(time, now)
      BY <2>2 DEF Inv, Looking, Undisturbed
    <3>2. entry.due \in GTimeVal /\ entry.time \in GTimeVal
          /\ time \in GTimeVal /\ now \in GTimeVal
      BY <2>2, ClockTime DEF Inv, Looking, Entry, TypeOK
    <3>3. NotAfter(entry.due, time)
      BY <3>1, <3>2, NotAfterTransitive
    <3> QED BY <3>1, <3>2, <3>3, NotAfterTransitive
  <2> QED BY <2>1, <2>2 DEF NotEarly
<1> QED BY <1>1, Invariance, PTL DEF LoopSound

\* notifyTimerCallbacks returns only when no timer that is ready is left.
THEOREM NoReadyTimerLeft == Spec => AllReadyCalled
<1> DEFINE Returns == loop \notin {"startup", "check"} /\ loop' = "check"
                        => \A e \in timers : Before(time, e.time)
<1>1. Inv /\ [Next]_vars => [Returns]_vars
  <2> SUFFICES ASSUME Inv, Next, loop \notin {"startup", "check"},
                      loop' = "check", NEW e \in timers
               PROVE  Before(time, e.time)
    BY DEF vars
  <2>1. More \/ FindFirst \/ CheckReady
    BY DEF Next, MainStep, AddTimeout, RemoveModuleTimers, DelTimer,
       ExitGracefully, EnterLoop, Check, StartSleep, WakeUp, Call,
       CallbackReturns, FreeTimers, Tick, Terminated, vars
  <2>2. ~exiting
    BY DEF Inv
  <2>3. CheckReady
    BY <2>1, <2>2 DEF More, FindFirst, HasMoreTimerCallbacks
  <2>4. IsFirst(entry) /\ ~NotAfter(entry.time, time)
    BY <2>2, <2>3 DEF CheckReady, Inv, Looking
  <2>5. entry.time \in GTimeVal /\ e.time \in GTimeVal /\ time \in GTimeVal
        /\ NotAfter(entry.time, e.time)
    BY <2>4, ClockTime DEF IsFirst, Inv, TypeOK, Entry
  <2>6. Before(time, entry.time)
    BY <2>4, <2>5, BeforeTotal
  <2> QED BY <2>5, <2>6 DEF Before, NotAfter, GTimeVal
<1> QED BY <1>1, Invariance, PTL DEF Spec, AllReadyCalled

=============================================================================
