--------------------------- MODULE CronScheduler ---------------------------
(***************************************************************************)
(* The scheduled tasks of the sidecars on one data directory:              *)
(* server/cron-scheduler.ts started and stopped by server/cron-wiring.ts   *)
(* under the scheduler lock of server/cron-lock.ts.                        *)
(*                                                                         *)
(* A step is one turn of the event loop up to the next await.  Where the   *)
(* code awaits a promise of another component (the task registry, the      *)
(* probes of the lock) other events of the process may come first; the     *)
(* store shipped today settles within the turn, its interface does not     *)
(* promise it.  The lock appears by its outcomes: StoreLock models the     *)
(* same protocol call by call.                                             *)
(*                                                                         *)
(* Definitions whose names hold an underscore are deliberate slips, each   *)
(* the mutation of the definition that precedes the underscore.            *)
(***************************************************************************)
EXTENDS Integers

CONSTANTS
  Proc,          \* sidecars, each of which may be closed and opened again
  Tasks,         \* ids of scheduled tasks, never handed out twice
  OneShots,      \* tasks with a oneshot trigger
  Events,        \* tasks with an event trigger; all others are intervals
  AppOpen,       \* the event tasks that fire when a sidecar starts
  Aging,         \* tasks with a recurringMaxAgeMs
  MaxAge,        \* that age
  Ats,           \* by task: times of a oneshot, lengths of an interval
  Left,          \* sets of tasks that an earlier process may have left in the file
  NoDef,         \* no definition under this id
  Free, Dead,    \* the lock file: absent, or left by a process that is gone
  MayStopInStart,\* the sidecar may be closed while it asks for the lock
  MaxTime,       \* bound: the clock
  MaxOpens,      \* bound: how often a sidecar is started
  MaxRequests,   \* bound: requests
  MaxFaults      \* bound: crashes, failed writes, lost locks

ASSUME Constants ==
  /\ OneShots \subseteq Tasks /\ Events \subseteq Tasks /\ Aging \subseteq Tasks
  /\ OneShots \cap Events = {} /\ AppOpen \subseteq Events /\ Left \subseteq SUBSET Tasks
  /\ \A t \in Tasks \ (OneShots \cup Events) : 0 \notin Ats[t]
  /\ Ats \in [Tasks -> SUBSET Nat] /\ MaxAge \in Nat /\ MaxTime \in Nat
  /\ MaxOpens \in Nat /\ MaxRequests \in Nat
  /\ MaxFaults \in Nat /\ MayStopInStart \in BOOLEAN
  /\ Free \notin Proc /\ Dead \notin Proc /\ Free # Dead

VARIABLES
  now,        \* the clock
  lock,       \* scheduled_tasks.lock
  file,       \* scheduled_tasks.json
  phase,      \* of CronWiring.start in each process
  closed,     \* the wiring was stopped: "no", "stopped", or also "disposed"
  isOwner,    \* CronLock.isOwner
  table,      \* the table in memory
  running,    \* the interval timer of the scheduler is armed
  ticking,    \* a tick has taken tasks and not yet saved the table
  toFire,     \* tasks it has yet to hand to the registry
  inflight,   \* tasks handed over by runNow, an event or add
  healthy,    \* persistState.ok
  used,       \* history: ids handed out
  saved,      \* history: ids a save has put into the file
  gone,       \* history: oneshots a save has taken out of the file
  ended,      \* history: removed or expired, or lost between take and hand-over
  runs,       \* history: scheduled runs of a oneshot (2 stands for more)
  tried,      \* history: oneshots started by hand
  unsaved,    \* history: oneshots a process has run since its last save
  excused,    \* history: oneshots run by a process that ended, or read the file
              \* again, before it had saved that
  overlap,    \* history: two processes took themselves for the owner
  opens, requests, faults  \* counters of the bounds

shared == <<now, lock, file>>
wiring == <<phase, closed, isOwner>>
tick == <<ticking, toFire>>
memory == <<table, running, tick, inflight, healthy>>
books == <<used, saved, gone, ended>>
tally == <<runs, tried, unsaved, excused>>
era == <<overlap, opens, requests>>
vars == <<shared, wiring, memory, books, tally, era, faults>>

Never == -1

\* A ScheduledTask: firing or paused, its trigger, its creation and last run.
\* triggerCount is positive exactly when there was a last run.
Definition ==
  [on: BOOLEAN, at: UNION {Ats[t] : t \in Tasks}, born: 0..MaxTime, last: Never..MaxTime]

ASSUME NoDefIsNone == NoDef \notin Definition

\* A definition as it is created.
New(at, n) == [on |-> TRUE, at |-> at, born |-> n, last |-> Never]

Held(tab) == {t \in Tasks : tab[t] # NoDef}

Fault == faults < MaxFaults /\ faults' = faults + 1

Up(p) == phase[p] # "off"

-----------------------------------------------------------------------------
(* Pure parts of the scheduler.                                            *)

Expired(t, d, n) == t \in Aging /\ n - d.born > MaxAge

Spent(t, d) == t \in OneShots /\ d.last # Never

Due_NotMissed(t, d, n) ==
  CASE t \in OneShots -> d.last = Never /\ d.at = n
    [] t \in Events   -> FALSE
    [] OTHER          -> (IF d.last = Never THEN d.born ELSE d.last) + d.at <= n

\* computeNextTrigger(task, n) <= n: also when the time passed while no sidecar ran.
Due(t, d, n) ==
  CASE t \in OneShots -> d.last = Never /\ d.at <= n
    [] t \in Events   -> FALSE
    [] OTHER          -> (IF d.last = Never THEN d.born ELSE d.last) + d.at <= n

TickDrops(tab, n) ==
  {t \in Held(tab) : tab[t].on /\ (Expired(t, tab[t], n) \/ Spent(t, tab[t]))}

TickFires(tab, n) ==
  {t \in Held(tab) : tab[t].on /\ ~Expired(t, tab[t], n) /\ Due(t, tab[t], n)}

Triggered_Ahead(tab, S, n) ==
  [t \in Tasks |-> IF t \in S THEN [tab[t] EXCEPT !.last = n + 1] ELSE tab[t]]

\* The tasks of S have run at n.
Triggered(tab, S, n) ==
  [t \in Tasks |-> IF t \in S THEN [tab[t] EXCEPT !.last = n] ELSE tab[t]]

Without(tab, S) == [t \in Tasks |-> IF t \in S THEN NoDef ELSE tab[t]]

NextTable_KeepsOneShots(tab, n) ==
  Without(tab, TickDrops(tab, n))

\* The table once a tick at n has taken what is due: a oneshot leaves it.
NextTable(tab, n) ==
  Without(Triggered(tab, TickFires(tab, n), n),
          TickDrops(tab, n) \cup (TickFires(tab, n) \cap OneShots))

Loaded_Nothing(tab) == tab

\* load(): entries of the file that memory does not know.
Loaded(tab) == [t \in Tasks |-> IF tab[t] = NoDef THEN file[t] ELSE tab[t]]

\* The tasks of an event: the firing ones among those it names.
Matching(tab, S) == {t \in S \cap Held(tab) : tab[t].on}

-----------------------------------------------------------------------------
(* persist(), with the oneshots that were run but are not yet on disk.     *)

Persist_Ungated(p, tab, ran) ==
  /\ file' = tab
  /\ healthy' = [healthy EXCEPT ![p] = TRUE]
  /\ saved' = saved \cup Held(tab)
  /\ gone' = gone \cup ((OneShots \cap Held(file)) \ Held(tab))
  /\ unsaved' = [unsaved EXCEPT ![p] = {}]
  /\ UNCHANGED faults

Persist_Merges(p, tab, ran) ==
  /\ file' = [t \in Tasks |-> IF tab[t] = NoDef THEN file[t] ELSE tab[t]]
  /\ healthy' = [healthy EXCEPT ![p] = TRUE]
  /\ saved' = saved \cup Held(tab)
  /\ gone' = gone \cup ((OneShots \cap Held(file)) \ Held(tab))
  /\ unsaved' = [unsaved EXCEPT ![p] = {}]
  /\ UNCHANGED faults

\* The table replaces the file; a process that is not the owner is refused, and
\* a write may fail: memory has changed all the same.
Persist(p, tab, ran) ==
  \/ /\ isOwner[p]
     /\ file' = tab
     /\ healthy' = [healthy EXCEPT ![p] = TRUE]
     /\ saved' = saved \cup Held(tab)
     /\ gone' = gone \cup ((OneShots \cap Held(file)) \ Held(tab))
     /\ unsaved' = [unsaved EXCEPT ![p] = {}]
     /\ UNCHANGED faults
  \/ /\ IF isOwner[p] THEN Fault ELSE UNCHANGED faults
     /\ healthy' = [healthy EXCEPT ![p] = FALSE]
     /\ unsaved' = [unsaved EXCEPT ![p] = @ \cup ran]
     /\ UNCHANGED <<file, saved, gone>>

NoPersist == UNCHANGED <<file, healthy, saved, gone, unsaved, faults>>

\* A handler of the wiring is subscribed, so that firing reaches the registry.
Subscribed(p) == closed[p] # "disposed"

\* fireTask without await: the call of the handler has begun.
Begin(p, S) ==
  inflight' = [inflight EXCEPT ![p] = IF Subscribed(p) THEN @ \cup S ELSE @]

-----------------------------------------------------------------------------
Init ==
  /\ now = 0
  /\ lock = Free
  /\ \E left \in Left :
       /\ file \in {f \in [Tasks -> Definition \cup {NoDef}] : \A t \in Tasks :
                     IF t \in left THEN \E at \in Ats[t] : f[t] = New(at, 0)
                                  ELSE f[t] = NoDef}
       /\ used = left /\ saved = left
  /\ phase = [p \in Proc |-> "off"]
  /\ closed = [p \in Proc |-> "no"]
  /\ isOwner = [p \in Proc |-> FALSE]
  /\ table = [p \in Proc |-> [t \in Tasks |-> NoDef]]
  /\ running = [p \in Proc |-> FALSE]
  /\ ticking = [p \in Proc |-> FALSE]
  /\ toFire = [p \in Proc |-> {}]
  /\ inflight = [p \in Proc |-> {}]
  /\ healthy = [p \in Proc |-> TRUE]
  /\ gone = {} /\ ended = {}
  /\ runs = [t \in OneShots |-> 0]
  /\ tried = {}
  /\ unsaved = [p \in Proc |-> {}]
  /\ excused = {}
  /\ overlap = FALSE
  /\ opens = 0 /\ requests = 0 /\ faults = 0

Advance ==
  /\ now < MaxTime
  /\ now' = now + 1
  /\ UNCHANGED <<lock, file, wiring, memory, books, tally, era, faults>>

-----------------------------------------------------------------------------
(* CronWiring.start.                                                       *)

\* A sidecar starts and asks for the lock.
Open(p) ==
  /\ phase[p] = "off"
  /\ phase' = [phase EXCEPT ![p] = "acquiring"]
  /\ opens < MaxOpens /\ opens' = opens + 1
  /\ UNCHANGED <<shared, closed, isOwner, memory, books, tally, overlap, requests,
                 faults>>

\* The lock is free or its owner is gone.  The write gate and the definitions
\* on disk are in place before anything else may run.
AcquireWon(p) ==
  /\ phase[p] = "acquiring"
  /\ lock \in {Free, Dead}
  /\ lock' = p
  /\ isOwner' = [isOwner EXCEPT ![p] = TRUE]
  /\ table' = [table EXCEPT ![p] = Loaded(table[p])]
  /\ phase' = [phase EXCEPT ![p] = "recovering"]
  /\ overlap' = (overlap \/ \E q \in Proc \ {p} : isOwner[q])
  /\ UNCHANGED <<now, file, closed, running, tick, inflight, healthy, books,
                 tally, opens, requests, faults>>

\* Another sidecar owns the lock, is taking over a dead one, or the file system
\* fails.  There is no second attempt.
AcquireLost(p) ==
  /\ phase[p] = "acquiring"
  /\ \/ lock \in Proc /\ UNCHANGED faults
     \/ /\ lock = Dead /\ UNCHANGED faults
        /\ \E q \in Proc \ {p} : phase[q] = "acquiring"
     \/ Fault
  /\ phase' = [phase EXCEPT ![p] = "idle"]
  /\ UNCHANGED <<shared, closed, isOwner, memory, books, tally, era>>

\* recoverStaleTasks has returned and the lock is gone: load() throws.
StartRefused(p) ==
  /\ phase[p] = "recovering" /\ ~isOwner[p]
  /\ phase' = [phase EXCEPT ![p] = "idle"]
  /\ UNCHANGED <<shared, closed, isOwner, memory, books, tally, era, faults>>

\* scheduler.start() with its first tick, then the app-open event.
StartScheduler(p) ==
  LET loaded == Loaded(table[p])
      due    == TickFires(loaded, now)
      drops  == TickDrops(loaded, now)
      ticked == NextTable(loaded, now)
      event  == Matching(ticked, AppOpen)
      final  == Triggered(ticked, event, now)
  IN /\ phase[p] = "recovering" /\ isOwner[p]
     /\ phase' = [phase EXCEPT ![p] = "serving"]
     /\ running' = [running EXCEPT ![p] = TRUE]
     /\ table' = [table EXCEPT ![p] = final]
     /\ ended' = ended \cup {t \in drops : Expired(t, loaded[t], now)}
     /\ ticking' = [ticking EXCEPT ![p] = due # {}]
     /\ toFire' = [toFire EXCEPT ![p] = due]
     /\ Begin(p, event)
     /\ IF event # {} \/ (due = {} /\ drops # {}) THEN Persist(p, final, {})
                                                  ELSE NoPersist
     /\ excused' = excused \cup (unsaved[p] \cap (Held(loaded) \ Held(table[p])))
     /\ UNCHANGED <<now, lock, closed, isOwner, used, runs, tried, era>>

-----------------------------------------------------------------------------
(* tick, from the interval timer.                                          *)

\* What is due leaves the table or is marked, before the first await.
Tick(p) ==
  LET due   == TickFires(table[p], now)
      drops == TickDrops(table[p], now)
  IN /\ running[p] /\ ~ticking[p]
     /\ due \cup drops # {}
     /\ table' = [table EXCEPT ![p] = NextTable(@, now)]
     /\ ended' = ended \cup {t \in drops : Expired(t, table[p][t], now)}
     /\ ticking' = [ticking EXCEPT ![p] = due # {}]
     /\ toFire' = [toFire EXCEPT ![p] = due]
     /\ IF due = {} THEN Persist(p, NextTable(table[p], now), {}) ELSE NoPersist
     /\ UNCHANGED <<now, lock, wiring, running, inflight, used, runs, tried,
                    excused, era>>

\* createTask has the request: a scheduled run of t.
Hand(p, t) ==
  /\ runs' = [o \in OneShots |-> IF o = t /\ runs[o] < 2 THEN runs[o] + 1
                                                         ELSE runs[o]]
  /\ UNCHANGED <<ended, faults>>

\* createTask fails; the scheduler only logs it.
HandFails(t) ==
  Fault /\ ended' = ended \cup {t} /\ UNCHANGED runs

\* One turn of the loop of the tick: the next task goes to the registry.
FireNext(p, t) ==
  /\ t \in toFire[p]
  /\ toFire' = [toFire EXCEPT ![p] = @ \ {t}]
  /\ IF Subscribed(p) THEN Hand(p, t) \/ HandFails(t)
                      ELSE UNCHANGED <<runs, ended, faults>>
  /\ unsaved' = [unsaved EXCEPT ![p] = @ \cup ({t} \cap OneShots)]
  /\ excused' = IF isOwner[p] THEN excused ELSE excused \cup ({t} \cap OneShots)
  /\ UNCHANGED <<shared, wiring, table, running, ticking, inflight, healthy,
                 used, saved, gone, tried, era>>

\* All are handed over: the table is saved as it is now.
TickEnd(p) ==
  /\ ticking[p] /\ toFire[p] = {}
  /\ ticking' = [ticking EXCEPT ![p] = FALSE]
  /\ Persist(p, table[p], {})
  /\ UNCHANGED <<now, lock, wiring, table, running, toFire, inflight, used,
                 ended, runs, tried, excused, era>>

\* A run begun by runNow, an event or the past time of an added oneshot.
FireBegun(p, t) ==
  /\ t \in inflight[p]
  /\ inflight' = [inflight EXCEPT ![p] = @ \ {t}]
  /\ IF t \in tried THEN HandFails(t) \/ UNCHANGED <<runs, ended, faults>>
                    ELSE Hand(p, t) \/ HandFails(t)
  /\ UNCHANGED <<shared, wiring, table, running, tick, healthy, used, saved,
                 gone, tried, unsaved, excused, era>>

-----------------------------------------------------------------------------
(* Requests of the routes and of the schedule tool: for the owner only.    *)

\* A mutation that leaves tab in memory and saves it.
Store(p, tab, ran) ==
  /\ isOwner[p]
  /\ table' = [table EXCEPT ![p] = tab]
  /\ Persist(p, tab, ran)
  /\ UNCHANGED <<now, lock, wiring, running, tick, runs, excused, overlap, opens>>

Add(p, t, at) ==
  /\ t \notin used /\ used' = used \cup {t}
  /\ ~(t \in OneShots /\ at < now)
  /\ Store(p, [table[p] EXCEPT ![t] = New(at, now)], {})
  /\ UNCHANGED <<inflight, ended, tried>>

\* A oneshot whose time has passed runs at once and enters no table.
AddPast(p, t, at) ==
  /\ isOwner[p]
  /\ t \notin used /\ used' = used \cup {t}
  /\ t \in OneShots /\ at < now
  /\ Begin(p, {t})
  /\ UNCHANGED <<shared, wiring, table, running, tick, healthy, saved, gone,
                 ended, tally, overlap, opens, faults>>

Remove(p, t) ==
  /\ t \in Held(table[p])
  /\ ended' = ended \cup {t}
  /\ Store(p, Without(table[p], {t}), {})
  /\ UNCHANGED <<inflight, used, tried>>

\* setStatus and setEnabled: pause, archive or let fire again.
SetStatus(p, t) ==
  /\ t \in Held(table[p])
  /\ Store(p, [table[p] EXCEPT ![t].on = ~@], {})
  /\ UNCHANGED <<inflight, used, ended, tried>>

\* A new trigger; the creation, the status and the last run are kept.
Update(p, t, at) ==
  /\ t \in Held(table[p])
  /\ Store(p, [table[p] EXCEPT ![t].at = at], {})
  /\ UNCHANGED <<inflight, used, ended, tried>>

RunNow(p, t) ==
  /\ t \in Matching(table[p], Tasks)
  /\ tried' = tried \cup ({t} \cap OneShots)
  /\ Store(p, Triggered(table[p], {t}, now), {t} \cap OneShots)
  /\ Begin(p, {t})
  /\ UNCHANGED <<used, ended>>

\* fireByEvent: a watcher or the focus of the window names the tasks of S.
FireByEvent(p, S) ==
  /\ Matching(table[p], S) # {}
  /\ Store(p, Triggered(table[p], Matching(table[p], S), now), {})
  /\ Begin(p, Matching(table[p], S))
  /\ UNCHANGED <<used, ended, tried, requests>>

-----------------------------------------------------------------------------
(* The end of a process and of its ownership.                              *)

\* CronWiring.stop: the timer stops and the lock is released if it is still ours.
Stop(p, how) ==
  /\ Up(p)
  /\ MayStopInStart \/ phase[p] # "acquiring"
  /\ closed' = [closed EXCEPT ![p] = how]
  /\ running' = [running EXCEPT ![p] = FALSE]
  /\ isOwner' = [isOwner EXCEPT ![p] = FALSE]
  /\ lock' = IF lock = p THEN Free ELSE lock
  /\ excused' = excused \cup unsaved[p]
  /\ UNCHANGED <<now, file, phase, table, tick, inflight, healthy, used, saved,
                 gone, runs, tried, unsaved, era>>

\* close() of the sidecar: also unsubscribes, a tick in progress reaches nobody.
Close(p) ==
  /\ closed[p] # "disposed"
  /\ Stop(p, "disposed")
  /\ ended' = ended \cup toFire[p]
  /\ UNCHANGED faults

\* The lock of the session store is lost: the wiring is stopped, not disposed.
LoseStore(p) ==
  /\ closed[p] = "no"
  /\ Fault
  /\ Stop(p, "stopped")
  /\ UNCHANGED ended

\* Somebody deletes the lock file.
DeleteLock ==
  /\ lock # Free /\ Fault
  /\ lock' = Free
  /\ UNCHANGED <<now, file, wiring, memory, books, tally, era>>

\* The health timer of the lock finds that the file is not ours; the wiring, as
\* long as it subscribes to the loss, stops the scheduler.
CheckHealth(p) ==
  /\ isOwner[p] /\ lock # p
  /\ isOwner' = [isOwner EXCEPT ![p] = FALSE]
  /\ running' = [running EXCEPT ![p] = @ /\ ~Subscribed(p)]
  /\ excused' = excused \cup unsaved[p]
  /\ UNCHANGED <<shared, phase, closed, table, tick, inflight, healthy, books,
                 runs, tried, unsaved, era, faults>>

\* The process is gone, with everything it kept in memory.
Gone(p) ==
  /\ Up(p)
  /\ phase' = [phase EXCEPT ![p] = "off"]
  /\ closed' = [closed EXCEPT ![p] = "no"]
  /\ isOwner' = [isOwner EXCEPT ![p] = FALSE]
  /\ table' = [table EXCEPT ![p] = [t \in Tasks |-> NoDef]]
  /\ running' = [running EXCEPT ![p] = FALSE]
  /\ ticking' = [ticking EXCEPT ![p] = FALSE]
  /\ toFire' = [toFire EXCEPT ![p] = {}]
  /\ inflight' = [inflight EXCEPT ![p] = {}]
  /\ healthy' = [healthy EXCEPT ![p] = TRUE]
  /\ unsaved' = [unsaved EXCEPT ![p] = {}]
  /\ lock' = IF lock = p THEN Dead ELSE lock
  /\ ended' = ended \cup toFire[p] \cup inflight[p]
  /\ excused' = excused \cup unsaved[p]
  /\ UNCHANGED <<now, file, used, saved, gone, runs, tried, era>>

Exit(p) == closed[p] # "no" /\ Gone(p) /\ UNCHANGED faults

Crash(p) == Fault /\ Gone(p)

-----------------------------------------------------------------------------
Start(p) ==
  Open(p) \/ AcquireWon(p) \/ AcquireLost(p) \/ StartRefused(p) \/ StartScheduler(p)

Fires(p) ==
  \/ Tick(p) \/ TickEnd(p)
  \/ \E t \in Tasks : FireNext(p, t) \/ FireBegun(p, t)

Request(p) ==
  /\ requests < MaxRequests /\ requests' = requests + 1
  /\ \/ \E t \in Tasks : Remove(p, t) \/ SetStatus(p, t) \/ RunNow(p, t)
     \/ \E t \in Tasks : \E at \in Ats[t] :
          Add(p, t, at) \/ AddPast(p, t, at) \/ Update(p, t, at)

Event(p) == \E S \in SUBSET Events : FireByEvent(p, S)

Ends(p) == Close(p) \/ LoseStore(p) \/ CheckHealth(p) \/ Exit(p) \/ Crash(p)

Next ==
  \/ Advance \/ DeleteLock
  \/ \E p \in Proc : Start(p) \/ Fires(p) \/ Request(p) \/ Event(p) \/ Ends(p)

Spec == Init /\ [][Next]_vars

\* The timer of a running scheduler keeps firing and the registry answers.
Fairness ==
  \A p \in Proc : WF_vars(Tick(p) \/ TickEnd(p) \/ \E t \in Tasks : FireNext(p, t))

LiveSpec == Spec /\ Fairness

-----------------------------------------------------------------------------
Table == [Tasks -> Definition \cup {NoDef}]

\* Every variable has its type.
TypeOK ==
  /\ now \in 0..MaxTime
  /\ lock \in Proc \cup {Free, Dead}
  /\ file \in Table
  /\ phase \in [Proc -> {"off", "acquiring", "idle", "recovering", "serving"}]
  /\ closed \in [Proc -> {"no", "stopped", "disposed"}]
  /\ isOwner \in [Proc -> BOOLEAN]
  /\ table \in [Proc -> Table]
  /\ running \in [Proc -> BOOLEAN]
  /\ ticking \in [Proc -> BOOLEAN]
  /\ toFire \in [Proc -> SUBSET Tasks]
  /\ inflight \in [Proc -> SUBSET Tasks]
  /\ healthy \in [Proc -> BOOLEAN]
  /\ used \subseteq Tasks /\ saved \subseteq Tasks /\ gone \subseteq OneShots
  /\ ended \subseteq Tasks
  /\ runs \in [OneShots -> 0..2]
  /\ tried \subseteq OneShots /\ excused \subseteq OneShots
  /\ unsaved \in [Proc -> SUBSET OneShots]
  /\ overlap \in BOOLEAN
  /\ opens \in 0..MaxOpens /\ requests \in 0..MaxRequests
  /\ faults \in 0..MaxFaults

\* What the routes report as saved is on disk: while the owner reports a healthy
\* file and no tick is in progress, the file is its table.  Neither a request
\* during the recovery nor a process that lost the lock may overwrite it.
FileMatchesMemory ==
  \A p \in Proc :
    lock = p /\ isOwner[p] /\ healthy[p] /\ ~ticking[p] /\ ~overlap
      => file = table[p]

\* A saved definition does not vanish from the disk: it was removed, it expired,
\* or its one run was started, is being started, was refused by the registry, or
\* was lost with the process that had taken it.
LossExplained ==
  overlap \/ \A t \in saved :
    \/ file[t] # NoDef
    \/ t \in ended \cup tried
    \/ t \in OneShots /\ runs[t] > 0
    \/ \E p \in Proc : t \in toFire[p] \cup inflight[p]

\* A oneshot runs once, also across restarts and changes of its trigger, and a
\* trial run counts as its run, unless the process that ran it ended, lost the
\* lock, or read the file again before it could save that.
RunsOnce ==
  overlap \/ \A t \in OneShots \ excused : runs[t] + (IF t \in tried THEN 1 ELSE 0) <= 1

\* A oneshot that a save took out of the file is never taken up again, in this or
\* a later process; a run begun before that may still be handed over.
GoneStaysGone ==
  [][overlap' \/ \A p \in Proc :
       gone \cap (toFire'[p] \cup inflight'[p]) \subseteq toFire[p] \cup inflight[p]]_vars

Awaited(t) ==
  \E p \in Proc :
    running[p] /\ table[p][t] # NoDef /\ table[p][t].on /\ table[p][t].at <= now

\* A oneshot whose time has come is started by the scheduler that runs, whatever
\* tick is in progress and whatever fails, unless the scheduler stops, or the task
\* is paused, moved or removed, first.
OwnerFiresDue ==
  \A t \in OneShots :
    Awaited(t) ~> runs[t] > 0 \/ t \in tried \cup ended \/ ~Awaited(t)

\* cron-wiring.ts says of stop(): it stops the scheduler and releases the lock.
StopReleases ==
  \A p \in Proc : closed[p] # "no" => ~running[p] /\ lock # p
=============================================================================
