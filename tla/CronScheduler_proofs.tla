------------------------ MODULE CronScheduler_proofs ------------------------
(***************************************************************************)
(* What the scheduler promises for every number of sidecars, tasks and     *)
(* faults.                                                                 *)
(***************************************************************************)
EXTENDS CronScheduler, TLAPS

\* A definition as it is created has its type.
LEMMA NewType ==
  ASSUME NEW t \in Tasks, NEW at \in Ats[t], NEW n \in 0..MaxTime
  PROVE  New(at, n) \in Definition
BY Constants DEF New, Definition, Never

\* What the pure parts make of a table is a table.
LEMMA TableTypes ==
  ASSUME NEW tab \in Table, NEW S \in SUBSET Tasks, NEW n \in 0..MaxTime
  PROVE  /\ Without(tab, S) \in Table
         /\ S \subseteq Held(tab) => Triggered(tab, S, n) \in Table
         /\ file \in Table => Loaded(tab) \in Table
<1>1. Without(tab, S) \in Table
  BY DEF Without, Table
<1>2. ASSUME S \subseteq Held(tab) PROVE Triggered(tab, S, n) \in Table
  <2>1. ASSUME NEW t \in Tasks, t \in S PROVE [tab[t] EXCEPT !.last = n] \in Definition
    <3>1. tab[t] \in Definition /\ n \in Never..MaxTime
      BY <1>2, <2>1, Constants DEF Held, Table, Never
    <3>. QED
      BY <3>1 DEF Definition
  <2>. QED
    BY <2>1 DEF Triggered, Table
<1>3. file \in Table => Loaded(tab) \in Table
  BY DEF Loaded, Table
<1>. QED
  BY <1>1, <1>2, <1>3

\* A tick makes a table of a table, and fires and drops what it holds.
LEMMA TickTypes ==
  ASSUME NEW tab \in Table, NEW n \in 0..MaxTime
  PROVE  /\ TickFires(tab, n) \subseteq Held(tab) /\ TickDrops(tab, n) \subseteq Held(tab)
         /\ Held(tab) \subseteq Tasks
         /\ NextTable(tab, n) \in Table
<1>1. /\ TickFires(tab, n) \subseteq Held(tab) /\ TickDrops(tab, n) \subseteq Held(tab)
      /\ Held(tab) \subseteq Tasks
  BY DEF TickFires, TickDrops, Held
<1>2. Triggered(tab, TickFires(tab, n), n) \in Table
  BY <1>1, TableTypes
<1>. QED
  BY <1>1, <1>2, TableTypes DEF NextTable

\* An attempt to save a table keeps the types of what it changes.
LEMMA PersistTypes ==
  ASSUME TypeOK, NEW p \in Proc, NEW tab \in Table, NEW ran \in SUBSET OneShots,
         Persist(p, tab, ran)
  PROVE  /\ file' \in Table /\ healthy' \in [Proc -> BOOLEAN]
         /\ saved' \subseteq Tasks /\ gone' \subseteq OneShots
         /\ unsaved' \in [Proc -> SUBSET OneShots] /\ faults' \in 0..MaxFaults
<1>1. faults' \in 0..MaxFaults
  BY Constants DEF TypeOK, Persist, Fault
<1>2. saved' \subseteq Tasks /\ gone' \subseteq OneShots
  BY DEF TypeOK, Persist, Held
<1>3. unsaved' \in [Proc -> SUBSET OneShots]
  BY DEF TypeOK, Persist
<1>. QED
  BY <1>1, <1>2, <1>3 DEF TypeOK, Persist

\* A mutation that is stored keeps the types of what it changes.
LEMMA StoreTypes ==
  ASSUME TypeOK, NEW p \in Proc, NEW tab \in Table, NEW ran \in SUBSET OneShots,
         Store(p, tab, ran)
  PROVE  /\ file' \in Table /\ healthy' \in [Proc -> BOOLEAN]
         /\ saved' \subseteq Tasks /\ gone' \subseteq OneShots
         /\ unsaved' \in [Proc -> SUBSET OneShots] /\ faults' \in 0..MaxFaults
         /\ table' \in [Proc -> Table]
         /\ UNCHANGED <<now, lock, wiring, running, tick, runs, excused, overlap, opens>>
BY PersistTypes DEF Store, TypeOK

\* The initial values have their types.
LEMMA TypeInit ==
  Init => TypeOK
<1> SUFFICES ASSUME Init PROVE TypeOK
  OBVIOUS
<1>1. file \in Table
  BY DEF Init, Table
<1>2. used \subseteq Tasks /\ saved \subseteq Tasks
  BY Constants DEF Init
<1>3. table \in [Proc -> Table]
  BY DEF Init, Table
<1>4. /\ now \in 0..MaxTime /\ opens \in 0..MaxOpens /\ requests \in 0..MaxRequests
      /\ faults \in 0..MaxFaults
  BY Constants DEF Init
<1>5. /\ lock \in Proc \cup {Free, Dead}
      /\ phase \in [Proc -> {"off", "acquiring", "idle", "recovering", "serving"}]
      /\ closed \in [Proc -> {"no", "stopped", "disposed"}]
      /\ isOwner \in [Proc -> BOOLEAN] /\ running \in [Proc -> BOOLEAN]
      /\ ticking \in [Proc -> BOOLEAN] /\ healthy \in [Proc -> BOOLEAN]
  BY DEF Init
<1>6. /\ toFire \in [Proc -> SUBSET Tasks] /\ inflight \in [Proc -> SUBSET Tasks]
      /\ unsaved \in [Proc -> SUBSET OneShots] /\ runs \in [OneShots -> 0..2]
  BY DEF Init
<1>7. /\ gone \subseteq OneShots /\ ended \subseteq Tasks /\ overlap \in BOOLEAN
      /\ tried \subseteq OneShots /\ excused \subseteq OneShots
  BY DEF Init
<1>. QED
  BY <1>1, <1>2, <1>3, <1>4, <1>5, <1>6, <1>7 DEF TypeOK

\* A step keeps the types.
LEMMA TypeNext ==
  ASSUME TypeOK, Next
  PROVE  TypeOK'
<1>1. ASSUME Advance PROVE TypeOK'
  BY <1>1, Constants DEF TypeOK, Table, Advance, wiring, memory, books, tally, era, tick
<1>2. ASSUME DeleteLock PROVE TypeOK'
  BY <1>2, Constants DEF TypeOK, Table, DeleteLock, Fault, wiring, memory, books, tally, era, tick
<1>3. ASSUME NEW p \in Proc, Open(p) PROVE TypeOK'
  BY <1>3, Constants DEF TypeOK, Table, Open, shared, memory, books, tally, tick
<1>4. ASSUME NEW p \in Proc, AcquireWon(p) PROVE TypeOK'
  <2>1. Loaded(table[p]) \in Table
    BY TableTypes DEF TypeOK
  <2>. QED
    BY <1>4, <2>1, Constants DEF TypeOK, AcquireWon, books, tally, tick
<1>5. ASSUME NEW p \in Proc, AcquireLost(p) PROVE TypeOK'
  BY <1>5, Constants DEF TypeOK, Table, AcquireLost, Fault, shared, memory, books, tally, era,
     tick
<1>6. ASSUME NEW p \in Proc, StartRefused(p) PROVE TypeOK'
  BY <1>6, Constants DEF TypeOK, Table, StartRefused, shared, memory, books, tally, era, tick
<1>7. ASSUME NEW p \in Proc, StartScheduler(p) PROVE TypeOK'
  <2> DEFINE loaded == Loaded(table[p])
             due    == TickFires(loaded, now)
             drops  == TickDrops(loaded, now)
             ticked == NextTable(loaded, now)
             event  == Matching(ticked, AppOpen)
             final  == Triggered(ticked, event, now)
  <2>1. loaded \in Table
    BY TableTypes DEF TypeOK
  <2>2. /\ due \subseteq Tasks /\ drops \subseteq Tasks /\ ticked \in Table
        /\ event \subseteq Held(ticked) /\ event \subseteq Tasks
    BY <2>1, TickTypes DEF TypeOK, Matching, Held
  <2>3. final \in Table
    BY <2>2, TableTypes DEF TypeOK
  <2>4. /\ file' \in Table /\ healthy' \in [Proc -> BOOLEAN]
        /\ saved' \subseteq Tasks /\ gone' \subseteq OneShots
        /\ unsaved' \in [Proc -> SUBSET OneShots] /\ faults' \in 0..MaxFaults
    <3>1. CASE Persist(p, final, {})
      BY <2>3, <3>1, PersistTypes
    <3>2. CASE NoPersist
      BY <3>2 DEF TypeOK, NoPersist
    <3>. QED
      BY <1>7, <3>1, <3>2 DEF StartScheduler
  <2>5. /\ table' = [table EXCEPT ![p] = final] /\ toFire' = [toFire EXCEPT ![p] = due]
        /\ ticking' = [ticking EXCEPT ![p] = due # {}] /\ Begin(p, event)
        /\ ended' \subseteq ended \cup drops
        /\ phase' = [phase EXCEPT ![p] = "serving"] /\ running' = [running EXCEPT ![p] = TRUE]
        /\ UNCHANGED <<now, lock, closed, isOwner, used, runs, tried, era>>
    BY <1>7 DEF StartScheduler
  <2>6. excused' \subseteq OneShots
    BY <1>7 DEF StartScheduler, TypeOK
  <2> HIDE DEF loaded, due, drops, ticked, event, final
  <2>. QED
    BY <2>2, <2>3, <2>4, <2>5, <2>6, Constants DEF TypeOK, Begin, era
<1>8. ASSUME NEW p \in Proc, Tick(p) PROVE TypeOK'
  <2> DEFINE due   == TickFires(table[p], now)
             drops == TickDrops(table[p], now)
             final == NextTable(table[p], now)
  <2>1. due \subseteq Tasks /\ drops \subseteq Tasks /\ final \in Table
    BY TickTypes DEF TypeOK
  <2>2. /\ file' \in Table /\ healthy' \in [Proc -> BOOLEAN]
        /\ saved' \subseteq Tasks /\ gone' \subseteq OneShots
        /\ unsaved' \in [Proc -> SUBSET OneShots] /\ faults' \in 0..MaxFaults
    <3>1. CASE Persist(p, final, {})
      BY <2>1, <3>1, PersistTypes
    <3>2. CASE NoPersist
      BY <3>2 DEF TypeOK, NoPersist
    <3>. QED
      BY <1>8, <3>1, <3>2 DEF Tick
  <2>3. /\ table' = [table EXCEPT ![p] = final] /\ toFire' = [toFire EXCEPT ![p] = due]
        /\ ticking' = [ticking EXCEPT ![p] = due # {}]
        /\ ended' \subseteq ended \cup drops
        /\ UNCHANGED <<now, lock, wiring, running, inflight, used, runs, tried, excused, era>>
    BY <1>8 DEF Tick
  <2> HIDE DEF due, drops, final
  <2>. QED
    BY <2>1, <2>2, <2>3, Constants DEF TypeOK, wiring, era
<1>9. ASSUME NEW p \in Proc, TickEnd(p) PROVE TypeOK'
  <2>1. Persist(p, table[p], {}) /\ table[p] \in Table
    BY <1>9 DEF TickEnd, TypeOK
  <2>. QED
    BY <1>9, <2>1, PersistTypes, Constants DEF TypeOK, TickEnd, wiring, era
<1>10. ASSUME NEW p \in Proc, NEW t \in Tasks, FireNext(p, t) PROVE TypeOK'
  <2>1. /\ (now \in 0..MaxTime)'
        /\ (lock \in Proc \cup {Free, Dead})'
        /\ (file \in Table)'
        /\ (phase \in [Proc -> {"off", "acquiring", "idle", "recovering", "serving"}])'
        /\ (closed \in [Proc -> {"no", "stopped", "disposed"}])'
    BY <1>10, Constants DEF TypeOK, Table, FireNext, Hand, HandFails, Fault, shared, wiring, era
  <2>2. /\ (isOwner \in [Proc -> BOOLEAN])'
        /\ (table \in [Proc -> Table])'
        /\ (running \in [Proc -> BOOLEAN])'
        /\ (ticking \in [Proc -> BOOLEAN])'
        /\ (toFire \in [Proc -> SUBSET Tasks])'
    BY <1>10, Constants DEF TypeOK, Table, FireNext, Hand, HandFails, Fault, shared, wiring, era
  <2>3. /\ (inflight \in [Proc -> SUBSET Tasks])'
        /\ (healthy \in [Proc -> BOOLEAN])'
        /\ (used \subseteq Tasks /\ saved \subseteq Tasks /\ gone \subseteq OneShots)'
        /\ (ended \subseteq Tasks)'
        /\ (runs \in [OneShots -> 0..2])'
    BY <1>10, Constants DEF TypeOK, Table, FireNext, Hand, HandFails, Fault, shared, wiring, era
  <2>4. /\ (tried \subseteq OneShots /\ excused \subseteq OneShots)'
        /\ (unsaved \in [Proc -> SUBSET OneShots])'
        /\ (overlap \in BOOLEAN)'
        /\ (opens \in 0..MaxOpens /\ requests \in 0..MaxRequests)'
        /\ (faults \in 0..MaxFaults)'
    BY <1>10, Constants DEF TypeOK, Table, FireNext, Hand, HandFails, Fault, shared, wiring, era
  <2>. QED
    BY <2>1, <2>2, <2>3, <2>4 DEF TypeOK
<1>11. ASSUME NEW p \in Proc, NEW t \in Tasks, FireBegun(p, t) PROVE TypeOK'
  <2>1. /\ (now \in 0..MaxTime)'
        /\ (lock \in Proc \cup {Free, Dead})'
        /\ (file \in Table)'
        /\ (phase \in [Proc -> {"off", "acquiring", "idle", "recovering", "serving"}])'
        /\ (closed \in [Proc -> {"no", "stopped", "disposed"}])'
    BY <1>11, Constants DEF TypeOK, Table, FireBegun, Hand, HandFails, Fault, shared, wiring, era,
       tick
  <2>2. /\ (isOwner \in [Proc -> BOOLEAN])'
        /\ (table \in [Proc -> Table])'
        /\ (running \in [Proc -> BOOLEAN])'
        /\ (ticking \in [Proc -> BOOLEAN])'
        /\ (toFire \in [Proc -> SUBSET Tasks])'
    BY <1>11, Constants DEF TypeOK, Table, FireBegun, Hand, HandFails, Fault, shared, wiring, era,
       tick
  <2>3. /\ (inflight \in [Proc -> SUBSET Tasks])'
        /\ (healthy \in [Proc -> BOOLEAN])'
        /\ (used \subseteq Tasks /\ saved \subseteq Tasks /\ gone \subseteq OneShots)'
        /\ (ended \subseteq Tasks)'
        /\ (runs \in [OneShots -> 0..2])'
    BY <1>11, Constants DEF TypeOK, Table, FireBegun, Hand, HandFails, Fault, shared, wiring, era,
       tick
  <2>4. /\ (tried \subseteq OneShots /\ excused \subseteq OneShots)'
        /\ (unsaved \in [Proc -> SUBSET OneShots])'
        /\ (overlap \in BOOLEAN)'
        /\ (opens \in 0..MaxOpens /\ requests \in 0..MaxRequests)'
        /\ (faults \in 0..MaxFaults)'
    BY <1>11, Constants DEF TypeOK, Table, FireBegun, Hand, HandFails, Fault, shared, wiring, era,
       tick
  <2>. QED
    BY <2>1, <2>2, <2>3, <2>4 DEF TypeOK
<1>12. ASSUME NEW p \in Proc, NEW t \in Tasks, Remove(p, t),
             requests < MaxRequests, requests' = requests + 1
      PROVE  TypeOK'
  <2>1. Without(table[p], {t}) \in Table
    BY <1>12, TableTypes DEF TypeOK
  <2>2. Store(p, Without(table[p], {t}), {}) /\ {} \in SUBSET OneShots
    BY <1>12 DEF Remove
  <2>. QED
    BY <1>12, <2>1, <2>2, StoreTypes, Constants DEF TypeOK, Remove, wiring, tick
<1>13. ASSUME NEW p \in Proc, NEW t \in Tasks, SetStatus(p, t),
             requests < MaxRequests, requests' = requests + 1
      PROVE  TypeOK'
  <2> DEFINE tab == [table[p] EXCEPT ![t].on = ~@]
  <2>1. table[p] \in Table /\ table[p][t] \in Definition
    BY <1>13 DEF TypeOK, Table, SetStatus, Held
  <2>2. [table[p][t] EXCEPT !.on = ~@] \in Definition
    BY <1>13, <2>1 DEF Definition
  <2>3. tab \in Table
    BY <2>1, <2>2, Zenon DEF Table
  <2>4. Store(p, tab, {}) /\ {} \in SUBSET OneShots
    BY <1>13 DEF SetStatus
  <2>. HIDE DEF tab
  <2>. QED
    BY <1>13, <2>3, <2>4, StoreTypes, Constants DEF TypeOK, SetStatus, wiring, tick
<1>14. ASSUME NEW p \in Proc, NEW t \in Tasks, RunNow(p, t),
             requests < MaxRequests, requests' = requests + 1
      PROVE  TypeOK'
  <2>1. Triggered(table[p], {t}, now) \in Table
    BY <1>14, TableTypes DEF TypeOK, RunNow, Matching
  <2>2. Store(p, Triggered(table[p], {t}, now), {t} \cap OneShots) /\ {t} \cap OneShots \in SUBSET
     OneShots
    BY <1>14 DEF RunNow
  <2>. QED
    BY <1>14, <2>1, <2>2, StoreTypes, Constants DEF TypeOK, RunNow, Begin, wiring, tick
<1>15. ASSUME NEW p \in Proc, NEW t \in Tasks, NEW at \in Ats[t], Add(p, t, at),
             requests < MaxRequests, requests' = requests + 1
      PROVE  TypeOK'
  <2>1. [table[p] EXCEPT ![t] = New(at, now)] \in Table
    BY <1>15, NewType DEF TypeOK, Table
  <2>2. Store(p, [table[p] EXCEPT ![t] = New(at, now)], {}) /\ {} \in SUBSET OneShots
    BY <1>15 DEF Add
  <2>. QED
    BY <1>15, <2>1, <2>2, StoreTypes, Constants DEF TypeOK, Add, wiring, tick
<1>16. ASSUME NEW p \in Proc, NEW t \in Tasks, NEW at \in Ats[t], AddPast(p, t, at),
             requests < MaxRequests, requests' = requests + 1
      PROVE  TypeOK'
  <2>1. /\ (now \in 0..MaxTime)'
        /\ (lock \in Proc \cup {Free, Dead})'
        /\ (file \in Table)'
        /\ (phase \in [Proc -> {"off", "acquiring", "idle", "recovering", "serving"}])'
        /\ (closed \in [Proc -> {"no", "stopped", "disposed"}])'
    BY <1>16, Constants DEF TypeOK, Table, AddPast, Begin, shared, wiring, tally, tick
  <2>2. /\ (isOwner \in [Proc -> BOOLEAN])'
        /\ (table \in [Proc -> Table])'
        /\ (running \in [Proc -> BOOLEAN])'
        /\ (ticking \in [Proc -> BOOLEAN])'
        /\ (toFire \in [Proc -> SUBSET Tasks])'
    BY <1>16, Constants DEF TypeOK, Table, AddPast, Begin, shared, wiring, tally, tick
  <2>3. /\ (inflight \in [Proc -> SUBSET Tasks])'
        /\ (healthy \in [Proc -> BOOLEAN])'
        /\ (used \subseteq Tasks /\ saved \subseteq Tasks /\ gone \subseteq OneShots)'
        /\ (ended \subseteq Tasks)'
        /\ (runs \in [OneShots -> 0..2])'
    BY <1>16, Constants DEF TypeOK, Table, AddPast, Begin, shared, wiring, tally, tick
  <2>4. /\ (tried \subseteq OneShots /\ excused \subseteq OneShots)'
        /\ (unsaved \in [Proc -> SUBSET OneShots])'
        /\ (overlap \in BOOLEAN)'
        /\ (opens \in 0..MaxOpens /\ requests \in 0..MaxRequests)'
        /\ (faults \in 0..MaxFaults)'
    BY <1>16, Constants DEF TypeOK, Table, AddPast, Begin, shared, wiring, tally, tick
  <2>. QED
    BY <2>1, <2>2, <2>3, <2>4 DEF TypeOK
<1>17. ASSUME NEW p \in Proc, NEW t \in Tasks, NEW at \in Ats[t], Update(p, t, at),
             requests < MaxRequests, requests' = requests + 1
      PROVE  TypeOK'
  <2> DEFINE tab == [table[p] EXCEPT ![t].at = at]
  <2>1. table[p] \in Table /\ table[p][t] \in Definition
    BY <1>17 DEF TypeOK, Table, Update, Held
  <2>2. [table[p][t] EXCEPT !.at = at] \in Definition
    BY <1>17, <2>1 DEF Definition
  <2>3. tab \in Table
    BY <2>1, <2>2, Zenon DEF Table
  <2>4. Store(p, tab, {}) /\ {} \in SUBSET OneShots
    BY <1>17 DEF Update
  <2>. HIDE DEF tab
  <2>. QED
    BY <1>17, <2>3, <2>4, StoreTypes, Constants DEF TypeOK, Update, wiring, tick
<1>18. ASSUME NEW p \in Proc, NEW S \in SUBSET Events, FireByEvent(p, S) PROVE TypeOK'
  <2>1. Triggered(table[p], Matching(table[p], S), now) \in Table
    BY <1>18, TableTypes, Constants DEF TypeOK, Matching, Held
  <2>2. Store(p, Triggered(table[p], Matching(table[p], S), now), {}) /\ {} \in SUBSET OneShots
    BY <1>18 DEF FireByEvent
  <2>3. Matching(table[p], S) \subseteq Tasks
    BY DEF Matching, Held
  <2>. QED
    BY <1>18, <2>1, <2>2, <2>3, StoreTypes, Constants DEF TypeOK, FireByEvent, Begin, wiring, tick
<1>19. ASSUME NEW p \in Proc, Close(p) PROVE TypeOK'
  <2>1. /\ (now \in 0..MaxTime)'
        /\ (lock \in Proc \cup {Free, Dead})'
        /\ (file \in Table)'
        /\ (phase \in [Proc -> {"off", "acquiring", "idle", "recovering", "serving"}])'
        /\ (closed \in [Proc -> {"no", "stopped", "disposed"}])'
    BY <1>19, Constants DEF TypeOK, Table, Close, Stop, era, tick
  <2>2. /\ (isOwner \in [Proc -> BOOLEAN])'
        /\ (table \in [Proc -> Table])'
        /\ (running \in [Proc -> BOOLEAN])'
        /\ (ticking \in [Proc -> BOOLEAN])'
        /\ (toFire \in [Proc -> SUBSET Tasks])'
    BY <1>19, Constants DEF TypeOK, Table, Close, Stop, era, tick
  <2>3. /\ (inflight \in [Proc -> SUBSET Tasks])'
        /\ (healthy \in [Proc -> BOOLEAN])'
        /\ (used \subseteq Tasks /\ saved \subseteq Tasks /\ gone \subseteq OneShots)'
        /\ (ended \subseteq Tasks)'
        /\ (runs \in [OneShots -> 0..2])'
    BY <1>19, Constants DEF TypeOK, Table, Close, Stop, era, tick
  <2>4. /\ (tried \subseteq OneShots /\ excused \subseteq OneShots)'
        /\ (unsaved \in [Proc -> SUBSET OneShots])'
        /\ (overlap \in BOOLEAN)'
        /\ (opens \in 0..MaxOpens /\ requests \in 0..MaxRequests)'
        /\ (faults \in 0..MaxFaults)'
    BY <1>19, Constants DEF TypeOK, Table, Close, Stop, era, tick
  <2>. QED
    BY <2>1, <2>2, <2>3, <2>4 DEF TypeOK
<1>20. ASSUME NEW p \in Proc, LoseStore(p) PROVE TypeOK'
  <2>1. /\ (now \in 0..MaxTime)'
        /\ (lock \in Proc \cup {Free, Dead})'
        /\ (file \in Table)'
        /\ (phase \in [Proc -> {"off", "acquiring", "idle", "recovering", "serving"}])'
        /\ (closed \in [Proc -> {"no", "stopped", "disposed"}])'
    BY <1>20, Constants DEF TypeOK, Table, LoseStore, Stop, Fault, era, tick
  <2>2. /\ (isOwner \in [Proc -> BOOLEAN])'
        /\ (table \in [Proc -> Table])'
        /\ (running \in [Proc -> BOOLEAN])'
        /\ (ticking \in [Proc -> BOOLEAN])'
        /\ (toFire \in [Proc -> SUBSET Tasks])'
    BY <1>20, Constants DEF TypeOK, Table, LoseStore, Stop, Fault, era, tick
  <2>3. /\ (inflight \in [Proc -> SUBSET Tasks])'
        /\ (healthy \in [Proc -> BOOLEAN])'
        /\ (used \subseteq Tasks /\ saved \subseteq Tasks /\ gone \subseteq OneShots)'
        /\ (ended \subseteq Tasks)'
        /\ (runs \in [OneShots -> 0..2])'
    BY <1>20, Constants DEF TypeOK, Table, LoseStore, Stop, Fault, era, tick
  <2>4. /\ (tried \subseteq OneShots /\ excused \subseteq OneShots)'
        /\ (unsaved \in [Proc -> SUBSET OneShots])'
        /\ (overlap \in BOOLEAN)'
        /\ (opens \in 0..MaxOpens /\ requests \in 0..MaxRequests)'
        /\ (faults \in 0..MaxFaults)'
    BY <1>20, Constants DEF TypeOK, Table, LoseStore, Stop, Fault, era, tick
  <2>. QED
    BY <2>1, <2>2, <2>3, <2>4 DEF TypeOK
<1>21. ASSUME NEW p \in Proc, CheckHealth(p) PROVE TypeOK'
  <2>1. /\ (now \in 0..MaxTime)'
        /\ (lock \in Proc \cup {Free, Dead})'
        /\ (file \in Table)'
        /\ (phase \in [Proc -> {"off", "acquiring", "idle", "recovering", "serving"}])'
        /\ (closed \in [Proc -> {"no", "stopped", "disposed"}])'
    BY <1>21, Constants DEF TypeOK, Table, CheckHealth, shared, books, era, tick
  <2>2. /\ (isOwner \in [Proc -> BOOLEAN])'
        /\ (table \in [Proc -> Table])'
        /\ (running \in [Proc -> BOOLEAN])'
        /\ (ticking \in [Proc -> BOOLEAN])'
        /\ (toFire \in [Proc -> SUBSET Tasks])'
    BY <1>21, Constants DEF TypeOK, Table, CheckHealth, shared, books, era, tick
  <2>3. /\ (inflight \in [Proc -> SUBSET Tasks])'
        /\ (healthy \in [Proc -> BOOLEAN])'
        /\ (used \subseteq Tasks /\ saved \subseteq Tasks /\ gone \subseteq OneShots)'
        /\ (ended \subseteq Tasks)'
        /\ (runs \in [OneShots -> 0..2])'
    BY <1>21, Constants DEF TypeOK, Table, CheckHealth, shared, books, era, tick
  <2>4. /\ (tried \subseteq OneShots /\ excused \subseteq OneShots)'
        /\ (unsaved \in [Proc -> SUBSET OneShots])'
        /\ (overlap \in BOOLEAN)'
        /\ (opens \in 0..MaxOpens /\ requests \in 0..MaxRequests)'
        /\ (faults \in 0..MaxFaults)'
    BY <1>21, Constants DEF TypeOK, Table, CheckHealth, shared, books, era, tick
  <2>. QED
    BY <2>1, <2>2, <2>3, <2>4 DEF TypeOK
<1>22. ASSUME NEW p \in Proc, Exit(p) PROVE TypeOK'
  <2>1. /\ (now \in 0..MaxTime)'
        /\ (lock \in Proc \cup {Free, Dead})'
        /\ (file \in Table)'
        /\ (phase \in [Proc -> {"off", "acquiring", "idle", "recovering", "serving"}])'
        /\ (closed \in [Proc -> {"no", "stopped", "disposed"}])'
    BY <1>22, Constants DEF TypeOK, Table, Exit, Gone, era
  <2>2. /\ (isOwner \in [Proc -> BOOLEAN])'
        /\ (table \in [Proc -> Table])'
        /\ (running \in [Proc -> BOOLEAN])'
        /\ (ticking \in [Proc -> BOOLEAN])'
        /\ (toFire \in [Proc -> SUBSET Tasks])'
    BY <1>22, Constants DEF TypeOK, Table, Exit, Gone, era
  <2>3. /\ (inflight \in [Proc -> SUBSET Tasks])'
        /\ (healthy \in [Proc -> BOOLEAN])'
        /\ (used \subseteq Tasks /\ saved \subseteq Tasks /\ gone \subseteq OneShots)'
        /\ (ended \subseteq Tasks)'
        /\ (runs \in [OneShots -> 0..2])'
    BY <1>22, Constants DEF TypeOK, Table, Exit, Gone, era
  <2>4. /\ (tried \subseteq OneShots /\ excused \subseteq OneShots)'
        /\ (unsaved \in [Proc -> SUBSET OneShots])'
        /\ (overlap \in BOOLEAN)'
        /\ (opens \in 0..MaxOpens /\ requests \in 0..MaxRequests)'
        /\ (faults \in 0..MaxFaults)'
    BY <1>22, Constants DEF TypeOK, Table, Exit, Gone, era
  <2>. QED
    BY <2>1, <2>2, <2>3, <2>4 DEF TypeOK
<1>23. ASSUME NEW p \in Proc, Crash(p) PROVE TypeOK'
  <2>1. /\ (now \in 0..MaxTime)'
        /\ (lock \in Proc \cup {Free, Dead})'
        /\ (file \in Table)'
        /\ (phase \in [Proc -> {"off", "acquiring", "idle", "recovering", "serving"}])'
        /\ (closed \in [Proc -> {"no", "stopped", "disposed"}])'
    BY <1>23, Constants DEF TypeOK, Table, Crash, Gone, Fault, era
  <2>2. /\ (isOwner \in [Proc -> BOOLEAN])'
        /\ (table \in [Proc -> Table])'
        /\ (running \in [Proc -> BOOLEAN])'
        /\ (ticking \in [Proc -> BOOLEAN])'
        /\ (toFire \in [Proc -> SUBSET Tasks])'
    BY <1>23, Constants DEF TypeOK, Table, Crash, Gone, Fault, era
  <2>3. /\ (inflight \in [Proc -> SUBSET Tasks])'
        /\ (healthy \in [Proc -> BOOLEAN])'
        /\ (used \subseteq Tasks /\ saved \subseteq Tasks /\ gone \subseteq OneShots)'
        /\ (ended \subseteq Tasks)'
        /\ (runs \in [OneShots -> 0..2])'
    BY <1>23, Constants DEF TypeOK, Table, Crash, Gone, Fault, era
  <2>4. /\ (tried \subseteq OneShots /\ excused \subseteq OneShots)'
        /\ (unsaved \in [Proc -> SUBSET OneShots])'
        /\ (overlap \in BOOLEAN)'
        /\ (opens \in 0..MaxOpens /\ requests \in 0..MaxRequests)'
        /\ (faults \in 0..MaxFaults)'
    BY <1>23, Constants DEF TypeOK, Table, Crash, Gone, Fault, era
  <2>. QED
    BY <2>1, <2>2, <2>3, <2>4 DEF TypeOK
<1>. QED
  BY <1>1, <1>2, <1>3, <1>4, <1>5, <1>6, <1>7, <1>8, <1>9, <1>10, <1>11, <1>12, <1>13, <1>14,
     <1>15, <1>16, <1>17, <1>18, <1>19, <1>20, <1>21, <1>22, <1>23 DEF Next, Start, Fires,
     Request, Event, Ends

\* A step that changes nothing keeps the types.
LEMMA TypeStutter ==
  ASSUME TypeOK, UNCHANGED vars
  PROVE  TypeOK'
BY DEF TypeOK, vars, shared, wiring, memory, tick, books, tally, era

\* Type correctness: every variable of the scheduler keeps its type.
THEOREM TypeCorrect == Spec => []TypeOK
<1>1. Init => TypeOK
  BY TypeInit
<1>2. TypeOK /\ [Next]_vars => TypeOK'
  BY TypeNext, TypeStutter
<1>. QED
  BY <1>1, <1>2, PTL DEF Spec


-----------------------------------------------------------------------------
(* The file of the owner is its table.                                     *)

\* Only a sidecar that got through its start owns the lock or runs a scheduler,
\* and one that still has to ask for the lock has loaded nothing.
Phases ==
  \A p \in Proc :
    /\ isOwner[p] => phase[p] \in {"recovering", "serving"}
    /\ running[p] \/ ticking[p] => phase[p] = "serving"
    /\ phase[p] \in {"off", "acquiring"} => table[p] = [t \in Tasks |-> NoDef]

OneOwner == overlap \/ \A p, q \in Proc : isOwner[p] /\ isOwner[q] => p = q

\* FileMatchesMemory without the lock file: what a sidecar believes is enough.
Synced ==
  overlap \/ \A p \in Proc : isOwner[p] /\ healthy[p] /\ ~ticking[p] => file = table[p]

FileInv == Phases /\ OneOwner /\ Synced

\* It holds when nothing runs yet.
LEMMA FileInit == Init => FileInv
BY DEF Init, FileInv, Phases, OneOwner, Synced

\* A mutation that is stored keeps the file and the table of the owner equal.
LEMMA StoreSync ==
  ASSUME TypeOK, FileInv, NEW p \in Proc, NEW tab, NEW ran, Store(p, tab, ran)
  PROVE  FileInv'
<1>1. /\ isOwner[p] /\ table' = [table EXCEPT ![p] = tab] /\ Persist(p, tab, ran)
      /\ UNCHANGED <<phase, isOwner, running, ticking, overlap>>
  BY DEF Store, wiring, tick
<1>2. Phases'
  BY <1>1 DEF FileInv, Phases, TypeOK
<1>3. OneOwner'
  BY <1>1 DEF FileInv, OneOwner, TypeOK
<1>4. Synced'
  BY <1>1 DEF FileInv, OneOwner, Synced, TypeOK, Persist
<1>. QED
  BY <1>2, <1>3, <1>4 DEF FileInv

\* A step keeps the file of the owner equal to its table.
LEMMA FileNext ==
  ASSUME TypeOK, FileInv, Next
  PROVE  FileInv'
<1>1. ASSUME Advance PROVE FileInv'
  BY <1>1 DEF TypeOK, FileInv, Phases, OneOwner, Synced, Advance, wiring, memory, books, tally,
     era, tick
<1>2. ASSUME DeleteLock PROVE FileInv'
  BY <1>2 DEF TypeOK, FileInv, Phases, OneOwner, Synced, DeleteLock, Fault, wiring, memory, books,
     tally, era, tick
<1>3. ASSUME NEW p \in Proc, Open(p) PROVE FileInv'
  BY <1>3 DEF TypeOK, FileInv, Phases, OneOwner, Synced, Open, shared, memory, books, tally, tick
<1>4. ASSUME NEW p \in Proc, AcquireWon(p) PROVE FileInv'
  <2>1. /\ phase[p] = "acquiring" /\ isOwner' = [isOwner EXCEPT ![p] = TRUE]
        /\ table' = [table EXCEPT ![p] = Loaded(table[p])]
        /\ phase' = [phase EXCEPT ![p] = "recovering"]
        /\ overlap' = (overlap \/ \E q \in Proc \ {p} : isOwner[q])
        /\ UNCHANGED <<file, running, ticking, healthy>>
    BY <1>4 DEF AcquireWon, tick
  <2>2. Loaded(table[p]) = file
    <3>1. table[p] = [t \in Tasks |-> NoDef] /\ file = [t \in Tasks |-> file[t]]
      BY <2>1 DEF FileInv, Phases, TypeOK, Table
    <3>. QED
      BY <3>1 DEF Loaded
  <2>3. Phases'
    BY <2>1 DEF FileInv, Phases, TypeOK
  <2>4. OneOwner'
    BY <2>1 DEF FileInv, OneOwner, TypeOK
  <2>5. Synced'
    BY <2>1, <2>2 DEF Synced, TypeOK
  <2>. QED
    BY <2>3, <2>4, <2>5 DEF FileInv
<1>5. ASSUME NEW p \in Proc, AcquireLost(p) PROVE FileInv'
  BY <1>5 DEF TypeOK, FileInv, Phases, OneOwner, Synced, AcquireLost, Fault, shared, memory,
     books, tally, era, tick
<1>6. ASSUME NEW p \in Proc, StartRefused(p) PROVE FileInv'
  BY <1>6 DEF TypeOK, FileInv, Phases, OneOwner, Synced, StartRefused, shared, memory, books,
     tally, era, tick
<1>7. ASSUME NEW p \in Proc, StartScheduler(p) PROVE FileInv'
  <2> DEFINE loaded == Loaded(table[p])
             due    == TickFires(loaded, now)
             drops  == TickDrops(loaded, now)
             ticked == NextTable(loaded, now)
             event  == Matching(ticked, AppOpen)
             final  == Triggered(ticked, event, now)
  <2>1. /\ phase[p] = "recovering" /\ isOwner[p]
        /\ phase' = [phase EXCEPT ![p] = "serving"] /\ running' = [running EXCEPT ![p] = TRUE]
        /\ table' = [table EXCEPT ![p] = final] /\ ticking' = [ticking EXCEPT ![p] = due # {}]
        /\ UNCHANGED <<isOwner, overlap>>
        /\ \/ Persist(p, final, {})
           \/ event = {} /\ (due # {} \/ drops = {}) /\ NoPersist
    BY <1>7 DEF StartScheduler, era
  <2>2. Phases' /\ OneOwner'
    BY <2>1 DEF FileInv, Phases, OneOwner, TypeOK
  <2>3. ASSUME due = {}, drops = {}, event = {}, file = table[p] PROVE final = table[p]
    <3>1. \A t \in Tasks : final[t] = table[p][t]
      BY <2>3 DEF NextTable, Without, Triggered, Loaded
    <3>2. table[p] \in Table /\ final = [t \in Tasks |-> final[t]]
      BY DEF TypeOK, Triggered
    <3>. QED
      BY <3>1, <3>2 DEF Table
  <2>. HIDE DEF loaded, due, drops, ticked, event, final
  <2>4. Synced'
    <3>1. CASE Persist(p, final, {})
      BY <2>1, <3>1 DEF FileInv, OneOwner, Synced, TypeOK, Persist
    <3>2. CASE event = {} /\ (due # {} \/ drops = {}) /\ NoPersist
      <4>1. ~ticking[p]
        BY <2>1 DEF FileInv, Phases, TypeOK
      <4>. QED
        BY <2>1, <2>3, <3>2, <4>1 DEF FileInv, OneOwner, Synced, TypeOK, NoPersist
    <3>. QED
      BY <2>1, <3>1, <3>2
  <2>. QED
    BY <2>2, <2>4 DEF FileInv
<1>8. ASSUME NEW p \in Proc, Tick(p) PROVE FileInv'
  <2> DEFINE due   == TickFires(table[p], now)
             final == NextTable(table[p], now)
  <2>1. /\ running[p] /\ table' = [table EXCEPT ![p] = final]
        /\ ticking' = [ticking EXCEPT ![p] = due # {}]
        /\ UNCHANGED <<phase, isOwner, running, overlap>>
        /\ \/ due = {} /\ Persist(p, final, {})
           \/ due # {} /\ NoPersist
    BY <1>8 DEF Tick, wiring, era
  <2>. HIDE DEF due, final
  <2>2. Phases' /\ OneOwner'
    BY <2>1 DEF FileInv, Phases, OneOwner, TypeOK
  <2>3. Synced'
    BY <2>1 DEF FileInv, OneOwner, Synced, TypeOK, Persist, NoPersist
  <2>. QED
    BY <2>2, <2>3 DEF FileInv
<1>9. ASSUME NEW p \in Proc, TickEnd(p) PROVE FileInv'
  <2>1. /\ ticking' = [ticking EXCEPT ![p] = FALSE] /\ Persist(p, table[p], {})
        /\ UNCHANGED <<phase, isOwner, table, running, overlap>>
    BY <1>9 DEF TickEnd, wiring, era
  <2>2. Phases' /\ OneOwner'
    BY <2>1 DEF FileInv, Phases, OneOwner, TypeOK
  <2>3. Synced'
    BY <2>1 DEF FileInv, OneOwner, Synced, TypeOK, Persist
  <2>. QED
    BY <2>2, <2>3 DEF FileInv
<1>10. ASSUME NEW p \in Proc, NEW t \in Tasks, FireNext(p, t) PROVE FileInv'
  BY <1>10 DEF TypeOK, FileInv, Phases, OneOwner, Synced, FireNext, Hand, HandFails, Fault,
     shared, wiring, era
<1>11. ASSUME NEW p \in Proc, NEW t \in Tasks, FireBegun(p, t) PROVE FileInv'
  BY <1>11 DEF TypeOK, FileInv, Phases, OneOwner, Synced, FireBegun, Hand, HandFails, Fault,
     shared, wiring, era, tick
<1>12. ASSUME NEW p \in Proc, NEW t \in Tasks, Remove(p, t),
             requests < MaxRequests, requests' = requests + 1
      PROVE  FileInv'
  BY <1>12, StoreSync DEF Remove
<1>13. ASSUME NEW p \in Proc, NEW t \in Tasks, SetStatus(p, t),
             requests < MaxRequests, requests' = requests + 1
      PROVE  FileInv'
  BY <1>13, StoreSync DEF SetStatus
<1>14. ASSUME NEW p \in Proc, NEW t \in Tasks, RunNow(p, t),
             requests < MaxRequests, requests' = requests + 1
      PROVE  FileInv'
  BY <1>14, StoreSync DEF RunNow
<1>15. ASSUME NEW p \in Proc, NEW t \in Tasks, NEW at \in Ats[t], Add(p, t, at),
             requests < MaxRequests, requests' = requests + 1
      PROVE  FileInv'
  BY <1>15, StoreSync DEF Add
<1>16. ASSUME NEW p \in Proc, NEW t \in Tasks, NEW at \in Ats[t], AddPast(p, t, at),
             requests < MaxRequests, requests' = requests + 1
      PROVE  FileInv'
  BY <1>16 DEF TypeOK, FileInv, Phases, OneOwner, Synced, AddPast, Begin, shared, wiring, tally,
     tick
<1>17. ASSUME NEW p \in Proc, NEW t \in Tasks, NEW at \in Ats[t], Update(p, t, at),
             requests < MaxRequests, requests' = requests + 1
      PROVE  FileInv'
  BY <1>17, StoreSync DEF Update
<1>18. ASSUME NEW p \in Proc, NEW S \in SUBSET Events, FireByEvent(p, S) PROVE FileInv'
  BY <1>18, StoreSync DEF FireByEvent
<1>19. ASSUME NEW p \in Proc, Close(p) PROVE FileInv'
  BY <1>19 DEF TypeOK, FileInv, Phases, OneOwner, Synced, Close, Stop, era, tick
<1>20. ASSUME NEW p \in Proc, LoseStore(p) PROVE FileInv'
  BY <1>20 DEF TypeOK, FileInv, Phases, OneOwner, Synced, LoseStore, Stop, Fault, era, tick
<1>21. ASSUME NEW p \in Proc, CheckHealth(p) PROVE FileInv'
  BY <1>21 DEF TypeOK, FileInv, Phases, OneOwner, Synced, CheckHealth, shared, books, era, tick
<1>22. ASSUME NEW p \in Proc, Exit(p) PROVE FileInv'
  BY <1>22 DEF TypeOK, FileInv, Phases, OneOwner, Synced, Exit, Gone, era
<1>23. ASSUME NEW p \in Proc, Crash(p) PROVE FileInv'
  BY <1>23 DEF TypeOK, FileInv, Phases, OneOwner, Synced, Crash, Gone, Fault, era
<1>. QED
  BY <1>1, <1>2, <1>3, <1>4, <1>5, <1>6, <1>7, <1>8, <1>9, <1>10, <1>11, <1>12, <1>13, <1>14,
     <1>15, <1>16, <1>17, <1>18, <1>19, <1>20, <1>21, <1>22, <1>23 DEF Next, Start, Fires,
     Request, Event, Ends

\* A step that changes nothing keeps it.
LEMMA FileStutter ==
  ASSUME FileInv, UNCHANGED vars
  PROVE  FileInv'
BY DEF FileInv, Phases, OneOwner, Synced, vars, shared, wiring, memory, tick, books, tally, era

\* FileMatchesMemory: what the owner reports as saved is on disk.
THEOREM FileMatchesMemoryHolds == Spec => []FileMatchesMemory
<1>1. Init => TypeOK /\ FileInv
  BY TypeInit, FileInit
<1>2. TypeOK /\ FileInv /\ [Next]_vars => TypeOK' /\ FileInv'
  BY TypeNext, TypeStutter, FileNext, FileStutter
<1>3. FileInv => FileMatchesMemory
  BY DEF FileInv, Synced, FileMatchesMemory
<1>. QED
  BY <1>1, <1>2, <1>3, PTL DEF Spec


-----------------------------------------------------------------------------
(* A oneshot that left the file stays out of it.                           *)

\* A sidecar that has been stopped owns nothing and runs no scheduler; a scheduler
\* runs only for the owner.
Ending ==
  \A p \in Proc :
    /\ phase[p] = "off" => closed[p] = "no"
    /\ running[p] => isOwner[p]
    /\ closed[p] # "no" => phase[p] # "acquiring" /\ ~isOwner[p]

\* No id is in a table or was in the file that has not been handed out.
Spread ==
  /\ Held(file) \subseteq used /\ gone \subseteq used
  /\ \A p \in Proc : Held(table[p]) \subseteq used

Vanished ==
  overlap \/ /\ gone \cap Held(file) = {}
             /\ \A p \in Proc : isOwner[p] => gone \cap Held(table[p]) = {}

GoneInv == Ending /\ Spread /\ Vanished

GoneStep ==
  overlap' \/ \A p \in Proc :
    gone \cap (toFire'[p] \cup inflight'[p]) \subseteq toFire[p] \cup inflight[p]

\* Nothing has left the file yet.
LEMMA GoneInit == Init => GoneInv
BY DEF Init, GoneInv, Ending, Spread, Vanished, Held

\* What the pure parts make of a table holds nothing that was in neither the table
\* nor the file.
LEMMA HeldShrinks ==
  ASSUME NEW tab \in Table, NEW n \in 0..MaxTime, NEW S \in SUBSET Tasks
  PROVE  /\ Held(Without(tab, S)) \subseteq Held(tab)
         /\ S \subseteq Held(tab) => Held(Triggered(tab, S, n)) \subseteq Held(tab)
         /\ Held(NextTable(tab, n)) \subseteq Held(tab)
         /\ Held(Loaded(tab)) \subseteq Held(tab) \cup Held(file)
<1>1. ASSUME NEW any, NEW T \in SUBSET Tasks PROVE Held(Without(any, T)) \subseteq Held(any)
  BY DEF Without, Held
<1>2. ASSUME NEW T \in SUBSET Tasks, T \subseteq Held(tab)
      PROVE  Held(Triggered(tab, T, n)) \subseteq Held(tab)
  BY <1>2 DEF Triggered, Held
<1>3. Held(NextTable(tab, n)) \subseteq Held(tab)
  <2>1. /\ TickFires(tab, n) \subseteq Held(tab) /\ TickDrops(tab, n) \subseteq Held(tab)
        /\ Held(tab) \subseteq Tasks
    BY TickTypes
  <2>2. Held(Triggered(tab, TickFires(tab, n), n)) \subseteq Held(tab)
    BY <1>2, <2>1
  <2>. QED
    BY <1>1, <2>1, <2>2 DEF NextTable
<1>4. Held(Loaded(tab)) \subseteq Held(tab) \cup Held(file)
  BY DEF Loaded, Held
<1>. QED
  BY <1>1, <1>2, <1>3, <1>4

\* Saving a table that holds nothing that has left the file.
LEMMA PersistGone ==
  ASSUME TypeOK, FileInv, GoneInv, NEW p \in Proc, NEW tab, NEW ran,
         Persist(p, tab, ran) \/ NoPersist, table' = [table EXCEPT ![p] = tab],
         UNCHANGED <<isOwner, overlap>>, used \subseteq used', Held(tab) \subseteq used',
         overlap \/ (isOwner[p] => gone \cap Held(tab) = {})
  PROVE  Spread' /\ Vanished'
<1>1. \A q \in Proc : Held(table'[q]) \subseteq used'
  <2>. TAKE q \in Proc
  <2>1. CASE q = p
    BY <2>1 DEF TypeOK
  <2>2. CASE q # p
    BY <2>2 DEF TypeOK, GoneInv, Spread
  <2>. QED
    BY <2>1, <2>2
<1>2. CASE NoPersist
  <2>1. Spread'
    BY <1>1, <1>2 DEF GoneInv, Spread, NoPersist, Held
  <2>2. ASSUME ~overlap, NEW q \in Proc, isOwner[q] PROVE gone \cap Held(table'[q]) = {}
    BY <2>2 DEF TypeOK, GoneInv, Vanished
  <2>. QED
    BY <1>2, <2>1, <2>2 DEF GoneInv, Vanished, NoPersist, Held
<1>3. CASE Persist(p, tab, ran) /\ ~isOwner[p]
  <2>1. UNCHANGED <<file, gone>>
    BY <1>3 DEF Persist
  <2>2. Spread'
    BY <1>1, <2>1 DEF GoneInv, Spread, Held
  <2>3. ASSUME ~overlap, NEW q \in Proc, isOwner[q] PROVE gone \cap Held(table'[q]) = {}
    BY <1>3, <2>3 DEF TypeOK, GoneInv, Vanished
  <2>. QED
    BY <2>1, <2>2, <2>3 DEF GoneInv, Vanished, Held
<1>4. CASE Persist(p, tab, ran) /\ isOwner[p]
  <2>1. ASSUME ~overlap, NEW q \in Proc, isOwner[q] PROVE q = p /\ table'[q] = tab
    BY <1>4, <2>1 DEF TypeOK, FileInv, OneOwner
  <2>2. CASE UNCHANGED <<file, gone>>
    <3>1. Spread'
      BY <1>1, <2>2 DEF GoneInv, Spread, Held
    <3>. QED
      BY <1>4, <2>1, <2>2, <3>1 DEF GoneInv, Vanished, Held
  <2>3. CASE file' = tab /\ gone' = gone \cup ((OneShots \cap Held(file)) \ Held(tab))
    <3>1. Held(file') = Held(tab)
      BY <2>3 DEF Held
    <3>2. Spread'
      BY <1>1, <2>3, <3>1 DEF GoneInv, Spread
    <3>3. ~overlap => gone' \cap Held(tab) = {}
      BY <1>4, <2>3
    <3>. QED
      BY <2>1, <3>1, <3>2, <3>3 DEF Vanished
  <2>. QED
    BY <1>4, <2>2, <2>3 DEF Persist
<1>. QED
  BY <1>2, <1>3, <1>4

\* A stored mutation that puts into the table only ids not handed out before, and
\* begins the runs of S: of tasks the table holds, if any.
LEMMA StoreGone ==
  ASSUME TypeOK, FileInv, GoneInv, NEW p \in Proc, NEW tab, NEW ran, NEW S,
         Store(p, tab, ran), used \subseteq used', Held(tab) \subseteq used',
         Held(tab) \cap used \subseteq Held(table[p]), S \subseteq Held(table[p]),
         inflight' = inflight \/ Begin(p, S)
  PROVE  GoneInv' /\ GoneStep
<1>1. /\ isOwner[p] /\ table' = [table EXCEPT ![p] = tab] /\ Persist(p, tab, ran)
      /\ UNCHANGED <<phase, closed, isOwner, running, toFire, overlap>>
  BY DEF Store, wiring, tick
<1>2. overlap \/ gone \cap Held(tab) = {}
  BY <1>1 DEF GoneInv, Spread, Vanished
<1>3. Spread' /\ Vanished'
  BY <1>1, <1>2, PersistGone
<1>4. Ending'
  BY <1>1 DEF GoneInv, Ending
<1>5. GoneStep
  BY <1>1 DEF GoneStep, Begin, TypeOK, GoneInv, Vanished
<1>. QED
  BY <1>3, <1>4, <1>5 DEF GoneInv

\* A step keeps it out, and takes up nothing that has left the file.
LEMMA GoneNext ==
  ASSUME MayStopInStart = FALSE, TypeOK, FileInv, GoneInv, Next
  PROVE  GoneInv' /\ GoneStep
<1>1. ASSUME Advance PROVE GoneInv' /\ GoneStep
  BY <1>1 DEF TypeOK, GoneInv, Ending, Spread, Vanished, GoneStep, Held, Advance, wiring, memory,
     books, tally, era, tick
<1>2. ASSUME DeleteLock PROVE GoneInv' /\ GoneStep
  BY <1>2 DEF TypeOK, GoneInv, Ending, Spread, Vanished, GoneStep, Held, DeleteLock, Fault,
     wiring, memory, books, tally, era, tick
<1>3. ASSUME NEW p \in Proc, Open(p) PROVE GoneInv' /\ GoneStep
  BY <1>3 DEF TypeOK, GoneInv, Ending, Spread, Vanished, GoneStep, Held, Open, shared, memory,
     books, tally, tick
<1>4. ASSUME NEW p \in Proc, AcquireWon(p) PROVE GoneInv' /\ GoneStep
  <2>1. /\ phase[p] = "acquiring" /\ isOwner' = [isOwner EXCEPT ![p] = TRUE]
        /\ table' = [table EXCEPT ![p] = Loaded(table[p])]
        /\ phase' = [phase EXCEPT ![p] = "recovering"]
        /\ overlap' = (overlap \/ \E q \in Proc \ {p} : isOwner[q])
        /\ UNCHANGED <<file, closed, running, toFire, inflight, used, gone>>
    BY <1>4 DEF AcquireWon, tick, books
  <2>2. Held(table[p]) = {} /\ Held(Loaded(table[p])) \subseteq Held(file)
    BY <2>1 DEF FileInv, Phases, Loaded, Held
  <2>3. Ending'
    BY <2>1 DEF GoneInv, Ending, TypeOK
  <2>4. Spread' /\ Vanished'
    BY <2>1, <2>2 DEF GoneInv, Spread, Vanished, TypeOK, Held
  <2>. QED
    BY <2>1, <2>3, <2>4 DEF GoneInv, GoneStep
<1>5. ASSUME NEW p \in Proc, AcquireLost(p) PROVE GoneInv' /\ GoneStep
  BY <1>5 DEF TypeOK, GoneInv, Ending, Spread, Vanished, GoneStep, Held, AcquireLost, Fault,
     shared, memory, books, tally, era, tick
<1>6. ASSUME NEW p \in Proc, StartRefused(p) PROVE GoneInv' /\ GoneStep
  BY <1>6 DEF TypeOK, GoneInv, Ending, Spread, Vanished, GoneStep, Held, StartRefused, shared,
     memory, books, tally, era, tick
<1>7. ASSUME NEW p \in Proc, StartScheduler(p) PROVE GoneInv' /\ GoneStep
  <2> DEFINE loaded == Loaded(table[p])
             due    == TickFires(loaded, now)
             drops  == TickDrops(loaded, now)
             ticked == NextTable(loaded, now)
             event  == Matching(ticked, AppOpen)
             final  == Triggered(ticked, event, now)
  <2>1. /\ phase[p] = "recovering" /\ isOwner[p] /\ table' = [table EXCEPT ![p] = final]
        /\ phase' = [phase EXCEPT ![p] = "serving"] /\ running' = [running EXCEPT ![p] = TRUE]
        /\ toFire' = [toFire EXCEPT ![p] = due] /\ Begin(p, event)
        /\ UNCHANGED <<closed, isOwner, used, overlap>>
        /\ Persist(p, final, {}) \/ NoPersist
    BY <1>7 DEF StartScheduler, era
  <2>2. loaded \in Table
    BY TableTypes DEF TypeOK
  <2>3. /\ ticked \in Table /\ due \subseteq Held(loaded) /\ event \subseteq Held(ticked)
        /\ Held(ticked) \subseteq Tasks
    BY <2>2, TickTypes DEF TypeOK, Matching, Held
  <2>4. /\ Held(final) \subseteq Held(ticked) /\ Held(ticked) \subseteq Held(loaded)
        /\ Held(loaded) \subseteq Held(table[p]) \cup Held(file)
    BY <2>2, <2>3, HeldShrinks DEF TypeOK
  <2>. HIDE DEF loaded, due, drops, ticked, event, final
  <2>5. Held(final) \subseteq used /\ (overlap \/ gone \cap Held(loaded) = {})
    BY <2>1, <2>4 DEF GoneInv, Spread, Vanished
  <2>6. Spread' /\ Vanished'
    BY <2>1, <2>4, <2>5, PersistGone
  <2>7. Ending'
    BY <2>1 DEF GoneInv, Ending, TypeOK
  <2>8. GoneStep
    BY <2>1, <2>3, <2>4, <2>5 DEF GoneStep, Begin, TypeOK
  <2>. QED
    BY <2>6, <2>7, <2>8 DEF GoneInv
<1>8. ASSUME NEW p \in Proc, Tick(p) PROVE GoneInv' /\ GoneStep
  <2> DEFINE due   == TickFires(table[p], now)
             final == NextTable(table[p], now)
  <2>1. /\ running[p] /\ table' = [table EXCEPT ![p] = final]
        /\ toFire' = [toFire EXCEPT ![p] = due]
        /\ UNCHANGED <<phase, closed, isOwner, running, inflight, used, overlap>>
        /\ Persist(p, final, {}) \/ NoPersist
    BY <1>8 DEF Tick, wiring, era
  <2>2. due \subseteq Held(table[p]) /\ Held(final) \subseteq Held(table[p])
    BY TickTypes, HeldShrinks DEF TypeOK
  <2>. HIDE DEF due, final
  <2>3. /\ isOwner[p] /\ Held(final) \subseteq used
        /\ overlap \/ gone \cap Held(table[p]) = {}
    BY <2>1, <2>2 DEF GoneInv, Ending, Spread, Vanished
  <2>4. Spread' /\ Vanished'
    BY <2>1, <2>2, <2>3, PersistGone
  <2>5. Ending'
    BY <2>1 DEF GoneInv, Ending
  <2>6. GoneStep
    BY <2>1, <2>2, <2>3 DEF GoneStep, TypeOK
  <2>. QED
    BY <2>4, <2>5, <2>6 DEF GoneInv
<1>9. ASSUME NEW p \in Proc, TickEnd(p) PROVE GoneInv' /\ GoneStep
  <2>1. /\ Persist(p, table[p], {})
        /\ UNCHANGED <<phase, closed, isOwner, table, running, toFire, inflight, used, overlap>>
    BY <1>9 DEF TickEnd, wiring, era
  <2>2. table' = [table EXCEPT ![p] = table[p]]
    BY <2>1 DEF TypeOK
  <2>3. Held(table[p]) \subseteq used /\ (overlap \/ (isOwner[p] => gone \cap Held(table[p]) =
     {}))
    BY DEF GoneInv, Spread, Vanished
  <2>4. Spread' /\ Vanished'
    BY <2>1, <2>2, <2>3, PersistGone
  <2>. QED
    BY <2>1, <2>4 DEF GoneInv, Ending, GoneStep
<1>10. ASSUME NEW p \in Proc, NEW t \in Tasks, FireNext(p, t) PROVE GoneInv' /\ GoneStep
  BY <1>10 DEF TypeOK, GoneInv, Ending, Spread, Vanished, GoneStep, Held, FireNext, Hand,
     HandFails, Fault, shared, wiring, era
<1>11. ASSUME NEW p \in Proc, NEW t \in Tasks, FireBegun(p, t) PROVE GoneInv' /\ GoneStep
  BY <1>11 DEF TypeOK, GoneInv, Ending, Spread, Vanished, GoneStep, Held, FireBegun, Hand,
     HandFails, Fault, shared, wiring, era, tick
<1>12. ASSUME NEW p \in Proc, NEW t \in Tasks, Remove(p, t),
             requests < MaxRequests, requests' = requests + 1
      PROVE  GoneInv' /\ GoneStep
  <2> DEFINE tab == Without(table[p], {t})
  <2>1. /\ Held(tab) \subseteq Held(table[p]) /\ {} \subseteq Held(table[p])
    BY HeldShrinks DEF TypeOK
  <2>2. Store(p, tab, {}) /\ used \subseteq used' /\ (inflight' = inflight)
    BY <1>12 DEF Remove
  <2>3. Held(tab) \subseteq used' /\ Held(tab) \cap used \subseteq Held(table[p])
    BY <1>12, <2>1 DEF Remove, GoneInv, Spread
  <2>. HIDE DEF tab
  <2>. QED
    BY <2>1, <2>2, <2>3, StoreGone
<1>13. ASSUME NEW p \in Proc, NEW t \in Tasks, SetStatus(p, t),
             requests < MaxRequests, requests' = requests + 1
      PROVE  GoneInv' /\ GoneStep
  <2> DEFINE tab == [table[p] EXCEPT ![t].on = ~@]
  <2>1. /\ Held(tab) \subseteq Held(table[p]) /\ {} \subseteq Held(table[p])
    <3>1. table[p] \in Table /\ t \in Held(table[p])
      BY <1>13 DEF TypeOK, SetStatus
    <3>. QED
      BY <3>1 DEF Table, Held
  <2>2. Store(p, tab, {}) /\ used \subseteq used' /\ (inflight' = inflight)
    BY <1>13 DEF SetStatus
  <2>3. Held(tab) \subseteq used' /\ Held(tab) \cap used \subseteq Held(table[p])
    BY <1>13, <2>1 DEF SetStatus, GoneInv, Spread
  <2>. HIDE DEF tab
  <2>. QED
    BY <2>1, <2>2, <2>3, StoreGone
<1>14. ASSUME NEW p \in Proc, NEW t \in Tasks, RunNow(p, t),
             requests < MaxRequests, requests' = requests + 1
      PROVE  GoneInv' /\ GoneStep
  <2> DEFINE tab == Triggered(table[p], {t}, now)
  <2>1. /\ Held(tab) \subseteq Held(table[p]) /\ {t} \subseteq Held(table[p])
    <3>1. t \in Held(table[p])
      BY <1>14 DEF RunNow, Matching
    <3>. QED
      BY <3>1, HeldShrinks DEF TypeOK
  <2>2. Store(p, tab, {t} \cap OneShots) /\ used \subseteq used' /\ (Begin(p, {t}))
    BY <1>14 DEF RunNow
  <2>3. Held(tab) \subseteq used' /\ Held(tab) \cap used \subseteq Held(table[p])
    BY <1>14, <2>1 DEF RunNow, GoneInv, Spread
  <2>. HIDE DEF tab
  <2>. QED
    BY <2>1, <2>2, <2>3, StoreGone
<1>15. ASSUME NEW p \in Proc, NEW t \in Tasks, NEW at \in Ats[t], Add(p, t, at),
             requests < MaxRequests, requests' = requests + 1
      PROVE  GoneInv' /\ GoneStep
  <2> DEFINE tab == [table[p] EXCEPT ![t] = New(at, now)]
  <2>1. /\ Held(tab) \subseteq Held(table[p]) \cup {t} /\ {} \subseteq Held(table[p])
    <3>1. table[p] \in Table
      BY DEF TypeOK
    <3>. QED
      BY <3>1 DEF Table, Held
  <2>2. Store(p, tab, {}) /\ used \subseteq used' /\ (inflight' = inflight)
    BY <1>15 DEF Add
  <2>3. Held(tab) \subseteq used' /\ Held(tab) \cap used \subseteq Held(table[p])
    BY <1>15, <2>1 DEF Add, GoneInv, Spread
  <2>. HIDE DEF tab
  <2>. QED
    BY <2>1, <2>2, <2>3, StoreGone
<1>16. ASSUME NEW p \in Proc, NEW t \in Tasks, NEW at \in Ats[t], AddPast(p, t, at),
             requests < MaxRequests, requests' = requests + 1
      PROVE  GoneInv' /\ GoneStep
  BY <1>16 DEF TypeOK, GoneInv, Ending, Spread, Vanished, GoneStep, Held, AddPast, Begin, shared,
     wiring, tally, tick
<1>17. ASSUME NEW p \in Proc, NEW t \in Tasks, NEW at \in Ats[t], Update(p, t, at),
             requests < MaxRequests, requests' = requests + 1
      PROVE  GoneInv' /\ GoneStep
  <2> DEFINE tab == [table[p] EXCEPT ![t].at = at]
  <2>1. /\ Held(tab) \subseteq Held(table[p]) /\ {} \subseteq Held(table[p])
    <3>1. table[p] \in Table /\ t \in Held(table[p])
      BY <1>17 DEF TypeOK, Update
    <3>. QED
      BY <3>1 DEF Table, Held
  <2>2. Store(p, tab, {}) /\ used \subseteq used' /\ (inflight' = inflight)
    BY <1>17 DEF Update
  <2>3. Held(tab) \subseteq used' /\ Held(tab) \cap used \subseteq Held(table[p])
    BY <1>17, <2>1 DEF Update, GoneInv, Spread
  <2>. HIDE DEF tab
  <2>. QED
    BY <2>1, <2>2, <2>3, StoreGone
<1>18. ASSUME NEW p \in Proc, NEW S \in SUBSET Events, FireByEvent(p, S)
      PROVE  GoneInv' /\ GoneStep
  <2> DEFINE tab == Triggered(table[p], Matching(table[p], S), now)
  <2>1. /\ Held(tab) \subseteq Held(table[p]) /\ Matching(table[p], S) \subseteq Held(table[p])
    <3>1. Matching(table[p], S) \subseteq Held(table[p]) /\ Held(table[p]) \subseteq Tasks
      BY DEF Matching, Held
    <3>. QED
      BY <3>1, HeldShrinks DEF TypeOK
  <2>2. Store(p, tab, {}) /\ used \subseteq used' /\ (Begin(p, Matching(table[p], S)))
    BY <1>18 DEF FireByEvent
  <2>3. Held(tab) \subseteq used' /\ Held(tab) \cap used \subseteq Held(table[p])
    BY <1>18, <2>1 DEF FireByEvent, GoneInv, Spread
  <2>. HIDE DEF tab
  <2>. QED
    BY <2>1, <2>2, <2>3, StoreGone
<1>19. ASSUME NEW p \in Proc, Close(p) PROVE GoneInv' /\ GoneStep
  <2>1. Ending'
    BY <1>19 DEF TypeOK, GoneInv, Ending, Close, Stop, Up, era
  <2>2. Spread' /\ Vanished' /\ GoneStep
    BY <1>19 DEF TypeOK, GoneInv, Spread, Vanished, GoneStep, Held, Close, Stop, Up, era, tick
  <2>. QED
    BY <2>1, <2>2 DEF GoneInv
<1>20. ASSUME NEW p \in Proc, LoseStore(p) PROVE GoneInv' /\ GoneStep
  <2>1. Ending'
    BY <1>20 DEF TypeOK, GoneInv, Ending, LoseStore, Stop, Up, era
  <2>2. Spread' /\ Vanished' /\ GoneStep
    BY <1>20 DEF TypeOK, GoneInv, Spread, Vanished, GoneStep, Held, LoseStore, Stop, Up, era, tick
  <2>. QED
    BY <2>1, <2>2 DEF GoneInv
<1>21. ASSUME NEW p \in Proc, CheckHealth(p) PROVE GoneInv' /\ GoneStep
  <2>1. Ending'
    BY <1>21 DEF TypeOK, GoneInv, Ending, CheckHealth, Subscribed, era
  <2>2. Spread' /\ Vanished' /\ GoneStep
    BY <1>21 DEF TypeOK, GoneInv, Spread, Vanished, GoneStep, Held, CheckHealth, Subscribed,
       shared, books, era, tick
  <2>. QED
    BY <2>1, <2>2 DEF GoneInv
<1>22. ASSUME NEW p \in Proc, Exit(p) PROVE GoneInv' /\ GoneStep
  BY <1>22 DEF TypeOK, GoneInv, Ending, Spread, Vanished, GoneStep, Held, Exit, Gone, era
<1>23. ASSUME NEW p \in Proc, Crash(p) PROVE GoneInv' /\ GoneStep
  BY <1>23 DEF TypeOK, GoneInv, Ending, Spread, Vanished, GoneStep, Held, Crash, Gone, Fault, era
<1>. QED
  BY <1>1, <1>2, <1>3, <1>4, <1>5, <1>6, <1>7, <1>8, <1>9, <1>10, <1>11, <1>12, <1>13, <1>14,
     <1>15, <1>16, <1>17, <1>18, <1>19, <1>20, <1>21, <1>22, <1>23 DEF Next, Start, Fires,
     Request, Event, Ends

\* A step that changes nothing keeps it out.
LEMMA GoneStutter ==
  ASSUME GoneInv, UNCHANGED vars
  PROVE  GoneInv' /\ GoneStep
BY DEF GoneInv, Ending, Spread, Vanished, GoneStep, Held, vars, shared, wiring, memory, tick,
   books, tally, era

\* GoneStaysGone: a oneshot that a save took out of the file is not taken up again,
\* provided no sidecar is closed while it asks for the lock.
THEOREM GoneStaysGoneHolds ==
  ASSUME MayStopInStart = FALSE
  PROVE  Spec => GoneStaysGone
<1> DEFINE Inv == TypeOK /\ FileInv /\ GoneInv
<1>1. Init => Inv
  BY TypeInit, FileInit, GoneInit
<1>2. Inv /\ [Next]_vars => Inv' /\ [GoneStep]_vars
  BY TypeNext, TypeStutter, FileNext, FileStutter, GoneNext, GoneStutter
<1>. QED
  BY <1>1, <1>2, PTL DEF Spec, GoneStaysGone, GoneStep

-----------------------------------------------------------------------------
(* No saved definition is lost.                                            *)

\* What accounts for a definition that is not in a table.
Settled(t) ==
  \/ t \in ended \cup tried
  \/ t \in OneShots /\ (runs[t] > 0 \/ \E p \in Proc : t \in toFire[p] \cup inflight[p])

\* Only a tick in progress has tasks to hand over, and of a disposed sidecar they
\* count as lost.
Firing ==
  \A p \in Proc :
    /\ toFire[p] # {} => ticking[p]
    /\ closed[p] = "disposed" => toFire[p] \subseteq ended

\* A oneshot with a last run was started by hand: no other run leaves it in a table.
Marked(tab, S) == \A t \in OneShots \cap Held(tab) : tab[t].last # Never => t \in S

Marks == Marked(file, tried) /\ \A p \in Proc : Marked(table[p], tried)

Accounted(tab) == \A t \in saved : tab[t] # NoDef \/ Settled(t)

Accounts ==
  overlap \/ (Accounted(file) /\ \A p \in Proc : isOwner[p] => Accounted(table[p]))

LossInv == Firing /\ Marks /\ Accounts

\* No event task is a oneshot.
LEMMA EventsApart == OneShots \subseteq Tasks /\ Events \cap OneShots = {}
BY Constants

\* What settles a task goes on to.
Moving ==
  /\ ended \subseteq ended' /\ tried \subseteq tried'
  /\ \A t \in OneShots : runs[t] > 0 => runs'[t] > 0
  /\ \A p \in Proc : \A t \in OneShots \cap (toFire[p] \cup inflight[p]) :
       t \in toFire'[p] \cup inflight'[p] \cup ended' \cup tried' \/ runs'[t] > 0

\* What accounts for a missing definition does not go away.
LEMMA SettledStays == ASSUME Moving, NEW t, Settled(t) PROVE Settled(t)'
BY DEF Moving, Settled

\* All that is saved is in the file.
LEMMA LossInit == Init => LossInv
<1>. SUFFICES ASSUME Init PROVE LossInv
  OBVIOUS
<1>1. PICK left \in Left :
        /\ saved = left /\ left \subseteq Tasks
        /\ \A t \in Tasks : IF t \in left THEN \E at \in Ats[t] : file[t] = New(at, 0)
                                           ELSE file[t] = NoDef
  BY Constants DEF Init
<1>2. 0 \in 0..MaxTime
  BY Constants
<1>3. \A t \in saved : file[t] # NoDef
  BY <1>1, <1>2, NewType, NoDefIsNone
<1>4. \A t \in Tasks : file[t] # NoDef => file[t].last = Never
  <2>1. \A at : New(at, 0).last = Never
    BY DEF New
  <2>. QED  BY <1>1, <2>1
<1>5. Marks
  BY <1>4, EventsApart DEF Init, Marks, Marked, Held
<1>. QED  BY <1>3, <1>5 DEF Init, LossInv, Firing, Accounts, Accounted

\* Nothing is saved, and no table of an owner changes.
LEMMA LossSame ==
  ASSUME TypeOK, LossInv, Moving, Firing', UNCHANGED <<file, saved, overlap>>,
         \A p \in Proc : table'[p] = table[p] \/ Held(table'[p]) = {},
         \A p \in Proc : isOwner'[p] => isOwner[p] /\ table'[p] = table[p]
  PROVE  LossInv'
<1>1. Marked(file, tried)'
  BY DEF LossInv, Marks, Marked, Moving, Held
<1>2. ASSUME NEW p \in Proc PROVE Marked(table[p], tried)'
  <2>1. Held(table'[p]) = Held(table[p]) \/ Held(table'[p]) = {}
    BY DEF Held
  <2>. QED  BY <2>1 DEF LossInv, Marks, Marked, Moving, Held
<1>3. \A tab : Accounted(tab) => \A t \in saved' : tab[t] # NoDef \/ Settled(t)'
  BY SettledStays DEF Accounted
<1>4. Accounts'
  BY <1>3 DEF LossInv, Accounts, Accounted
<1>. QED  BY <1>1, <1>2, <1>4 DEF LossInv, Marks

\* A table that holds all that is not accounted for is stored, or not.
LEMMA PersistLoss ==
  ASSUME TypeOK, FileInv, LossInv, Moving, Firing', NEW p \in Proc, NEW tab, NEW ran,
         Persist(p, tab, ran) \/ NoPersist, table' = [table EXCEPT ![p] = tab],
         UNCHANGED <<isOwner, overlap>>, Marked(tab, tried'),
         overlap \/ (isOwner[p] => \A t \in saved : tab[t] # NoDef \/ Settled(t)')
  PROVE  LossInv'
<1>1. \/ UNCHANGED <<file, saved>>
      \/ isOwner[p] /\ file' = tab /\ saved' = saved \cup Held(tab)
  BY DEF Persist, NoPersist
<1>2. \A q \in Proc : table'[q] = IF q = p THEN tab ELSE table[q]
  BY DEF TypeOK
<1>3. \A any : Marked(any, tried) => Marked(any, tried')
  BY DEF Marked, Moving
<1>4. Marked(file', tried') /\ \A q \in Proc : Marked(table'[q], tried')
  BY <1>1, <1>2, <1>3 DEF LossInv, Marks
<1>5. Marks'
  BY <1>4 DEF Marks, Marked, Held
<1>6. \A any : Accounted(any) => \A t \in saved : any[t] # NoDef \/ Settled(t)'
  BY SettledStays DEF Accounted
<1>7. ASSUME ~overlap PROVE Accounted(file)' /\ \A q \in Proc : isOwner[q] => Accounted(table[q])'
  <2>1. CASE UNCHANGED <<file, saved>>
    BY <1>2, <1>6, <1>7, <2>1 DEF LossInv, Accounts, Accounted
  <2>2. CASE isOwner[p] /\ file' = tab /\ saved' = saved \cup Held(tab)
    <3>1. \A t \in saved' : tab[t] # NoDef \/ Settled(t)'
      BY <1>7, <2>2 DEF Held
    <3>2. \A q \in Proc : isOwner[q] => q = p
      BY <1>7, <2>2 DEF FileInv, OneOwner
    <3>. QED  BY <1>2, <2>2, <3>1, <3>2 DEF Accounted
  <2>. QED  BY <1>1, <2>1, <2>2
<1>8. Accounts'
  BY <1>7 DEF Accounts, Accounted
<1>. QED  BY <1>5, <1>8 DEF LossInv

\* A request leaves out of the table only what it declares ended.
LEMMA StoreLoss ==
  ASSUME TypeOK, FileInv, LossInv, Moving, NEW p \in Proc, NEW tab, NEW ran,
         Store(p, tab, ran), Marked(tab, tried'),
         \A t \in Held(table[p]) : tab[t] # NoDef \/ t \in ended'
  PROVE  LossInv'
<1>1. /\ isOwner[p] /\ table' = [table EXCEPT ![p] = tab] /\ Persist(p, tab, ran)
      /\ UNCHANGED <<closed, isOwner, toFire, ticking, overlap>>
  BY DEF Store, wiring, tick
<1>2. Firing'
  BY <1>1 DEF LossInv, Firing, Moving
<1>3. ASSUME ~overlap, NEW t \in saved, tab[t] = NoDef PROVE Settled(t)'
  <2>1. t \in Tasks /\ (table[p][t] # NoDef \/ Settled(t))
    BY <1>1, <1>3 DEF TypeOK, LossInv, Accounts, Accounted
  <2>2. CASE table[p][t] # NoDef
    BY <1>3, <2>1, <2>2 DEF Held, Settled
  <2>. QED  BY <2>1, <2>2, SettledStays
<1>. QED  BY <1>1, <1>2, <1>3, PersistLoss

\* What a tick leaves in the table, and of what.
LEMMA NextTableIs ==
  ASSUME NEW tab \in Table, NEW n \in 0..MaxTime, NEW t \in Tasks
  PROVE  /\ t \in Held(tab) => \/ NextTable(tab, n)[t] # NoDef
                               \/ t \in TickDrops(tab, n)
                               \/ t \in OneShots \cap TickFires(tab, n)
         /\ t \in OneShots => NextTable(tab, n)[t] \in {tab[t], NoDef}
         /\ t \in OneShots \cap TickFires(tab, n) => NextTable(tab, n)[t] = NoDef
<1>1. TickFires(tab, n) \subseteq Held(tab) /\ TickFires(tab, n) \in SUBSET Tasks
  BY TickTypes
<1>. DEFINE trig == Triggered(tab, TickFires(tab, n), n)
<1>2. trig \in Table
  BY <1>1, TableTypes
<1>3. t \in Held(tab) => trig[t] # NoDef
  <2>1. CASE t \in TickFires(tab, n)
    <3>1. tab[t] \in Definition /\ n \in Never..MaxTime
      BY <1>1, <2>1, Constants DEF Held, Table, Never
    <3>2. trig[t] = [tab[t] EXCEPT !.last = n]
      BY <2>1 DEF Triggered
    <3>. QED  BY <3>1, <3>2, NoDefIsNone DEF Definition
  <2>2. CASE t \notin TickFires(tab, n)
    BY <2>2 DEF Triggered, Held
  <2>. QED  BY <2>1, <2>2
<1>4. t \notin TickFires(tab, n) => trig[t] = tab[t]
  BY DEF Triggered
<1>. HIDE DEF trig
<1>5. NextTable(tab, n) =
        Without(trig, TickDrops(tab, n) \cup (TickFires(tab, n) \cap OneShots))
  BY DEF NextTable, trig
<1>. QED  BY <1>3, <1>4, <1>5 DEF Without

\* A tick of p on a table that holds all that is not accounted for.
LEMMA TickLoss ==
  ASSUME TypeOK, LossInv, NEW p \in Proc, NEW tab \in Table, Marked(tab, tried),
         TickFires(tab, now) \subseteq toFire'[p],
         {t \in TickDrops(tab, now) : Expired(t, tab[t], now)} \subseteq ended',
         tried \subseteq tried'
  PROVE  /\ Marked(NextTable(tab, now), tried')
         /\ \A t \in Held(tab) : NextTable(tab, now)[t] # NoDef \/ Settled(t)'
<1>1. now \in 0..MaxTime /\ OneShots \subseteq Tasks
  BY EventsApart DEF TypeOK
<1>2. Marked(NextTable(tab, now), tried')
  BY <1>1, NextTableIs DEF Marked, Held
<1>3. ASSUME NEW t \in Held(tab), NextTable(tab, now)[t] = NoDef PROVE Settled(t)'
  <2>1. t \in TickDrops(tab, now) \/ t \in OneShots \cap TickFires(tab, now)
    BY <1>1, <1>3, NextTableIs DEF Held
  <2>2. CASE t \in TickDrops(tab, now)
    BY <2>2 DEF TickDrops, Spent, Marked, Settled
  <2>3. CASE t \in OneShots \cap TickFires(tab, now)
    BY <2>3 DEF Settled
  <2>. QED  BY <2>1, <2>2, <2>3
<1>. QED  BY <1>2, <1>3

\* A task that has run stays in the table.
LEMMA TriggeredIs ==
  ASSUME NEW tab \in Table, NEW n \in 0..MaxTime, NEW S \in SUBSET Tasks, S \subseteq Held(tab)
  PROVE  /\ \A t \in Tasks : tab[t] # NoDef => Triggered(tab, S, n)[t] # NoDef
         /\ \A t \in Tasks \ S : Triggered(tab, S, n)[t] = tab[t]
         /\ \A t \in S : Triggered(tab, S, n)[t] = [tab[t] EXCEPT !.last = n]
<1>1. \A t \in S : tab[t] \in Definition /\ n \in Never..MaxTime
  BY Constants DEF Held, Table, Never
<1>2. \A t \in S : [tab[t] EXCEPT !.last = n] \in Definition
  BY <1>1 DEF Definition
<1>. QED  BY <1>2, NoDefIsNone DEF Triggered

\* A step loses no saved definition.
LEMMA LossNext ==
  ASSUME MayStopInStart = FALSE, TypeOK, FileInv, Ending, LossInv, Next
  PROVE  LossInv'
<1>. USE DEF shared, wiring, memory, books, tally, era, tick
<1>a. ASSUME UNCHANGED <<file, saved, overlap, isOwner, table, toFire, ticking, closed,
                         ended, tried, runs, inflight>>
      PROVE  LossInv'
  <2>1. Moving /\ Firing'
    BY <1>a DEF Moving, LossInv, Firing
  <2>. QED  BY <1>a, <2>1, LossSame
<1>1. ASSUME Advance \/ DeleteLock PROVE LossInv'
  BY <1>1, <1>a DEF Advance, DeleteLock
<1>2. ASSUME NEW p \in Proc, Open(p) \/ AcquireLost(p) \/ StartRefused(p) PROVE LossInv'
  BY <1>2, <1>a DEF Open, AcquireLost, StartRefused
<1>3. ASSUME NEW p \in Proc, AcquireWon(p) PROVE LossInv'
  <2>1. /\ phase[p] = "acquiring" /\ isOwner' = [isOwner EXCEPT ![p] = TRUE]
        /\ table' = [table EXCEPT ![p] = Loaded(table[p])]
        /\ overlap' = (overlap \/ \E q \in Proc \ {p} : isOwner[q])
        /\ UNCHANGED <<file, saved, toFire, ticking, closed, ended, tried, runs, inflight>>
    BY <1>3 DEF AcquireWon
  <2>2. Loaded(table[p]) = file
    <3>1. table[p] = [t \in Tasks |-> NoDef] /\ file = [t \in Tasks |-> file[t]]
      BY <2>1 DEF FileInv, Phases, TypeOK, Table
    <3>. QED  BY <3>1 DEF Loaded
  <2>3. Moving /\ Firing'
    BY <2>1 DEF Moving, LossInv, Firing
  <2>4. Marks'
    BY <2>1, <2>2 DEF LossInv, Marks, Marked, Held, TypeOK
  <2>5. ASSUME ~overlap'
        PROVE  Accounted(file)' /\ \A q \in Proc : isOwner'[q] => Accounted(table[q])'
    <3>1. \A t \in saved : file[t] # NoDef \/ Settled(t)'
      BY <2>1, <2>3, <2>5, SettledStays DEF LossInv, Accounts, Accounted
    <3>2. \A q \in Proc : isOwner'[q] => table'[q] = file
      BY <2>1, <2>2, <2>5 DEF TypeOK
    <3>. QED  BY <2>1, <3>1, <3>2 DEF Accounted
  <2>. QED  BY <2>3, <2>4, <2>5 DEF LossInv, Accounts
<1>4. ASSUME NEW p \in Proc, StartScheduler(p) PROVE LossInv'
  <2>. DEFINE loaded == Loaded(table[p])
              due    == TickFires(loaded, now)
              drops  == TickDrops(loaded, now)
              ticked == NextTable(loaded, now)
              event  == Matching(ticked, AppOpen)
              final  == Triggered(ticked, event, now)
  <2>1. /\ phase[p] = "recovering" /\ isOwner[p]
        /\ table' = [table EXCEPT ![p] = final]
        /\ ended' = ended \cup {t \in drops : Expired(t, loaded[t], now)}
        /\ ticking' = [ticking EXCEPT ![p] = due # {}]
        /\ toFire' = [toFire EXCEPT ![p] = due]
        /\ Begin(p, event)
        /\ UNCHANGED <<isOwner, closed, tried, runs, overlap>>
        /\ Persist(p, final, {}) \/ NoPersist
    BY <1>4 DEF StartScheduler
  <2>2. loaded \in Table /\ now \in 0..MaxTime
    BY TableTypes DEF TypeOK
  <2>3. /\ ticked \in Table /\ event \in SUBSET Tasks /\ event \subseteq Held(ticked)
        /\ event \cap OneShots = {}
    BY <2>2, TickTypes, Constants DEF Matching, Held
  <2>4. closed[p] = "no" /\ toFire[p] = {}
    BY <2>1 DEF Ending, LossInv, Firing, FileInv, Phases, TypeOK
  <2>5. Marked(loaded, tried)
    BY DEF LossInv, Marks, Marked, Loaded, Held
  <2>6. /\ \A t \in Tasks : ticked[t] # NoDef => final[t] # NoDef
        /\ \A t \in OneShots : final[t] = ticked[t]
    BY <2>2, <2>3, TriggeredIs, EventsApart
  <2>. HIDE DEF final, event
  <2>7. toFire'[p] = due /\ {t \in drops : Expired(t, loaded[t], now)} \subseteq ended'
    BY <2>1 DEF TypeOK
  <2>8. /\ Marked(ticked, tried')
        /\ \A t \in Held(loaded) : ticked[t] # NoDef \/ Settled(t)'
    BY <2>1, <2>2, <2>5, <2>7, TickLoss
  <2>. HIDE DEF ticked
  <2>9. Marked(final, tried')
    BY <2>6, <2>8 DEF Marked, Held
  <2>10. Moving
    BY <2>1, <2>4 DEF Moving, Begin, TypeOK
  <2>11. Firing'
    BY <2>1, <2>4 DEF LossInv, Firing, TypeOK
  <2>12. ASSUME ~overlap, NEW t \in saved PROVE final[t] # NoDef \/ Settled(t)'
    <3>1. t \in Tasks /\ (table[p][t] # NoDef \/ Settled(t))
      BY <2>1, <2>12 DEF TypeOK, LossInv, Accounts, Accounted
    <3>2. CASE table[p][t] # NoDef
      <4>1. t \in Held(loaded)
        BY <3>1, <3>2 DEF Loaded, Held
      <4>. QED  BY <2>6, <2>8, <3>1, <4>1
    <3>. QED  BY <2>10, <3>1, <3>2, SettledStays
  <2>. QED  BY <2>1, <2>9, <2>10, <2>11, <2>12, PersistLoss
<1>5. ASSUME NEW p \in Proc, Tick(p) PROVE LossInv'
  <2>. DEFINE due   == TickFires(table[p], now)
              drops == TickDrops(table[p], now)
              final == NextTable(table[p], now)
  <2>1. /\ running[p] /\ ~ticking[p]
        /\ table' = [table EXCEPT ![p] = final]
        /\ ended' = ended \cup {t \in drops : Expired(t, table[p][t], now)}
        /\ ticking' = [ticking EXCEPT ![p] = due # {}]
        /\ toFire' = [toFire EXCEPT ![p] = due]
        /\ UNCHANGED <<isOwner, closed, inflight, tried, runs, overlap>>
        /\ Persist(p, final, {}) \/ NoPersist
    BY <1>5 DEF Tick
  <2>2. table[p] \in Table /\ Marked(table[p], tried) /\ isOwner[p] /\ closed[p] = "no"
        /\ toFire[p] = {}
    BY <2>1 DEF TypeOK, LossInv, Marks, Firing, Ending
  <2>3. /\ Marked(final, tried')
        /\ \A t \in Held(table[p]) : final[t] # NoDef \/ Settled(t)'
    <3>1. toFire'[p] = due /\ {t \in drops : Expired(t, table[p][t], now)} \subseteq ended'
      BY <2>1 DEF TypeOK
    <3>. QED  BY <2>1, <2>2, <3>1, TickLoss
  <2>. HIDE DEF final
  <2>4. Moving
    BY <2>1, <2>2 DEF Moving, TypeOK
  <2>5. Firing'
    BY <2>1, <2>2 DEF LossInv, Firing, TypeOK
  <2>6. ASSUME ~overlap, NEW t \in saved PROVE final[t] # NoDef \/ Settled(t)'
    <3>1. t \in Tasks /\ (table[p][t] # NoDef \/ Settled(t))
      BY <2>2, <2>6 DEF TypeOK, LossInv, Accounts, Accounted
    <3>. QED  BY <2>3, <2>4, <3>1, SettledStays DEF Held
  <2>. QED  BY <2>1, <2>3, <2>4, <2>5, <2>6, PersistLoss
<1>6. ASSUME NEW p \in Proc, TickEnd(p) PROVE LossInv'
  <2>1. /\ toFire[p] = {} /\ ticking' = [ticking EXCEPT ![p] = FALSE]
        /\ Persist(p, table[p], {})
        /\ UNCHANGED <<isOwner, closed, table, toFire, inflight, ended, tried, runs, overlap>>
    BY <1>6 DEF TickEnd
  <2>2. table' = [table EXCEPT ![p] = table[p]] /\ Marked(table[p], tried')
    BY <2>1 DEF TypeOK, LossInv, Marks
  <2>3. Moving /\ Firing'
    BY <2>1 DEF Moving, LossInv, Firing, TypeOK
  <2>4. overlap \/ (isOwner[p] => \A t \in saved : table[p][t] # NoDef \/ Settled(t)')
    BY <2>3, SettledStays DEF LossInv, Accounts, Accounted
  <2>. QED  BY <2>1, <2>2, <2>3, <2>4, PersistLoss
<1>7. ASSUME NEW p \in Proc, NEW t \in Tasks, FireNext(p, t) PROVE LossInv'
  <2>1. /\ t \in toFire[p] /\ toFire' = [toFire EXCEPT ![p] = @ \ {t}]
        /\ \/ Subscribed(p) /\ (Hand(p, t) \/ HandFails(t))
           \/ ~Subscribed(p) /\ UNCHANGED <<runs, ended>>
        /\ UNCHANGED <<file, saved, overlap, isOwner, table, ticking, closed, tried, inflight>>
    BY <1>7 DEF FireNext
  <2>2. ended \subseteq ended' /\ (t \in ended' \/ (t \in OneShots => runs'[t] > 0))
    BY <2>1 DEF Hand, HandFails, Subscribed, LossInv, Firing, TypeOK
  <2>3. \A s \in OneShots : runs[s] > 0 => runs'[s] > 0
    BY <2>1 DEF Hand, HandFails, TypeOK
  <2>4. Moving
    BY <2>1, <2>2, <2>3 DEF Moving, TypeOK
  <2>5. Firing'
    BY <2>1, <2>2 DEF LossInv, Firing, TypeOK
  <2>. QED  BY <2>1, <2>4, <2>5, LossSame
<1>8. ASSUME NEW p \in Proc, NEW t \in Tasks, FireBegun(p, t) PROVE LossInv'
  <2>1. /\ t \in inflight[p] /\ inflight' = [inflight EXCEPT ![p] = @ \ {t}]
        /\ \/ Hand(p, t) \/ HandFails(t)
           \/ t \in tried /\ UNCHANGED <<runs, ended>>
        /\ UNCHANGED <<file, saved, overlap, isOwner, table, ticking, closed, tried, toFire>>
    BY <1>8 DEF FireBegun
  <2>2. ended \subseteq ended' /\ (t \in ended' \cup tried \/ (t \in OneShots => runs'[t] > 0))
    BY <2>1 DEF Hand, HandFails, TypeOK
  <2>3. \A s \in OneShots : runs[s] > 0 => runs'[s] > 0
    BY <2>1 DEF Hand, HandFails, TypeOK
  <2>4. Moving
    BY <2>1, <2>2, <2>3 DEF Moving, TypeOK
  <2>5. Firing'
    BY <2>1, <2>2 DEF LossInv, Firing, TypeOK
  <2>. QED  BY <2>1, <2>4, <2>5, LossSame
<1>b. ASSUME NEW p \in Proc, NEW tab, NEW ran, Store(p, tab, ran), ended \subseteq ended',
             tried \subseteq tried', inflight' = inflight \/ \E S : Begin(p, S),
             Marked(tab, tried'), \A t \in Held(table[p]) : tab[t] # NoDef \/ t \in ended'
      PROVE  LossInv'
  <2>1. Moving
    BY <1>b DEF Store, Moving, Begin, TypeOK
  <2>. QED  BY <1>b, <2>1, StoreLoss
<1>t. \A p \in Proc : table[p] \in Table /\ Marked(table[p], tried)
  BY DEF TypeOK, LossInv, Marks
<1>9. ASSUME NEW p \in Proc, NEW t \in Tasks, Remove(p, t) PROVE LossInv'
  <2>1. /\ Marked(Without(table[p], {t}), tried)
        /\ \A s \in Held(table[p]) : Without(table[p], {t})[s] # NoDef \/ s = t
    BY <1>t DEF Without, Marked, Held
  <2>. QED  BY <1>9, <1>b, <2>1 DEF Remove
<1>10. ASSUME NEW p \in Proc, NEW t \in Tasks, SetStatus(p, t) PROVE LossInv'
  <2>. DEFINE new == [table[p][t] EXCEPT !.on = ~@]
              tab == [table[p] EXCEPT ![t].on = ~@]
  <2>1. table[p][t] \in Definition /\ t \in Held(table[p])
    BY <1>10, <1>t DEF SetStatus, Held, Table
  <2>2. new # NoDef /\ new.last = table[p][t].last
    BY <2>1, NoDefIsNone DEF Definition
  <2>3. tab = [table[p] EXCEPT ![t] = new]
    OBVIOUS
  <2>. HIDE DEF new, tab
  <2>4. \A s \in Tasks : tab[s] = IF s = t THEN new ELSE table[p][s]
    BY <1>t, <2>3 DEF Table
  <2>5. Marked(tab, tried) /\ \A s \in Held(table[p]) : tab[s] # NoDef
    BY <1>t, <2>1, <2>2, <2>4, EventsApart DEF Marked, Held
  <2>6. Store(p, tab, {}) /\ UNCHANGED <<inflight, ended, tried>>
    BY <1>10 DEF SetStatus, tab
  <2>. QED  BY <1>b, <2>5, <2>6
<1>11. ASSUME NEW p \in Proc, NEW t \in Tasks, NEW at \in Ats[t], Update(p, t, at) PROVE LossInv'
  <2>. DEFINE new == [table[p][t] EXCEPT !.at = at]
              tab == [table[p] EXCEPT ![t].at = at]
  <2>1. table[p][t] \in Definition /\ t \in Held(table[p])
    BY <1>11, <1>t DEF Update, Held, Table
  <2>2. new # NoDef /\ new.last = table[p][t].last
    <3>1. new \in Definition
      BY <2>1 DEF Definition
    <3>. QED  BY <2>1, <3>1, NoDefIsNone DEF Definition
  <2>3. tab = [table[p] EXCEPT ![t] = new]
    OBVIOUS
  <2>. HIDE DEF new, tab
  <2>4. \A s \in Tasks : tab[s] = IF s = t THEN new ELSE table[p][s]
    BY <1>t, <2>3 DEF Table
  <2>5. Marked(tab, tried) /\ \A s \in Held(table[p]) : tab[s] # NoDef
    BY <1>t, <2>1, <2>2, <2>4, EventsApart DEF Marked, Held
  <2>6. Store(p, tab, {}) /\ UNCHANGED <<inflight, ended, tried>>
    BY <1>11 DEF Update, tab
  <2>. QED  BY <1>b, <2>5, <2>6
<1>12. ASSUME NEW p \in Proc, NEW t \in Tasks, NEW at \in Ats[t], Add(p, t, at) PROVE LossInv'
  <2>. DEFINE tab == [table[p] EXCEPT ![t] = New(at, now)]
  <2>1. New(at, now) # NoDef /\ New(at, now).last = Never
    BY NewType, NoDefIsNone DEF New, TypeOK
  <2>2. \A s \in Tasks : tab[s] = IF s = t THEN New(at, now) ELSE table[p][s]
    BY <1>t DEF Table
  <2>. HIDE DEF tab
  <2>3. Marked(tab, tried) /\ \A s \in Held(table[p]) : tab[s] # NoDef
    BY <1>t, <2>1, <2>2, EventsApart DEF Marked, Held
  <2>4. Store(p, tab, {}) /\ UNCHANGED <<inflight, ended, tried>>
    BY <1>12 DEF Add, tab
  <2>. QED  BY <1>b, <2>3, <2>4
<1>c. ASSUME NEW p \in Proc, NEW S \in SUBSET Tasks, S \subseteq Held(table[p]),
             OneShots \cap S \subseteq tried'
      PROVE  /\ tried \subseteq tried' => Marked(Triggered(table[p], S, now), tried')
             /\ \A s \in Held(table[p]) : Triggered(table[p], S, now)[s] # NoDef
  <2>. DEFINE tab == Triggered(table[p], S, now)
  <2>1. /\ \A s \in Tasks : table[p][s] # NoDef => tab[s] # NoDef
        /\ \A s \in Tasks \ S : tab[s] = table[p][s]
    BY <1>c, <1>t, TriggeredIs DEF TypeOK
  <2>. HIDE DEF tab
  <2>2. tried \subseteq tried' => Marked(tab, tried')
    BY <1>c, <1>t, <2>1, EventsApart DEF Marked, Held
  <2>. QED  BY <2>1, <2>2 DEF Held, tab
<1>13. ASSUME NEW p \in Proc, NEW t \in Tasks, RunNow(p, t) PROVE LossInv'
  <2>1. /\ {t} \subseteq Held(table[p]) /\ OneShots \cap {t} \subseteq tried'
        /\ tried \subseteq tried' /\ ended' = ended
    BY <1>13 DEF RunNow, Matching
  <2>2. Marked(Triggered(table[p], {t}, now), tried')
    BY <1>c, <2>1
  <2>3. \A s \in Held(table[p]) : Triggered(table[p], {t}, now)[s] # NoDef
    BY <1>c, <2>1
  <2>. QED  BY <1>13, <1>b, <2>1, <2>2, <2>3 DEF RunNow
<1>14. ASSUME NEW p \in Proc, NEW S \in SUBSET Events, FireByEvent(p, S) PROVE LossInv'
  <2>. DEFINE T == Matching(table[p], S)
  <2>1. /\ T \in SUBSET Tasks /\ T \subseteq Held(table[p]) /\ OneShots \cap T \subseteq tried'
        /\ tried' = tried /\ ended' = ended
    BY <1>14, EventsApart DEF FireByEvent, Matching, Held
  <2>2. Store(p, Triggered(table[p], T, now), {}) /\ Begin(p, T)
    BY <1>14 DEF FireByEvent
  <2>. HIDE DEF T
  <2>3. Marked(Triggered(table[p], T, now), tried')
    BY <1>c, <2>1
  <2>4. \A s \in Held(table[p]) : Triggered(table[p], T, now)[s] # NoDef
    BY <1>c, <2>1
  <2>. QED  BY <1>b, <2>1, <2>2, <2>3, <2>4
<1>15. ASSUME NEW p \in Proc, NEW t \in Tasks, NEW at \in Ats[t], AddPast(p, t, at)
       PROVE  LossInv'
  <2>1. /\ Begin(p, {t})
        /\ UNCHANGED <<file, saved, overlap, isOwner, table, toFire, ticking, closed, ended,
                       tried, runs>>
    BY <1>15 DEF AddPast
  <2>2. Moving /\ Firing'
    BY <2>1 DEF Moving, Begin, LossInv, Firing, TypeOK
  <2>. QED  BY <2>1, <2>2, LossSame
<1>16. ASSUME NEW p \in Proc, Close(p) \/ LoseStore(p) PROVE LossInv'
  <2>1. /\ \/ closed' = [closed EXCEPT ![p] = "disposed"] /\ ended' = ended \cup toFire[p]
           \/ closed' = [closed EXCEPT ![p] = "stopped"] /\ ended' = ended
        /\ isOwner' = [isOwner EXCEPT ![p] = FALSE]
        /\ UNCHANGED <<file, saved, overlap, table, toFire, ticking, tried, runs, inflight>>
    BY <1>16 DEF Close, LoseStore, Stop
  <2>2. Moving
    BY <2>1 DEF Moving
  <2>3. Firing'
    BY <2>1 DEF LossInv, Firing, TypeOK
  <2>4. \A q \in Proc : isOwner'[q] => isOwner[q]
    BY <2>1 DEF TypeOK
  <2>. QED  BY <2>1, <2>2, <2>3, <2>4, LossSame
<1>17. ASSUME NEW p \in Proc, CheckHealth(p) PROVE LossInv'
  <2>1. /\ isOwner' = [isOwner EXCEPT ![p] = FALSE]
        /\ UNCHANGED <<file, saved, overlap, table, toFire, ticking, closed, ended, tried, runs,
                       inflight>>
    BY <1>17 DEF CheckHealth
  <2>2. Moving /\ Firing' /\ \A q \in Proc : isOwner'[q] => isOwner[q]
    BY <2>1 DEF Moving, LossInv, Firing, TypeOK
  <2>. QED  BY <2>1, <2>2, LossSame
<1>18. ASSUME NEW p \in Proc, Gone(p) PROVE LossInv'
  <2>1. /\ closed' = [closed EXCEPT ![p] = "no"] /\ isOwner' = [isOwner EXCEPT ![p] = FALSE]
        /\ table' = [table EXCEPT ![p] = [t \in Tasks |-> NoDef]]
        /\ ticking' = [ticking EXCEPT ![p] = FALSE]
        /\ toFire' = [toFire EXCEPT ![p] = {}] /\ inflight' = [inflight EXCEPT ![p] = {}]
        /\ ended' = ended \cup toFire[p] \cup inflight[p]
        /\ UNCHANGED <<file, saved, overlap, tried, runs>>
    BY <1>18 DEF Gone
  <2>2. Moving
    BY <2>1 DEF Moving, TypeOK
  <2>3. Firing'
    BY <2>1 DEF LossInv, Firing, TypeOK
  <2>4. \A q \in Proc : /\ table'[q] = table[q] \/ Held(table'[q]) = {}
                        /\ isOwner'[q] => isOwner[q] /\ table'[q] = table[q]
    BY <2>1 DEF TypeOK, Held
  <2>. QED  BY <2>1, <2>2, <2>3, <2>4, LossSame
<1>. QED
  BY <1>1, <1>2, <1>3, <1>4, <1>5, <1>6, <1>7, <1>8, <1>9, <1>10, <1>11, <1>12, <1>13, <1>14,
     <1>15, <1>16, <1>17, <1>18 DEF Next, Start, Fires, Request, Event, Ends, Exit, Crash

\* A step that changes nothing loses none.
LEMMA LossStutter == ASSUME LossInv, UNCHANGED vars PROVE LossInv'
BY DEF LossInv, Firing, Marks, Marked, Accounts, Accounted, Settled, Held, vars, shared, wiring,
   memory, tick, books, tally, era

\* A saved definition leaves the disk for a cause only: no failing write, lost lock,
\* crash or tick in progress loses one, provided no sidecar is closed while it asks for
\* the lock.
THEOREM LossExplainedHolds ==
  ASSUME MayStopInStart = FALSE
  PROVE  Spec => []LossExplained
<1>. DEFINE Inv == TypeOK /\ FileInv /\ GoneInv /\ LossInv
<1>1. Init => Inv
  BY TypeInit, FileInit, GoneInit, LossInit
<1>2. Inv /\ [Next]_vars => Inv'
  BY TypeNext, TypeStutter, FileNext, FileStutter, GoneNext, GoneStutter, LossNext, LossStutter
     DEF GoneInv
<1>3. Inv => LossExplained
  BY DEF LossInv, Accounts, Accounted, Settled, LossExplained
<1>. QED  BY <1>1, <1>2, <1>3, PTL DEF Spec

-----------------------------------------------------------------------------
(* A oneshot runs once.                                                    *)

\* A oneshot that a table holds has not run, or was started by hand and marked.
Ready(tab, t) ==
  tab[t] # NoDef => runs[t] = 0 /\ (t \in tried => tab[t].last # Never)

\* An id not handed out is nowhere, has not run and has not begun to.
Unstarted(t) ==
  t \in used \/ /\ runs[t] = 0 /\ t \notin tried /\ file[t] = NoDef
                /\ \A p \in Proc : table[p][t] = NoDef /\ t \notin toFire[p] \cup inflight[p]

\* Of a oneshot added past its time there is nothing but the call under way.
Alone(t) ==
  \A p \in Proc : t \in inflight[p] \ tried =>
    /\ runs[t] = 0 /\ file[t] = NoDef
    /\ \A q \in Proc : /\ table[q][t] = NoDef /\ t \notin toFire[q]
                       /\ q # p => t \notin inflight[q]

\* A oneshot that has run is in no table that may fire it again: the file holds it
\* at most until the owner saves, and what a tick has taken has left the table.
RanOnce(t) ==
  overlap \/ t \in excused \/
    /\ runs[t] = 0 \/ (runs[t] = 1 /\ t \notin tried)
    /\ Ready(file, t) \/ \E p \in Proc : isOwner[p] /\ t \in unsaved[p]
    /\ \A p \in Proc : isOwner[p] =>
         /\ Ready(table[p], t)
         /\ t \in toFire[p] => table[p][t] = NoDef /\ runs[t] = 0 /\ t \notin tried

Sound(t) == Unstarted(t) /\ Alone(t) /\ RanOnce(t)

\* Only a tick in progress has tasks to hand over.
Handing == \A p \in Proc : toFire[p] # {} => ticking[p]

OnceInv == \A t \in OneShots : Sound(t)

\* Nothing has run yet.
LEMMA OnceInit == Init => OnceInv
<1>. SUFFICES ASSUME Init, NEW t \in OneShots PROVE Sound(t)
  BY DEF OnceInv
<1>1. t \in Tasks /\ runs[t] = 0 /\ t \notin tried
  BY EventsApart DEF Init
<1>u. t \in used \/ file[t] = NoDef
  BY <1>1 DEF Init
<1>2. \A p \in Proc : toFire[p] = {} /\ inflight[p] = {} /\ table[p][t] = NoDef /\ ~isOwner[p]
  BY <1>1 DEF Init
<1>. QED  BY <1>1, <1>u, <1>2 DEF Sound, Unstarted, Alone, RanOnce, Ready

\* Of t nothing is saved, loaded, run or started, and no owner takes it.
LEMMA OnceSame ==
  ASSUME NEW t \in OneShots, Sound(t),
         used \subseteq used', excused \subseteq excused', overlap' = overlap,
         file'[t] = file[t], runs'[t] = runs[t], t \in tried' <=> t \in tried,
         \A p \in Proc : /\ table'[p][t] \in {table[p][t], NoDef}
                         /\ t \in toFire'[p] =>
                              t \in toFire[p] \/ (table[p][t] # NoDef /\ ~isOwner[p])
                         /\ t \in inflight'[p] => t \in inflight[p]
                         /\ isOwner'[p] => isOwner[p],
         t \in excused' \/ \A p \in Proc : isOwner[p] /\ t \in unsaved[p]
                                            => isOwner'[p] /\ t \in unsaved'[p]
  PROVE  Sound(t)'
<1>1. Unstarted(t)'
  BY DEF Sound, Unstarted
<1>2. Alone(t)'
  BY DEF Sound, Alone
<1>3. RanOnce(t)'
  <2>1. CASE overlap \/ t \in excused'
    BY <2>1 DEF RanOnce
  <2>2. CASE ~overlap /\ t \notin excused'
    <3>1. /\ runs[t] = 0 \/ (runs[t] = 1 /\ t \notin tried)
          /\ Ready(file, t) \/ \E p \in Proc : isOwner[p] /\ t \in unsaved[p]
          /\ \A p \in Proc : isOwner[p] =>
               /\ Ready(table[p], t)
               /\ t \in toFire[p] => table[p][t] = NoDef /\ runs[t] = 0 /\ t \notin tried
      BY <2>2 DEF Sound, RanOnce
    <3>2. Ready(file, t)' \/ \E p \in Proc : isOwner'[p] /\ t \in unsaved'[p]
      BY <2>2, <3>1 DEF Ready
    <3>3. ASSUME NEW p \in Proc, isOwner'[p]
          PROVE  /\ Ready(table[p], t)'
                 /\ t \in toFire'[p] => table'[p][t] = NoDef /\ runs'[t] = 0 /\ t \notin tried'
      BY <3>1, <3>3 DEF Ready
    <3>. QED  BY <3>1, <3>2, <3>3 DEF RanOnce
  <2>. QED  BY <2>1, <2>2
<1>. QED  BY <1>1, <1>2, <1>3 DEF Sound

\* The owner changes its table, of what it holds, of what the file holds or of what is
\* new, and takes out of it what it is going to fire.
LEMMA PersistOnce ==
  ASSUME TypeOK, FileInv, NEW t \in OneShots, Sound(t), NEW p \in Proc,
         NEW tab, NEW ran, isOwner[p], table' = [table EXCEPT ![p] = tab],
         Persist(p, tab, ran) \/ (NoPersist /\ tried' = tried),
         used \subseteq used', excused \subseteq excused', UNCHANGED <<runs, isOwner, overlap>>,
         tried \subseteq tried', t \in tried' => t \in tried \/ (t \in ran /\ table[p][t] # NoDef),
         \A q \in Proc : t \in inflight'[q] => t \in inflight[q] \cup tried',
         \A q \in Proc : t \in toFire'[q] =>
           t \in toFire[q] \/ (q = p /\ (table[p][t] # NoDef \/ file[t] # NoDef)),
         tab[t] # NoDef => table[p][t] # NoDef \/ file[t] # NoDef \/ t \in used' \ used,
         overlap \/ t \in excused' \/
           /\ tab[t] # NoDef => runs[t] = 0 /\ (t \in tried' => tab[t].last # Never)
           /\ t \in toFire'[p] => tab[t] = NoDef /\ runs[t] = 0 /\ t \notin tried'
  PROVE  Sound(t)'
<1>1. \A q \in Proc : table'[q] = IF q = p THEN tab ELSE table[q]
  BY DEF TypeOK
<1>2. \/ file' = tab
      \/ /\ file' = file /\ \A q \in Proc : unsaved[q] \subseteq unsaved'[q]
         /\ tried' = tried \/ (t \in ran => t \in unsaved'[p])
  BY DEF Persist, NoPersist, TypeOK
<1>3. t \in Tasks /\ (table[p][t] # NoDef \/ file[t] # NoDef => t \in used)
  BY EventsApart DEF Sound, Unstarted
<1>4. Unstarted(t)'
  BY <1>1, <1>2, <1>3 DEF Sound, Unstarted
<1>5. Alone(t)'
  <2>1. ASSUME NEW q \in Proc, t \in inflight'[q] \ tried'
        PROVE  /\ runs'[t] = 0 /\ file'[t] = NoDef
               /\ \A r \in Proc : /\ table'[r][t] = NoDef /\ t \notin toFire'[r]
                                  /\ r # q => t \notin inflight'[r]
    <3>1. t \in inflight[q] \ tried /\ t \in used
      BY <2>1 DEF Sound, Unstarted
    <3>2. /\ runs[t] = 0 /\ file[t] = NoDef
          /\ \A r \in Proc : /\ table[r][t] = NoDef /\ t \notin toFire[r]
                             /\ r # q => t \notin inflight[r]
      BY <3>1 DEF Sound, Alone
    <3>3. tab[t] = NoDef
      BY <3>1, <3>2
    <3>. QED  BY <1>1, <1>2, <2>1, <3>2, <3>3
  <2>. QED  BY <2>1 DEF Alone
<1>6. ASSUME ~overlap, t \notin excused' PROVE RanOnce(t)'
  <2>1. /\ runs[t] = 0 \/ (runs[t] = 1 /\ t \notin tried)
        /\ Ready(file, t) \/ \E q \in Proc : isOwner[q] /\ t \in unsaved[q]
        /\ Ready(table[p], t)
    BY <1>6 DEF Sound, RanOnce
  <2>2. runs'[t] = 0 \/ (runs'[t] = 1 /\ t \notin tried')
    BY <2>1 DEF Ready
  <2>3. Ready(file, t)' \/ \E q \in Proc : isOwner'[q] /\ t \in unsaved'[q]
    <3>1. CASE file' = tab
      BY <1>6, <3>1 DEF Ready
    <3>2. CASE /\ file' = file /\ \A q \in Proc : unsaved[q] \subseteq unsaved'[q]
               /\ tried' = tried \/ (t \in ran => t \in unsaved'[p])
      BY <2>1, <3>2 DEF Ready
    <3>. QED  BY <1>2, <3>1, <3>2
  <2>4. ASSUME NEW q \in Proc, isOwner'[q]
        PROVE  /\ Ready(table[q], t)'
               /\ t \in toFire'[q] => table'[q][t] = NoDef /\ runs'[t] = 0 /\ t \notin tried'
    <3>1. q = p
      BY <1>6, <2>4 DEF FileInv, OneOwner
    <3>. QED  BY <1>1, <1>6, <3>1 DEF Ready
  <2>. QED  BY <2>2, <2>3, <2>4 DEF RanOnce
<1>7. RanOnce(t)'
  BY <1>6 DEF RanOnce
<1>. QED  BY <1>4, <1>5, <1>7 DEF Sound

\* What a tick leaves in the table is ready, and what it takes has not run.
LEMMA TickOnce ==
  ASSUME TypeOK, NEW tab \in Table, NEW t \in OneShots,
         tab[t] # NoDef => runs[t] = 0 /\ (t \in tried => tab[t].last # Never)
  PROVE  LET next == NextTable(tab, now) IN
         /\ next[t] # NoDef => runs[t] = 0 /\ (t \in tried => next[t].last # Never)
         /\ t \in TickFires(tab, now) => /\ next[t] = NoDef /\ runs[t] = 0 /\ t \notin tried
                                         /\ tab[t] # NoDef
<1>1. now \in 0..MaxTime /\ t \in Tasks
  BY EventsApart DEF TypeOK
<1>2. /\ NextTable(tab, now)[t] \in {tab[t], NoDef}
      /\ t \in TickFires(tab, now) => NextTable(tab, now)[t] = NoDef
  BY <1>1, NextTableIs
<1>3. t \in TickFires(tab, now) => tab[t] # NoDef /\ tab[t].last = Never
  BY EventsApart DEF TickFires, Due, Held
<1>. QED  BY <1>2, <1>3

\* A request to the owner that puts no oneshot into the table which it did not hold,
\* but for a new one, and loses the last run of none.
LEMMA StoreOnce ==
  ASSUME TypeOK, FileInv, NEW t \in OneShots, Sound(t), NEW p \in Proc,
         NEW tab, NEW ran, Store(p, tab, ran), used \subseteq used',
         tried \subseteq tried', t \in tried' => t \in tried \/ (t \in ran /\ table[p][t] # NoDef),
         \A q \in Proc : t \in inflight'[q] => t \in inflight[q] \cup tried',
         tab[t] # NoDef =>
           \/ t \in used' \ used /\ tab[t].last = Never /\ t \notin tried'
           \/ /\ table[p][t] # NoDef
              /\ tab[t].last # Never \/ (tab[t].last = table[p][t].last /\ tried' = tried),
         t \in tried' \ tried => tab[t] # NoDef /\ tab[t].last # Never
  PROVE  Sound(t)'
<1>1. /\ isOwner[p] /\ table' = [table EXCEPT ![p] = tab] /\ Persist(p, tab, ran)
      /\ UNCHANGED <<runs, isOwner, overlap, toFire, excused>>
  BY DEF Store, wiring, tick
<1>2. ASSUME ~overlap, t \notin excused
      PROVE  /\ tab[t] # NoDef => runs[t] = 0 /\ (t \in tried' => tab[t].last # Never)
             /\ t \in toFire[p] => tab[t] = NoDef /\ runs[t] = 0 /\ t \notin tried'
  <2>1. /\ Ready(table[p], t)
        /\ t \in toFire[p] => table[p][t] = NoDef /\ runs[t] = 0 /\ t \notin tried
    BY <1>1, <1>2 DEF Sound, RanOnce
  <2>2. t \notin used => runs[t] = 0 /\ t \notin toFire[p]
    BY DEF Sound, Unstarted
  <2>. QED  BY <2>1, <2>2 DEF Ready
<1>3. \A q \in Proc : t \in toFire'[q] => t \in toFire[q]
  BY <1>1
<1>4. overlap \/ t \in excused' \/
           /\ tab[t] # NoDef => runs[t] = 0 /\ (t \in tried' => tab[t].last # Never)
           /\ t \in toFire'[p] => tab[t] = NoDef /\ runs[t] = 0 /\ t \notin tried'
  BY <1>1, <1>2
<1>5. excused \subseteq excused'
  BY <1>1
<1>. QED  BY <1>1, <1>3, <1>4, <1>5, PersistOnce

\* A step ends a tick only when all is handed over.
LEMMA HandingNext == ASSUME TypeOK, Handing, Next PROVE Handing'
<1>. USE DEF shared, wiring, memory, books, tally, era, tick
<1>1. CASE UNCHANGED <<toFire, ticking>>
  BY <1>1 DEF Handing
<1>2. ASSUME NEW p \in Proc, StartScheduler(p) \/ Tick(p) \/ TickEnd(p) \/ Gone(p)
      PROVE  Handing'
  BY <1>2 DEF StartScheduler, Tick, TickEnd, Gone, Handing, TypeOK
<1>3. ASSUME NEW p \in Proc, NEW t \in Tasks, FireNext(p, t) PROVE Handing'
  BY <1>3 DEF FireNext, Handing, TypeOK
<1>4. ASSUME Advance \/ DeleteLock PROVE Handing'
  BY <1>1, <1>4 DEF Advance, DeleteLock
<1>5. ASSUME NEW p \in Proc, \/ Open(p) \/ AcquireWon(p) \/ AcquireLost(p) \/ StartRefused(p)
                            \/ Close(p) \/ LoseStore(p) \/ CheckHealth(p)
                            \/ \E t \in Tasks : FireBegun(p, t)
      PROVE  Handing'
  BY <1>1, <1>5 DEF Open, AcquireWon, AcquireLost, StartRefused, Close, LoseStore, Stop,
     CheckHealth, FireBegun
<1>6. ASSUME NEW p \in Proc, Request(p) \/ Event(p) PROVE Handing'
  BY <1>1, <1>6 DEF Request, Event, Store, Add, AddPast, Remove, SetStatus, Update, RunNow,
     FireByEvent
<1>. QED  BY <1>2, <1>3, <1>4, <1>5, <1>6 DEF Next, Start, Fires, Ends, Exit, Crash

\* A step runs no oneshot that has run already.
LEMMA OnceNext ==
  ASSUME TypeOK, FileInv, Handing, OnceInv, Next
  PROVE  OnceInv'
<1>. SUFFICES ASSUME NEW o \in OneShots PROVE Sound(o)'
  BY DEF OnceInv
<1>. USE DEF shared, wiring, memory, books, tally, era, tick
<1>s. Sound(o) /\ o \in Tasks /\ o \notin Events
  BY EventsApart DEF OnceInv
<1>a. ASSUME UNCHANGED <<file, overlap, table, toFire, inflight, used, tally>>,
             \/ isOwner' = isOwner
      PROVE  Sound(o)'
  BY <1>a, <1>s, OnceSame
<1>1. ASSUME Advance \/ DeleteLock PROVE Sound(o)'
  BY <1>1, <1>a DEF Advance, DeleteLock
<1>2. ASSUME NEW p \in Proc, Open(p) \/ AcquireLost(p) \/ StartRefused(p) PROVE Sound(o)'
  BY <1>2, <1>a DEF Open, AcquireLost, StartRefused
<1>3. ASSUME NEW p \in Proc, AcquireWon(p) PROVE Sound(o)'
  <2>1. /\ phase[p] = "acquiring" /\ isOwner' = [isOwner EXCEPT ![p] = TRUE]
        /\ table' = [table EXCEPT ![p] = Loaded(table[p])]
        /\ overlap' = (overlap \/ \E q \in Proc \ {p} : isOwner[q])
        /\ UNCHANGED <<file, toFire, inflight, used, tally>>
    BY <1>3 DEF AcquireWon
  <2>2. table'[p] = file /\ \A q \in Proc \ {p} : table'[q] = table[q]
    <3>1. table[p] = [t \in Tasks |-> NoDef] /\ file = [t \in Tasks |-> file[t]]
      BY <2>1 DEF FileInv, Phases, TypeOK, Table
    <3>. QED  BY <2>1, <3>1 DEF Loaded, TypeOK
  <2>3. ~isOwner[p] /\ toFire[p] = {}
    BY <2>1 DEF FileInv, Phases, Handing
  <2>4. Unstarted(o)'
    BY <1>s, <2>1, <2>2 DEF Sound, Unstarted
  <2>5. Alone(o)'
    BY <1>s, <2>1, <2>2 DEF Sound, Alone
  <2>6. ASSUME ~overlap', o \notin excused PROVE RanOnce(o)'
    <3>1. \A q \in Proc : ~isOwner[q]
      BY <2>1, <2>3, <2>6
    <3>2. /\ runs[o] = 0 \/ (runs[o] = 1 /\ o \notin tried)
          /\ Ready(file, o)
      BY <1>s, <2>1, <2>6, <3>1 DEF Sound, RanOnce
    <3>3. \A q \in Proc : isOwner'[q] => q = p
      BY <2>1, <3>1 DEF TypeOK
    <3>. QED  BY <2>1, <2>2, <2>3, <3>2, <3>3 DEF RanOnce, Ready
  <2>. QED  BY <2>1, <2>4, <2>5, <2>6 DEF Sound, RanOnce
<1>4. ASSUME NEW p \in Proc, StartScheduler(p) PROVE Sound(o)'
  <2>. DEFINE loaded == Loaded(table[p])
              due    == TickFires(loaded, now)
              ticked == NextTable(loaded, now)
              event  == Matching(ticked, AppOpen)
              final  == Triggered(ticked, event, now)
  <2>1. /\ phase[p] = "recovering" /\ isOwner[p]
        /\ table' = [table EXCEPT ![p] = final]
        /\ toFire' = [toFire EXCEPT ![p] = due]
        /\ Begin(p, event)
        /\ UNCHANGED <<isOwner, used, tried, runs, overlap>>
        /\ Persist(p, final, {}) \/ NoPersist
        /\ excused' = excused \cup (unsaved[p] \cap (Held(loaded) \ Held(table[p])))
    BY <1>4 DEF StartScheduler
  <2>2. loaded \in Table /\ now \in 0..MaxTime
    BY TableTypes DEF TypeOK
  <2>3. /\ ticked \in Table /\ event \in SUBSET Tasks /\ event \subseteq Held(ticked)
        /\ o \notin event
    BY <1>s, <2>2, TickTypes, Constants DEF Matching, Held
  <2>4. final[o] = ticked[o] /\ ticked[o] \in {loaded[o], NoDef}
    BY <1>s, <2>2, <2>3, TriggeredIs, NextTableIs
  <2>5. loaded[o] = IF table[p][o] = NoDef THEN file[o] ELSE table[p][o]
    BY <1>s DEF Loaded
  <2>6. ASSUME ~overlap, o \notin excused'
        PROVE  loaded[o] # NoDef => runs[o] = 0 /\ (o \in tried => loaded[o].last # Never)
    <3>1. o \notin excused
      BY <2>1, <2>6
    <3>2. CASE table[p][o] # NoDef
      BY <1>s, <2>1, <2>5, <2>6, <3>1, <3>2 DEF Sound, RanOnce, Ready
    <3>3. CASE table[p][o] = NoDef /\ file[o] # NoDef
      <4>1. o \notin unsaved[p]
        BY <1>s, <2>1, <2>5, <2>6, <3>3 DEF Held
      <4>2. \A q \in Proc : isOwner[q] => q = p
        BY <2>1, <2>6 DEF FileInv, OneOwner
      <4>3. Ready(file, o)
        BY <1>s, <2>6, <3>1, <4>1, <4>2 DEF Sound, RanOnce
      <4>. QED  BY <2>5, <3>3, <4>3 DEF Ready
    <3>. QED  BY <2>5, <3>2, <3>3
  <2>7. o \in due => loaded[o] # NoDef
    BY DEF TickFires, Held
  <2>8. ASSUME ~overlap, o \notin excused'
        PROVE  /\ ticked[o] # NoDef => runs[o] = 0 /\ (o \in tried => ticked[o].last # Never)
               /\ o \in due => ticked[o] = NoDef /\ runs[o] = 0 /\ o \notin tried
    BY <2>2, <2>6, <2>8, TickOnce
  <2>. HIDE DEF loaded, due, ticked, event, final
  <2>9. toFire'[p] = due /\ \A q \in Proc \ {p} : toFire'[q] = toFire[q]
    BY <2>1 DEF TypeOK
  <2>10. \A q \in Proc : o \in inflight'[q] => o \in inflight[q]
    BY <2>1, <2>3 DEF Begin, TypeOK
  <2>11. excused \subseteq excused' /\ used \subseteq used' /\ tried \subseteq tried'
    BY <2>1
  <2>12. \A q \in Proc : o \in toFire'[q] =>
           o \in toFire[q] \/ (q = p /\ (table[p][o] # NoDef \/ file[o] # NoDef))
    BY <2>5, <2>7, <2>9
  <2>13. final[o] # NoDef => table[p][o] # NoDef \/ file[o] # NoDef
    BY <2>4, <2>5
  <2>14. overlap \/ o \in excused' \/
           /\ final[o] # NoDef => runs[o] = 0 /\ (o \in tried' => final[o].last # Never)
           /\ o \in toFire'[p] => final[o] = NoDef /\ runs[o] = 0 /\ o \notin tried'
    BY <2>1, <2>4, <2>8, <2>9
  <2>. QED  BY <1>s, <2>1, <2>10, <2>11, <2>12, <2>13, <2>14, PersistOnce
<1>5. ASSUME NEW p \in Proc, Tick(p) PROVE Sound(o)'
  <2>. DEFINE due   == TickFires(table[p], now)
              final == NextTable(table[p], now)
  <2>1. /\ running[p] /\ table' = [table EXCEPT ![p] = final]
        /\ toFire' = [toFire EXCEPT ![p] = due]
        /\ UNCHANGED <<isOwner, inflight, used, tried, runs, excused, overlap>>
        /\ Persist(p, final, {}) \/ NoPersist
    BY <1>5 DEF Tick
  <2>2. table[p] \in Table /\ now \in 0..MaxTime
    BY DEF TypeOK
  <2>3. final[o] \in {table[p][o], NoDef}
    BY <1>s, <2>2, NextTableIs
  <2>4. o \in due => table[p][o] # NoDef
    BY DEF TickFires, Held
  <2>5. ASSUME isOwner[p], ~overlap, o \notin excused
        PROVE  /\ final[o] # NoDef => runs[o] = 0 /\ (o \in tried => final[o].last # Never)
               /\ o \in due => final[o] = NoDef /\ runs[o] = 0 /\ o \notin tried
    <3>1. table[p][o] # NoDef => runs[o] = 0 /\ (o \in tried => table[p][o].last # Never)
      BY <1>s, <2>2, <2>5 DEF Sound, RanOnce, Ready
    <3>. QED  BY <2>2, <3>1, TickOnce
  <2>. HIDE DEF due, final
  <2>6. toFire'[p] = due /\ \A q \in Proc \ {p} : toFire'[q] = toFire[q]
    BY <2>1 DEF TypeOK
  <2>7. \A q \in Proc : o \in toFire'[q] =>
          o \in toFire[q] \/ (q = p /\ (table[p][o] # NoDef \/ file[o] # NoDef))
    BY <2>4, <2>6
  <2>8. isOwner[p] => overlap \/ o \in excused' \/
          /\ final[o] # NoDef => runs[o] = 0 /\ (o \in tried' => final[o].last # Never)
          /\ o \in toFire'[p] => final[o] = NoDef /\ runs[o] = 0 /\ o \notin tried'
    BY <2>1, <2>5, <2>6
  <2>9. CASE isOwner[p]
    BY <1>s, <2>1, <2>2, <2>3, <2>7, <2>8, <2>9, PersistOnce
  <2>10. CASE ~isOwner[p]
    <3>1. file' = file /\ \A q \in Proc : unsaved'[q] = unsaved[q]
      BY <2>1, <2>10 DEF Persist, NoPersist, TypeOK
    <3>2. \A q \in Proc : table'[q] = IF q = p THEN final ELSE table[q]
      BY <2>1 DEF TypeOK
    <3>. QED  BY <1>s, <2>1, <2>3, <2>4, <2>6, <2>10, <3>1, <3>2, OnceSame
  <2>. QED  BY <2>9, <2>10
<1>6. ASSUME NEW p \in Proc, TickEnd(p) PROVE Sound(o)'
  <2>1. /\ Persist(p, table[p], {}) /\ table' = [table EXCEPT ![p] = table[p]]
        /\ UNCHANGED <<isOwner, table, toFire, inflight, used, tried, runs, excused, overlap>>
    BY <1>6 DEF TickEnd, TypeOK
  <2>2. CASE isOwner[p]
    <3>1. overlap \/ o \in excused \/
            /\ table[p][o] # NoDef => runs[o] = 0 /\ (o \in tried => table[p][o].last # Never)
            /\ o \in toFire[p] => table[p][o] = NoDef /\ runs[o] = 0 /\ o \notin tried
      BY <1>s, <2>2 DEF Sound, RanOnce, Ready
    <3>. QED  BY <1>s, <2>1, <2>2, <3>1, PersistOnce
  <2>3. CASE ~isOwner[p]
    <3>1. file' = file /\ \A q \in Proc : unsaved'[q] = unsaved[q]
      BY <2>1, <2>3 DEF Persist, TypeOK
    <3>. QED  BY <1>s, <2>1, <3>1, OnceSame
  <2>. QED  BY <2>2, <2>3
<1>7. ASSUME NEW p \in Proc, NEW t \in Tasks, FireNext(p, t) PROVE Sound(o)'
  <2>1. /\ t \in toFire[p] /\ toFire' = [toFire EXCEPT ![p] = @ \ {t}]
        /\ Hand(p, t) \/ runs' = runs
        /\ unsaved' = [unsaved EXCEPT ![p] = @ \cup ({t} \cap OneShots)]
        /\ excused' = IF isOwner[p] THEN excused ELSE excused \cup ({t} \cap OneShots)
        /\ UNCHANGED <<file, overlap, isOwner, table, inflight, used, tried>>
    BY <1>7 DEF FireNext, HandFails
  <2>2. \A q \in Proc : /\ o \in toFire'[q] <=> o \in toFire[q] /\ ~(q = p /\ o = t)
                        /\ o \in unsaved'[q] <=> o \in unsaved[q] \/ (q = p /\ o = t)
    BY <2>1 DEF TypeOK
  <2>3. CASE runs'[o] = runs[o]
    BY <1>s, <2>1, <2>2, <2>3, OnceSame
  <2>4. CASE runs'[o] # runs[o]
    <3>1. o = t /\ runs'[o] = runs[o] + 1 /\ runs[o] \in 0..2
      BY <2>1, <2>4 DEF Hand, TypeOK
    <3>2. Unstarted(o)'
      BY <1>s, <2>1, <3>1 DEF Sound, Unstarted
    <3>3. Alone(o)'
      BY <1>s, <2>1, <2>2, <3>1 DEF Sound, Alone
    <3>4. RanOnce(o)'
      <4>1. CASE overlap \/ o \in excused \/ ~isOwner[p]
        BY <2>1, <3>1, <4>1 DEF RanOnce
      <4>2. CASE ~overlap /\ o \notin excused /\ isOwner[p]
        <5>1. runs[o] = 0 /\ o \notin tried /\ table[p][o] = NoDef
          BY <1>s, <2>1, <3>1, <4>2 DEF Sound, RanOnce
        <5>2. \A q \in Proc : isOwner[q] => q = p
          BY <4>2 DEF FileInv, OneOwner
        <5>. QED  BY <2>1, <2>2, <3>1, <4>2, <5>1, <5>2 DEF RanOnce, Ready
      <4>. QED  BY <4>1, <4>2
    <3>. QED  BY <3>2, <3>3, <3>4 DEF Sound
  <2>. QED  BY <2>3, <2>4
<1>8. ASSUME NEW p \in Proc, NEW t \in Tasks, FireBegun(p, t) PROVE Sound(o)'
  <2>1. /\ t \in inflight[p] /\ inflight' = [inflight EXCEPT ![p] = @ \ {t}]
        /\ \/ t \notin tried /\ Hand(p, t)
           \/ runs' = runs
        /\ UNCHANGED <<file, overlap, isOwner, table, toFire, used, tried, unsaved, excused>>
    BY <1>8 DEF FireBegun, HandFails
  <2>2. \A q \in Proc : o \in inflight'[q] <=> o \in inflight[q] /\ ~(q = p /\ o = t)
    BY <2>1 DEF TypeOK
  <2>3. CASE runs'[o] = runs[o]
    BY <1>s, <2>1, <2>2, <2>3, OnceSame
  <2>4. CASE runs'[o] # runs[o]
    <3>1. o = t /\ o \notin tried /\ runs'[o] = runs[o] + 1 /\ runs[o] \in 0..2
      BY <2>1, <2>4 DEF Hand, TypeOK
    <3>2. /\ runs[o] = 0 /\ file[o] = NoDef
          /\ \A q \in Proc : /\ table[q][o] = NoDef /\ o \notin toFire[q]
                             /\ q # p => o \notin inflight[q]
      BY <1>s, <2>1, <3>1 DEF Sound, Alone
    <3>3. Unstarted(o)'
      BY <1>s, <2>1, <3>1 DEF Sound, Unstarted
    <3>4. Alone(o)'
      BY <2>2, <3>1, <3>2 DEF Alone
    <3>5. RanOnce(o)'
      BY <2>1, <3>1, <3>2 DEF RanOnce, Ready
    <3>. QED  BY <3>3, <3>4, <3>5 DEF Sound
  <2>. QED  BY <2>3, <2>4
<1>t. \A p \in Proc : table[p] \in Table
  BY DEF TypeOK
<1>b. ASSUME NEW p \in Proc, NEW tab, NEW T, Store(p, tab, {}), used \subseteq used',
             tried' = tried, inflight' = inflight \/ (o \notin T /\ Begin(p, T)),
             tab[o] # NoDef => \/ o \in used' \ used /\ tab[o].last = Never
                               \/ table[p][o] # NoDef /\ tab[o].last = table[p][o].last
      PROVE  Sound(o)'
  <2>1. \A q \in Proc : o \in inflight'[q] => o \in inflight[q]
    BY <1>b DEF Begin, TypeOK
  <2>2. o \notin used => o \notin tried'
    BY <1>b, <1>s DEF Sound, Unstarted
  <2>. QED  BY <1>b, <1>s, <2>1, <2>2, StoreOnce
<1>9. ASSUME NEW p \in Proc, NEW t \in Tasks, Remove(p, t) PROVE Sound(o)'
  <2>1. Without(table[p], {t})[o] \in {table[p][o], NoDef}
    BY <1>s DEF Without
  <2>. QED  BY <1>9, <1>b, <2>1 DEF Remove
<1>10. ASSUME NEW p \in Proc, NEW t \in Tasks, SetStatus(p, t) PROVE Sound(o)'
  <2>. DEFINE new == [table[p][t] EXCEPT !.on = ~@]
              tab == [table[p] EXCEPT ![t].on = ~@]
  <2>1. table[p][t] \in Definition /\ table[p][t] # NoDef
    BY <1>10, <1>t DEF SetStatus, Held, Table
  <2>2. new.last = table[p][t].last
    BY <2>1 DEF Definition
  <2>3. tab = [table[p] EXCEPT ![t] = new]
    OBVIOUS
  <2>. HIDE DEF new, tab
  <2>4. tab[o] = IF o = t THEN new ELSE table[p][o]
    BY <1>s, <1>t, <2>3 DEF Table
  <2>5. Store(p, tab, {}) /\ UNCHANGED <<inflight, used, tried>>
    BY <1>10 DEF SetStatus, tab
  <2>. QED  BY <1>b, <2>1, <2>2, <2>4, <2>5
<1>11. ASSUME NEW p \in Proc, NEW t \in Tasks, NEW at \in Ats[t], Update(p, t, at) PROVE Sound(o)'
  <2>. DEFINE new == [table[p][t] EXCEPT !.at = at]
              tab == [table[p] EXCEPT ![t].at = at]
  <2>1. table[p][t] \in Definition /\ table[p][t] # NoDef
    BY <1>11, <1>t DEF Update, Held, Table
  <2>2. new.last = table[p][t].last
    BY <2>1 DEF Definition
  <2>3. tab = [table[p] EXCEPT ![t] = new]
    OBVIOUS
  <2>. HIDE DEF new, tab
  <2>4. tab[o] = IF o = t THEN new ELSE table[p][o]
    BY <1>s, <1>t, <2>3 DEF Table
  <2>5. Store(p, tab, {}) /\ UNCHANGED <<inflight, used, tried>>
    BY <1>11 DEF Update, tab
  <2>. QED  BY <1>b, <2>1, <2>2, <2>4, <2>5
<1>12. ASSUME NEW p \in Proc, NEW t \in Tasks, NEW at \in Ats[t], Add(p, t, at) PROVE Sound(o)'
  <2>. DEFINE tab == [table[p] EXCEPT ![t] = New(at, now)]
  <2>1. New(at, now).last = Never
    BY DEF New
  <2>2. tab[o] = IF o = t THEN New(at, now) ELSE table[p][o]
    BY <1>s, <1>t DEF Table
  <2>. HIDE DEF tab
  <2>3. /\ Store(p, tab, {}) /\ UNCHANGED <<inflight, tried>>
        /\ t \notin used /\ used' = used \cup {t}
    BY <1>12 DEF Add, tab
  <2>. QED  BY <1>b, <2>1, <2>2, <2>3
<1>13. ASSUME NEW p \in Proc, NEW t \in Tasks, RunNow(p, t) PROVE Sound(o)'
  <2>. DEFINE tab == Triggered(table[p], {t}, now)
  <2>1. /\ t \in Held(table[p]) /\ now \in 0..MaxTime
        /\ tried' = tried \cup ({t} \cap OneShots) /\ used' = used
        /\ Store(p, tab, {t} \cap OneShots) /\ Begin(p, {t})
    BY <1>13 DEF RunNow, Matching, TypeOK
  <2>2. /\ o # t => tab[o] = table[p][o]
        /\ o = t => tab[o] # NoDef /\ tab[o].last # Never
    <3>1. /\ table[p][o] # NoDef => tab[o] # NoDef
          /\ o # t => tab[o] = table[p][o]
          /\ o = t => tab[o] = [table[p][o] EXCEPT !.last = now]
      BY <1>s, <1>t, <2>1, TriggeredIs
    <3>2. o = t => table[p][o] \in Definition
      BY <1>t, <2>1 DEF Held, Table
    <3>3. now # Never
      BY <2>1, Constants DEF Never
    <3>. QED  BY <2>1, <3>1, <3>2, <3>3 DEF Held, Definition
  <2>. HIDE DEF tab
  <2>3. CASE o # t
    <3>1. \A q \in Proc : o \in inflight'[q] => o \in inflight[q]
      BY <2>1, <2>3 DEF Begin, TypeOK
    <3>2. (o \in tried') <=> (o \in tried)
      BY <2>1, <2>3
    <3>3. /\ isOwner[p] /\ table' = [table EXCEPT ![p] = tab]
          /\ Persist(p, tab, {t} \cap OneShots)
          /\ UNCHANGED <<runs, isOwner, overlap, toFire, excused>>
      BY <2>1 DEF Store
    <3>4. overlap \/ o \in excused \/
            /\ table[p][o] # NoDef => runs[o] = 0 /\ (o \in tried => table[p][o].last # Never)
            /\ o \in toFire[p] => table[p][o] = NoDef /\ runs[o] = 0 /\ o \notin tried
      BY <1>s, <3>3 DEF Sound, RanOnce, Ready
    <3>5. tried \subseteq tried' /\ used \subseteq used' /\ excused \subseteq excused'
      BY <2>1, <3>3
    <3>6. \A q \in Proc : o \in toFire'[q] => o \in toFire[q]
      BY <3>3
    <3>. QED  BY <1>s, <2>2, <2>3, <3>1, <3>2, <3>3, <3>4, <3>5, <3>6, PersistOnce
  <2>4. CASE o = t
    <3>1. o \in tried' /\ tried \subseteq tried' /\ used \subseteq used'
      BY <2>1, <2>4
    <3>2. \A q \in Proc : o \in inflight'[q] => o \in inflight[q] \cup tried'
      BY <3>1
    <3>3. table[p][o] # NoDef /\ o \in {t} \cap OneShots
      BY <2>1, <2>4 DEF Held
    <3>. QED  BY <1>s, <2>1, <2>2, <2>4, <3>1, <3>2, <3>3, StoreOnce
  <2>. QED  BY <2>3, <2>4
<1>14. ASSUME NEW p \in Proc, NEW S \in SUBSET Events, FireByEvent(p, S) PROVE Sound(o)'
  <2>. DEFINE T == Matching(table[p], S)
  <2>1. T \in SUBSET Tasks /\ T \subseteq Held(table[p]) /\ o \notin T
    BY <1>s DEF Matching, Held
  <2>2. Store(p, Triggered(table[p], T, now), {}) /\ Begin(p, T) /\ UNCHANGED <<used, tried>>
    BY <1>14 DEF FireByEvent
  <2>. HIDE DEF T
  <2>3. Triggered(table[p], T, now)[o] = table[p][o]
    BY <1>s, <1>t, <2>1, TriggeredIs DEF TypeOK
  <2>. QED  BY <1>b, <2>1, <2>2, <2>3
<1>15. ASSUME NEW p \in Proc, NEW t \in Tasks, NEW at \in Ats[t], AddPast(p, t, at)
       PROVE  Sound(o)'
  <2>1. /\ t \notin used /\ used' = used \cup {t} /\ Begin(p, {t})
        /\ UNCHANGED <<file, overlap, isOwner, table, toFire, tally>>
    BY <1>15 DEF AddPast
  <2>2. \A q \in Proc : o \in inflight'[q] => o \in inflight[q] \/ (q = p /\ o = t)
    BY <2>1 DEF Begin, TypeOK
  <2>3. CASE o # t
    BY <1>s, <2>1, <2>2, <2>3, OnceSame
  <2>4. CASE o = t
    <3>1. /\ runs[o] = 0 /\ o \notin tried
          /\ \A q \in Proc : o \notin toFire[q] \cup inflight[q]
      BY <1>s, <2>1, <2>4 DEF Sound, Unstarted
    <3>2. file[o] = NoDef /\ \A q \in Proc : table[q][o] = NoDef
      BY <1>s, <2>1, <2>4 DEF Sound, Unstarted
    <3>3. Unstarted(o)' /\ Alone(o)'
      BY <2>1, <2>2, <2>4, <3>1, <3>2 DEF Unstarted, Alone
    <3>4. RanOnce(o)'
      BY <2>1, <3>1, <3>2 DEF RanOnce, Ready
    <3>. QED  BY <3>3, <3>4 DEF Sound
  <2>. QED  BY <2>3, <2>4
<1>16. ASSUME NEW p \in Proc, Close(p) \/ LoseStore(p) \/ CheckHealth(p) PROVE Sound(o)'
  <2>1. /\ isOwner' = [isOwner EXCEPT ![p] = FALSE] /\ excused' = excused \cup unsaved[p]
        /\ UNCHANGED <<file, overlap, table, toFire, inflight, used, runs, tried, unsaved>>
    BY <1>16 DEF Close, LoseStore, Stop, CheckHealth
  <2>2. \A q \in Proc : isOwner'[q] <=> isOwner[q] /\ q # p
    BY <2>1 DEF TypeOK
  <2>3. CASE o \in unsaved[p]
    BY <1>s, <2>1, <2>2, <2>3, OnceSame
  <2>4. CASE o \notin unsaved[p]
    BY <1>s, <2>1, <2>2, <2>4, OnceSame
  <2>. QED  BY <2>3, <2>4
<1>17. ASSUME NEW p \in Proc, Gone(p) PROVE Sound(o)'
  <2>1. /\ isOwner' = [isOwner EXCEPT ![p] = FALSE]
        /\ table' = [table EXCEPT ![p] = [t \in Tasks |-> NoDef]]
        /\ toFire' = [toFire EXCEPT ![p] = {}] /\ inflight' = [inflight EXCEPT ![p] = {}]
        /\ unsaved' = [unsaved EXCEPT ![p] = {}] /\ excused' = excused \cup unsaved[p]
        /\ UNCHANGED <<file, overlap, used, runs, tried>>
    BY <1>17 DEF Gone
  <2>2. \A q \in Proc : /\ isOwner'[q] <=> isOwner[q] /\ q # p
                        /\ table'[q][o] \in {table[q][o], NoDef}
                        /\ o \in toFire'[q] => o \in toFire[q]
                        /\ o \in inflight'[q] => o \in inflight[q]
                        /\ o \in unsaved'[q] <=> o \in unsaved[q] /\ q # p
    BY <1>s, <2>1 DEF TypeOK
  <2>3. CASE o \in unsaved[p]
    BY <1>s, <2>1, <2>2, <2>3, OnceSame
  <2>4. CASE o \notin unsaved[p]
    BY <1>s, <2>1, <2>2, <2>4, OnceSame
  <2>. QED  BY <2>3, <2>4
<1>. QED
  BY <1>1, <1>2, <1>3, <1>4, <1>5, <1>6, <1>7, <1>8, <1>9, <1>10, <1>11, <1>12, <1>13, <1>14,
     <1>15, <1>16, <1>17 DEF Next, Start, Fires, Request, Event, Ends, Exit, Crash

\* A step that changes nothing runs none.
LEMMA OnceStutter == ASSUME Handing, OnceInv, UNCHANGED vars PROVE Handing' /\ OnceInv'
BY DEF Handing, OnceInv, Sound, Unstarted, Alone, RanOnce, Ready, vars, shared, wiring, memory,
   tick, books, tally, era

\* No oneshot runs twice, and none runs both by hand and when it is due, across any
\* restarts, updates and failing saves that are not excused.
THEOREM RunsOnceHolds == Spec => []RunsOnce
<1>. DEFINE Inv == TypeOK /\ FileInv /\ Handing /\ OnceInv
<1>1. Init => Inv
  BY TypeInit, FileInit, OnceInit DEF Init, Handing
<1>2. Inv /\ [Next]_vars => Inv'
  BY TypeNext, TypeStutter, FileNext, FileStutter, HandingNext, OnceNext, OnceStutter
<1>3. Inv => RunsOnce
  <2>. SUFFICES ASSUME Inv, ~overlap, NEW t \in OneShots \ excused
                PROVE  runs[t] + (IF t \in tried THEN 1 ELSE 0) <= 1
    BY DEF RunsOnce
  <2>1. runs[t] = 0 \/ (runs[t] = 1 /\ t \notin tried)
    BY DEF OnceInv, Sound, RanOnce
  <2>. QED  BY <2>1
<1>. QED  BY <1>1, <1>2, <1>3, PTL DEF Spec

=============================================================================
