---------------------------- MODULE Coordinator ----------------------------
(***************************************************************************)
(* Delegation to workers: agent/coordinator.ts with the queue of a batch   *)
(* (work-queue.ts), the reservation of tasks (worker-terminal-policy.ts)   *)
(* and the policy that cancels the rest (batch-short-circuit.ts), from the *)
(* request of a batch to its results, and the shutdown of the coordinator. *)
(*                                                                         *)
(* A step is what the event loop runs between two awaits.  The loops of a  *)
(* batch take several orders in one such turn: while `turn` names a call,  *)
(* only its loops move.                                                    *)
(*                                                                         *)
(* Definitions whose names hold an underscore are deliberate slips, each   *)
(* the mutation of the definition that precedes the underscore.            *)
(***************************************************************************)
EXTENDS Integers, Sequences, FiniteSets

CONSTANTS
  Call,        \* delegateBatch calls; delegate() is a batch of one order
  Order,       \* work orders
  Task,        \* workerTaskKey: what is asked for, whatever the ids
  File,
  Main,        \* the main agent, as the caller of a call
  Nobody,      \* no call has the turn
  CallOf,      \* the call of an order
  CallerOf,    \* who makes a call: Main, or the worker of an order
  TaskOf,      \* the task of an order
  FilesOf,     \* order.scope.files
  Writers,     \* orders of a hands profile
  Needs,       \* order.dependencies: orders of the same call
  InsteadOf,   \* alternateOrderId of a dependency: a set of at most one order
  Enough,      \* passed results that satisfy the policy of a call, 0: all count
  MaxWorkers,  \* config.maxWorkers
  Cap,         \* config.maxExploreWorkers, config.maxWriteWorkers
  MaxTrouble   \* bound: failing writes, hanging workers, aborts, shutdowns, crashes

Role == {"explore", "write"}

ASSUME Constants ==
  /\ Main \notin Order /\ Nobody \notin Call
  /\ CallOf \in [Order -> Call] /\ CallerOf \in [Call -> Order \cup {Main}]
  /\ TaskOf \in [Order -> Task] /\ FilesOf \in [Order -> SUBSET File]
  /\ Writers \subseteq Order
  /\ Needs \in [Order -> SUBSET Order]
  /\ InsteadOf \in [Order -> [Order -> SUBSET Order]]
  /\ \A o, d \in Order : \A p \in Needs[o] \cup InsteadOf[o][d] : CallOf[p] = CallOf[o]
  /\ Enough \in [Call -> Nat]
  /\ MaxWorkers \in Nat \ {0} /\ Cap \in [Role -> Nat \ {0}] /\ MaxTrouble \in Nat
  \* MAX_DELEGATION_DEPTH is 2: the workers of a nested call make no calls.
  /\ \A c \in Call : CallerOf[c] # Main => CallerOf[CallOf[CallerOf[c]]] = Main

VARIABLES
  calls,     \* state of a call
  pc,        \* state of an order: see Gate
  result,    \* WorkerResult.status: whether it is "passed"
  waiters,   \* workerWaiters, first come first
  active,    \* activeExploreCount, activeWriteCount
  slot,      \* orders that have acquired a slot
  inflight,  \* inflightFiles
  alive,     \* orders whose worker session executes
  cut,       \* orders whose orderController has been aborted
  quit,      \* calls whose abort signal has fired
  fired,     \* calls whose judge has fired
  busy,      \* orders that have reserved their task: policy.active
  failed,    \* policy.failed
  durable,   \* the record of a task on disk
  turn,      \* the call whose loops have the turn
  loops,     \* loops that have yet to take an order in this turn
  shutdown,  \* shutdownAndWait
  awaited,   \* the delegations it waits for
  spent,     \* history: tasks a worker was started for and has not passed
  trouble    \* counter of the bound

gate == <<waiters, active, slot>>
workers == <<alive, cut>>
ledger == <<failed, durable>>
looping == <<turn, loops>>
closing == <<shutdown, awaited>>
vars == <<calls, pc, result, gate, inflight, workers, quit, fired, busy, ledger,
          looping, closing, spent, trouble>>

\* An order in runDelegationWithGlobalGate: "waiting" for a slot, "woken" from the
\* wait, "granted" one, "running"; "packing" is delegateOrder with a result in hand,
\* "leaving" the gate with one.
Gate == {"waiting", "woken", "granted", "running", "packing", "leaving"}

\* inFlightOrders of the queue: "settled" has yet to be collected.
Flight == Gate \cup {"settled"}

State == Flight \cup {"new", "pending", "done", "cancelled", "swept", "lost"}

RoleOf(o) == IF o \in Writers THEN "write" ELSE "explore"

Nested_Never(o) == FALSE

Nested(o) == CallerOf[CallOf[o]] # Main

Aborted_Own(c) == c \in quit

\* parentSignal.aborted: the caller's signal, for a nested call its worker's.
Aborted(c) ==
  \/ c \in quit
  \/ CallerOf[c] # Main /\ (CallerOf[c] \in cut \/ CallOf[CallerOf[c]] \in quit)

\* mergedSignal.aborted
Cut(o) == o \in cut \/ Aborted(CallOf[o])

\* shutdownAndWait has returned: the coordinator must not be used again.
Over == shutdown \in {"settled", "timedOut"}

-----------------------------------------------------------------------------
(* Slots.                                                                  *)

TotalCap ==
  LET caps == {MaxWorkers, Cap["explore"], Cap["write"]}
  IN  CHOOSE n \in caps : \A m \in caps : m <= n

HasFree_OneMore(n, r) == n["explore"] + n["write"] <= TotalCap /\ n[r] < Cap[r]

\* hasFreeWorkerSlot of a role, when n workers are active.
HasFree(n, r) == n["explore"] + n["write"] < TotalCap /\ n[r] < Cap[r]

\* acquireWorkerSlot takes a slot.
Take(o) ==
  /\ active' = [active EXCEPT ![RoleOf(o)] = @ + 1]
  /\ slot' = slot \cup {o}
  /\ pc' = [pc EXCEPT ![o] = "granted"]

Without(w, i) == SubSeq(w, 1, i - 1) \o SubSeq(w, i + 1, Len(w))

\* A waiter that can be woken: an abort takes it off the list at once.
Eligible(n, i) == ~Aborted(CallOf[waiters[i]]) /\ HasFree(n, RoleOf(waiters[i]))

\* wakeEligibleWaiter, as o settles and n workers are left.
WakeFirst(o, n) ==
  LET can == {i \in DOMAIN waiters : Eligible(n, i)} IN
  \/ /\ can = {}
     /\ pc' = [pc EXCEPT ![o] = "settled"]
     /\ UNCHANGED waiters
  \/ \E i \in can :
       /\ \A j \in can : i <= j
       /\ pc' = [pc EXCEPT ![o] = "settled", ![waiters[i]] = "woken"]
       /\ waiters' = Without(waiters, i)

Release_Unconditional(o) ==
  /\ busy' = busy \ {o}
  /\ inflight' = inflight \ {o}
  /\ slot' = slot \ {o}
  /\ LET n == [active EXCEPT ![RoleOf(o)] = @ - 1] IN active' = n /\ WakeFirst(o, n)

Release_WakesFirst(o) ==
  /\ busy' = busy \ {o}
  /\ inflight' = inflight \ {o}
  /\ slot' = slot \ {o}
  /\ IF o \in slot
     THEN WakeFirst(o, active) /\ active' = [active EXCEPT ![RoleOf(o)] = @ - 1]
     ELSE /\ pc' = [pc EXCEPT ![o] = "settled"]
          /\ UNCHANGED <<active, waiters>>

\* The finally block of the gate: reservation, files and slot are given back.
Release(o) ==
  /\ busy' = busy \ {o}
  /\ inflight' = inflight \ {o}
  /\ slot' = slot \ {o}
  /\ IF o \in slot
     THEN LET n == [active EXCEPT ![RoleOf(o)] = @ - 1]
          IN  active' = n /\ WakeFirst(o, n)
     ELSE /\ pc' = [pc EXCEPT ![o] = "settled"]
          /\ UNCHANGED <<active, waiters>>

-----------------------------------------------------------------------------
(* The reservation of tasks.                                               *)

Refused_Memory(o) ==
  \/ TaskOf[o] \in failed
  \/ \E p \in busy : TaskOf[p] = TaskOf[o]

\* begin() throws: the task has failed, has a record, or is being executed.
Refused(o) ==
  \/ TaskOf[o] \in failed
  \/ durable[TaskOf[o]] # "free"
  \/ \E p \in busy : TaskOf[p] = TaskOf[o]

Trouble == trouble < MaxTrouble /\ trouble' = trouble + 1

\* finish() of a failure: if the record cannot be written it is retained in memory,
\* and on disk the task counts as started.
RecordFailure(o) ==
  /\ failed' = failed \cup {TaskOf[o]}
  /\ \/ /\ durable' = [durable EXCEPT ![TaskOf[o]] = "failed"]
        /\ UNCHANGED trouble
     \/ /\ durable' = [durable EXCEPT ![TaskOf[o]] = "started"]
        /\ Trouble

\* The catch block of the gate.
Fail(o) ==
  /\ RecordFailure(o)
  /\ result' = [result EXCEPT ![o] = "failed"]
  /\ pc' = [pc EXCEPT ![o] = "leaving"]

-----------------------------------------------------------------------------
Init ==
  /\ calls = [c \in Call |-> "new"]
  /\ pc = [o \in Order |-> "new"]
  /\ result = [o \in Order |-> "none"]
  /\ waiters = <<>>
  /\ active = [r \in Role |-> 0]
  /\ slot = {} /\ inflight = {} /\ alive = {} /\ cut = {} /\ quit = {}
  /\ fired = {} /\ busy = {} /\ failed = {}
  /\ durable = [t \in Task |-> "free"]
  /\ turn = Nobody /\ loops = 0
  /\ shutdown = "no" /\ awaited = {}
  /\ spent = {} /\ trouble = 0

-----------------------------------------------------------------------------
(* A batch.                                                                *)

\* delegateBatch puts the orders into its queue and starts its loops.
Submit(c) ==
  /\ calls[c] = "new" /\ CallerOf[c] \in alive \cup {Main}
  /\ calls' = [calls EXCEPT ![c] = "open"]
  /\ pc' = [o \in Order |-> IF CallOf[o] = c THEN "pending" ELSE pc[o]]
  /\ turn' = c /\ loops' = TotalCap
  /\ UNCHANGED <<result, gate, inflight, workers, quit, fired, busy, ledger, closing,
                 spent, trouble>>

InQueueFlight(c) == {o \in Order : CallOf[o] = c /\ pc[o] \in Flight}

Completed(o) == pc[o] = "done" /\ result[o] = "passed"

FailedOrder(o) == pc[o] = "cancelled" \/ (pc[o] = "done" /\ result[o] = "failed")

\* depOk
Ready(o) ==
  \A d \in Needs[o] :
     Completed(d) \/ (FailedOrder(d) /\ \E a \in InsteadOf[o][d] : Completed(a))

\* Two orders of which one writes what the other reads or writes.
Collide(o, p) ==
  FilesOf[o] \cap FilesOf[p] # {} /\ (o \in Writers \/ p \in Writers)

\* canRun
CanRun(c, o) ==
  LET flight == InQueueFlight(c) IN
  /\ CallOf[o] = c /\ pc[o] = "pending"
  /\ Ready(o)
  /\ \A p \in flight : ~Collide(o, p)
  /\ Cardinality(flight) < TotalCap
  /\ Cardinality({p \in flight : RoleOf(p) = RoleOf(o)}) < Cap[RoleOf(o)]

\* An order enters the gate: its task is reserved, and a slot asked for.
Enter(o) ==
  \/ \* begin() throws, also when it cannot write its record
     /\ IF Refused(o) THEN UNCHANGED trouble ELSE Trouble
     /\ result' = [result EXCEPT ![o] = "failed"]
     /\ pc' = [pc EXCEPT ![o] = "leaving"]
     /\ UNCHANGED <<gate, busy, failed, durable>>
  \/ /\ ~Refused(o)
     /\ busy' = busy \cup {o}
     /\ \/ \* acquireWorkerSlot throws
           /\ ~Nested(o)
           /\ shutdown # "no" \/ (Aborted(CallOf[o]) /\ ~HasFree(active, RoleOf(o)))
           /\ Fail(o)
           /\ UNCHANGED gate
        \/ /\ durable' = [durable EXCEPT ![TaskOf[o]] = "started"]
           /\ UNCHANGED <<result, failed, trouble>>
           /\ \/ /\ Nested(o)
                 /\ pc' = [pc EXCEPT ![o] = "granted"]
                 /\ UNCHANGED gate
              \/ /\ ~Nested(o) /\ shutdown = "no" /\ HasFree(active, RoleOf(o))
                 /\ Take(o)
                 /\ UNCHANGED waiters
              \/ /\ ~Nested(o) /\ shutdown = "no" /\ ~HasFree(active, RoleOf(o))
                 /\ ~Aborted(CallOf[o])
                 /\ pc' = [pc EXCEPT ![o] = "waiting"]
                 /\ waiters' = Append(waiters, o)
                 /\ UNCHANGED <<active, slot>>

\* processNext takes an order: the first, or one of the same domain as the last.
Dequeue(c, o) ==
  /\ turn = c /\ CanRun(c, o)
  /\ Enter(o)
  /\ loops' = loops - 1
  /\ turn' = IF loops = 1 THEN Nobody ELSE turn
  /\ UNCHANGED <<calls, inflight, workers, quit, fired, closing, spent>>

\* The loops that find no order end.
LoopsEnd(c) ==
  /\ turn = c /\ \A o \in Order : ~CanRun(c, o)
  /\ turn' = Nobody /\ loops' = 0
  /\ UNCHANGED <<calls, pc, result, gate, inflight, workers, quit, fired, busy, ledger,
                 closing, spent, trouble>>

-----------------------------------------------------------------------------
(* The gate.                                                               *)

\* A woken order takes a slot, or waits again if it was taken by a newcomer.
Resume(o) ==
  /\ pc[o] = "woken"
  /\ \/ /\ shutdown # "no" \/ (Aborted(CallOf[o]) /\ ~HasFree(active, RoleOf(o)))
        /\ Fail(o)
        /\ UNCHANGED gate
     \/ /\ shutdown = "no"
        /\ UNCHANGED <<result, ledger, trouble>>
        /\ \/ /\ HasFree(active, RoleOf(o))
              /\ Take(o)
              /\ UNCHANGED waiters
           \/ /\ ~HasFree(active, RoleOf(o)) /\ ~Aborted(CallOf[o])
              /\ pc' = [pc EXCEPT ![o] = "waiting"]
              /\ waiters' = Append(waiters, o)
              /\ UNCHANGED <<active, slot>>
  /\ UNCHANGED <<calls, inflight, workers, quit, fired, busy, looping, closing, spent>>

\* onAbort of an order that waits.
GiveUp(i) ==
  /\ Aborted(CallOf[waiters[i]])
  /\ Fail(waiters[i])
  /\ waiters' = Without(waiters, i)
  /\ UNCHANGED <<calls, active, slot, inflight, workers, quit, fired, busy, looping,
                 closing, spent>>

Conflict_Writers(o) ==
  \E p \in inflight \ {o} : FilesOf[o] \cap FilesOf[p] # {} /\ {o, p} \subseteq Writers

\* checkGlobalFileConflict
Conflict(o) == \E p \in inflight \ {o} : Collide(o, p)

\* What follows the slot.  A conflict is not recorded with finish().  A nested order
\* comes here without a pause; the pause only adds behaviours.
Start(o) ==
  /\ pc[o] = "granted"
  /\ \/ /\ Conflict(o)
        /\ result' = [result EXCEPT ![o] = "failed"]
        /\ pc' = [pc EXCEPT ![o] = "leaving"]
        /\ UNCHANGED <<inflight, alive, spent>>
     \/ /\ ~Conflict(o)
        /\ inflight' = inflight \cup {o}
        /\ \/ \* aborted, refused by a check, a lock or a claim of another session
              /\ result' = [result EXCEPT ![o] = "failed"]
              /\ pc' = [pc EXCEPT ![o] = "packing"]
              /\ UNCHANGED <<alive, spent>>
           \/ \* tryReuseWorkerResult finds a result
              /\ ~Aborted(CallOf[o]) /\ o \notin Writers
              /\ result' = [result EXCEPT ![o] = "passed"]
              /\ pc' = [pc EXCEPT ![o] = "packing"]
              /\ UNCHANGED <<alive, spent>>
           \/ /\ ~Aborted(CallOf[o])
              /\ pc' = [pc EXCEPT ![o] = "running"]
              /\ alive' = alive \cup {o}
              /\ spent' = spent \cup {TaskOf[o]}
              /\ UNCHANGED result
  /\ UNCHANGED <<calls, gate, cut, quit, fired, busy, ledger, looping, closing, trouble>>

CallsOf(o) == {c \in Call : CallerOf[c] = o /\ calls[c] = "open"}

\* The worker session returns; cut, it may leave the calls it has made behind.
WorkerEnds(o) ==
  /\ pc[o] = "running" /\ (CallsOf(o) = {} \/ Cut(o))
  /\ alive' = alive \ {o}
  /\ \E r \in {"passed", "failed"} : result' = [result EXCEPT ![o] = r]
  /\ pc' = [pc EXCEPT ![o] = "packing"]
  /\ UNCHANGED <<calls, gate, inflight, cut, quit, fired, busy, ledger, looping, closing,
                 spent, trouble>>

\* The stall sweep, or killWorker.
Kill(o) ==
  /\ pc[o] = "running" /\ o \notin cut /\ ~Over /\ Trouble
  /\ cut' = cut \cup {o}
  /\ UNCHANGED <<calls, pc, result, gate, inflight, alive, quit, fired, busy, ledger,
                 looping, closing, spent>>

\* wrapAbort: five seconds after the abort the worker is not waited for any longer.
GraceOver(o) ==
  /\ pc[o] = "running" /\ Cut(o)
  /\ result' = [result EXCEPT ![o] = "failed"]
  /\ pc' = [pc EXCEPT ![o] = "packing"]
  /\ UNCHANGED <<calls, gate, inflight, workers, quit, fired, busy, ledger, looping,
                 closing, spent, trouble>>

\* A worker that ignored its abort ends after all.
LateEnd(o) ==
  /\ o \in alive /\ pc[o] # "running"
  /\ alive' = alive \ {o}
  /\ UNCHANGED <<calls, pc, result, gate, inflight, cut, quit, fired, busy, ledger,
                 looping, closing, spent, trouble>>

\* finish(): the record of a success is removed, that of a failure written.  If that
\* fails, the catch block records a failure, of a success too.
Record(o) ==
  \/ /\ result[o] = "passed"
     /\ durable' = [durable EXCEPT ![TaskOf[o]] = "free"]
     /\ spent' = spent \ {TaskOf[o]}
     /\ Release(o)
     /\ UNCHANGED <<result, failed, trouble>>
  \/ /\ Trouble
     /\ failed' = failed \cup {TaskOf[o]}
     /\ durable' = [durable EXCEPT ![TaskOf[o]] = "failed"]
     /\ result' = [result EXCEPT ![o] = "failed"]
     /\ pc' = [pc EXCEPT ![o] = "leaving"]
     /\ UNCHANGED <<gate, inflight, busy, spent>>
  \/ /\ result[o] = "failed"
     /\ RecordFailure(o)
     /\ Release(o)
     /\ UNCHANGED <<result, spent>>

\* delegateOrder returns: the result is recorded and the gate left.
Finish(o) ==
  /\ pc[o] = "packing"
  /\ Record(o)
  /\ UNCHANGED <<calls, workers, quit, fired, looping, closing>>

\* The packet of a result that came about in the gate is ready.
Leave(o) ==
  /\ pc[o] = "leaving"
  /\ Release(o)
  /\ UNCHANGED <<calls, result, workers, quit, fired, ledger, looping, closing, spent,
                 trouble>>

-----------------------------------------------------------------------------
(* The batch goes on.                                                      *)

\* BatchShortCircuitJudge.onSettle, as o settles.
Satisfied(o) ==
  LET c == CallOf[o] IN
  /\ c \notin fired /\ Enough[c] > 0 /\ result[o] = "passed"
  /\ Cardinality({p \in Order : CallOf[p] = c /\ Completed(p)}) + 1 >= Enough[c]

\* The readers of the call: pending they are withdrawn, running they are aborted, in
\* the gate they go on.
CancelRest(o) ==
  LET rest == {p \in Order \ (Writers \cup {o}) : CallOf[p] = CallOf[o]} IN
  /\ fired' = fired \cup {CallOf[o]}
  /\ pc' = [p \in Order |-> IF p = o THEN "done"
                            ELSE IF p \in rest /\ pc[p] = "pending" THEN "cancelled"
                            ELSE pc[p]]
  /\ result' = [p \in Order |-> IF p \in rest /\ pc[p] = "pending" THEN "failed"
                                                                  ELSE result[p]]
  /\ cut' = cut \cup {p \in rest : pc[p] = "running"}

Collect_LoopEnds(o) ==
  /\ pc[o] = "settled"
  /\ IF Satisfied(o) THEN CancelRest(o)
     ELSE pc' = [pc EXCEPT ![o] = "done"] /\ UNCHANGED <<result, cut, fired>>
  /\ UNCHANGED <<calls, gate, inflight, alive, quit, busy, ledger, looping, closing, spent,
                 trouble>>

\* processNext has a result: the policy looks at it, and the loop takes the next order.
Collect(o) ==
  /\ pc[o] = "settled"
  /\ IF Satisfied(o) THEN CancelRest(o)
     ELSE pc' = [pc EXCEPT ![o] = "done"] /\ UNCHANGED <<result, cut, fired>>
  /\ turn' = CallOf[o] /\ loops' = 1
  /\ UNCHANGED <<calls, gate, inflight, alive, quit, busy, ledger, closing, spent, trouble>>

\* All loops have ended: the orders left are blocked, and the call returns.
Return(c) ==
  /\ calls[c] = "open" /\ InQueueFlight(c) = {}
  /\ calls' = [calls EXCEPT ![c] = "returned"]
  /\ pc' = [o \in Order |-> IF CallOf[o] = c /\ pc[o] = "pending" THEN "swept" ELSE pc[o]]
  /\ result' = [o \in Order |-> IF CallOf[o] = c /\ pc[o] = "pending" THEN "failed"
                                                                     ELSE result[o]]
  /\ UNCHANGED <<gate, inflight, workers, quit, fired, busy, ledger, looping, closing,
                 spent, trouble>>

\* The signal of the tool call fires.
CallerAborts(c) ==
  /\ calls[c] = "open" /\ c \notin quit /\ Trouble
  /\ quit' = quit \cup {c}
  /\ UNCHANGED <<calls, pc, result, gate, inflight, workers, fired, busy, ledger, looping,
                 closing, spent>>

-----------------------------------------------------------------------------
(* The coordinator.                                                        *)

\* abortInFlight
AbortInFlight ==
  /\ cut' = cut \cup {o \in Order : pc[o] = "running"}
  /\ pc' = [o \in Order |-> IF pc[o] = "waiting" THEN "woken" ELSE pc[o]]
  /\ waiters' = <<>>

\* shutdownAndWait
Shutdown ==
  /\ shutdown = "no" /\ Trouble
  /\ AbortInFlight
  /\ shutdown' = "asked"
  /\ awaited' = {o \in Order : pc[o] \in Gate}
  /\ UNCHANGED <<calls, result, active, slot, inflight, alive, quit, fired, busy, ledger,
                 looping, spent>>

Unsettled == {o \in awaited : pc[o] \in Gate}

\* It returns true, or false after eight seconds, when every grace of five is over.
ShutdownReturns ==
  /\ shutdown = "asked"
  /\ \/ Unsettled = {} /\ shutdown' = "settled"
     \/ /\ Unsettled # {} /\ \A o \in Unsettled : ~(pc[o] = "running" /\ o \in cut)
        /\ shutdown' = "timedOut"
  /\ inflight' = {} /\ awaited' = {}
  /\ UNCHANGED <<calls, pc, result, gate, workers, quit, fired, busy, ledger, looping,
                 spent, trouble>>

\* The process dies and starts again with what is on disk.
Crash ==
  /\ Trouble
  /\ calls' = [c \in Call |-> IF calls[c] = "open" THEN "lost" ELSE calls[c]]
  /\ pc' = [o \in Order |-> IF pc[o] \in Flight \cup {"pending"} THEN "lost" ELSE pc[o]]
  /\ waiters' = <<>> /\ active' = [r \in Role |-> 0] /\ slot' = {}
  /\ inflight' = {} /\ alive' = {} /\ cut' = {} /\ quit' = {} /\ fired' = {}
  /\ busy' = {} /\ failed' = {}
  /\ turn' = Nobody /\ loops' = 0 /\ shutdown' = "no" /\ awaited' = {}
  /\ UNCHANGED <<result, durable, spent>>

-----------------------------------------------------------------------------
(* The event loop.                                                         *)

\* Continuations of promises that are ready: they run before the loop turns to the
\* network, to timers, signals and the user.
Continue(o) == Resume(o) \/ Start(o) \/ Collect(o)

Drained == \A o \in Order : pc[o] \notin {"woken", "granted", "settled"}

Event(o) == WorkerEnds(o) \/ Kill(o) \/ GraceOver(o) \/ LateEnd(o)

TurnStep(c) == LoopsEnd(c) \/ \E o \in Order : Dequeue(c, o)

Next ==
  \/ \E c \in Call : TurnStep(c)
  \/ /\ turn = Nobody
     /\ \/ \E o \in Order : Continue(o) \/ Finish(o) \/ Leave(o)
        \/ \E i \in DOMAIN waiters : GiveUp(i)
        \/ \E c \in Call : Submit(c) \/ Return(c)
        \/ ShutdownReturns
        \/ /\ Drained
           /\ \/ \E o \in Order : Event(o)
              \/ \E c \in Call : CallerAborts(c)
              \/ Shutdown \/ Crash

\* What lets an order go on, wherever it is.
Moves(o) ==
  \/ Continue(o) \/ Finish(o) \/ Leave(o)
  \/ \E i \in DOMAIN waiters : waiters[i] = o /\ GiveUp(i)
  \/ Drained /\ (WorkerEnds(o) \/ Kill(o) \/ GraceOver(o))

\* The event loop runs what is ready and fires its timers.  A running worker ends by
\* itself or at its budget, or falls silent and is found by the stall sweep.
Fairness ==
  /\ WF_vars(\E c \in Call : TurnStep(c))
  /\ \A o \in Order : WF_vars(turn = Nobody /\ Moves(o))
  /\ \A c \in Call : WF_vars(turn = Nobody /\ Return(c))

Spec == Init /\ [][Next]_vars /\ Fairness

-----------------------------------------------------------------------------
(* Properties.                                                             *)

\* Every variable has its type: the state of coordinator.ts and its queue.
TypeOK ==
  /\ calls \in [Call -> {"new", "open", "returned", "lost"}]
  /\ pc \in [Order -> State]
  /\ result \in [Order -> {"none", "passed", "failed"}]
  /\ waiters \in Seq(Order)
  /\ active \in [Role -> Nat]
  /\ slot \subseteq Order /\ inflight \subseteq Order /\ busy \subseteq Order
  /\ alive \subseteq Order /\ cut \subseteq Order /\ awaited \subseteq Order
  /\ quit \subseteq Call /\ fired \subseteq Call
  /\ failed \subseteq Task /\ spent \subseteq Task
  /\ durable \in [Task -> {"free", "started", "failed"}]
  /\ turn \in Call \cup {Nobody} /\ loops \in Nat
  /\ shutdown \in {"no", "asked", "settled", "timedOut"}
  /\ trouble \in Nat

Running == {o \in Order : pc[o] = "running"}

\* Two workers that are waited for never work on one file if either of them writes,
\* whatever calls, nested calls and turns they come from (inflightFiles).
WritersExclusive ==
  ~Over => \A o, p \in Running : o # p => ~Collide(o, p)

\* As many workers hold a slot as the counters say, and no more than each role and all
\* together may, however waits, aborts and failures end (acquired, releaseWorkerSlot).
CapsHold ==
  /\ \A r \in Role : active[r] = Cardinality({o \in slot : RoleOf(o) = r})
  /\ \A r \in Role : active[r] <= Cap[r]
  /\ active["explore"] + active["write"] <= TotalCap
  /\ \A o \in Running : Nested(o) \/ o \in slot

\* A free slot that a waiter could take is on its way to somebody: no wake-up is lost
\* (wakeEligibleWaiter), if no pool is smaller than the whole.
NoIdleSlot ==
  (\E i \in DOMAIN waiters : Eligible(active, i))
     => \E o \in Order : pc[o] = "woken" /\ HasFree(active, RoleOf(o))

\* An order is only left out because a dependency, and what was to stand in for it, did
\* not pass; no loop ends too early (the sweep at the end of delegateBatch).
SweptForCause == \A o \in Order : pc[o] = "swept" => ~Ready(o)

Starts(o) == pc[o] # "running" /\ pc'[o] = "running"

\* No second worker is started for a task before a worker of it has passed and that was
\* recorded: not by a call beside it, not after a crash (WorkerTerminalPolicy).
NoRepeat == [][\A o \in Order : Starts(o) => TaskOf[o] \notin spent]_vars

\* Once the coordinator is being shut down no worker starts any more: neither one that
\* waited for a slot, nor a nested one, which asks for none (shutdownAndWait).
NoStartAfterShutdown == [][\A o \in Order : Starts(o) => shutdown = "no"]_vars

\* Every call returns, unless the process dies or the coordinator is dropped: nested
\* calls do not wait for the slots of their callers, and no worker is waited for ever.
EveryCallReturns == \A c \in Call : calls[c] = "open" ~> (calls[c] # "open" \/ Over)
=============================================================================
