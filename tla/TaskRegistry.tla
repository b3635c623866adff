---------------------------- MODULE TaskRegistry ----------------------------
(***************************************************************************)
(* The runs of the scheduled tasks of one sidecar: server/task-registry.ts *)
(* over the JSON store of server/task-store.ts, executed by the sessions   *)
(* that server/session-runtime-pool.ts opens.                              *)
(*                                                                         *)
(* A step is one turn of the event loop, from a timer, a request or the    *)
(* end of a session up to the next real wait.  A record is written to the  *)
(* disk inside a step, so a crash may also fall between two records of one *)
(* step (the ...Interrupted actions), and a write may fail (SaveFails).    *)
(* Starting a claimed task is a step of its own although today's store and *)
(* pool never wait there: both are interfaces of promises.                 *)
(*                                                                         *)
(* Definitions whose names hold an underscore are deliberate slips, each   *)
(* the mutation of the definition that precedes the underscore.            *)
(***************************************************************************)
EXTENDS Integers, FiniteSets

CONSTANTS
  Tasks,         \* the ids generateTaskId may hand out
  Keys,          \* idempotency keys: task, caller and five-minute bucket
  NoKey,         \* the key of a retry, which no request of the scheduler has
  MaxAttempts,   \* retry.maxAttempts; 1 is a task without a retry policy
  MaxRuns,       \* bound: runs the scheduler asks for
  MaxStops,      \* bound: how often the sidecar is closed or crashes
  MaxFaults      \* bound: writes of a record that fail

ASSUME Bounds ==
  /\ MaxAttempts \in Nat \ {0} /\ MaxStops \in Nat /\ MaxFaults \in Nat
  /\ NoKey \notin Keys

VARIABLES
  rec,                    \* the task records on disk
  phase,                  \* "down", "up" or "closing": the sidecar
  executionClaims,        \* tasks that a scheduleExecution frame belongs to
  abortControllers,       \* tasks whose AbortController is registered
  aborted,                \* tasks whose AbortSignal has fired
  timeoutTimers,          \* tasks whose timeout timer is armed
  retryTimers,            \* tasks with an entry in the map of retry timers
  armed,                  \* the retry timers of a task that have not fired
  cancelledRetryOrigins,  \* chains cancelled since the sidecar started
  session,                \* the status of the session that executes a task
  stops, faults           \* counters of the bounds

disk == <<rec, session>>
timers == <<timeoutTimers, retryTimers, armed>>
bounds == <<stops, faults>>
vars == <<disk, phase, executionClaims, abortControllers, aborted, timers,
          cancelledRetryOrigins, bounds>>

Active == {"pending", "running"}
Terminal == {"completed", "failed", "timed_out", "cancelled"}

Absent(t) == [status |-> "none", attempt |-> 0, origin |-> t, key |-> NoKey]

Exists(t) == rec[t].status # "none"

Chain(o) == {t \in Tasks : Exists(t) /\ rec[t].origin = o}

Priority == [pending |-> 0, running |-> 0, completed |-> 1, failed |-> 2,
             timed_out |-> 3, cancelled |-> 4]

CanTransition_Always(from, to) == from \in Active \cup Terminal

\* A verdict may only be replaced by one of higher priority.
CanTransition(from, to) ==
  from \in Active \/ (from \in Terminal /\ Priority[to] > Priority[from])

-----------------------------------------------------------------------------
(* transition(id, to) for the tasks of S, and what follows a verdict.      *)

Moves(S, to) == {t \in S : CanTransition(rec[t].status, to)}

Saved(S, to) ==
  [t \in Tasks |-> IF t \in Moves(S, to) THEN [rec[t] EXCEPT !.status = to]
                                         ELSE rec[t]]

Retried_OneMore(S, to) ==
  {t \in Moves(S, to) : /\ to \in {"failed", "timed_out"}
                        /\ rec[t].attempt <= MaxAttempts
                        /\ rec[t].origin \notin cancelledRetryOrigins}

Retried_OneLess(S, to) ==
  {t \in Moves(S, to) : /\ to \in {"failed", "timed_out"}
                        /\ rec[t].attempt + 1 < MaxAttempts
                        /\ rec[t].origin \notin cancelledRetryOrigins}

\* A record with attempts left, of a chain nobody has cancelled.
Retried(S, to) ==
  {t \in Moves(S, to) : /\ to \in {"failed", "timed_out"}
                        /\ rec[t].attempt < MaxAttempts
                        /\ rec[t].origin \notin cancelledRetryOrigins}

Cleanup_KeepFailed(S, to) == IF to = "failed" THEN {} ELSE Moves(S, to)

\* The controllers and timeouts that the verdict on S drops.
Cleanup(S, to) == Moves(S, to)

Verdict(S, to) ==
  /\ rec' = Saved(S, to)
  /\ abortControllers' = abortControllers \ Cleanup(S, to)
  /\ timeoutTimers' = timeoutTimers \ Cleanup(S, to)
  /\ armed' = [t \in Tasks |-> armed[t] + (IF t \in Retried(S, to) THEN 1 ELSE 0)]
  /\ retryTimers' = retryTimers \cup Retried(S, to)

\* There is something to stop.
Alive(t) == session[t] = "running"

Abort_NotSession(S) ==
  aborted' = aborted \cup (S \cap abortControllers) /\ UNCHANGED session

\* AbortController.abort of the tasks of S, where one is registered: the
\* session of a running one is told to stop at once.
Abort(S) ==
  LET hit == S \cap abortControllers
  IN /\ aborted' = aborted \cup hit
     /\ session' = [t \in Tasks |-> IF t \in hit /\ Alive(t)
                                    THEN "aborted" ELSE session[t]]

Claim_NoController(S) ==
  executionClaims' = executionClaims \cup S /\ UNCHANGED abortControllers

\* claimPendingExecution and the start of scheduleExecution.
Claim(S) ==
  /\ executionClaims' = executionClaims \cup S
  /\ abortControllers' = abortControllers \cup S

Up == phase # "down"

\* A write of a record fails.
SaveFails == faults < MaxFaults /\ faults' = faults + 1
-----------------------------------------------------------------------------
Init ==
  /\ rec = [t \in Tasks |-> Absent(t)]
  /\ phase = "up"
  /\ executionClaims = {}
  /\ abortControllers = {}
  /\ aborted = {}
  /\ timeoutTimers = {}
  /\ retryTimers = {}
  /\ armed = [t \in Tasks |-> 0]
  /\ cancelledRetryOrigins = {}
  /\ session = [t \in Tasks |-> "none"]
  /\ stops = 0
  /\ faults = 0

ActiveWith(k) == {t \in Tasks : rec[t].key = k /\ rec[t].status \in Active}

Unclaimed == {t \in Tasks \ executionClaims : rec[t].status = "pending"}

Create(t, attempt, origin, key) ==
  /\ ~Exists(t)
  /\ rec' = [rec EXCEPT ![t] = [status |-> "pending", attempt |-> attempt,
                                origin |-> origin, key |-> key]]
  /\ Claim({t})

\* The scheduler asks for a run and none is active under its key.
CreateTask(t, k) ==
  /\ phase = "up"
  /\ ActiveWith(k) = {}
  /\ Cardinality({o \in Tasks : rec[o].attempt = 1}) < MaxRuns
  /\ Create(t, 1, t, k)
  /\ UNCHANGED <<session, phase, aborted, timers, cancelledRetryOrigins, bounds>>

\* The scheduler asks again: the active run is returned, and started if
\* no frame of this process has it.
Deduplicate(t, k) ==
  /\ phase = "up"
  /\ t \in ActiveWith(k) \cap Unclaimed
  /\ Claim({t})
  /\ UNCHANGED <<disk, phase, aborted, timers, cancelledRetryOrigins, bounds>>

\* scheduleExecution may start the session of a task.
MayStart(t) ==
  /\ rec[t].status = "pending"
  /\ t \notin aborted
  /\ rec[t].origin \notin cancelledRetryOrigins

Starting(t) == Up /\ t \in executionClaims /\ session[t] = "none"

Start(t) ==
  /\ Starting(t)
  /\ MayStart(t)
  /\ rec' = [rec EXCEPT ![t].status = "running"]
  /\ session' = [session EXCEPT ![t] = "running"]
  /\ timeoutTimers' = timeoutTimers \cup {t}
  /\ UNCHANGED <<phase, executionClaims, abortControllers, aborted, retryTimers,
                 armed, cancelledRetryOrigins, bounds>>

\* The frame finds that its task was cancelled first.
StartRefused(t) ==
  /\ Starting(t)
  /\ ~MayStart(t)
  /\ rec' = [rec EXCEPT ![t].status = IF @ = "pending" THEN "running" ELSE @]
  /\ executionClaims' = executionClaims \ {t}
  /\ abortControllers' = abortControllers \ {t}
  /\ aborted' = aborted \ {t}
  /\ UNCHANGED <<session, phase, timers, cancelledRetryOrigins, bounds>>

\* The record cannot be marked as running: the frame marks it as failed, and
\* gives up when that fails as well.
StartSaveFails(t) ==
  /\ Starting(t)
  /\ MayStart(t)
  /\ SaveFails
  /\ executionClaims' = executionClaims \ {t}
  /\ \/ Verdict({t}, "failed")
     \/ UNCHANGED <<rec, abortControllers, timers>>
  /\ UNCHANGED <<session, phase, aborted, cancelledRetryOrigins, stops>>
-----------------------------------------------------------------------------
\* The agent comes to an end by itself.
SessionEnds(t) ==
  /\ Up
  /\ session[t] = "running"
  /\ session' = [session EXCEPT ![t] = "completed"]
     \/ session' = [session EXCEPT ![t] = "failed"]
  /\ UNCHANGED <<rec, phase, executionClaims, abortControllers, aborted, timers,
                 cancelledRetryOrigins, bounds>>

\* Somebody stops the session in the list of sessions (POST
\* /sessions/:id/abort), the watchdog stops an agent that makes no progress, or
\* the sidecar stops them all to shut down.
SessionStopped(t) ==
  /\ Up
  /\ Alive(t)
  /\ session' = [session EXCEPT ![t] = "aborted"]
  /\ UNCHANGED <<rec, phase, executionClaims, abortControllers, aborted, timers,
                 cancelledRetryOrigins, bounds>>

\* The verdict of a frame whose session is over.
Outcome(t) ==
  IF session[t] = "completed" THEN "completed"
  ELSE IF t \in aborted THEN "cancelled"
  ELSE "failed"

\* An aborted frame leaves the verdict of the timeout or of the cancel alone.
Concluded(t) ==
  IF Outcome(t) = "cancelled" /\ rec[t].status \in {"timed_out", "cancelled"}
  THEN {} ELSE {t}

Settling(t) ==
  /\ Up
  /\ t \in executionClaims
  /\ session[t] \in {"completed", "failed", "aborted"}

Settle(t) ==
  /\ Settling(t)
  /\ Verdict(Concluded(t), Outcome(t))
  /\ executionClaims' = executionClaims \ {t}
  /\ aborted' = aborted \ {t}
  /\ UNCHANGED <<session, phase, cancelledRetryOrigins, bounds>>

\* The verdict cannot be saved.  That of a completed run is caught like a
\* failure of the run; the last resort is "failed", and then nothing.
SettleSaveFails(t) ==
  /\ Settling(t)
  /\ Moves(Concluded(t), Outcome(t)) # {}
  /\ SaveFails
  /\ executionClaims' = executionClaims \ {t}
  /\ aborted' = aborted \ {t}
  /\ \/ /\ session[t] = "completed" /\ t \in aborted
        /\ Verdict({t}, "cancelled")
     \/ Verdict({t}, "failed")
     \/ UNCHANGED <<rec, abortControllers, timers>>
  /\ UNCHANGED <<session, phase, cancelledRetryOrigins, stops>>
-----------------------------------------------------------------------------
TimeoutFires(t) ==
  /\ Up
  /\ t \in timeoutTimers
  /\ Abort({t})
  /\ Verdict({t}, "timed_out")
  /\ UNCHANGED <<phase, executionClaims, cancelledRetryOrigins, bounds>>

TimeoutSaveFails(t) ==
  /\ Up
  /\ t \in timeoutTimers
  /\ SaveFails
  /\ Abort({t})
  /\ timeoutTimers' = timeoutTimers \ {t}
  /\ UNCHANGED <<rec, phase, executionClaims, abortControllers, retryTimers, armed,
                 cancelledRetryOrigins, stops>>

\* What a retry timer looks at again before it creates the next attempt.
StillRetried(t) ==
  /\ rec[t].origin \notin cancelledRetryOrigins
  /\ rec[rec[t].origin].status # "cancelled"
  /\ rec[t].status \in {"failed", "timed_out"}

RetryFires(t) ==
  /\ Up
  /\ armed[t] > 0
  /\ armed' = [armed EXCEPT ![t] = @ - 1]
  /\ retryTimers' = retryTimers \ {t}
  /\ \/ /\ StillRetried(t)
        /\ \E n \in Tasks : Create(n, rec[t].attempt + 1, rec[t].origin, NoKey)
        /\ UNCHANGED faults
     \/ /\ ~StillRetried(t)
        /\ UNCHANGED <<rec, executionClaims, abortControllers, faults>>
     \/ /\ StillRetried(t)
        /\ SaveFails
        /\ UNCHANGED <<rec, executionClaims, abortControllers>>
  /\ UNCHANGED <<session, phase, aborted, timeoutTimers, cancelledRetryOrigins,
                 stops>>
-----------------------------------------------------------------------------
\* cancel(t) takes the other attempts of the chain with it, unless completed.
Cancelled(t) ==
  {t} \cup {u \in Chain(rec[t].origin) : rec[u].status # "completed"}

Cancel(t) ==
  /\ Up
  /\ Exists(t)
  /\ cancelledRetryOrigins' = cancelledRetryOrigins \cup {rec[t].origin}
  /\ Abort(Cancelled(t))
  /\ LET S == Cancelled(t)
         stopped == {u \in retryTimers : rec[u].origin = rec[t].origin}
     IN /\ rec' = Saved(S, "cancelled")
        /\ abortControllers' = abortControllers \ Cleanup(S, "cancelled")
        /\ timeoutTimers' = timeoutTimers \ Cleanup(S, "cancelled")
        /\ armed' = [u \in Tasks |-> armed[u] - (IF u \in stopped THEN 1 ELSE 0)]
        /\ retryTimers' = retryTimers \ stopped
  /\ UNCHANGED <<phase, executionClaims, bounds>>

\* The sidecar stops: its memory is gone, its sessions are cut off.
Halt ==
  /\ phase' = "down"
  /\ executionClaims' = {}
  /\ abortControllers' = {}
  /\ aborted' = {}
  /\ timeoutTimers' = {}
  /\ retryTimers' = {}
  /\ armed' = [t \in Tasks |-> 0]
  /\ cancelledRetryOrigins' = {}
  /\ session' = [t \in Tasks |-> IF Alive(t) THEN "lost" ELSE session[t]]

Crash ==
  /\ Up
  /\ stops < MaxStops
  /\ stops' = stops + 1
  /\ Halt
  /\ UNCHANGED <<rec, faults>>

\* ... before cancel(t) has saved the record it was asked to cancel.
CancelInterrupted(t) ==
  /\ Up
  /\ Exists(t)
  /\ stops < MaxStops
  /\ stops' = stops + 1
  /\ \E S \in SUBSET (Cancelled(t) \ {t}) : rec' = Saved(S, "cancelled")
  /\ Halt
  /\ UNCHANGED faults

\* close: the timers and the memory of cancelled chains go, the frames stay
\* until the process exits.
Dispose ==
  /\ phase = "up"
  /\ stops < MaxStops
  /\ stops' = stops + 1
  /\ phase' = "closing"
  /\ armed' = [t \in Tasks |-> armed[t] - (IF t \in retryTimers THEN 1 ELSE 0)]
  /\ retryTimers' = {}
  /\ timeoutTimers' = {}
  /\ cancelledRetryOrigins' = {}
  /\ UNCHANGED <<disk, executionClaims, abortControllers, aborted, faults>>

\* The process exits.
Exit ==
  /\ phase = "closing"
  /\ Halt
  /\ UNCHANGED <<rec, bounds>>

Stale_Claimed == {t \in executionClaims : rec[t].status = "running"}

Stale == {t \in Tasks : rec[t].status = "running"}

\* The next sidecar: what was running has timed out, what was not started is.
RecoverStaleTasks ==
  /\ phase = "down"
  /\ phase' = "up"
  /\ rec' = Saved(Stale, "timed_out")
  /\ armed' = [t \in Tasks |-> IF t \in Retried(Stale, "timed_out") THEN 1 ELSE 0]
  /\ retryTimers' = Retried(Stale, "timed_out")
  /\ Claim({t \in Tasks : rec[t].status = "pending"})
  /\ UNCHANGED <<session, aborted, timeoutTimers, cancelledRetryOrigins, bounds>>

\* ... and crashes before it is done: the retries it had armed are gone.
RecoverInterrupted ==
  /\ phase = "down"
  /\ stops < MaxStops
  /\ stops' = stops + 1
  /\ \E S \in SUBSET Stale \ {{}} : rec' = Saved(S, "timed_out")
  /\ UNCHANGED <<session, phase, executionClaims, abortControllers, aborted, timers,
                 cancelledRetryOrigins, faults>>
-----------------------------------------------------------------------------
Next ==
  \/ \E t \in Tasks :
       \/ \E k \in Keys : CreateTask(t, k) \/ Deduplicate(t, k)
       \/ Start(t)
       \/ StartRefused(t)
       \/ StartSaveFails(t)
       \/ SessionEnds(t)
       \/ SessionStopped(t)
       \/ Settle(t)
       \/ SettleSaveFails(t)
       \/ TimeoutFires(t)
       \/ TimeoutSaveFails(t)
       \/ RetryFires(t)
       \/ Cancel(t)
       \/ CancelInterrupted(t)
  \/ Crash
  \/ Dispose
  \/ Exit
  \/ RecoverStaleTasks
  \/ RecoverInterrupted

Spec == Init /\ [][Next]_vars

\* The event loop runs what is due; a closing sidecar exits and is started
\* again.  Nothing is assumed of the agent: a session may run for ever, and
\* an aborted one may never settle.
Fairness ==
  /\ \A t \in Tasks : /\ WF_vars(Start(t) \/ StartRefused(t))
                      /\ WF_vars(TimeoutFires(t))
                      /\ WF_vars(RetryFires(t))
  /\ WF_vars(Exit)
  /\ WF_vars(RecoverStaleTasks)

LiveSpec == Spec /\ Fairness
-----------------------------------------------------------------------------
Record ==
  [status : Active \cup Terminal \cup {"none"}, attempt : 0 .. MaxAttempts,
   origin : Tasks, key : Keys \cup {NoKey}]

\* Every variable has its type; no record has more attempts than its policy,
\* and what memory holds of a task that does not exist is nothing.
TypeOK ==
  /\ rec \in [Tasks -> Record]
  /\ phase \in {"down", "up", "closing"}
  /\ executionClaims \subseteq {t \in Tasks : Exists(t)}
  /\ abortControllers \subseteq {t \in Tasks : Exists(t)}
  /\ aborted \subseteq Tasks
  /\ timeoutTimers \subseteq Tasks
  /\ retryTimers \subseteq Tasks
  /\ armed \in [Tasks -> Nat]
  /\ cancelledRetryOrigins \subseteq Tasks
  /\ session \in [Tasks -> {"none", "running", "completed", "failed",
                          "aborted", "lost"}]
  /\ stops \in 0 .. MaxStops
  /\ faults \in 0 .. MaxFaults

\* The attempts of a chain are created one after another: no two have the same
\* number, and when a new one exists all before it have ended without success.
AttemptsInOrder ==
  \A t, u \in Tasks :
    (Exists(t) /\ Exists(u) /\ t # u /\ rec[t].origin = rec[u].origin)
      => /\ rec[t].attempt # rec[u].attempt
         /\ rec[t].attempt < rec[u].attempt
              => rec[t].status \in {"failed", "timed_out", "cancelled"}

\* A task whose record bears a verdict is not executed any more: whoever reads
\* the record may rely on it, and no retry runs beside its predecessor.
VerdictStopsSession ==
  \A t \in Tasks : rec[t].status \in Terminal => session[t] # "running"

\* While the sidecar serves, a running session can be cancelled and will be
\* stopped by a timer: nothing in memory loses hold of it.
RunIsSupervised ==
  \A t \in Tasks : (phase = "up" /\ session[t] = "running")
    => t \in abortControllers /\ t \in timeoutTimers

ChainCancelled(o) ==
  /\ rec[o].status = "cancelled"
  /\ \A t \in Chain(o) : rec[t].status \in {"completed", "cancelled"}

\* A cancelled chain stays cancelled: no timer, late answer, restart or second
\* request revives it or gives its first record another verdict.
CancelIsFinal ==
  [][\A o \in Tasks : ChainCancelled(o) => ChainCancelled(o)']_vars

\* Every run comes to a verdict, whatever the agent does.
EveryRunEnds ==
  \A t \in Tasks : (rec[t].status \in Active) ~> (rec[t].status \in Terminal)

NextAttempt(t) ==
  \E u \in Chain(rec[t].origin) : rec[u].attempt = rec[t].attempt + 1

\* A run ends in success, in a cancellation of it or of its first attempt, in its
\* last attempt or in the next one, unless the sidecar stops again: no failure with
\* attempts left is dropped, that of a run which the last stop cut off included.
FailureIsRetried ==
  \A t \in Tasks, n \in 0 .. MaxStops :
    (rec[t].status \in Active /\ stops = n)
      ~> \/ rec[t].status \in {"completed", "cancelled"}
         \/ rec[rec[t].origin].status = "cancelled"
         \/ rec[t].attempt = MaxAttempts
         \/ NextAttempt(t)
         \/ phase = "closing" \/ stops > n
=============================================================================
