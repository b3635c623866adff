------------------------ MODULE TaskRegistry_proofs ------------------------
(***************************************************************************)
(* Proofs about TaskRegistry, for any tasks, keys and bounds.              *)
(*                                                                         *)
(* The inductive invariant has two halves.  ChainInv is about the records  *)
(* and the retry timers: only the last attempt of a chain is active or has *)
(* a timer.  RunInv ties the sessions to what memory holds of them.        *)
(***************************************************************************)
EXTENDS TaskRegistry, TLAPS

Alike(t, u) == Exists(t) /\ Exists(u) /\ t # u /\ rec[t].origin = rec[u].origin

\* A retry timer belongs to a record with attempts left; the map of retry timers
\* only lists timers that have not fired.
Timers ==
  \A t \in Tasks : /\ t \in retryTimers => armed[t] > 0
                   /\ armed[t] > 0 => Exists(t) /\ rec[t].attempt < MaxAttempts

\* A task is retried at most once, and not before its verdict.
RetriedOnce ==
  \A t \in Tasks : armed[t] <= 1 /\ (armed[t] > 0 => rec[t].status \in Terminal)

\* The first attempt of a chain exists as long as any.
Origins == \A t \in Tasks : Exists(t) => Exists(rec[t].origin)

\* Only the last attempt of a chain is active or about to be retried.
LastOnly ==
  \A t, u \in Tasks :
    Alike(t, u) /\ (rec[t].status \in Active \/ armed[t] > 0)
      => rec[u].attempt < rec[t].attempt

\* Nothing of the previous life is left in memory while the sidecar is down.
DownIsEmpty ==
  phase = "down" => /\ executionClaims = {} /\ timeoutTimers = {}
                    /\ \A t \in Tasks : armed[t] = 0 /\ ~Alive(t)

\* No timeout is armed for a task with a verdict, and no frame has one that has
\* completed: neither can be given another verdict, but for a cancel.
VerdictIsQuiet ==
  \A t \in Tasks : /\ rec[t].status \in Terminal => t \notin timeoutTimers
                   /\ rec[t].status = "completed" => t \notin executionClaims

\* Whoever claims a task registers its controller, until the verdict.
ClaimIsControlled ==
  \A t \in executionClaims : rec[t].status \in Active => t \in abortControllers

\* A running session can be aborted.
RunIsControlled ==
  \A t \in Tasks : session[t] = "running" => t \in abortControllers

ChainInv == Timers /\ RetriedOnce /\ Origins /\ LastOnly /\ AttemptsInOrder

RunInv == /\ DownIsEmpty /\ VerdictIsQuiet /\ ClaimIsControlled
          /\ RunIsControlled /\ VerdictStopsSession /\ RunIsSupervised

IInv == TypeOK /\ ChainInv /\ RunInv

-----------------------------------------------------------------------------
(* What a transition does to the records.                                  *)

Statuses == Active \cup Terminal

\* A transition changes nothing of a record but its status, and that only where
\* canTransition allows it.
LEMMA SavedFacts ==
  ASSUME TypeOK, NEW S, NEW to \in Terminal, rec' = Saved(S, to)
  PROVE  /\ rec' \in [Tasks -> Record]
         /\ \A t \in Tasks : /\ rec'[t].attempt = rec[t].attempt
                             /\ rec'[t].origin = rec[t].origin
                             /\ Exists(t)' <=> Exists(t)
                             /\ t \in Moves(S, to) => Exists(t) /\ rec'[t].status = to
                             /\ t \notin Moves(S, to) => rec'[t] = rec[t]
<1>1. \A t \in Tasks : rec[t] \in Record
  BY DEF TypeOK
<1>2. ASSUME NEW t \in Tasks, t \in Moves(S, to)
      PROVE  rec'[t] = [rec[t] EXCEPT !.status = to] /\ Exists(t)
  BY <1>1, <1>2 DEF Saved, Moves, CanTransition, Exists, Active, Terminal
<1>3. ASSUME NEW t \in Tasks, t \notin Moves(S, to)
      PROVE  rec'[t] = rec[t]
  BY <1>3 DEF Saved
<1>4. ASSUME NEW t \in Tasks, t \in Moves(S, to)
      PROVE  /\ rec'[t] \in Record /\ rec'[t].status = to
             /\ rec'[t].attempt = rec[t].attempt /\ rec'[t].origin = rec[t].origin
  BY <1>1, <1>2, <1>4 DEF Record
<1>5. rec' \in [Tasks -> Record]
  BY <1>1, <1>3, <1>4 DEF Saved
<1>6. QED
  BY <1>2, <1>3, <1>4, <1>5 DEF Exists, Terminal

\* canTransition never leads from a verdict to a weaker one.
LEMMA Verdicts ==
  ASSUME NEW from \in Statuses \cup {"none"}, NEW to \in Terminal,
         CanTransition(from, to), from \notin Active
  PROVE  /\ to # "completed"
         /\ to = "failed" => from = "completed"
         /\ to = "timed_out" => from \in {"completed", "failed"}
BY DEF CanTransition, Statuses, Active, Terminal, Priority
-----------------------------------------------------------------------------
(* What a step does to the chains, by what it does to the records.         *)

\* The retry timers of a step that arms none.
TimersFall ==
  /\ armed' \in [Tasks -> Nat]
  /\ \A t \in Tasks : /\ armed'[t] <= armed[t]
                      /\ t \in retryTimers' => armed'[t] > 0

\* A step that writes no record and arms no timer.
LEMMA ChainQuiet ==
  ASSUME TypeOK, ChainInv, UNCHANGED rec, TimersFall
  PROVE  ChainInv'
<1> USE DEF ChainInv, TimersFall, TypeOK
<1>1. Timers' /\ RetriedOnce'
  BY DEF Timers, RetriedOnce, Exists
<1>2. Origins' /\ AttemptsInOrder'
  BY DEF Origins, AttemptsInOrder, Exists
<1>3. LastOnly'
  BY DEF LastOnly, Alike, Exists
<1>4. QED
  BY <1>1, <1>2, <1>3

\* A step that gives verdicts, and arms a timer at most for a record it retries.
\* Only active records can fail or time out.
LEMMA ChainVerdict ==
  ASSUME TypeOK, ChainInv, NEW S, NEW to \in Terminal, rec' = Saved(S, to),
         to \in {"failed", "timed_out"} => \A t \in Moves(S, to) : rec[t].status \in Active,
         armed' \in [Tasks -> Nat],
         \A t \in Tasks : /\ \/ armed'[t] <= armed[t]
                             \/ t \in Retried(S, to) /\ armed'[t] <= armed[t] + 1
                          /\ t \in retryTimers' => armed'[t] > 0
  PROVE  ChainInv'
<1>1. \A t \in Tasks : rec[t] \in Record
  BY DEF TypeOK
<1>2. \A t \in Tasks : /\ rec'[t].attempt = rec[t].attempt
                       /\ rec'[t].origin = rec[t].origin
                       /\ Exists(t)' <=> Exists(t)
                       /\ t \in Moves(S, to) => Exists(t) /\ rec'[t].status = to
                       /\ t \notin Moves(S, to) => rec'[t] = rec[t]
  BY SavedFacts
<1>3. \A t \in Tasks :
        t \in Retried(S, to) => /\ t \in Moves(S, to) /\ rec[t].status \in Active
                                /\ rec[t].attempt < MaxAttempts
  BY DEF Retried
<1>4. \A t \in Tasks : armed[t] \in Nat /\ armed'[t] \in Nat
  BY DEF TypeOK
<1>5. \A t \in Tasks : armed'[t] > 0 => armed[t] > 0 \/ t \in Retried(S, to)
  BY <1>4
<1>6. Timers'
  BY <1>2, <1>3, <1>5 DEF Timers, ChainInv
<1>7. RetriedOnce'
  <2> SUFFICES ASSUME NEW t \in Tasks
               PROVE  armed'[t] <= 1 /\ (armed'[t] > 0 => rec'[t].status \in Terminal)
    BY DEF RetriedOnce
  <2>1. armed[t] <= 1 /\ (armed[t] > 0 => rec[t].status \in Terminal)
    BY DEF ChainInv, RetriedOnce
  <2>2. CASE t \in Retried(S, to)
    <3>1. ~(rec[t].status \in Terminal)
      BY <2>2, <1>3 DEF Active, Terminal
    <3>2. QED
      BY <2>1, <2>2, <3>1, <1>2, <1>3, <1>4
  <2>3. CASE t \notin Retried(S, to)
    BY <2>1, <2>3, <1>2, <1>4
  <2>4. QED
    BY <2>2, <2>3
<1>8. Origins'
  BY <1>1, <1>2 DEF Origins, ChainInv, Record
<1>9. LastOnly'
  <2> SUFFICES ASSUME NEW t \in Tasks, NEW u \in Tasks, Alike(t, u)',
                      rec'[t].status \in Active \/ armed'[t] > 0
               PROVE  rec'[u].attempt < rec'[t].attempt
    BY DEF LastOnly
  <2>1. Alike(t, u)
    BY <1>2 DEF Alike
  <2>2. rec[t].status \in Active \/ armed[t] > 0
    BY <1>2, <1>3, <1>5 DEF Active, Terminal
  <2>3. QED
    BY <2>1, <2>2, <1>2 DEF ChainInv, LastOnly
<1>10. AttemptsInOrder'
  <2> SUFFICES ASSUME NEW t \in Tasks, NEW u \in Tasks, Alike(t, u)'
               PROVE  /\ rec'[t].attempt # rec'[u].attempt
                      /\ rec'[t].attempt < rec'[u].attempt
                           => rec'[t].status \in {"failed", "timed_out", "cancelled"}
    BY DEF AttemptsInOrder, Alike
  <2>1. /\ rec[t].attempt # rec[u].attempt
        /\ rec[t].attempt < rec[u].attempt
             => rec[t].status \in {"failed", "timed_out", "cancelled"}
    BY <1>2 DEF Alike, ChainInv, AttemptsInOrder
  <2>2. rec[t].status \in {"failed", "timed_out", "cancelled"} /\ t \in Moves(S, to)
          => to \in {"failed", "timed_out", "cancelled"}
    BY Verdicts DEF Moves, Statuses, Active, Terminal
  <2>3. QED
    BY <2>1, <2>2, <1>2
<1>11. QED
  BY <1>6, <1>7, <1>8, <1>9, <1>10 DEF ChainInv

\* A step that creates the next record of a chain without active records, and
\* takes the timer that led to it away.
LEMMA ChainCreate ==
  ASSUME TypeOK, ChainInv, TimersFall,
         NEW n \in Tasks, NEW attempt \in 0 .. MaxAttempts, NEW origin \in Tasks,
         NEW key \in Keys \cup {NoKey},
         ~Exists(n), Exists(origin) \/ origin = n,
         rec' = [rec EXCEPT ![n] = [status |-> "pending", attempt |-> attempt,
                                    origin |-> origin, key |-> key]],
         \A u \in Chain(origin) : /\ rec[u].attempt < attempt /\ armed'[u] = 0
                                  /\ rec[u].status \in {"failed", "timed_out", "cancelled"}
  PROVE  ChainInv'
<1>1. \A t \in Tasks : rec[t] \in Record /\ rec[t].attempt \in Nat
  BY DEF TypeOK, Record
<1>2. /\ rec'[n].status = "pending" /\ rec'[n].attempt = attempt /\ rec'[n].origin = origin
      /\ \A t \in Tasks \ {n} : rec'[t] = rec[t]
  BY DEF TypeOK
<1>3. /\ Exists(n)'
      /\ \A t \in Tasks \ {n} : Exists(t)' <=> Exists(t)
  BY <1>2 DEF Exists
<1>4. \A t \in Tasks : armed[t] \in Nat /\ armed'[t] \in Nat /\ armed'[t] <= armed[t]
  BY DEF TypeOK, TimersFall
<1>5. armed[n] = 0 /\ armed'[n] = 0
  BY <1>4 DEF ChainInv, Timers
<1>6. Timers' /\ RetriedOnce'
  BY <1>2, <1>3, <1>4, <1>5 DEF ChainInv, Timers, RetriedOnce, TimersFall
<1>7. Origins'
  BY <1>1, <1>2, <1>3 DEF ChainInv, Origins, Record
<1>8. \A u \in Tasks \ {n} : rec[u].origin = origin /\ Exists(u) => u \in Chain(origin)
  BY DEF Chain
<1>9. LastOnly'
  <2> SUFFICES ASSUME NEW t \in Tasks, NEW u \in Tasks, Alike(t, u)',
                      rec'[t].status \in Active \/ armed'[t] > 0
               PROVE  rec'[u].attempt < rec'[t].attempt
    BY DEF LastOnly
  <2>1. CASE t = n
    BY <2>1, <1>2, <1>3, <1>8 DEF Alike
  <2>2. CASE u = n
    BY <2>2, <1>2, <1>3, <1>4, <1>8 DEF Alike, Active
  <2>3. CASE t # n /\ u # n
    BY <2>3, <1>2, <1>3, <1>4 DEF Alike, ChainInv, LastOnly
  <2>4. QED
    BY <2>1, <2>2, <2>3
<1>10. AttemptsInOrder'
  <2> SUFFICES ASSUME NEW t \in Tasks, NEW u \in Tasks, Alike(t, u)'
               PROVE  /\ rec'[t].attempt # rec'[u].attempt
                      /\ rec'[t].attempt < rec'[u].attempt
                           => rec'[t].status \in {"failed", "timed_out", "cancelled"}
    BY DEF AttemptsInOrder, Alike
  <2>1. CASE t = n
    BY <2>1, <1>1, <1>2, <1>3, <1>8 DEF Alike
  <2>2. CASE u = n
    BY <2>2, <1>1, <1>2, <1>3, <1>8 DEF Alike
  <2>3. CASE t # n /\ u # n
    BY <2>3, <1>2, <1>3 DEF Alike, ChainInv, AttemptsInOrder
  <2>4. QED
    BY <2>1, <2>2, <2>3
<1>11. QED
  BY <1>6, <1>7, <1>9, <1>10 DEF ChainInv

\* A step that marks a pending record as running.
LEMMA ChainRun ==
  ASSUME TypeOK, ChainInv, NEW n \in Tasks, rec[n].status = "pending",
         rec' = [rec EXCEPT ![n].status = "running"], UNCHANGED <<armed, retryTimers>>
  PROVE  ChainInv'
<1>1. rec[n] \in Record
  BY DEF TypeOK
<1>2. /\ rec'[n].status = "running" /\ rec'[n].attempt = rec[n].attempt
      /\ rec'[n].origin = rec[n].origin
  BY <1>1 DEF TypeOK, Record
<1>3. \A t \in Tasks \ {n} : rec'[t] = rec[t]
  BY DEF TypeOK
<1>4. /\ \A t \in Tasks : Exists(t)' <=> Exists(t)
      /\ \A t \in Tasks : rec'[t].attempt = rec[t].attempt /\ rec'[t].origin = rec[t].origin
      /\ \A t \in Tasks : rec'[t].status \in Active <=> rec[t].status \in Active
      /\ \A t \in Tasks : rec'[t].status \in Terminal => rec'[t].status = rec[t].status
      /\ \A t \in Tasks : rec[t].status \in Terminal => rec'[t].status = rec[t].status
  BY <1>2, <1>3 DEF Exists, Active, Terminal
<1>5. Timers' /\ RetriedOnce'
  BY <1>4 DEF ChainInv, Timers, RetriedOnce
<1>6. Origins'
  BY <1>1, <1>4 DEF ChainInv, Origins, TypeOK, Record
<1>7. LastOnly'
  BY <1>4 DEF ChainInv, LastOnly, Alike
<1>8. AttemptsInOrder'
  BY <1>4 DEF ChainInv, AttemptsInOrder, Terminal
<1>9. QED
  BY <1>5, <1>6, <1>7, <1>8 DEF ChainInv

\* Verdict(S, to), for tasks of S that had none when they fail or time out.
LEMMA VerdictStep ==
  ASSUME TypeOK, ChainInv, NEW S \in SUBSET Tasks, NEW to \in Terminal, Verdict(S, to),
         to \in {"failed", "timed_out"} => \A t \in Moves(S, to) : rec[t].status \in Active
  PROVE  /\ ChainInv'
         /\ rec' \in [Tasks -> Record]
         /\ abortControllers' \subseteq {t \in Tasks : Exists(t)'}
         /\ timeoutTimers' \subseteq Tasks /\ retryTimers' \subseteq Tasks
         /\ armed' \in [Tasks -> Nat]
<1>1. /\ rec' = Saved(S, to)
      /\ armed' = [t \in Tasks |-> armed[t] + (IF t \in Retried(S, to) THEN 1 ELSE 0)]
      /\ retryTimers' = retryTimers \cup Retried(S, to)
      /\ abortControllers' \subseteq abortControllers /\ timeoutTimers' \subseteq timeoutTimers
  BY DEF Verdict
<1>2. Retried(S, to) \subseteq Tasks
  BY DEF Retried, Moves
<1>3. armed' \in [Tasks -> Nat]
  BY <1>1 DEF TypeOK
<1>4. \A t \in Tasks : /\ \/ armed'[t] <= armed[t]
                          \/ t \in Retried(S, to) /\ armed'[t] <= armed[t] + 1
                       /\ t \in retryTimers' => armed'[t] > 0
  BY <1>1 DEF TypeOK, ChainInv, Timers
<1>5. ChainInv'
  BY <1>1, <1>3, <1>4, ChainVerdict
<1>6. QED
  BY <1>1, <1>2, <1>3, <1>5, SavedFacts DEF TypeOK

\* A verdict of one task, as the frame or the timer of that task gives it.
LEMMA OneVerdict ==
  ASSUME TypeOK, NEW t \in Tasks, NEW S \in SUBSET {t}, NEW to \in Terminal, Verdict(S, to)
  PROVE  /\ \A u \in Tasks \ {t} : rec'[u] = rec[u]
         /\ abortControllers \ {t} \subseteq abortControllers'
         /\ timeoutTimers \ {t} \subseteq timeoutTimers'
         /\ abortControllers' \subseteq abortControllers
         /\ timeoutTimers' \subseteq timeoutTimers
         /\ \/ /\ rec'[t] = rec[t]
               /\ abortControllers' = abortControllers /\ timeoutTimers' = timeoutTimers
            \/ /\ rec'[t].status = to /\ t \in S
               /\ t \notin abortControllers' /\ t \notin timeoutTimers'
<1>1. /\ rec' = Saved(S, to)
      /\ abortControllers' = abortControllers \ Moves(S, to)
      /\ timeoutTimers' = timeoutTimers \ Moves(S, to)
  BY DEF Verdict, Cleanup
<1>2. Moves(S, to) = {} \/ (Moves(S, to) = {t} /\ t \in S)
  BY DEF Moves
<1>3. \A u \in Tasks : /\ u \in Moves(S, to) => rec'[u].status = to
                       /\ u \notin Moves(S, to) => rec'[u] = rec[u]
  BY <1>1, SavedFacts
<1>4. QED
  BY <1>1, <1>2, <1>3

\* Abort(S) stops running sessions and nothing else.
LEMMA AbortStep ==
  ASSUME TypeOK, NEW S \in SUBSET Tasks, Abort(S)
  PROVE  /\ aborted' \subseteq Tasks
         /\ session' \in [Tasks -> {"none", "running", "completed", "failed",
                                    "aborted", "lost"}]
         /\ \A t \in Tasks : /\ session'[t] \in {session[t], "aborted"}
                             /\ t \in S \cap abortControllers => ~Alive(t)'
BY DEF Abort, TypeOK, Alive

\* The sidecar stops: what remains is the records.
LEMMA HaltStep ==
  ASSUME Halt, NEW S, NEW to \in Terminal, TypeOK, ChainInv, RunInv,
         to \notin {"failed", "timed_out"},
         UNCHANGED rec \/ rec' = Saved(S, to),
         stops' \in 0 .. MaxStops, UNCHANGED faults
  PROVE  IInv'
<1>1. rec' \in [Tasks -> Record]
  BY SavedFacts DEF TypeOK
<1>2. /\ phase' = "down" /\ executionClaims' = {} /\ abortControllers' = {}
      /\ aborted' = {} /\ timeoutTimers' = {} /\ retryTimers' = {}
      /\ armed' = [t \in Tasks |-> 0] /\ cancelledRetryOrigins' = {}
      /\ session' = [t \in Tasks |-> IF Alive(t) THEN "lost" ELSE session[t]]
  BY DEF Halt
<1>3. TypeOK'
  BY <1>1, <1>2 DEF TypeOK
<1>4. ChainInv'
  <2>1. CASE UNCHANGED rec
    BY <2>1, <1>2, ChainQuiet DEF TimersFall, TypeOK
  <2>2. CASE rec' = Saved(S, to)
    BY <2>2, <1>2, ChainVerdict DEF TypeOK
  <2>3. QED
    BY <2>1, <2>2
<1>5. \A t \in Tasks : session'[t] # "running" /\ armed'[t] = 0
  BY <1>2 DEF Alive
<1>6. RunInv'
  BY <1>2, <1>5 DEF RunInv, DownIsEmpty, VerdictIsQuiet, ClaimIsControlled, RunIsControlled,
    VerdictStopsSession, RunIsSupervised, Alive
<1>7. QED
  BY <1>3, <1>4, <1>6 DEF IInv
-----------------------------------------------------------------------------
LEMMA IInvInit == Init => IInv
<1> SUFFICES ASSUME Init PROVE IInv
  OBVIOUS
<1>1. TypeOK
  BY Bounds DEF Init, TypeOK, Record, Absent, Exists, Active, Terminal
<1>2. ChainInv
  BY DEF Init, ChainInv, Timers, RetriedOnce, Origins, LastOnly, AttemptsInOrder, Alike,
    Exists, Absent, Active
<1>3. RunInv
  BY DEF Init, RunInv, DownIsEmpty, VerdictIsQuiet, ClaimIsControlled, RunIsControlled,
    VerdictStopsSession, RunIsSupervised
<1>4. QED
  BY <1>1, <1>2, <1>3 DEF IInv

\* A step that leaves the retry timers alone.
LEMMA TimersStay == Timers /\ TypeOK /\ UNCHANGED <<armed, retryTimers>> => TimersFall
BY DEF Timers, TypeOK, TimersFall

\* A task is claimed: by a request of the scheduler or by a repeated one.
LEMMA ClaimSteps ==
  ASSUME IInv, NEW t \in Tasks, NEW k \in Keys, CreateTask(t, k) \/ Deduplicate(t, k)
  PROVE  IInv'
<1> USE DEF IInv
<1>1. TimersFall
  BY TimersStay DEF CreateTask, Deduplicate, timers, ChainInv
<1>2. CASE CreateTask(t, k)
  <2>1. /\ ~Exists(t) /\ phase = "up"
        /\ rec' = [rec EXCEPT ![t] = [status |-> "pending", attempt |-> 1,
                                      origin |-> t, key |-> k]]
        /\ executionClaims' = executionClaims \cup {t}
        /\ abortControllers' = abortControllers \cup {t}
        /\ UNCHANGED <<session, phase, aborted, timeoutTimers, retryTimers, armed,
                       cancelledRetryOrigins, stops, faults>>
    BY <1>2 DEF CreateTask, Create, Claim, timers, bounds
  <2>2. Chain(t) = {}
    BY <2>1 DEF Chain, ChainInv, Origins
  <2>3. ChainInv'
    <3>1. 1 \in 0 .. MaxAttempts
      BY Bounds
    <3>2. QED
      BY <2>1, <2>2, <3>1, <1>1, ChainCreate
  <2>4. TypeOK'
    BY <2>1, Bounds DEF TypeOK, Record, Exists, Active
  <2>5. rec'[t].status = "pending" /\ \A u \in Tasks \ {t} : rec'[u] = rec[u]
    BY <2>1 DEF TypeOK
  <2>6. RunInv'
    BY <2>1, <2>5 DEF RunInv, DownIsEmpty, VerdictIsQuiet, ClaimIsControlled, RunIsControlled,
      VerdictStopsSession, RunIsSupervised, Terminal, Alive, TypeOK
  <2>7. QED
    BY <2>3, <2>4, <2>6
<1>3. CASE Deduplicate(t, k)
  <2>1. /\ rec[t].status = "pending" /\ phase = "up"
        /\ executionClaims' = executionClaims \cup {t}
        /\ abortControllers' = abortControllers \cup {t}
        /\ UNCHANGED <<rec, session, phase, aborted, timeoutTimers, retryTimers, armed,
                       cancelledRetryOrigins, stops, faults>>
    BY <1>3 DEF Deduplicate, Unclaimed, Claim, disk, timers, bounds
  <2>2. TypeOK'
    BY <2>1 DEF TypeOK, Exists
  <2>3. ChainInv'
    BY <2>1, <1>1, ChainQuiet
  <2>4. RunInv'
    BY <2>1 DEF RunInv, DownIsEmpty, VerdictIsQuiet, ClaimIsControlled, RunIsControlled,
      VerdictStopsSession, RunIsSupervised, Alive
  <2>5. QED
    BY <2>2, <2>3, <2>4
<1>4. QED
  BY <1>2, <1>3

\* The frame of a claimed task starts its session, or finds that it may not.
LEMMA StartSteps ==
  ASSUME IInv, NEW t \in Tasks, Start(t) \/ StartRefused(t) \/ StartSaveFails(t)
  PROVE  IInv'
<1> USE DEF IInv
<1>s. phase # "down" /\ t \in executionClaims /\ session[t] = "none"
  BY DEF Start, StartRefused, StartSaveFails, Starting, Up
<1>r. \A u \in Tasks : rec[u] \in Record
  BY DEF TypeOK
<1>1. CASE Start(t)
  <2>1. /\ rec[t].status = "pending"
        /\ rec' = [rec EXCEPT ![t].status = "running"]
        /\ session' = [session EXCEPT ![t] = "running"]
        /\ timeoutTimers' = timeoutTimers \cup {t}
        /\ UNCHANGED <<phase, executionClaims, abortControllers, aborted, retryTimers,
                       armed, cancelledRetryOrigins, stops, faults>>
    BY <1>1 DEF Start, MayStart, bounds
  <2>2. ChainInv'
    BY <2>1, ChainRun
  <2>3. rec'[t].status = "running" /\ rec'[t] \in Record /\ \A u \in Tasks \ {t} : rec'[u] = rec[u]
    BY <2>1, <1>r DEF TypeOK, Record, Active
  <2>4. TypeOK'
    BY <2>1, <2>3 DEF TypeOK, Exists
  <2>5. t \in abortControllers
    BY <2>1, <1>s DEF RunInv, ClaimIsControlled, Active
  <2>6. RunInv'
    BY <2>1, <2>3, <2>5, <1>s DEF RunInv, DownIsEmpty, VerdictIsQuiet, ClaimIsControlled,
      RunIsControlled, VerdictStopsSession, RunIsSupervised, Terminal, Alive, TypeOK
  <2>7. QED
    BY <2>2, <2>4, <2>6
<1>2. CASE StartRefused(t)
  <2>1. /\ rec' = [rec EXCEPT ![t].status = IF @ = "pending" THEN "running" ELSE @]
        /\ executionClaims' = executionClaims \ {t}
        /\ abortControllers' = abortControllers \ {t}
        /\ aborted' = aborted \ {t}
        /\ UNCHANGED <<session, phase, timeoutTimers, retryTimers, armed,
                       cancelledRetryOrigins, stops, faults>>
    BY <1>2 DEF StartRefused, timers, bounds
  <2>2. ChainInv' /\ rec' \in [Tasks -> Record]
    <3>1. CASE rec[t].status = "pending"
      <4>1. rec' = [rec EXCEPT ![t].status = "running"]
        BY <2>1, <3>1
      <4>2. ChainInv'
        BY <2>1, <3>1, <4>1, ChainRun
      <4>3. [rec[t] EXCEPT !.status = "running"] \in Record
        BY <1>r DEF Record, Active
      <4>4. QED
        BY <4>1, <4>2, <4>3 DEF TypeOK
    <3>2. CASE rec[t].status # "pending"
      <4>1. rec' = rec
        BY <2>1, <3>2, <1>r DEF TypeOK, Record
      <4>2. QED
        BY <2>1, <4>1, ChainQuiet, TimersStay DEF ChainInv, TypeOK
    <3>3. QED
      BY <3>1, <3>2
  <2>3. /\ \A u \in Tasks \ {t} : rec'[u] = rec[u]
        /\ rec'[t].status = IF rec[t].status = "pending" THEN "running" ELSE rec[t].status
    BY <2>1, <1>r DEF TypeOK, Record
  <2>4. TypeOK'
    BY <2>1, <2>2, <2>3 DEF TypeOK, Exists
  <2>5. RunInv'
    BY <2>1, <2>3, <1>s DEF RunInv, DownIsEmpty, VerdictIsQuiet, ClaimIsControlled,
      RunIsControlled, VerdictStopsSession, RunIsSupervised, Terminal, Alive, TypeOK
  <2>6. QED
    BY <2>2, <2>4, <2>5
<1>3. CASE StartSaveFails(t)
  <2>1. /\ rec[t].status = "pending" /\ faults' \in 0 .. MaxFaults
        /\ executionClaims' = executionClaims \ {t}
        /\ UNCHANGED <<session, phase, aborted, cancelledRetryOrigins, stops>>
    BY <1>3, Bounds DEF StartSaveFails, MayStart, SaveFails, TypeOK
  <2>2. CASE Verdict({t}, "failed")
    <3>1. \A u \in Moves({t}, "failed") : rec[u].status \in Active
      BY <2>1 DEF Moves, Active
    <3>2. /\ ChainInv' /\ rec' \in [Tasks -> Record]
          /\ abortControllers' \subseteq {u \in Tasks : Exists(u)'}
          /\ timeoutTimers' \subseteq Tasks /\ retryTimers' \subseteq Tasks
          /\ armed' \in [Tasks -> Nat]
      BY <2>2, <3>1, VerdictStep DEF Terminal
    <3>3. /\ \A u \in Tasks \ {t} : rec'[u] = rec[u]
          /\ abortControllers \ {t} \subseteq abortControllers'
          /\ timeoutTimers \ {t} \subseteq timeoutTimers'
          /\ timeoutTimers' \subseteq timeoutTimers
          /\ rec'[t].status = "failed" \/ rec'[t] = rec[t]
          /\ rec'[t].status = "failed" => t \notin timeoutTimers'
      BY <2>1, <2>2, OneVerdict DEF Terminal
    <3>4. TypeOK'
      BY <2>1, <3>2, <3>3 DEF TypeOK, Exists
    <3>5. RunInv'
      BY <2>1, <3>3, <1>s DEF RunInv, DownIsEmpty, VerdictIsQuiet, ClaimIsControlled,
        RunIsControlled, VerdictStopsSession, RunIsSupervised, Active, Alive, TypeOK
    <3>6. QED
      BY <3>2, <3>4, <3>5
  <2>3. CASE UNCHANGED <<rec, abortControllers, timers>>
    <3>1. TypeOK' /\ ChainInv'
      BY <2>1, <2>3, ChainQuiet, TimersStay DEF TypeOK, ChainInv, timers, Exists
    <3>2. RunInv'
      BY <2>1, <2>3 DEF RunInv, DownIsEmpty, VerdictIsQuiet, ClaimIsControlled,
        RunIsControlled, VerdictStopsSession, RunIsSupervised, Alive, timers
    <3>3. QED
      BY <3>1, <3>2
  <2>4. QED
    BY <1>3, <2>2, <2>3 DEF StartSaveFails
<1>4. QED
  BY <1>1, <1>2, <1>3

\* A session ends or is stopped: only its status changes.
LEMMA SessionSteps ==
  ASSUME IInv, NEW t \in Tasks,
         SessionEnds(t) \/ SessionStopped(t)
  PROVE  IInv'
<1> USE DEF IInv
<1>1. /\ phase # "down"
      /\ UNCHANGED <<rec, phase, executionClaims, abortControllers, aborted, timeoutTimers,
                     retryTimers, armed, cancelledRetryOrigins, stops, faults>>
  BY DEF SessionEnds, SessionStopped, timers, bounds, Up
<1>2. PICK s \in {"completed", "failed", "aborted"} :
        session' = [session EXCEPT ![t] = s]
  BY DEF SessionEnds, SessionStopped
<1>3. TypeOK'
  BY <1>1, <1>2 DEF TypeOK, Exists
<1>4. ChainInv'
  BY <1>1, ChainQuiet, TimersStay DEF ChainInv
<1>5. \A u \in Tasks : session'[u] = "running" => session[u] = "running"
  BY <1>2 DEF TypeOK
<1>6. RunInv'
  BY <1>1, <1>5 DEF RunInv, DownIsEmpty, VerdictIsQuiet, ClaimIsControlled, RunIsControlled,
    VerdictStopsSession, RunIsSupervised
<1>7. QED
  BY <1>3, <1>4, <1>6

\* The frame of a task whose session is over gives a verdict, the one of the
\* outcome or the one of the catch clauses.
LEMMA FrameVerdict ==
  ASSUME IInv, NEW t \in executionClaims, NEW S \in SUBSET {t}, NEW to \in Terminal,
         phase # "down", session[t] # "running", to # "timed_out", Verdict(S, to),
         executionClaims' = executionClaims \ {t}, aborted' = aborted \ {t},
         UNCHANGED <<session, phase, cancelledRetryOrigins, stops>>,
         faults' \in 0 .. MaxFaults
  PROVE  IInv'
<1> USE DEF IInv
<1>1. t \in Tasks
  BY DEF TypeOK
<1>2. rec[t].status # "completed" /\ rec[t].status \in Statuses \cup {"none"}
  BY <1>1 DEF RunInv, VerdictIsQuiet, TypeOK, Record, Statuses
<1>3. to = "failed" => \A u \in Moves(S, to) : rec[u].status \in Active
  BY <1>2, Verdicts DEF Moves
<1>4. /\ ChainInv' /\ rec' \in [Tasks -> Record]
      /\ abortControllers' \subseteq {u \in Tasks : Exists(u)'}
      /\ timeoutTimers' \subseteq Tasks /\ retryTimers' \subseteq Tasks
      /\ armed' \in [Tasks -> Nat]
  BY <1>1, <1>3, VerdictStep
<1>5. /\ \A u \in Tasks \ {t} : rec'[u] = rec[u]
      /\ abortControllers \ {t} \subseteq abortControllers'
      /\ timeoutTimers \ {t} \subseteq timeoutTimers'
      /\ timeoutTimers' \subseteq timeoutTimers
      /\ rec'[t] = rec[t] \/ t \notin timeoutTimers'
  BY <1>1, OneVerdict
<1>6. TypeOK'
  BY <1>4, <1>5 DEF TypeOK, Exists
<1>7. RunInv'
  <2>1. DownIsEmpty'
    BY DEF DownIsEmpty
  <2>2. VerdictIsQuiet'
    BY <1>1, <1>5 DEF RunInv, VerdictIsQuiet
  <2>3. ClaimIsControlled'
    BY <1>1, <1>5 DEF RunInv, ClaimIsControlled, TypeOK
  <2>4. (RunIsControlled /\ VerdictStopsSession /\ RunIsSupervised)'
    BY <1>1, <1>5 DEF RunInv, RunIsControlled, VerdictStopsSession,
      RunIsSupervised
  <2>5. QED
    BY <2>1, <2>2, <2>3, <2>4 DEF RunInv
<1>8. QED
  BY <1>4, <1>6, <1>7

LEMMA SettleSteps ==
  ASSUME IInv, NEW t \in Tasks, Settle(t) \/ SettleSaveFails(t)
  PROVE  IInv'
<1>1. t \in executionClaims /\ phase # "down" /\ session[t] # "running"
  BY DEF Settle, SettleSaveFails, Settling, Up
<1>2. CASE Settle(t)
  <2>1. Concluded(t) \in SUBSET {t} /\ Outcome(t) \in Terminal \ {"timed_out"}
    BY DEF Concluded, Outcome, Terminal
  <2>2. QED
    BY <1>1, <1>2, <2>1, FrameVerdict DEF Settle, bounds, IInv, TypeOK
<1>3. CASE SettleSaveFails(t)
  <2>1. /\ executionClaims' = executionClaims \ {t} /\ aborted' = aborted \ {t}
        /\ UNCHANGED <<session, phase, cancelledRetryOrigins, stops>>
        /\ faults' \in 0 .. MaxFaults
    BY <1>3, Bounds DEF SettleSaveFails, SaveFails, IInv, TypeOK
  <2>2. ASSUME NEW to \in {"cancelled", "failed"}, Verdict({t}, to) PROVE IInv'
    BY <1>1, <2>1, <2>2, FrameVerdict DEF Terminal
  <2>3. CASE UNCHANGED <<rec, abortControllers, timers>>
    <3>1. TypeOK' /\ ChainInv'
      BY <2>1, <2>3, ChainQuiet, TimersStay DEF IInv, TypeOK, ChainInv, timers, Exists
    <3>2. RunInv'
      BY <2>1, <2>3 DEF IInv, RunInv, DownIsEmpty, VerdictIsQuiet, ClaimIsControlled,
        RunIsControlled, VerdictStopsSession, RunIsSupervised, Alive, timers
    <3>3. QED
      BY <3>1, <3>2 DEF IInv
  <2>4. QED
    BY <1>3, <2>2, <2>3 DEF SettleSaveFails
<1>4. QED
  BY <1>2, <1>3

\* The timeout of a running task fires.
LEMMA TimeoutSteps ==
  ASSUME IInv, NEW t \in Tasks, TimeoutFires(t) \/ TimeoutSaveFails(t)
  PROVE  IInv'
<1> USE DEF IInv
<1>1. /\ phase # "down" /\ t \in timeoutTimers /\ Abort({t})
      /\ UNCHANGED <<phase, executionClaims, cancelledRetryOrigins, stops>>
      /\ faults' \in 0 .. MaxFaults
  BY Bounds DEF TimeoutFires, TimeoutSaveFails, SaveFails, TypeOK, bounds, Up
<1>2. /\ aborted' \subseteq Tasks
      /\ session' \in [Tasks -> {"none", "running", "completed", "failed",
                                 "aborted", "lost"}]
      /\ \A u \in Tasks : session'[u] \in {session[u], "aborted"}
      /\ t \in abortControllers => session'[t] # "running"
  BY <1>1, AbortStep DEF Alive
<1>3. \A u \in Tasks : session'[u] = "running" => session[u] = "running" /\ u # t
  BY <1>2 DEF RunInv, RunIsControlled
<1>4. CASE TimeoutFires(t)
  <2>1. Verdict({t}, "timed_out")
    BY <1>4 DEF TimeoutFires
  <2>2. rec[t].status \notin Terminal /\ rec[t].status \in Statuses \cup {"none"}
    BY <1>1 DEF RunInv, VerdictIsQuiet, TypeOK, Record, Statuses
  <2>3. \A u \in Moves({t}, "timed_out") : rec[u].status \in Active
    BY <2>2, Verdicts DEF Moves, Terminal
  <2>4. /\ ChainInv' /\ rec' \in [Tasks -> Record]
        /\ abortControllers' \subseteq {u \in Tasks : Exists(u)'}
        /\ timeoutTimers' \subseteq Tasks /\ retryTimers' \subseteq Tasks
        /\ armed' \in [Tasks -> Nat]
    BY <2>1, <2>3, VerdictStep DEF Terminal
  <2>5. /\ \A u \in Tasks \ {t} : rec'[u] = rec[u]
        /\ abortControllers \ {t} \subseteq abortControllers'
        /\ timeoutTimers \ {t} \subseteq timeoutTimers'
        /\ timeoutTimers' \subseteq timeoutTimers
        /\ \/ rec'[t] = rec[t] /\ abortControllers' = abortControllers
           \/ rec'[t].status = "timed_out" /\ t \notin timeoutTimers'
    BY <2>1, OneVerdict DEF Terminal
  <2>6. TypeOK'
    BY <1>1, <1>2, <2>4, <2>5 DEF TypeOK, Exists
  <2>7. RunInv'
    <3>1. DownIsEmpty'
      BY <1>1 DEF DownIsEmpty
    <3>2. VerdictIsQuiet'
      BY <1>1, <2>2, <2>5 DEF RunInv, VerdictIsQuiet
    <3>3. ClaimIsControlled'
      BY <1>1, <2>5, TypeOK DEF RunInv, ClaimIsControlled, TypeOK, Active
    <3>4. (RunIsControlled /\ VerdictStopsSession /\ RunIsSupervised)'
      BY <1>1, <1>3, <2>5 DEF RunInv, RunIsControlled, VerdictStopsSession,
        RunIsSupervised
    <3>5. QED
      BY <3>1, <3>2, <3>3, <3>4 DEF RunInv
  <2>8. QED
    BY <2>4, <2>6, <2>7
<1>5. CASE TimeoutSaveFails(t)
  <2>1. /\ timeoutTimers' = timeoutTimers \ {t}
        /\ UNCHANGED <<rec, abortControllers, retryTimers, armed>>
    BY <1>5 DEF TimeoutSaveFails
  <2>2. TypeOK' /\ ChainInv'
    BY <1>1, <1>2, <2>1, ChainQuiet, TimersStay DEF TypeOK, ChainInv, Exists
  <2>3. RunInv'
    BY <1>1, <1>3, <2>1 DEF RunInv, DownIsEmpty, VerdictIsQuiet, ClaimIsControlled,
      RunIsControlled, VerdictStopsSession, RunIsSupervised
  <2>4. QED
    BY <2>2, <2>3
<1>6. QED
  BY <1>4, <1>5

\* A retry timer fires: the task it belongs to is the last of its chain, so the
\* next attempt does not exist yet.
LEMMA RetryStep ==
  ASSUME IInv, NEW t \in Tasks, RetryFires(t)
  PROVE  IInv'
<1> USE DEF IInv
<1>1. /\ phase # "down" /\ armed[t] > 0
      /\ armed' = [armed EXCEPT ![t] = @ - 1]
      /\ retryTimers' = retryTimers \ {t}
      /\ UNCHANGED <<session, phase, aborted, timeoutTimers, cancelledRetryOrigins, stops>>
      /\ faults' \in 0 .. MaxFaults
  BY Bounds DEF RetryFires, SaveFails, TypeOK, Up
<1>2. armed[t] = 1 /\ armed'[t] = 0
  BY <1>1 DEF ChainInv, RetriedOnce, TypeOK
<1>3. TimersFall
  BY <1>1, <1>2 DEF TimersFall, ChainInv, Timers, TypeOK
<1>4. CASE UNCHANGED <<rec, executionClaims, abortControllers>>
  <2>1. TypeOK' /\ ChainInv'
    BY <1>1, <1>3, <1>4, ChainQuiet DEF TypeOK, TimersFall, Exists
  <2>2. RunInv'
    BY <1>1, <1>4 DEF RunInv, DownIsEmpty, VerdictIsQuiet, ClaimIsControlled,
      RunIsControlled, VerdictStopsSession, RunIsSupervised
  <2>3. QED
    BY <2>1, <2>2
<1>5. CASE StillRetried(t) /\ \E n \in Tasks : Create(n, rec[t].attempt + 1, rec[t].origin, NoKey)
  <2>1. PICK n \in Tasks : Create(n, rec[t].attempt + 1, rec[t].origin, NoKey)
    BY <1>5
  <2> DEFINE origin == rec[t].origin
  <2>2. /\ ~Exists(n)
        /\ rec' = [rec EXCEPT ![n] = [status |-> "pending", attempt |-> rec[t].attempt + 1,
                                      origin |-> origin, key |-> NoKey]]
        /\ executionClaims' = executionClaims \cup {n}
        /\ abortControllers' = abortControllers \cup {n}
    BY <2>1 DEF Create, Claim
  <2>3. /\ Exists(t) /\ Exists(origin) /\ origin \in Tasks
        /\ rec[t].attempt + 1 \in 0 .. MaxAttempts
    BY <1>1, Bounds DEF ChainInv, Timers, Origins, TypeOK, Record
  <2>4. ASSUME NEW u \in Chain(origin)
        PROVE  /\ rec[u].attempt < rec[t].attempt + 1 /\ armed'[u] = 0
               /\ rec[u].status \in {"failed", "timed_out", "cancelled"}
    <3>1. u \in Tasks /\ Exists(u) /\ rec[u].origin = rec[t].origin
      BY <2>4 DEF Chain
    <3>2. CASE u = t
      BY <3>2, <1>2, <1>5 DEF StillRetried, TypeOK, Record
    <3>3. CASE u # t
      <4>1. Alike(t, u) /\ Alike(u, t)
        BY <3>1, <3>3, <2>3 DEF Alike
      <4>2. rec[u].attempt < rec[t].attempt
        BY <3>1, <4>1, <1>1 DEF ChainInv, LastOnly
      <4>3. ~(armed[u] > 0)
        BY <3>1, <4>1, <4>2 DEF ChainInv, LastOnly, TypeOK, Record
      <4>4. rec[u].status \in {"failed", "timed_out", "cancelled"}
        BY <3>1, <3>3, <4>2, <2>3 DEF ChainInv, AttemptsInOrder
      <4>5. rec[u].attempt < rec[t].attempt + 1 /\ armed'[u] = 0
        BY <3>1, <3>3, <4>2, <4>3, <1>1 DEF TypeOK, Record
      <4>6. QED
        BY <4>4, <4>5
    <3>4. QED
      BY <3>2, <3>3
  <2>5. ChainInv'
    BY <1>3, <2>2, <2>3, <2>4, ChainCreate
  <2>6. rec'[n].status = "pending" /\ \A u \in Tasks \ {n} : rec'[u] = rec[u]
    BY <2>2 DEF TypeOK
  <2>7. rec' \in [Tasks -> Record]
    BY <2>2, <2>3 DEF TypeOK, Record, Active
  <2>8. TypeOK'
    BY <1>1, <1>3, <2>2, <2>6, <2>7 DEF TypeOK, TimersFall, Exists
  <2>9. RunInv'
    BY <1>1, <2>2, <2>6 DEF RunInv, DownIsEmpty, VerdictIsQuiet, ClaimIsControlled,
      RunIsControlled, VerdictStopsSession, RunIsSupervised, Terminal
  <2>10. QED
    BY <2>5, <2>8, <2>9
<1>6. QED
  BY <1>4, <1>5 DEF RetryFires

\* A cancel takes every session of the chain it can reach with it.
LEMMA CancelStep ==
  ASSUME IInv, NEW t \in Tasks, Cancel(t)
  PROVE  IInv'
<1> USE DEF IInv
<1> DEFINE S == Cancelled(t)
           M == Moves(S, "cancelled")
           stopped == {u \in retryTimers : rec[u].origin = rec[t].origin}
<1>1. /\ phase # "down" /\ Abort(S) /\ rec' = Saved(S, "cancelled")
      /\ abortControllers' = abortControllers \ M
      /\ timeoutTimers' = timeoutTimers \ M
      /\ armed' = [u \in Tasks |-> armed[u] - (IF u \in stopped THEN 1 ELSE 0)]
      /\ retryTimers' = retryTimers \ stopped
      /\ cancelledRetryOrigins' = cancelledRetryOrigins \cup {rec[t].origin}
      /\ UNCHANGED <<phase, executionClaims, stops, faults>>
  BY DEF Cancel, Cleanup, bounds, Up
<1>2. S \in SUBSET Tasks /\ M \subseteq S
  BY DEF Cancelled, Chain, Moves
<1>3. /\ armed' \in [Tasks -> Nat]
      /\ \A u \in Tasks : /\ armed'[u] <= armed[u]
                          /\ u \in retryTimers' => armed'[u] > 0
  BY <1>1 DEF ChainInv, Timers, TypeOK
<1>4. ChainInv'
  BY <1>1, <1>3, ChainVerdict DEF Terminal
<1>5. /\ rec' \in [Tasks -> Record]
      /\ \A u \in Tasks : /\ Exists(u)' <=> Exists(u)
                          /\ u \in M => rec'[u].status = "cancelled"
                          /\ u \notin M => rec'[u] = rec[u]
  BY <1>1, SavedFacts DEF Terminal
<1>6. /\ aborted' \subseteq Tasks
      /\ session' \in [Tasks -> {"none", "running", "completed", "failed",
                                 "aborted", "lost"}]
      /\ \A u \in Tasks : /\ session'[u] \in {session[u], "aborted"}
                          /\ u \in S \cap abortControllers => session'[u] # "running"
  BY <1>1, <1>2, AbortStep DEF Alive
<1>7. rec[t].origin \in Tasks
  BY DEF TypeOK, Record
<1>8. TypeOK'
  BY <1>1, <1>3, <1>5, <1>6, <1>7 DEF TypeOK
<1>9. RunInv'
  <2>1. DownIsEmpty'
    BY <1>1 DEF DownIsEmpty
  <2>2. VerdictIsQuiet'
    BY <1>1, <1>5 DEF RunInv, VerdictIsQuiet
  <2>3. ClaimIsControlled'
    BY <1>1, <1>5 DEF RunInv, ClaimIsControlled, TypeOK, Active
  <2>4. \A u \in Tasks : session'[u] = "running" =>
          u \notin S /\ session[u] = "running" /\ u \in abortControllers
    BY <1>6 DEF RunInv, RunIsControlled
  <2>5. (RunIsControlled /\ VerdictStopsSession /\ RunIsSupervised)'
    BY <1>1, <1>2, <1>5, <2>4 DEF RunInv, RunIsControlled, VerdictStopsSession,
      RunIsSupervised
  <2>6. QED
    BY <2>1, <2>2, <2>3, <2>5 DEF RunInv
<1>10. QED
  BY <1>4, <1>8, <1>9

\* The sidecar is closed, exits or crashes.
LEMMA StopSteps ==
  ASSUME IInv, Dispose \/ Exit \/ Crash \/ \E t \in Tasks : CancelInterrupted(t)
  PROVE  IInv'
<1> USE DEF IInv
<1>0. "cancelled" \in Terminal /\ "cancelled" \notin {"failed", "timed_out"}
  BY DEF Terminal
<1>1. CASE Exit \/ Crash
  <2>1. Halt /\ UNCHANGED <<rec, faults>> /\ stops' \in 0 .. MaxStops
    BY <1>1, Bounds DEF Exit, Crash, bounds, TypeOK
  <2>2. QED
    BY <2>1, <1>0, HaltStep
<1>2. CASE \E t \in Tasks : CancelInterrupted(t)
  <2>1. PICK t \in Tasks : CancelInterrupted(t)
    BY <1>2
  <2>2. Halt /\ UNCHANGED faults /\ stops' \in 0 .. MaxStops
    BY <2>1, Bounds DEF CancelInterrupted, TypeOK
  <2>3. PICK S \in SUBSET (Cancelled(t) \ {t}) : rec' = Saved(S, "cancelled")
    BY <2>1 DEF CancelInterrupted
  <2>4. QED
    BY <2>2, <2>3, <1>0, HaltStep
<1>3. CASE Dispose
  <2>1. /\ phase' = "closing" /\ stops' \in 0 .. MaxStops
        /\ armed' = [t \in Tasks |-> armed[t] - (IF t \in retryTimers THEN 1 ELSE 0)]
        /\ retryTimers' = {} /\ timeoutTimers' = {} /\ cancelledRetryOrigins' = {}
        /\ UNCHANGED <<rec, session, executionClaims, abortControllers, aborted, faults>>
    BY <1>3, Bounds DEF Dispose, disk, TypeOK
  <2>2. TimersFall
    BY <2>1 DEF TimersFall, ChainInv, Timers, TypeOK
  <2>3. TypeOK' /\ ChainInv'
    BY <2>1, <2>2, ChainQuiet DEF TypeOK, TimersFall, Exists
  <2>4. RunInv'
    BY <2>1 DEF RunInv, DownIsEmpty, VerdictIsQuiet, ClaimIsControlled, RunIsControlled,
      VerdictStopsSession, RunIsSupervised
  <2>5. QED
    BY <2>3, <2>4
<1>4. QED
  BY <1>1, <1>2, <1>3

\* The next sidecar takes the records over.
LEMMA RecoverSteps ==
  ASSUME IInv, RecoverStaleTasks \/ RecoverInterrupted
  PROVE  IInv'
<1> USE DEF IInv
<1>1. /\ phase = "down" /\ executionClaims = {} /\ timeoutTimers = {}
      /\ \A t \in Tasks : armed[t] = 0 /\ session[t] # "running"
  BY DEF RecoverStaleTasks, RecoverInterrupted, RunInv, DownIsEmpty, Alive
<1>2. PICK S \in SUBSET Stale : rec' = Saved(S, "timed_out")
  BY DEF RecoverStaleTasks, RecoverInterrupted, Stale
<1>3. \A t \in Moves(S, "timed_out") : t \in Tasks /\ rec[t].status = "running"
  BY DEF Moves, Stale
<1>4. /\ rec' \in [Tasks -> Record]
      /\ \A t \in Tasks : /\ Exists(t)' <=> Exists(t)
                          /\ rec[t].status # "running" => rec'[t] = rec[t]
  BY <1>2, <1>3, SavedFacts DEF Terminal
<1>5. CASE RecoverStaleTasks
  <2> DEFINE P == {t \in Tasks : rec[t].status = "pending"}
             R == Retried(Stale, "timed_out")
  <2>1. /\ rec' = Saved(Stale, "timed_out") /\ phase' = "up"
        /\ armed' = [t \in Tasks |-> IF t \in R THEN 1 ELSE 0] /\ retryTimers' = R
        /\ executionClaims' = P /\ abortControllers' = abortControllers \cup P
        /\ UNCHANGED <<session, aborted, timeoutTimers, cancelledRetryOrigins, stops, faults>>
    BY <1>1, <1>5 DEF RecoverStaleTasks, Claim, bounds
  <2>2. R \subseteq Tasks /\ \A t \in Moves(Stale, "timed_out") : rec[t].status \in Active
    BY DEF Retried, Moves, Stale, Active
  <2>3. \A t \in Tasks : /\ \/ armed'[t] <= armed[t]
                            \/ t \in R /\ armed'[t] <= armed[t] + 1
                         /\ t \in retryTimers' => armed'[t] > 0
    BY <1>1, <2>1
  <2>4. ChainInv'
    BY <2>1, <2>2, <2>3, ChainVerdict DEF Terminal
  <2>5. P \subseteq {t \in Tasks : Exists(t)'}
    BY <1>4 DEF Exists
  <2>6. TypeOK'
    BY <1>4, <2>1, <2>2, <2>5 DEF TypeOK
  <2>7. RunInv'
    BY <1>1, <1>4, <2>1 DEF RunInv, DownIsEmpty, VerdictIsQuiet, ClaimIsControlled,
      RunIsControlled, VerdictStopsSession, RunIsSupervised
  <2>8. QED
    BY <2>4, <2>6, <2>7
<1>6. CASE RecoverInterrupted
  <2>1. /\ stops' \in 0 .. MaxStops
        /\ UNCHANGED <<session, phase, executionClaims, abortControllers, aborted,
                       timeoutTimers, retryTimers, armed, cancelledRetryOrigins, faults>>
    BY <1>6, Bounds DEF RecoverInterrupted, timers, TypeOK
  <2>2. ChainInv'
    BY <1>2, <1>3, <2>1, ChainVerdict DEF Terminal, Active, TypeOK, ChainInv, Timers
  <2>3. TypeOK'
    BY <1>4, <2>1 DEF TypeOK
  <2>4. RunInv'
    BY <1>1, <2>1 DEF RunInv, DownIsEmpty, VerdictIsQuiet, ClaimIsControlled,
      RunIsControlled, VerdictStopsSession, RunIsSupervised, Alive
  <2>5. QED
    BY <2>2, <2>3, <2>4
<1>7. QED
  BY <1>5, <1>6

LEMMA IInvStep == IInv /\ [Next]_vars => IInv'
<1> SUFFICES ASSUME IInv, [Next]_vars PROVE IInv'
  OBVIOUS
<1>1. ASSUME NEW t \in Tasks,
             \/ \E k \in Keys : CreateTask(t, k) \/ Deduplicate(t, k)
             \/ Start(t) \/ StartRefused(t) \/ StartSaveFails(t)
             \/ SessionEnds(t) \/ SessionStopped(t)
             \/ Settle(t) \/ SettleSaveFails(t)
             \/ TimeoutFires(t) \/ TimeoutSaveFails(t)
             \/ RetryFires(t) \/ Cancel(t)
      PROVE  IInv'
  BY <1>1, ClaimSteps, StartSteps, SessionSteps, SettleSteps, TimeoutSteps, RetryStep, CancelStep
<1>2. CASE UNCHANGED vars
  <2>1. TypeOK' /\ ChainInv'
    BY <1>2, ChainQuiet, TimersStay DEF vars, disk, timers, bounds, IInv, TypeOK, ChainInv, Exists
  <2>2. RunInv'
    BY <1>2 DEF vars, disk, timers, bounds, IInv, RunInv, DownIsEmpty, VerdictIsQuiet,
      ClaimIsControlled, RunIsControlled, VerdictStopsSession, RunIsSupervised, Alive
  <2>3. QED
    BY <2>1, <2>2 DEF IInv
<1>3. QED
  BY <1>1, <1>2, StopSteps, RecoverSteps DEF Next

LEMMA IInvHolds == Spec => []IInv
BY IInvInit, IInvStep, PTL DEF Spec
-----------------------------------------------------------------------------
(* The theorems.                                                           *)

\* Every variable keeps its type, whatever the bounds: no record has more
\* attempts than the retry policy of its task allows.
THEOREM TypeCorrect == Spec => []TypeOK
<1>1. IInv => TypeOK
  BY DEF IInv
<1>2. QED
  BY <1>1, IInvHolds, PTL

\* The attempts of a chain are created one after another, across crashes,
\* restarts, failed writes, late timers and cancels: no two timers, frames or
\* recoveries create the same attempt.
THEOREM AttemptsInOrderHolds == Spec => []AttemptsInOrder
<1>1. IInv => AttemptsInOrder
  BY DEF IInv, ChainInv
<1>2. QED
  BY <1>1, IInvHolds, PTL

\* A task with a verdict is not executed: a timeout or a cancel always finds the
\* controller it needs.
THEOREM VerdictStopsSessionHolds == Spec => []VerdictStopsSession
<1>1. IInv => VerdictStopsSession
  BY DEF IInv, RunInv
<1>2. QED
  BY <1>1, IInvHolds, PTL

\* ... and while the sidecar serves, whatever runs has its controller and its
\* timeout: no verdict, restart or second request drops those of a running task.
THEOREM RunIsSupervisedHolds == Spec => []RunIsSupervised
<1>1. IInv => RunIsSupervised
  BY DEF IInv, RunInv
<1>2. QED
  BY <1>1, IInvHolds, PTL
-----------------------------------------------------------------------------
(* Cancelled chains: what each way to write the records leaves of them.    *)

StayCancelled == \A o \in Tasks : ChainCancelled(o) => ChainCancelled(o)'

LEMMA CancelledQuiet == UNCHANGED rec => StayCancelled
BY DEF StayCancelled, ChainCancelled, Chain, Exists

LEMMA CancelledVerdict ==
  ASSUME TypeOK, NEW S, NEW to \in Terminal, rec' = Saved(S, to),
         to \in {"failed", "timed_out"} => \A t \in Moves(S, to) : rec[t].status \in Active
  PROVE  StayCancelled
<1>1. \A t \in Tasks : /\ rec'[t].origin = rec[t].origin
                       /\ Exists(t)' <=> Exists(t)
                       /\ t \in Moves(S, to) => rec'[t].status = to
                       /\ t \notin Moves(S, to) => rec'[t] = rec[t]
  BY SavedFacts
<1>2. ASSUME NEW t \in Tasks, rec[t].status \in {"completed", "cancelled"},
             t \in Moves(S, to)
      PROVE  rec[t].status = "completed" /\ to = "cancelled"
  BY <1>2 DEF Moves, CanTransition, Priority, Active, Terminal
<1>3. SUFFICES ASSUME NEW o \in Tasks, ChainCancelled(o) PROVE ChainCancelled(o)'
  BY DEF StayCancelled
<1>4. rec'[o].status = "cancelled"
  BY <1>1, <1>2, <1>3 DEF ChainCancelled
<1>5. ASSUME NEW t \in Chain(o)' PROVE rec'[t].status \in {"completed", "cancelled"}
  <2>1. t \in Tasks /\ t \in Chain(o)
    BY <1>1, <1>5 DEF Chain
  <2>2. rec[t].status \in {"completed", "cancelled"}
    BY <2>1, <1>3 DEF ChainCancelled
  <2>3. QED
    BY <2>1, <2>2, <1>1, <1>2
<1>6. QED
  BY <1>4, <1>5 DEF ChainCancelled

LEMMA CancelledCreate ==
  ASSUME TypeOK, NEW n \in Tasks, NEW attempt, NEW origin, NEW key, ~Exists(n),
         origin = n \/ rec[origin].status # "cancelled",
         rec' = [rec EXCEPT ![n] = [status |-> "pending", attempt |-> attempt,
                                    origin |-> origin, key |-> key]]
  PROVE  StayCancelled
<1>1. rec'[n].origin = origin /\ \A t \in Tasks \ {n} : rec'[t] = rec[t]
  BY DEF TypeOK
<1>2. SUFFICES ASSUME NEW o \in Tasks, ChainCancelled(o) PROVE ChainCancelled(o)'
  BY DEF StayCancelled
<1>3. o # n /\ o # origin
  BY <1>2 DEF ChainCancelled, Exists
<1>4. \A t \in Chain(o)' : t \in Tasks \ {n} /\ t \in Chain(o)
  BY <1>1, <1>3 DEF Chain, Exists
<1>5. QED
  BY <1>1, <1>2, <1>3, <1>4 DEF ChainCancelled

LEMMA CancelledRun ==
  ASSUME TypeOK, NEW n \in Tasks, rec[n].status = "pending",
         rec' = [rec EXCEPT ![n].status = "running"]
  PROVE  StayCancelled
<1>1. rec[n] \in Record
  BY DEF TypeOK
<1>2. rec'[n].origin = rec[n].origin /\ \A t \in Tasks \ {n} : rec'[t] = rec[t]
  BY <1>1 DEF TypeOK, Record
<1>3. SUFFICES ASSUME NEW o \in Tasks, ChainCancelled(o) PROVE ChainCancelled(o)'
  BY DEF StayCancelled
<1>4. n # o /\ n \notin Chain(o)
  BY <1>3 DEF ChainCancelled
<1>5. \A t \in Chain(o)' : t \in Tasks \ {n} /\ t \in Chain(o)
  BY <1>2, <1>4 DEF Chain, Exists
<1>6. QED
  BY <1>2, <1>3, <1>4, <1>5 DEF ChainCancelled

\* Frames and timers find only unfinished records to fail or to time out, and a
\* retry is given up when the first record of its chain is cancelled.
LEMMA CancelledStep ==
  ASSUME IInv, [Next]_vars
  PROVE  StayCancelled
<1> USE DEF IInv
<1>0. \A t \in Tasks : rec[t] \in Record /\ rec[t].status \in Statuses \cup {"none"}
  BY DEF TypeOK, Record, Statuses
<1>1. ASSUME UNCHANGED rec PROVE StayCancelled
  BY <1>1, CancelledQuiet
<1>2. ASSUME NEW t \in Tasks, NEW k \in Keys, CreateTask(t, k) PROVE StayCancelled
  BY <1>2, CancelledCreate DEF CreateTask, Create
<1>3. ASSUME NEW t \in Tasks, Start(t) \/ StartRefused(t) PROVE StayCancelled
  <2>1. CASE rec[t].status = "pending"
    <3>1. rec' = [rec EXCEPT ![t].status = "running"]
      BY <1>3, <2>1 DEF Start, StartRefused
    <3>2. QED
      BY <2>1, <3>1, CancelledRun
  <2>2. CASE rec[t].status # "pending"
    <3>1. rec' = rec
      BY <1>0, <1>3, <2>2 DEF Start, MayStart, StartRefused, TypeOK, Record
    <3>2. QED
      BY <3>1, <1>1
  <2>3. QED
    BY <2>1, <2>2
<1>4. ASSUME NEW t \in Tasks, StartSaveFails(t) PROVE StayCancelled
  <2>1. CASE Verdict({t}, "failed")
    <3>1. \A u \in Moves({t}, "failed") : rec[u].status \in Active
      BY <1>4 DEF StartSaveFails, MayStart, Moves, Active
    <3>2. QED
      BY <2>1, <3>1, CancelledVerdict DEF Verdict, Terminal
  <2>2. QED
    BY <1>1, <1>4, <2>1 DEF StartSaveFails
<1>5. ASSUME NEW t \in Tasks, NEW S \in SUBSET {t}, NEW to \in Terminal \ {"timed_out"},
             t \in executionClaims, Verdict(S, to)
      PROVE  StayCancelled
  <2>1. rec[t].status # "completed"
    BY <1>5 DEF RunInv, VerdictIsQuiet
  <2>2. to = "failed" => \A u \in Moves(S, to) : rec[u].status \in Active
    BY <2>1, <1>0, Verdicts DEF Moves
  <2>3. QED
    BY <1>5, <2>2, CancelledVerdict DEF Verdict
<1>6. ASSUME NEW t \in Tasks, Settle(t) PROVE StayCancelled
  <2>1. Concluded(t) \in SUBSET {t} /\ Outcome(t) \in Terminal \ {"timed_out"}
    BY DEF Concluded, Outcome, Terminal
  <2>2. QED
    BY <1>5, <1>6, <2>1 DEF Settle, Settling
<1>7. ASSUME NEW t \in Tasks, SettleSaveFails(t) PROVE StayCancelled
  <2>1. t \in executionClaims /\ {"cancelled", "failed"} \subseteq Terminal \ {"timed_out"}
    BY <1>7 DEF SettleSaveFails, Settling, Terminal
  <2>2. QED
    BY <1>1, <1>5, <1>7, <2>1 DEF SettleSaveFails
<1>8. ASSUME NEW t \in Tasks, TimeoutFires(t) PROVE StayCancelled
  <2>1. t \in timeoutTimers /\ rec' = Saved({t}, "timed_out")
    BY <1>8 DEF TimeoutFires, Verdict
  <2>2. rec[t].status \notin Terminal
    BY <2>1 DEF RunInv, VerdictIsQuiet
  <2>3. \A u \in Moves({t}, "timed_out") : rec[u].status \in Active
    BY <2>2, <1>0, Verdicts DEF Moves, Terminal
  <2>4. QED
    BY <2>1, <2>3, CancelledVerdict DEF Terminal
<1>9. ASSUME NEW t \in Tasks, RetryFires(t) PROVE StayCancelled
  <2>1. ASSUME StillRetried(t), NEW n \in Tasks,
               Create(n, rec[t].attempt + 1, rec[t].origin, NoKey)
        PROVE  StayCancelled
    BY <2>1, CancelledCreate DEF StillRetried, Create
  <2>2. QED
    BY <1>1, <1>9, <2>1 DEF RetryFires
<1>10. ASSUME NEW t \in Tasks, Cancel(t) \/ CancelInterrupted(t) PROVE StayCancelled
  <2>1. PICK S : rec' = Saved(S, "cancelled")
    BY <1>10 DEF Cancel, CancelInterrupted
  <2>2. QED
    BY <2>1, CancelledVerdict DEF Terminal
<1>11. CASE RecoverStaleTasks \/ RecoverInterrupted
  <2>1. PICK S \in SUBSET Stale : rec' = Saved(S, "timed_out")
    BY <1>11 DEF RecoverStaleTasks, RecoverInterrupted, Stale
  <2>2. \A t \in Moves(S, "timed_out") : rec[t].status \in Active
    BY DEF Moves, Stale, Active
  <2>3. QED
    BY <2>1, <2>2, CancelledVerdict DEF Terminal
<1>12. ASSUME NEW t \in Tasks,
              \/ \E k \in Keys : Deduplicate(t, k)
              \/ SessionEnds(t) \/ SessionStopped(t) \/ TimeoutSaveFails(t)
       PROVE  StayCancelled
  BY <1>1, <1>12 DEF Deduplicate, SessionEnds, SessionStopped,
    TimeoutSaveFails, disk
<1>13. CASE Crash \/ Dispose \/ Exit \/ UNCHANGED vars
  BY <1>1, <1>13 DEF Crash, Dispose, Exit, vars, disk
<1>14. QED
  BY <1>2, <1>3, <1>4, <1>6, <1>7, <1>8, <1>9, <1>10, <1>11, <1>12, <1>13 DEF Next

\* A cancelled chain stays cancelled through whatever comes later: timers that
\* fire, frames that settle, restarts, retries and further requests.
THEOREM CancelIsFinalHolds == Spec => CancelIsFinal
<1>1. IInv /\ [Next]_vars => StayCancelled
  BY CancelledStep
<1>2. StayCancelled => [\A o \in Tasks : ChainCancelled(o) => ChainCancelled(o)']_vars
  BY DEF StayCancelled
<1>3. QED
  BY <1>1, <1>2, IInvHolds, PTL DEF Spec, CancelIsFinal
=============================================================================
