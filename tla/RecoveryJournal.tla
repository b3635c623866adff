-------------------------- MODULE RecoveryJournal --------------------------
(***************************************************************************)
(* The recovery journal of one session: server/recovery-journal.ts, and    *)
(* the runs of server/session-manager.ts that write it.  A run announces   *)
(* a tool, records the intent to execute it, executes it and records its   *)
(* result; what the checkpoint says is all that is left after a crash.     *)
(*                                                                         *)
(* A step is one turn of the event loop up to the next await.  Journal     *)
(* operations of a session are serialized (serialize) and each replaces    *)
(* the checkpoint by a rename, so that each is one step; the order in      *)
(* which they are queued is not fixed, since events and dependencies are   *)
(* awaited first.  A tool batch outlives its run when the abort drain      *)
(* gives up waiting: its tools take steps whatever the session does.       *)
(*                                                                         *)
(* Definitions whose names hold an underscore are deliberate slips, each   *)
(* the mutation of the definition that precedes the underscore.            *)
(***************************************************************************)
EXTENDS Integers

CONSTANTS
  Tools,         \* ids of tool calls
  NoCheckpoint,  \* there is no checkpoint.json
  MaxRuns,       \* bound: runs of the session
  MaxFaults      \* bound: crashes, and writes that fail

ASSUME Constants == MaxRuns \in Nat /\ MaxFaults \in Nat

VARIABLES
  cp,        \* checkpoint.json
  run,       \* the latest run, 0 before the first
  phase,     \* how far session-manager's run() is; "idle" is ~session.running
  status,    \* record.status; "failed" stands for "interrupted" as well
  live,      \* runs whose generation is the session's: ownsDurability()
  stopped,   \* runs whose abort signal has fired
  failed,    \* runs with storageFailed
  pending,   \* recordTool calls that callbacks have queued: journalWrites
  awaited,   \* those the settling run waits for
  stalled,   \* the watchdog stopped the last run and its decision is due
  attention, \* what that decision was
  tool,      \* how far each tool call is
  owner,     \* the run that made it
  acted,     \* history: calls that reached the tool
  told,      \* history: calls whose result a callback accepted
  named,     \* history: unknown tools that the last resume announced
  faults     \* counter of the bound

disk == cp
session == <<run, phase, status, live, stopped, failed>>
writes == <<pending, awaited>>
watchdog == <<stalled, attention>>
calls == <<tool, owner, acted, told>>
vars == <<disk, session, writes, watchdog, calls, named, faults>>

Runs == 1..MaxRuns

\* A ToolOutcome: "answered" is unknown with a resultRef.
Outcome == {"absent", "unknown", "answered", "persisted"}

Checkpoint == [run : Runs, settled : BOOLEAN, snapshot : BOOLEAN, tools : [Tools -> Outcome]]

ASSUME NoCheckpointIsNone == NoCheckpoint \notin Checkpoint

Fault == faults < MaxFaults /\ faults' = faults + 1

-----------------------------------------------------------------------------
(* Pure parts of the journal.                                              *)

\* beginRun of a user's prompt or of an explicit resume: nothing is carried over.
NewCheckpoint(r) ==
  [run |-> r, settled |-> FALSE, snapshot |-> FALSE, tools |-> [t \in Tools |-> "absent"]]

\* recordTool: status unknown, a resultRef stays once it is there.
Recorded(c, t, kind) ==
  [c EXCEPT !.tools[t] =
     IF kind = "result" \/ @ \in {"answered", "persisted"} THEN "answered" ELSE "unknown"]

Committed_PromotesAll(c) ==
  [c EXCEPT !.settled = TRUE, !.snapshot = TRUE,
            !.tools = [t \in Tools |-> IF c.tools[t] # "absent" THEN "persisted" ELSE "absent"]]

\* commitSnapshot: tools with a resultRef become persisted.
Committed(c) ==
  [c EXCEPT !.settled = TRUE, !.snapshot = TRUE,
            !.tools = [t \in Tools |-> IF c.tools[t] = "answered" THEN "persisted" ELSE c.tools[t]]]

NeedsConfirmation_OfRunning(c) ==
  IF c = NoCheckpoint THEN {}
  ELSE {t \in Tools : ~c.settled /\ c.tools[t] \in {"unknown", "answered"}}

\* classifyToolRecovery: by status alone.
NeedsConfirmation(c) ==
  IF c = NoCheckpoint THEN {} ELSE {t \in Tools : c.tools[t] \in {"unknown", "answered"}}

\* recoveryDecision.  Its budget of attempts matters only once it may allow one.
Decision(c) ==
  CASE c = NoCheckpoint            -> "no-checkpoint"
    [] NeedsConfirmation(c) # {}   -> "unknown-tool-outcome"
    [] OTHER                       -> IF c.snapshot THEN "allowed" ELSE "no-checkpoint"

-----------------------------------------------------------------------------
(* The run as its callbacks see it.                                        *)

\* r is the active run and not revoked by a user's abort.
Active(r) == r \in live /\ r = run /\ phase # "idle"

Writes(r) == {w \in pending : w.run = r}

\* storageFailure() of run r.
StorageFailure(r) ==
  IF Active(r) /\ r \notin failed
  THEN /\ failed' = failed \cup {r}
       /\ status' = "failed"
       /\ stopped' = stopped \cup {r}
  ELSE UNCHANGED <<failed, status, stopped>>

\* journalWrite(): nothing more is queued once the storage has failed.
Queue(t, kind) ==
  pending' = IF owner'[t] \in failed THEN pending
             ELSE pending \cup {[tool |-> t, kind |-> kind, run |-> owner'[t]]}

\* Tool calls of run r that have begun and have not come back.
Busy(r) ==
  {t \in Tools : owner[t] = r /\ tool[t] \in {"intending", "intended", "acting", "cancelled"}}

\* Calls of run r that will never be executed.
Discarded(r) == [t \in Tools |-> IF owner[t] = r /\ tool[t] = "used" THEN "over" ELSE tool[t]]

-----------------------------------------------------------------------------
Init ==
  /\ cp = NoCheckpoint
  /\ run = 0 /\ phase = "idle" /\ status = "idle"
  /\ live = {} /\ stopped = {} /\ failed = {}
  /\ pending = {} /\ awaited = {}
  /\ stalled = FALSE /\ attention = "none"
  /\ tool = [t \in Tools |-> "no"]
  /\ owner = [t \in Tools |-> 0]
  /\ acted = {} /\ told = {} /\ named = {}
  /\ faults = 0

(***************************************************************************)
(* run(), up to the agent.                                                 *)
(***************************************************************************)

StartRun ==
  /\ phase = "idle" /\ run < MaxRuns
  /\ run' = run + 1
  /\ phase' = "beginning"
  /\ status' = "running"
  /\ live' = live \cup {run + 1}
  /\ stalled' = FALSE /\ attention' = "none"
  /\ UNCHANGED <<disk, stopped, failed, writes, calls, faults>>

Prompt == StartRun /\ named' = {}

\* resumeRun(): inspect and run; only a prompt may come between the two, and it wins.
Resume == StartRun /\ named' = NeedsConfirmation(cp)

\* beginRun has written the checkpoint; a run stopped meanwhile ends here.
Begun ==
  /\ phase = "beginning"
  /\ cp' = NewCheckpoint(run)
  /\ phase' = IF run \in live /\ status # "aborted" THEN "starting" ELSE "idle"
  /\ UNCHANGED <<run, status, live, stopped, failed, writes, watchdog, calls, named, faults>>

\* beginRun has failed: storageFailure and failEnsure.
BeginFails ==
  /\ phase = "beginning"
  /\ Fault
  /\ StorageFailure(run)
  /\ phase' = "idle"
  /\ UNCHANGED <<disk, run, live, writes, watchdog, calls, named>>

\* startWithAgent, which a stopped run does not pass.
AgentStarts ==
  /\ phase = "starting"
  /\ phase' = IF run \in live /\ status # "aborted" THEN "agent" ELSE "idle"
  /\ UNCHANGED <<disk, run, status, live, stopped, failed, writes, watchdog, calls, named, faults>>

\* No agent can be made: failEnsure.
AgentMissing ==
  /\ phase = "starting"
  /\ phase' = "idle"
  /\ status' = IF run \in live /\ status = "running" THEN "failed" ELSE status
  /\ UNCHANGED <<disk, run, live, stopped, failed, writes, watchdog, calls, named, faults>>

(***************************************************************************)
(* A tool call.                                                            *)
(***************************************************************************)

\* onToolUse, once the stream of a turn has ended.
Use(t) ==
  /\ phase = "agent" /\ run \notin stopped /\ run \in live
  /\ tool[t] = "no"
  /\ tool' = [tool EXCEPT ![t] = "used"]
  /\ owner' = [owner EXCEPT ![t] = run]
  /\ Queue(t, "use")
  /\ UNCHANGED <<disk, session, awaited, watchdog, acted, told, named, faults>>

\* The pipeline comes to beforeToolExecute.  Its checks, and those of the pipeline
\* before it, may refuse the call.
Approve(t) ==
  /\ tool[t] = "used"
  /\ \/ /\ Active(owner[t]) /\ owner[t] \notin failed /\ status = "running"
        /\ tool' = [tool EXCEPT ![t] = "intending"]
     \/ tool' = [tool EXCEPT ![t] = "cancelled"]
  /\ UNCHANGED <<disk, session, writes, watchdog, owner, acted, told, named, faults>>

RecordIntent_Later(t) ==
  /\ tool[t] = "intending"
  /\ tool' = [tool EXCEPT ![t] = "intended"]
  /\ pending' = pending \cup {[tool |-> t, kind |-> "use", run |-> owner[t]]}
  /\ UNCHANGED <<disk, session, awaited, watchdog, owner, acted, told, named, faults>>

\* beforeToolExecute has recorded its intent, in whatever checkpoint there is by now.
RecordIntent(t) ==
  /\ tool[t] = "intending"
  /\ tool' = [tool EXCEPT ![t] = "intended"]
  /\ cp' = Recorded(cp, t, "use")
  /\ UNCHANGED <<session, writes, watchdog, owner, acted, told, named, faults>>

IntentFails(t) ==
  /\ tool[t] = "intending"
  /\ Fault
  /\ tool' = [tool EXCEPT ![t] = "cancelled"]
  /\ StorageFailure(owner[t])
  /\ UNCHANGED <<disk, run, phase, live, writes, watchdog, owner, acted, told, named>>

\* The second check of beforeToolExecute: of the session, not of its active run.
Permitted(t) == owner[t] \in live /\ owner[t] \notin failed /\ status = "running"

Dispatch_Unchecked(t) ==
  /\ tool[t] = "intended" /\ Permitted(t)
  /\ tool' = [tool EXCEPT ![t] = "acting"]
  /\ acted' = acted \cup {t}
  /\ UNCHANGED <<disk, session, writes, watchdog, owner, told, named, faults>>

\* The pipeline checks the signal of the batch, and the tool is executed.
Dispatch(t) ==
  /\ tool[t] = "intended" /\ Permitted(t) /\ owner[t] \notin stopped
  /\ tool' = [tool EXCEPT ![t] = "acting"]
  /\ acted' = acted \cup {t}
  /\ UNCHANGED <<disk, session, writes, watchdog, owner, told, named, faults>>

\* A refusal of the second check counts as a failure of the storage (catch).
Withhold(t) ==
  /\ tool[t] = "intended"
  /\ IF Permitted(t) THEN owner[t] \in stopped /\ UNCHANGED <<failed, status, stopped>>
     ELSE StorageFailure(owner[t])
  /\ tool' = [tool EXCEPT ![t] = "cancelled"]
  /\ UNCHANGED <<disk, run, phase, live, writes, watchdog, owner, acted, told, named, faults>>

\* onToolResult with a final result, also of a tool that failed or was refused.
Report(t) ==
  /\ tool[t] \in {"acting", "cancelled"}
  /\ tool' = [tool EXCEPT ![t] = "over"]
  /\ UNCHANGED owner
  /\ IF owner[t] \in live THEN Queue(t, "result") /\ told' = told \cup {t}
     ELSE UNCHANGED <<pending, told>>
  /\ UNCHANGED <<disk, session, awaited, watchdog, acted, named, faults>>

(***************************************************************************)
(* The queued writes.  The use of a tool is recorded before its result.    *)
(***************************************************************************)

NextWrite_Kept(w) ==
  /\ w \in pending
  /\ w.kind = "result" => [w EXCEPT !.kind = "use"] \notin pending
  /\ pending' = pending \ {w}
  /\ UNCHANGED awaited

\* The turn of w has come; it leaves journalWrites.
NextWrite(w) ==
  /\ w \in pending
  /\ w.kind = "result" => [w EXCEPT !.kind = "use"] \notin pending
  /\ pending' = pending \ {w}
  /\ awaited' = awaited \ {w}

Write(w) ==
  /\ NextWrite(w)
  /\ cp' = Recorded(cp, w.tool, w.kind)
  /\ UNCHANGED <<session, watchdog, calls, named, faults>>

WriteFails(w) ==
  /\ NextWrite(w)
  /\ Fault
  /\ StorageFailure(w.run)
  /\ UNCHANGED <<disk, run, phase, live, watchdog, calls, named>>

(***************************************************************************)
(* The end of a run.                                                       *)
(***************************************************************************)

\* agent.run() is over by itself or by an error; every call has come back.
AgentEnds ==
  /\ phase = "agent" /\ Busy(run) = {}
  /\ status' \in {status, IF run \in live /\ status = "running" THEN "failed" ELSE status}
  /\ phase' = "settling"
  /\ awaited' = Writes(run)
  /\ tool' = Discarded(run)
  /\ UNCHANGED <<disk, run, live, stopped, failed, pending, watchdog, owner, acted, told, named,
                 faults>>

\* agent.run() gives in to its signal, at most one drain after it: onAbort.
AgentStops ==
  /\ phase = "agent" /\ run \in stopped
  /\ status' = IF run \in live /\ status = "running" THEN "aborted" ELSE status
  /\ phase' = "settling"
  /\ awaited' = Writes(run)
  /\ UNCHANGED <<disk, run, live, stopped, failed, pending, watchdog, calls, named, faults>>

Settle_AtOnce ==
  /\ phase = "settling"
  /\ phase' = IF run \in live \ failed THEN "flushing" ELSE "closing"
  /\ UNCHANGED <<disk, run, status, live, stopped, failed, writes, watchdog, calls, named, faults>>

\* The journal writes of the run are through.
Settle ==
  /\ phase = "settling" /\ awaited = {}
  /\ phase' = IF run \in live \ failed THEN "flushing" ELSE "closing"
  /\ UNCHANGED <<disk, run, status, live, stopped, failed, writes, watchdog, calls, named, faults>>

\* confirmPersistence and flushPersistence are through: only a run that still
\* counts as running commits its snapshot.
Flush ==
  /\ phase = "flushing"
  /\ phase' = IF status = "running" THEN "committing" ELSE "checkpointing"
  /\ UNCHANGED <<disk, run, status, live, stopped, failed, writes, watchdog, calls, named, faults>>

Save ==
  /\ phase \in {"committing", "checkpointing"}
  /\ cp' = IF phase = "committing" THEN Committed(cp) ELSE [cp EXCEPT !.settled = TRUE]
  /\ phase' = "closing"
  /\ UNCHANGED <<run, status, live, stopped, failed, writes, watchdog, calls, named, faults>>

SaveFails ==
  /\ phase \in {"flushing", "committing", "checkpointing"}
  /\ Fault
  /\ StorageFailure(run)
  /\ phase' = "closing"
  /\ UNCHANGED <<disk, run, live, writes, watchdog, calls, named>>

Close_NotFailed ==
  /\ phase = "closing" /\ run \notin failed
  /\ phase' = "idle"
  /\ status' = IF run \in live /\ status = "running" THEN "completed" ELSE status
  /\ stalled' = (run \in live /\ status = "aborted")
  /\ UNCHANGED <<disk, run, live, stopped, failed, writes, attention, calls, named, faults>>

\* The status of the run is final; the watchdog's decision is put off.
Close ==
  /\ phase = "closing"
  /\ phase' = "idle"
  /\ status' = IF run \in live /\ status = "running" THEN "completed" ELSE status
  /\ stalled' = (run \in live /\ status = "aborted")
  /\ UNCHANGED <<disk, run, live, stopped, failed, writes, attention, calls, named, faults>>

\* maybeWatchdogAutoContinue, when the policy would continue.
Decide ==
  /\ phase = "idle" /\ stalled /\ status = "aborted"
  /\ stalled' = FALSE
  /\ attention' = Decision(cp)
  /\ UNCHANGED <<disk, session, writes, calls, named, faults>>

(***************************************************************************)
(* Those who stop a run, and the crash.                                    *)
(***************************************************************************)

\* abort() by the user: a running session gets a new generation.
Abort ==
  /\ \/ /\ phase # "idle" /\ run \in live
        /\ live' = {}
        /\ stopped' = stopped \cup {run}
        /\ status' = IF status = "running" THEN "aborted" ELSE status
     \/ phase = "idle" /\ stalled /\ UNCHANGED <<live, stopped, status>>
  /\ stalled' = FALSE
  /\ UNCHANGED <<disk, run, phase, failed, writes, attention, calls, named, faults>>

\* The watchdog of the agent loop sees no progress.
WatchdogStops ==
  /\ phase = "agent" /\ run \in live \ stopped
  /\ stopped' = stopped \cup {run}
  /\ UNCHANGED <<disk, run, phase, status, live, failed, writes, watchdog, calls, named, faults>>

\* The batch came back within the drain: the run goes on under a new signal.
Rescue ==
  /\ phase = "agent" /\ run \in (live \cap stopped) \ failed
  /\ Busy(run) = {}
  /\ stopped' = stopped \ {run}
  /\ UNCHANGED <<disk, run, phase, status, live, failed, writes, watchdog, calls, named, faults>>

\* The sidecar dies and starts again (rehydrate): the files are what is left.
Crash ==
  /\ run > 0
  /\ Fault
  /\ phase' = "idle"
  /\ status' = IF status = "running" THEN "aborted" ELSE status
  /\ live' = {} /\ stopped' = {} /\ failed' = {}
  /\ pending' = {} /\ awaited' = {}
  /\ stalled' = FALSE /\ attention' = "none"
  /\ tool' = [t \in Tools |-> IF tool[t] = "no" THEN "no" ELSE "over"]
  /\ UNCHANGED <<disk, run, owner, acted, told, named>>

-----------------------------------------------------------------------------
Ending == Begun \/ AgentStarts \/ AgentStops \/ Settle \/ Flush \/ Save \/ Close

Next ==
  \/ Prompt \/ Resume \/ BeginFails \/ AgentMissing
  \/ \E t \in Tools :
       \/ Use(t) \/ Approve(t) \/ RecordIntent(t) \/ IntentFails(t)
       \/ Dispatch(t) \/ Withhold(t) \/ Report(t)
  \/ \E w \in pending : Write(w) \/ WriteFails(w)
  \/ AgentEnds \/ SaveFails \/ Decide
  \/ Ending
  \/ Abort \/ WatchdogStops \/ Rescue \/ Crash

Spec == Init /\ [][Next]_vars

\* Promises are settled in the end, and the drain of a stopped run has a limit.  Nothing
\* is assumed of tools, of the agent, or of anybody who starts or stops a run.
Fairness == WF_vars(Ending) /\ WF_vars(\E w \in pending : Write(w))

FairSpec == Spec /\ Fairness

-----------------------------------------------------------------------------
(* Properties.                                                             *)

\* Every variable has its type; a settling run waits for queued writes only, and a call
\* belongs to a run exactly when it was made.
TypeOK ==
  /\ cp \in Checkpoint \cup {NoCheckpoint}
  /\ run \in 0..MaxRuns
  /\ phase \in {"idle", "beginning", "starting", "agent", "settling", "flushing",
                "committing", "checkpointing", "closing"}
  /\ status \in {"idle", "running", "aborted", "completed", "failed"}
  /\ live \subseteq 1..run /\ stopped \subseteq 1..run /\ failed \subseteq 1..run
  /\ pending \subseteq [tool : Tools, kind : {"use", "result"}, run : 1..run]
  /\ awaited \subseteq pending
  /\ stalled \in BOOLEAN
  /\ attention \in {"none", "no-checkpoint", "unknown-tool-outcome", "allowed"}
  /\ tool \in [Tools -> {"no", "used", "intending", "intended", "acting", "cancelled", "over"}]
  /\ owner \in [Tools -> 0..run]
  /\ \A t \in Tools : tool[t] = "no" <=> owner[t] = 0
  /\ acted \subseteq Tools /\ told \subseteq Tools /\ named \subseteq Tools
  /\ faults \in 0..MaxFaults

\* A tool that was executed for the run of the checkpoint is in the checkpoint: a crash
\* at any point, a late result or a failed write does not make its effect invisible.
EffectsRecorded ==
  \A t \in acted : cp # NoCheckpoint /\ (cp.run = owner[t] => cp.tools[t] # "absent")

\* A tool counts as persisted, so that a recovery may use its result, only if its result
\* was reported: not one that was merely intended, refused, or carried over from another run.
PersistedWasReported ==
  cp # NoCheckpoint => \A t \in Tools : cp.tools[t] = "persisted" => t \in told

\* A run that is shown as completed has a settled checkpoint of its own with its snapshot,
\* in which every result it reported is persisted: a storage failure, a crash or an abort
\* during the last writes never passes for completion.
DoneIsDurable ==
  status = "completed" =>
    /\ cp # NoCheckpoint /\ cp.run = run /\ cp.settled /\ cp.snapshot
    /\ \A t \in told : owner[t] = run => cp.tools[t] = "persisted"

\* Only the agent of the running run executes tools.  A call of an earlier run that its
\* batch brings to the tool later, when another run is running, is withheld.
NoStrayEffect ==
  [][\A t \in acted' \ acted : owner[t] = run /\ phase = "agent" /\ status = "running"]_vars

\* An explicit resume names every tool that was executed in the run it resumes and whose
\* result was never reported, so that it is not blindly executed again.
ResumeNames ==
  [][Resume => \A t \in acted \ told : owner[t] = cp.run => t \in named']_vars

\* A run that was stopped by the user, the watchdog or a storage failure settles, unless the
\* watchdog erred and the run goes on: the session never stays "running" with nobody running.
StopSettles ==
  (phase # "idle" /\ run \in stopped) ~> (phase = "idle" \/ run \notin stopped)
=============================================================================
