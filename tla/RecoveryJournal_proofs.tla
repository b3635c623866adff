----------------------- MODULE RecoveryJournal_proofs -----------------------
(***************************************************************************)
(* What the recovery journal promises for every number of tools, runs and  *)
(* faults.                                                                 *)
(***************************************************************************)
EXTENDS RecoveryJournal, TLAPS

(***************************************************************************)
(* The inductive invariant, one part for each promise.                     *)
(***************************************************************************)

\* A run whose agent could be at work has a checkpoint of its own, and a call is made
\* only under a checkpoint.
OwnCheckpoint ==
  /\ phase \notin {"idle", "beginning"} => cp # NoCheckpoint /\ cp.run = run
  /\ phase # "idle" => run > 0
  /\ phase \in {"beginning", "starting"} => \A t \in Tools : owner[t] # run
  /\ cp = NoCheckpoint => pending = {} /\ \A t \in Tools : owner[t] = 0

\* A call whose intent was recorded is in the checkpoint of its run.
IntentRecorded ==
  \A t \in Tools : tool[t] = "intended" \/ t \in acted =>
    cp # NoCheckpoint /\ (cp.run = owner[t] => cp.tools[t] # "absent")

\* A tool is executed before its call is over, and then its result is told.
CallOrder ==
  /\ \A t \in acted : tool[t] \in {"acting", "over"}
  /\ \A t \in told : tool[t] = "over"

\* A result that is recorded or about to be was reported.
ResultWasReported ==
  /\ cp # NoCheckpoint => \A t \in Tools : cp.tools[t] \in {"answered", "persisted"} => t \in told
  /\ \A w \in pending : w.kind = "result" => w.tool \in told
  /\ \A w \in pending : w.run = owner[w.tool]

\* A call under way whose signal has not fired is the active agent's.
BatchOfAgent ==
  \A t \in Tools : tool[t] \in {"used", "intending", "intended", "acting", "cancelled"} =>
    owner[t] \in stopped \/ (owner[t] = run /\ phase = "agent")

\* A status of "running" is the active run's, unrevoked and with its storage intact.
StatusOfRun ==
  /\ status = "running" => phase # "idle" /\ run \in live /\ run \notin failed
  /\ status = "completed" => phase = "idle"
  /\ phase = "checkpointing" => status # "running"

\* The run is ending in success, or has: nothing of it is under way.
Succeeding ==
  \/ status = "running" /\ phase \in {"settling", "flushing", "committing", "checkpointing",
     "closing"}
  \/ status = "completed"

\* Every result that the run has reported is persisted in its settled checkpoint.
Saved ==
  /\ cp # NoCheckpoint /\ cp.run = run /\ cp.settled /\ cp.snapshot
  /\ \A t \in told : owner[t] = run => cp.tools[t] = "persisted"

CallsAreOver == Succeeding => \A t \in Tools : owner[t] = run => tool[t] = "over"

WritesAreAwaited ==
  Succeeding => \A w \in pending : w.run = run => phase = "settling" /\ w \in awaited

\* A reported result of the running run is in its checkpoint, or its write is queued.
ResultKept ==
  status = "running" => \A t \in told : owner[t] = run =>
    \/ cp.tools[t] \in {"answered", "persisted"}
    \/ [tool |-> t, kind |-> "result", run |-> run] \in pending

ClosingIsSaved == (status = "running" /\ phase = "closing") \/ status = "completed" => Saved

IInv ==
  /\ TypeOK /\ OwnCheckpoint /\ CallOrder /\ IntentRecorded /\ ResultWasReported
  /\ BatchOfAgent /\ StatusOfRun /\ CallsAreOver /\ WritesAreAwaited /\ ResultKept /\
       ClosingIsSaved

-----------------------------------------------------------------------------
(* The operators of the journal.                                           *)

\* A new checkpoint has its type and no tool.
LEMMA NewCheckpointType ==
  ASSUME NEW r \in Runs
  PROVE  NewCheckpoint(r) \in Checkpoint
BY DEF NewCheckpoint, Checkpoint, Outcome

\* recordTool changes one entry and never takes one out.
LEMMA RecordedEffect ==
  ASSUME NEW c \in Checkpoint, NEW t \in Tools, NEW kind
  PROVE  LET d == Recorded(c, t, kind) IN
         /\ d \in Checkpoint
         /\ d.run = c.run /\ d.settled = c.settled /\ d.snapshot = c.snapshot
         /\ d.tools[t] \in {"answered", "unknown"}
         /\ d.tools[t] = "answered" <=> kind = "result" \/ c.tools[t] \in {"answered",
              "persisted"}
         /\ \A u \in Tools \ {t} : d.tools[u] = c.tools[u]
BY DEF Recorded, Checkpoint, Outcome

\* commitSnapshot settles the checkpoint and turns answered tools into persisted ones.
LEMMA CommittedEffect ==
  ASSUME NEW c \in Checkpoint
  PROVE  LET d == Committed(c) IN
         /\ d \in Checkpoint
         /\ d.run = c.run /\ d.settled /\ d.snapshot
         /\ \A t \in Tools : d.tools[t] = IF c.tools[t] = "answered" THEN "persisted" ELSE
              c.tools[t]
BY DEF Committed, Checkpoint, Outcome

\* A checkpoint that is merely settled keeps everything else.
LEMMA SettledEffect ==
  ASSUME NEW c \in Checkpoint
  PROVE  LET d == [c EXCEPT !.settled = TRUE] IN
         /\ d \in Checkpoint
         /\ d.run = c.run /\ d.tools = c.tools
BY DEF Checkpoint

\* A decision names tools only, and is one of four.
LEMMA DecisionType ==
  ASSUME NEW c
  PROVE  /\ NeedsConfirmation(c) \subseteq Tools
         /\ Decision(c) \in {"no-checkpoint", "unknown-tool-outcome", "allowed"}
BY DEF NeedsConfirmation, Decision

\* A storage failure only adds to what has failed and stopped.
LEMMA StorageFailureEffect ==
  ASSUME NEW r, StorageFailure(r)
  PROVE  /\ failed \subseteq failed' /\ failed' \subseteq failed \cup {r}
         /\ stopped \subseteq stopped' /\ stopped' \subseteq stopped \cup {r}
         /\ status' \in {status, "failed"}
         /\ (status' # status \/ failed' # failed) => Active(r)
         /\ Active(r) => r \in failed'
         /\ r \notin failed /\ Active(r) => status' = "failed"
BY DEF StorageFailure

-----------------------------------------------------------------------------
(* Every step keeps every part of the invariant.                           *)

\* A step keeps the types.
LEMMA TypeNext ==
  ASSUME TypeOK, OwnCheckpoint, Next
  PROVE  TypeOK'
<1>1. ASSUME Prompt PROVE TypeOK'
  <2>1. (cp \in Checkpoint \cup {NoCheckpoint})'
    BY <1>1, Constants DEF TypeOK, Prompt, StartRun, disk, writes, calls
  <2>2. (run \in 0..MaxRuns)'
    BY <1>1, Constants DEF TypeOK, Prompt, StartRun, disk, writes, calls
  <2>3. (phase \in {"idle", "beginning", "starting", "agent", "settling", "flushing",
            "committing", "checkpointing", "closing"})'
    BY <1>1, Constants DEF TypeOK, Prompt, StartRun, disk, writes, calls
  <2>4. (status \in {"idle", "running", "aborted", "completed", "failed"})'
    BY <1>1, Constants DEF TypeOK, Prompt, StartRun, disk, writes, calls
  <2>5. (live \subseteq 1..run /\ stopped \subseteq 1..run /\ failed \subseteq 1..run)'
    BY <1>1, Constants DEF TypeOK, Prompt, StartRun, disk, writes, calls
  <2>6. (pending \subseteq [tool : Tools, kind : {"use", "result"}, run : 1..run])'
    BY <1>1, Constants DEF TypeOK, Prompt, StartRun, disk, writes, calls
  <2>7. (awaited \subseteq pending)'
    BY <1>1, Constants DEF TypeOK, Prompt, StartRun, disk, writes, calls
  <2>8. (stalled \in BOOLEAN /\ attention \in {"none", "no-checkpoint", "unknown-tool-outcome",
     "allowed"})'
    BY <1>1, Constants DEF TypeOK, Prompt, StartRun, disk, writes, calls
  <2>9. (tool \in [Tools -> {"no", "used", "intending", "intended", "acting", "cancelled",
     "over"}])'
    BY <1>1, Constants DEF TypeOK, Prompt, StartRun, disk, writes, calls
  <2>10. (owner \in [Tools -> 0..run])'
    BY <1>1, Constants DEF TypeOK, Prompt, StartRun, disk, writes, calls
  <2>11. (\A u \in Tools : tool[u] = "no" <=> owner[u] = 0)'
    BY <1>1, Constants DEF TypeOK, Prompt, StartRun, disk, writes, calls
  <2>12. (acted \subseteq Tools /\ told \subseteq Tools /\ named \subseteq Tools)'
    BY <1>1, Constants DEF TypeOK, Prompt, StartRun, disk, writes, calls
  <2>13. (faults \in 0..MaxFaults)'
    BY <1>1, Constants DEF TypeOK, Prompt, StartRun, disk, writes, calls
  <2>. QED
    BY <2>1, <2>2, <2>3, <2>4, <2>5, <2>6, <2>7, <2>8, <2>9, <2>10, <2>11, <2>12, <2>13 DEF TypeOK
<1>2. ASSUME Resume PROVE TypeOK'
  <2>1. (cp \in Checkpoint \cup {NoCheckpoint})'
    BY <1>2, Constants DEF TypeOK, Resume, StartRun, disk, writes, calls
  <2>2. (run \in 0..MaxRuns)'
    BY <1>2, Constants DEF TypeOK, Resume, StartRun, disk, writes, calls
  <2>3. (phase \in {"idle", "beginning", "starting", "agent", "settling", "flushing",
            "committing", "checkpointing", "closing"})'
    BY <1>2, Constants DEF TypeOK, Resume, StartRun, disk, writes, calls
  <2>4. (status \in {"idle", "running", "aborted", "completed", "failed"})'
    BY <1>2, Constants DEF TypeOK, Resume, StartRun, disk, writes, calls
  <2>5. (live \subseteq 1..run /\ stopped \subseteq 1..run /\ failed \subseteq 1..run)'
    BY <1>2, Constants DEF TypeOK, Resume, StartRun, disk, writes, calls
  <2>6. (pending \subseteq [tool : Tools, kind : {"use", "result"}, run : 1..run])'
    BY <1>2, Constants DEF TypeOK, Resume, StartRun, disk, writes, calls
  <2>7. (awaited \subseteq pending)'
    BY <1>2, Constants DEF TypeOK, Resume, StartRun, disk, writes, calls
  <2>8. (stalled \in BOOLEAN /\ attention \in {"none", "no-checkpoint", "unknown-tool-outcome",
     "allowed"})'
    BY <1>2, Constants DEF TypeOK, Resume, StartRun, disk, writes, calls
  <2>9. (tool \in [Tools -> {"no", "used", "intending", "intended", "acting", "cancelled",
     "over"}])'
    BY <1>2, Constants DEF TypeOK, Resume, StartRun, disk, writes, calls
  <2>10. (owner \in [Tools -> 0..run])'
    BY <1>2, Constants DEF TypeOK, Resume, StartRun, disk, writes, calls
  <2>11. (\A u \in Tools : tool[u] = "no" <=> owner[u] = 0)'
    BY <1>2, Constants DEF TypeOK, Resume, StartRun, disk, writes, calls
  <2>12. (acted \subseteq Tools /\ told \subseteq Tools /\ named \subseteq Tools)'
    BY <1>2, DecisionType, Constants DEF TypeOK, Resume, StartRun, disk, writes, calls
  <2>13. (faults \in 0..MaxFaults)'
    BY <1>2, Constants DEF TypeOK, Resume, StartRun, disk, writes, calls
  <2>. QED
    BY <2>1, <2>2, <2>3, <2>4, <2>5, <2>6, <2>7, <2>8, <2>9, <2>10, <2>11, <2>12, <2>13 DEF TypeOK
<1>3. ASSUME BeginFails PROVE TypeOK'
  <2>1. /\ (cp \in Checkpoint \cup {NoCheckpoint})'
        /\ (run \in 0..MaxRuns)'
        /\ (phase \in {"idle", "beginning", "starting", "agent", "settling", "flushing",
             "committing", "checkpointing", "closing"})'
        /\ (status \in {"idle", "running", "aborted", "completed", "failed"})'
    BY <1>3, Constants DEF TypeOK, BeginFails, StorageFailure, Active, Fault, disk, writes,
       watchdog, calls
  <2>2. /\ (live \subseteq 1..run /\ stopped \subseteq 1..run /\ failed \subseteq 1..run)'
        /\ (pending \subseteq [tool : Tools, kind : {"use", "result"}, run : 1..run])'
        /\ (awaited \subseteq pending)'
        /\ (stalled \in BOOLEAN /\ attention \in {"none", "no-checkpoint", "unknown-tool-outcome",
             "allowed"})'
    BY <1>3, Constants DEF TypeOK, BeginFails, StorageFailure, Active, Fault, disk, writes,
       watchdog, calls
  <2>3. /\ (tool \in [Tools -> {"no", "used", "intending", "intended", "acting", "cancelled",
             "over"}])'
        /\ (owner \in [Tools -> 0..run])'
        /\ (\A u \in Tools : tool[u] = "no" <=> owner[u] = 0)'
        /\ (acted \subseteq Tools /\ told \subseteq Tools /\ named \subseteq Tools)'
    BY <1>3, Constants DEF TypeOK, BeginFails, StorageFailure, Active, Fault, disk, writes,
       watchdog, calls
  <2>4. (faults \in 0..MaxFaults)'
    BY <1>3, Constants DEF TypeOK, BeginFails, StorageFailure, Active, Fault, disk, writes,
       watchdog, calls
  <2>. QED
    BY <2>1, <2>2, <2>3, <2>4 DEF TypeOK
<1>4. ASSUME AgentMissing PROVE TypeOK'
  BY <1>4, Constants DEF TypeOK, AgentMissing, disk, writes, watchdog, calls
<1>5. ASSUME AgentEnds PROVE TypeOK'
  BY <1>5, Constants DEF TypeOK, AgentEnds, Busy, Discarded, Writes, disk, watchdog
<1>6. ASSUME SaveFails PROVE TypeOK'
  <2>1. /\ (cp \in Checkpoint \cup {NoCheckpoint})'
        /\ (run \in 0..MaxRuns)'
        /\ (phase \in {"idle", "beginning", "starting", "agent", "settling", "flushing",
             "committing", "checkpointing", "closing"})'
        /\ (status \in {"idle", "running", "aborted", "completed", "failed"})'
    BY <1>6, Constants DEF TypeOK, SaveFails, StorageFailure, Active, Fault, disk, writes,
       watchdog, calls
  <2>2. /\ (live \subseteq 1..run /\ stopped \subseteq 1..run /\ failed \subseteq 1..run)'
        /\ (pending \subseteq [tool : Tools, kind : {"use", "result"}, run : 1..run])'
        /\ (awaited \subseteq pending)'
        /\ (stalled \in BOOLEAN /\ attention \in {"none", "no-checkpoint", "unknown-tool-outcome",
             "allowed"})'
    BY <1>6, Constants DEF TypeOK, SaveFails, StorageFailure, Active, Fault, disk, writes,
       watchdog, calls
  <2>3. /\ (tool \in [Tools -> {"no", "used", "intending", "intended", "acting", "cancelled",
             "over"}])'
        /\ (owner \in [Tools -> 0..run])'
        /\ (\A u \in Tools : tool[u] = "no" <=> owner[u] = 0)'
        /\ (acted \subseteq Tools /\ told \subseteq Tools /\ named \subseteq Tools)'
    BY <1>6, Constants DEF TypeOK, SaveFails, StorageFailure, Active, Fault, disk, writes,
       watchdog, calls
  <2>4. (faults \in 0..MaxFaults)'
    BY <1>6, Constants DEF TypeOK, SaveFails, StorageFailure, Active, Fault, disk, writes,
       watchdog, calls
  <2>. QED
    BY <2>1, <2>2, <2>3, <2>4 DEF TypeOK
<1>7. ASSUME Decide PROVE TypeOK'
  <2>1. /\ (cp \in Checkpoint \cup {NoCheckpoint})'
        /\ (run \in 0..MaxRuns)'
        /\ (phase \in {"idle", "beginning", "starting", "agent", "settling", "flushing",
             "committing", "checkpointing", "closing"})'
        /\ (status \in {"idle", "running", "aborted", "completed", "failed"})'
    BY <1>7, Constants DEF TypeOK, Decide, disk, session, writes, calls
  <2>2. /\ (live \subseteq 1..run /\ stopped \subseteq 1..run /\ failed \subseteq 1..run)'
        /\ (pending \subseteq [tool : Tools, kind : {"use", "result"}, run : 1..run])'
        /\ (awaited \subseteq pending)'
    BY <1>7, Constants DEF TypeOK, Decide, disk, session, writes, calls
  <2>3. (stalled \in BOOLEAN /\ attention \in {"none", "no-checkpoint", "unknown-tool-outcome",
     "allowed"})'
    BY <1>7, DecisionType, Constants DEF TypeOK, Decide, disk, session, writes, calls
  <2>4. /\ (tool \in [Tools -> {"no", "used", "intending", "intended", "acting", "cancelled",
             "over"}])'
        /\ (owner \in [Tools -> 0..run])'
        /\ (\A u \in Tools : tool[u] = "no" <=> owner[u] = 0)'
        /\ (acted \subseteq Tools /\ told \subseteq Tools /\ named \subseteq Tools)'
    BY <1>7, Constants DEF TypeOK, Decide, disk, session, writes, calls
  <2>5. (faults \in 0..MaxFaults)'
    BY <1>7, Constants DEF TypeOK, Decide, disk, session, writes, calls
  <2>. QED
    BY <2>1, <2>2, <2>3, <2>4, <2>5 DEF TypeOK
<1>8. ASSUME Begun PROVE TypeOK'
  <2>1. (cp \in Checkpoint \cup {NoCheckpoint})'
    BY <1>8, NewCheckpointType, Constants DEF TypeOK, Begun, NewCheckpoint, writes, watchdog,
       calls, OwnCheckpoint, Runs
  <2>2. /\ (run \in 0..MaxRuns)'
        /\ (phase \in {"idle", "beginning", "starting", "agent", "settling", "flushing",
             "committing", "checkpointing", "closing"})'
        /\ (status \in {"idle", "running", "aborted", "completed", "failed"})'
        /\ (live \subseteq 1..run /\ stopped \subseteq 1..run /\ failed \subseteq 1..run)'
    BY <1>8, Constants DEF TypeOK, Begun, NewCheckpoint, writes, watchdog, calls
  <2>3. /\ (pending \subseteq [tool : Tools, kind : {"use", "result"}, run : 1..run])'
        /\ (awaited \subseteq pending)'
        /\ (stalled \in BOOLEAN /\ attention \in {"none", "no-checkpoint", "unknown-tool-outcome",
             "allowed"})'
        /\ (tool \in [Tools -> {"no", "used", "intending", "intended", "acting", "cancelled",
             "over"}])'
    BY <1>8, Constants DEF TypeOK, Begun, NewCheckpoint, writes, watchdog, calls
  <2>4. /\ (owner \in [Tools -> 0..run])'
        /\ (\A u \in Tools : tool[u] = "no" <=> owner[u] = 0)'
        /\ (acted \subseteq Tools /\ told \subseteq Tools /\ named \subseteq Tools)'
        /\ (faults \in 0..MaxFaults)'
    BY <1>8, Constants DEF TypeOK, Begun, NewCheckpoint, writes, watchdog, calls
  <2>. QED
    BY <2>1, <2>2, <2>3, <2>4 DEF TypeOK
<1>9. ASSUME AgentStarts PROVE TypeOK'
  BY <1>9, Constants DEF TypeOK, AgentStarts, disk, writes, watchdog, calls
<1>10. ASSUME AgentStops PROVE TypeOK'
  BY <1>10, Constants DEF TypeOK, AgentStops, Writes, disk, watchdog, calls
<1>11. ASSUME Settle PROVE TypeOK'
  BY <1>11, Constants DEF TypeOK, Settle, disk, writes, watchdog, calls
<1>12. ASSUME Flush PROVE TypeOK'
  BY <1>12, Constants DEF TypeOK, Flush, disk, writes, watchdog, calls
<1>13. ASSUME Save PROVE TypeOK'
  <2>1. (cp \in Checkpoint \cup {NoCheckpoint})'
    BY <1>13, CommittedEffect, SettledEffect, Constants DEF TypeOK, Save, Committed, writes,
       watchdog, calls, OwnCheckpoint
  <2>2. /\ (run \in 0..MaxRuns)'
        /\ (phase \in {"idle", "beginning", "starting", "agent", "settling", "flushing",
             "committing", "checkpointing", "closing"})'
        /\ (status \in {"idle", "running", "aborted", "completed", "failed"})'
        /\ (live \subseteq 1..run /\ stopped \subseteq 1..run /\ failed \subseteq 1..run)'
    BY <1>13, Constants DEF TypeOK, Save, Committed, writes, watchdog, calls
  <2>3. /\ (pending \subseteq [tool : Tools, kind : {"use", "result"}, run : 1..run])'
        /\ (awaited \subseteq pending)'
        /\ (stalled \in BOOLEAN /\ attention \in {"none", "no-checkpoint", "unknown-tool-outcome",
             "allowed"})'
        /\ (tool \in [Tools -> {"no", "used", "intending", "intended", "acting", "cancelled",
             "over"}])'
    BY <1>13, Constants DEF TypeOK, Save, Committed, writes, watchdog, calls
  <2>4. /\ (owner \in [Tools -> 0..run])'
        /\ (\A u \in Tools : tool[u] = "no" <=> owner[u] = 0)'
        /\ (acted \subseteq Tools /\ told \subseteq Tools /\ named \subseteq Tools)'
        /\ (faults \in 0..MaxFaults)'
    BY <1>13, Constants DEF TypeOK, Save, Committed, writes, watchdog, calls
  <2>. QED
    BY <2>1, <2>2, <2>3, <2>4 DEF TypeOK
<1>14. ASSUME Close PROVE TypeOK'
  BY <1>14, Constants DEF TypeOK, Close, disk, writes, calls
<1>15. ASSUME Abort PROVE TypeOK'
  BY <1>15, Constants DEF TypeOK, Abort, disk, writes, calls
<1>16. ASSUME WatchdogStops PROVE TypeOK'
  BY <1>16, Constants DEF TypeOK, WatchdogStops, disk, writes, watchdog, calls
<1>17. ASSUME Rescue PROVE TypeOK'
  BY <1>17, Constants DEF TypeOK, Rescue, Busy, disk, writes, watchdog, calls
<1>18. ASSUME Crash PROVE TypeOK'
  <2>1. /\ (cp \in Checkpoint \cup {NoCheckpoint})'
        /\ (run \in 0..MaxRuns)'
        /\ (phase \in {"idle", "beginning", "starting", "agent", "settling", "flushing",
             "committing", "checkpointing", "closing"})'
        /\ (status \in {"idle", "running", "aborted", "completed", "failed"})'
    BY <1>18, Constants DEF TypeOK, Crash, Fault, disk
  <2>2. /\ (live \subseteq 1..run /\ stopped \subseteq 1..run /\ failed \subseteq 1..run)'
        /\ (pending \subseteq [tool : Tools, kind : {"use", "result"}, run : 1..run])'
        /\ (awaited \subseteq pending)'
        /\ (stalled \in BOOLEAN /\ attention \in {"none", "no-checkpoint", "unknown-tool-outcome",
             "allowed"})'
    BY <1>18, Constants DEF TypeOK, Crash, Fault, disk
  <2>3. /\ (tool \in [Tools -> {"no", "used", "intending", "intended", "acting", "cancelled",
             "over"}])'
        /\ (owner \in [Tools -> 0..run])'
        /\ (\A u \in Tools : tool[u] = "no" <=> owner[u] = 0)'
        /\ (acted \subseteq Tools /\ told \subseteq Tools /\ named \subseteq Tools)'
    BY <1>18, Constants DEF TypeOK, Crash, Fault, disk
  <2>4. (faults \in 0..MaxFaults)'
    BY <1>18, Constants DEF TypeOK, Crash, Fault, disk
  <2>. QED
    BY <2>1, <2>2, <2>3, <2>4 DEF TypeOK
<1>19. ASSUME NEW t \in Tools, Use(t) PROVE TypeOK'
  BY <1>19, Constants DEF TypeOK, Use, Queue, disk, session, watchdog
<1>20. ASSUME NEW t \in Tools, Approve(t) PROVE TypeOK'
  BY <1>20, Constants DEF TypeOK, Approve, Active, disk, session, writes, watchdog
<1>21. ASSUME NEW t \in Tools, RecordIntent(t) PROVE TypeOK'
  <2>1. (cp \in Checkpoint \cup {NoCheckpoint})'
    BY <1>21, RecordedEffect, Constants DEF TypeOK, RecordIntent, Recorded, session, writes,
       watchdog, OwnCheckpoint
  <2>2. /\ (run \in 0..MaxRuns)'
        /\ (phase \in {"idle", "beginning", "starting", "agent", "settling", "flushing",
             "committing", "checkpointing", "closing"})'
        /\ (status \in {"idle", "running", "aborted", "completed", "failed"})'
        /\ (live \subseteq 1..run /\ stopped \subseteq 1..run /\ failed \subseteq 1..run)'
    BY <1>21, Constants DEF TypeOK, RecordIntent, Recorded, session, writes, watchdog
  <2>3. /\ (pending \subseteq [tool : Tools, kind : {"use", "result"}, run : 1..run])'
        /\ (awaited \subseteq pending)'
        /\ (stalled \in BOOLEAN /\ attention \in {"none", "no-checkpoint", "unknown-tool-outcome",
             "allowed"})'
        /\ (tool \in [Tools -> {"no", "used", "intending", "intended", "acting", "cancelled",
             "over"}])'
    BY <1>21, Constants DEF TypeOK, RecordIntent, Recorded, session, writes, watchdog
  <2>4. /\ (owner \in [Tools -> 0..run])'
        /\ (\A u \in Tools : tool[u] = "no" <=> owner[u] = 0)'
        /\ (acted \subseteq Tools /\ told \subseteq Tools /\ named \subseteq Tools)'
        /\ (faults \in 0..MaxFaults)'
    BY <1>21, Constants DEF TypeOK, RecordIntent, Recorded, session, writes, watchdog
  <2>. QED
    BY <2>1, <2>2, <2>3, <2>4 DEF TypeOK
<1>22. ASSUME NEW t \in Tools, IntentFails(t) PROVE TypeOK'
  <2>1. /\ (cp \in Checkpoint \cup {NoCheckpoint})'
        /\ (run \in 0..MaxRuns)'
        /\ (phase \in {"idle", "beginning", "starting", "agent", "settling", "flushing",
             "committing", "checkpointing", "closing"})'
        /\ (status \in {"idle", "running", "aborted", "completed", "failed"})'
    BY <1>22, Constants DEF TypeOK, IntentFails, StorageFailure, Active, Fault, disk, writes,
       watchdog
  <2>2. /\ (live \subseteq 1..run /\ stopped \subseteq 1..run /\ failed \subseteq 1..run)'
        /\ (pending \subseteq [tool : Tools, kind : {"use", "result"}, run : 1..run])'
        /\ (awaited \subseteq pending)'
        /\ (stalled \in BOOLEAN /\ attention \in {"none", "no-checkpoint", "unknown-tool-outcome",
             "allowed"})'
    BY <1>22, Constants DEF TypeOK, IntentFails, StorageFailure, Active, Fault, disk, writes,
       watchdog
  <2>3. /\ (tool \in [Tools -> {"no", "used", "intending", "intended", "acting", "cancelled",
             "over"}])'
        /\ (owner \in [Tools -> 0..run])'
        /\ (\A u \in Tools : tool[u] = "no" <=> owner[u] = 0)'
        /\ (acted \subseteq Tools /\ told \subseteq Tools /\ named \subseteq Tools)'
    BY <1>22, Constants DEF TypeOK, IntentFails, StorageFailure, Active, Fault, disk, writes,
       watchdog
  <2>4. (faults \in 0..MaxFaults)'
    BY <1>22, Constants DEF TypeOK, IntentFails, StorageFailure, Active, Fault, disk, writes,
       watchdog
  <2>. QED
    BY <2>1, <2>2, <2>3, <2>4 DEF TypeOK
<1>23. ASSUME NEW t \in Tools, Dispatch(t) PROVE TypeOK'
  BY <1>23, Constants DEF TypeOK, Dispatch, Permitted, disk, session, writes, watchdog
<1>24. ASSUME NEW t \in Tools, Withhold(t) PROVE TypeOK'
  BY <1>24, Constants DEF TypeOK, Withhold, StorageFailure, Active, Permitted, disk, writes,
     watchdog
<1>25. ASSUME NEW t \in Tools, Report(t) PROVE TypeOK'
  BY <1>25, Constants DEF TypeOK, Report, Queue, disk, session, watchdog
<1>26. ASSUME NEW w \in pending, Write(w) PROVE TypeOK'
  <2>1. (cp \in Checkpoint \cup {NoCheckpoint})'
    <3>1. w.tool \in Tools /\ cp \in Checkpoint
      BY DEF TypeOK, OwnCheckpoint
    <3>. QED
      BY <1>26, <3>1, RecordedEffect DEF Write
  <2>2. (run \in 0..MaxRuns)'
    BY <1>26, Constants DEF TypeOK, Write, NextWrite, Recorded, session, watchdog, calls
  <2>3. (phase \in {"idle", "beginning", "starting", "agent", "settling", "flushing",
            "committing", "checkpointing", "closing"})'
    BY <1>26, Constants DEF TypeOK, Write, NextWrite, Recorded, session, watchdog, calls
  <2>4. (status \in {"idle", "running", "aborted", "completed", "failed"})'
    BY <1>26, Constants DEF TypeOK, Write, NextWrite, Recorded, session, watchdog, calls
  <2>5. (live \subseteq 1..run /\ stopped \subseteq 1..run /\ failed \subseteq 1..run)'
    BY <1>26, Constants DEF TypeOK, Write, NextWrite, Recorded, session, watchdog, calls
  <2>6. (pending \subseteq [tool : Tools, kind : {"use", "result"}, run : 1..run])'
    BY <1>26, Constants DEF TypeOK, Write, NextWrite, Recorded, session, watchdog, calls
  <2>7. (awaited \subseteq pending)'
    BY <1>26, Constants DEF TypeOK, Write, NextWrite, Recorded, session, watchdog, calls
  <2>8. (stalled \in BOOLEAN /\ attention \in {"none", "no-checkpoint", "unknown-tool-outcome",
     "allowed"})'
    BY <1>26, Constants DEF TypeOK, Write, NextWrite, Recorded, session, watchdog, calls
  <2>9. (tool \in [Tools -> {"no", "used", "intending", "intended", "acting", "cancelled",
     "over"}])'
    BY <1>26, Constants DEF TypeOK, Write, NextWrite, Recorded, session, watchdog, calls
  <2>10. (owner \in [Tools -> 0..run])'
    BY <1>26, Constants DEF TypeOK, Write, NextWrite, Recorded, session, watchdog, calls
  <2>11. (\A u \in Tools : tool[u] = "no" <=> owner[u] = 0)'
    BY <1>26, Constants DEF TypeOK, Write, NextWrite, Recorded, session, watchdog, calls
  <2>12. (acted \subseteq Tools /\ told \subseteq Tools /\ named \subseteq Tools)'
    BY <1>26, Constants DEF TypeOK, Write, NextWrite, Recorded, session, watchdog, calls
  <2>13. (faults \in 0..MaxFaults)'
    BY <1>26, Constants DEF TypeOK, Write, NextWrite, Recorded, session, watchdog, calls
  <2>. QED
    BY <2>1, <2>2, <2>3, <2>4, <2>5, <2>6, <2>7, <2>8, <2>9, <2>10, <2>11, <2>12, <2>13 DEF TypeOK
<1>27. ASSUME NEW w \in pending, WriteFails(w) PROVE TypeOK'
  BY <1>27, Constants DEF TypeOK, WriteFails, NextWrite, StorageFailure, Active, Fault, disk,
     watchdog, calls
<1>. QED
  BY <1>1, <1>2, <1>3, <1>4, <1>5, <1>6, <1>7, <1>8, <1>9, <1>10, <1>11, <1>12, <1>13, <1>14,
     <1>15, <1>16, <1>17, <1>18, <1>19, <1>20, <1>21, <1>22, <1>23, <1>24, <1>25, <1>26, <1>27 DEF
     Next, Ending

\* A step keeps the checkpoint of the run.
LEMMA OwnNext ==
  ASSUME TypeOK, OwnCheckpoint, Next
  PROVE  OwnCheckpoint'
<1>1. ASSUME Prompt PROVE OwnCheckpoint'
  BY <1>1, Constants, NoCheckpointIsNone DEF TypeOK, OwnCheckpoint, Prompt, StartRun, disk,
     writes, calls
<1>2. ASSUME Resume PROVE OwnCheckpoint'
  BY <1>2, Constants, NoCheckpointIsNone DEF TypeOK, OwnCheckpoint, Resume, StartRun, disk,
     writes, calls
<1>3. ASSUME BeginFails PROVE OwnCheckpoint'
  BY <1>3, Constants, NoCheckpointIsNone DEF TypeOK, OwnCheckpoint, BeginFails, StorageFailure,
     Active, Fault, disk, writes, watchdog, calls
<1>4. ASSUME AgentMissing PROVE OwnCheckpoint'
  BY <1>4, Constants, NoCheckpointIsNone DEF TypeOK, OwnCheckpoint, AgentMissing, disk, writes,
     watchdog, calls
<1>5. ASSUME AgentEnds PROVE OwnCheckpoint'
  BY <1>5, Constants, NoCheckpointIsNone DEF TypeOK, OwnCheckpoint, AgentEnds, Busy, Discarded,
     Writes, disk, watchdog
<1>6. ASSUME SaveFails PROVE OwnCheckpoint'
  BY <1>6, Constants, NoCheckpointIsNone DEF TypeOK, OwnCheckpoint, SaveFails, StorageFailure,
     Active, Fault, disk, writes, watchdog, calls
<1>7. ASSUME Decide PROVE OwnCheckpoint'
  BY <1>7, Constants, NoCheckpointIsNone DEF TypeOK, OwnCheckpoint, Decide, disk, session, writes,
     calls
<1>8. ASSUME Begun PROVE OwnCheckpoint'
  <2>1. NewCheckpoint(run) \in Checkpoint
    BY <1>8, NewCheckpointType DEF TypeOK, OwnCheckpoint, Runs, Begun
  <2>. QED
    BY <1>8, <2>1, NoCheckpointIsNone DEF TypeOK, OwnCheckpoint, Begun, NewCheckpoint, writes,
       watchdog, calls
<1>9. ASSUME AgentStarts PROVE OwnCheckpoint'
  BY <1>9, Constants, NoCheckpointIsNone DEF TypeOK, OwnCheckpoint, AgentStarts, disk, writes,
     watchdog, calls
<1>10. ASSUME AgentStops PROVE OwnCheckpoint'
  BY <1>10, Constants, NoCheckpointIsNone DEF TypeOK, OwnCheckpoint, AgentStops, Writes, disk,
     watchdog, calls
<1>11. ASSUME Settle PROVE OwnCheckpoint'
  BY <1>11, Constants, NoCheckpointIsNone DEF TypeOK, OwnCheckpoint, Settle, disk, writes,
     watchdog, calls
<1>12. ASSUME Flush PROVE OwnCheckpoint'
  BY <1>12, Constants, NoCheckpointIsNone DEF TypeOK, OwnCheckpoint, Flush, disk, writes,
     watchdog, calls
<1>13. ASSUME Save PROVE OwnCheckpoint'
  <2>1. cp \in Checkpoint
    BY <1>13 DEF TypeOK, OwnCheckpoint, Save
  <2>. QED
    BY <1>13, <2>1, CommittedEffect, SettledEffect, NoCheckpointIsNone DEF TypeOK, OwnCheckpoint,
       Save, writes, watchdog, calls
<1>14. ASSUME Close PROVE OwnCheckpoint'
  BY <1>14, Constants, NoCheckpointIsNone DEF TypeOK, OwnCheckpoint, Close, disk, writes, calls
<1>15. ASSUME Abort PROVE OwnCheckpoint'
  BY <1>15, Constants, NoCheckpointIsNone DEF TypeOK, OwnCheckpoint, Abort, disk, writes, calls
<1>16. ASSUME WatchdogStops PROVE OwnCheckpoint'
  BY <1>16, Constants, NoCheckpointIsNone DEF TypeOK, OwnCheckpoint, WatchdogStops, disk, writes,
     watchdog, calls
<1>17. ASSUME Rescue PROVE OwnCheckpoint'
  BY <1>17, Constants, NoCheckpointIsNone DEF TypeOK, OwnCheckpoint, Rescue, Busy, disk, writes,
     watchdog, calls
<1>18. ASSUME Crash PROVE OwnCheckpoint'
  BY <1>18, Constants, NoCheckpointIsNone DEF TypeOK, OwnCheckpoint, Crash, Fault, disk
<1>19. ASSUME NEW t \in Tools, Use(t) PROVE OwnCheckpoint'
  BY <1>19, Constants, NoCheckpointIsNone DEF TypeOK, OwnCheckpoint, Use, Queue, disk, session,
     watchdog
<1>20. ASSUME NEW t \in Tools, Approve(t) PROVE OwnCheckpoint'
  BY <1>20, Constants, NoCheckpointIsNone DEF TypeOK, OwnCheckpoint, Approve, Active, disk,
     session, writes, watchdog
<1>21. ASSUME NEW t \in Tools, RecordIntent(t) PROVE OwnCheckpoint'
  <2>1. cp \in Checkpoint
    BY <1>21 DEF TypeOK, OwnCheckpoint, RecordIntent
  <2>. QED
    BY <1>21, <2>1, RecordedEffect, NoCheckpointIsNone DEF TypeOK, OwnCheckpoint, RecordIntent,
       session, writes, watchdog
<1>22. ASSUME NEW t \in Tools, IntentFails(t) PROVE OwnCheckpoint'
  BY <1>22, Constants, NoCheckpointIsNone DEF TypeOK, OwnCheckpoint, IntentFails, StorageFailure,
     Active, Fault, disk, writes, watchdog
<1>23. ASSUME NEW t \in Tools, Dispatch(t) PROVE OwnCheckpoint'
  BY <1>23, Constants, NoCheckpointIsNone DEF TypeOK, OwnCheckpoint, Dispatch, Permitted, disk,
     session, writes, watchdog
<1>24. ASSUME NEW t \in Tools, Withhold(t) PROVE OwnCheckpoint'
  BY <1>24, Constants, NoCheckpointIsNone DEF TypeOK, OwnCheckpoint, Withhold, StorageFailure,
     Active, Permitted, disk, writes, watchdog
<1>25. ASSUME NEW t \in Tools, Report(t) PROVE OwnCheckpoint'
  BY <1>25, Constants, NoCheckpointIsNone DEF TypeOK, OwnCheckpoint, Report, Queue, disk, session,
     watchdog
<1>26. ASSUME NEW w \in pending, Write(w) PROVE OwnCheckpoint'
  <2>1. cp \in Checkpoint /\ w.tool \in Tools
    BY <1>26 DEF TypeOK, OwnCheckpoint, Write
  <2>. QED
    BY <1>26, <2>1, RecordedEffect, NoCheckpointIsNone DEF TypeOK, OwnCheckpoint, Write,
       NextWrite, session, watchdog, calls
<1>27. ASSUME NEW w \in pending, WriteFails(w) PROVE OwnCheckpoint'
  BY <1>27, Constants, NoCheckpointIsNone DEF TypeOK, OwnCheckpoint, WriteFails, NextWrite,
     StorageFailure, Active, Fault, disk, watchdog, calls
<1>. QED
  BY <1>1, <1>2, <1>3, <1>4, <1>5, <1>6, <1>7, <1>8, <1>9, <1>10, <1>11, <1>12, <1>13, <1>14,
     <1>15, <1>16, <1>17, <1>18, <1>19, <1>20, <1>21, <1>22, <1>23, <1>24, <1>25, <1>26, <1>27 DEF
     Next, Ending

\* A step keeps the order of a call.
LEMMA CallNext ==
  ASSUME TypeOK, CallOrder, Next
  PROVE  CallOrder'
<1>1. ASSUME Prompt PROVE CallOrder'
  BY <1>1, Constants, NoCheckpointIsNone DEF TypeOK, CallOrder, Prompt, StartRun, disk, writes,
     calls
<1>2. ASSUME Resume PROVE CallOrder'
  BY <1>2, Constants, NoCheckpointIsNone DEF TypeOK, CallOrder, Resume, StartRun, disk, writes,
     calls
<1>3. ASSUME BeginFails PROVE CallOrder'
  BY <1>3, Constants, NoCheckpointIsNone DEF TypeOK, CallOrder, BeginFails, StorageFailure,
     Active, Fault, disk, writes, watchdog, calls
<1>4. ASSUME AgentMissing PROVE CallOrder'
  BY <1>4, Constants, NoCheckpointIsNone DEF TypeOK, CallOrder, AgentMissing, disk, writes,
     watchdog, calls
<1>5. ASSUME AgentEnds PROVE CallOrder'
  BY <1>5, Constants, NoCheckpointIsNone DEF TypeOK, CallOrder, AgentEnds, Busy, Discarded,
     Writes, disk, watchdog
<1>6. ASSUME SaveFails PROVE CallOrder'
  BY <1>6, Constants, NoCheckpointIsNone DEF TypeOK, CallOrder, SaveFails, StorageFailure, Active,
     Fault, disk, writes, watchdog, calls
<1>7. ASSUME Decide PROVE CallOrder'
  BY <1>7, Constants, NoCheckpointIsNone DEF TypeOK, CallOrder, Decide, disk, session, writes,
     calls
<1>8. ASSUME Begun PROVE CallOrder'
  BY <1>8, Constants, NoCheckpointIsNone DEF TypeOK, CallOrder, Begun, NewCheckpoint, writes,
     watchdog, calls
<1>9. ASSUME AgentStarts PROVE CallOrder'
  BY <1>9, Constants, NoCheckpointIsNone DEF TypeOK, CallOrder, AgentStarts, disk, writes,
     watchdog, calls
<1>10. ASSUME AgentStops PROVE CallOrder'
  BY <1>10, Constants, NoCheckpointIsNone DEF TypeOK, CallOrder, AgentStops, Writes, disk,
     watchdog, calls
<1>11. ASSUME Settle PROVE CallOrder'
  BY <1>11, Constants, NoCheckpointIsNone DEF TypeOK, CallOrder, Settle, disk, writes, watchdog,
     calls
<1>12. ASSUME Flush PROVE CallOrder'
  BY <1>12, Constants, NoCheckpointIsNone DEF TypeOK, CallOrder, Flush, disk, writes, watchdog,
     calls
<1>13. ASSUME Save PROVE CallOrder'
  BY <1>13, Constants, NoCheckpointIsNone DEF TypeOK, CallOrder, Save, Committed, writes,
     watchdog, calls
<1>14. ASSUME Close PROVE CallOrder'
  BY <1>14, Constants, NoCheckpointIsNone DEF TypeOK, CallOrder, Close, disk, writes, calls
<1>15. ASSUME Abort PROVE CallOrder'
  BY <1>15, Constants, NoCheckpointIsNone DEF TypeOK, CallOrder, Abort, disk, writes, calls
<1>16. ASSUME WatchdogStops PROVE CallOrder'
  BY <1>16, Constants, NoCheckpointIsNone DEF TypeOK, CallOrder, WatchdogStops, disk, writes,
     watchdog, calls
<1>17. ASSUME Rescue PROVE CallOrder'
  BY <1>17, Constants, NoCheckpointIsNone DEF TypeOK, CallOrder, Rescue, Busy, disk, writes,
     watchdog, calls
<1>18. ASSUME Crash PROVE CallOrder'
  BY <1>18, Constants, NoCheckpointIsNone DEF TypeOK, CallOrder, Crash, Fault, disk
<1>19. ASSUME NEW t \in Tools, Use(t) PROVE CallOrder'
  BY <1>19, Constants, NoCheckpointIsNone DEF TypeOK, CallOrder, Use, Queue, disk, session,
     watchdog
<1>20. ASSUME NEW t \in Tools, Approve(t) PROVE CallOrder'
  BY <1>20, Constants, NoCheckpointIsNone DEF TypeOK, CallOrder, Approve, Active, disk, session,
     writes, watchdog
<1>21. ASSUME NEW t \in Tools, RecordIntent(t) PROVE CallOrder'
  BY <1>21, Constants, NoCheckpointIsNone DEF TypeOK, CallOrder, RecordIntent, Recorded, session,
     writes, watchdog
<1>22. ASSUME NEW t \in Tools, IntentFails(t) PROVE CallOrder'
  BY <1>22, Constants, NoCheckpointIsNone DEF TypeOK, CallOrder, IntentFails, StorageFailure,
     Active, Fault, disk, writes, watchdog
<1>23. ASSUME NEW t \in Tools, Dispatch(t) PROVE CallOrder'
  BY <1>23, Constants, NoCheckpointIsNone DEF TypeOK, CallOrder, Dispatch, Permitted, disk,
     session, writes, watchdog
<1>24. ASSUME NEW t \in Tools, Withhold(t) PROVE CallOrder'
  BY <1>24, Constants, NoCheckpointIsNone DEF TypeOK, CallOrder, Withhold, StorageFailure, Active,
     Permitted, disk, writes, watchdog
<1>25. ASSUME NEW t \in Tools, Report(t) PROVE CallOrder'
  BY <1>25, Constants, NoCheckpointIsNone DEF TypeOK, CallOrder, Report, Queue, disk, session,
     watchdog
<1>26. ASSUME NEW w \in pending, Write(w) PROVE CallOrder'
  BY <1>26, Constants, NoCheckpointIsNone DEF TypeOK, CallOrder, Write, NextWrite, Recorded,
     session, watchdog, calls
<1>27. ASSUME NEW w \in pending, WriteFails(w) PROVE CallOrder'
  BY <1>27, Constants, NoCheckpointIsNone DEF TypeOK, CallOrder, WriteFails, NextWrite,
     StorageFailure, Active, Fault, disk, watchdog, calls
<1>. QED
  BY <1>1, <1>2, <1>3, <1>4, <1>5, <1>6, <1>7, <1>8, <1>9, <1>10, <1>11, <1>12, <1>13, <1>14,
     <1>15, <1>16, <1>17, <1>18, <1>19, <1>20, <1>21, <1>22, <1>23, <1>24, <1>25, <1>26, <1>27 DEF
     Next, Ending

\* A step keeps executed calls in the checkpoint of their run.
LEMMA IntentNext ==
  ASSUME TypeOK, OwnCheckpoint, CallOrder, IntentRecorded, Next
  PROVE  IntentRecorded'
<1>1. ASSUME Prompt PROVE IntentRecorded'
  BY <1>1, Constants, NoCheckpointIsNone DEF TypeOK, OwnCheckpoint, CallOrder, IntentRecorded,
     Prompt, StartRun, disk, writes, calls
<1>2. ASSUME Resume PROVE IntentRecorded'
  BY <1>2, Constants, NoCheckpointIsNone DEF TypeOK, OwnCheckpoint, CallOrder, IntentRecorded,
     Resume, StartRun, disk, writes, calls
<1>3. ASSUME BeginFails PROVE IntentRecorded'
  BY <1>3, Constants, NoCheckpointIsNone DEF TypeOK, OwnCheckpoint, CallOrder, IntentRecorded,
     BeginFails, StorageFailure, Active, Fault, disk, writes, watchdog, calls
<1>4. ASSUME AgentMissing PROVE IntentRecorded'
  BY <1>4, Constants, NoCheckpointIsNone DEF TypeOK, OwnCheckpoint, CallOrder, IntentRecorded,
     AgentMissing, disk, writes, watchdog, calls
<1>5. ASSUME AgentEnds PROVE IntentRecorded'
  BY <1>5, Constants, NoCheckpointIsNone DEF TypeOK, OwnCheckpoint, CallOrder, IntentRecorded,
     AgentEnds, Busy, Discarded, Writes, disk, watchdog
<1>6. ASSUME SaveFails PROVE IntentRecorded'
  BY <1>6, Constants, NoCheckpointIsNone DEF TypeOK, OwnCheckpoint, CallOrder, IntentRecorded,
     SaveFails, StorageFailure, Active, Fault, disk, writes, watchdog, calls
<1>7. ASSUME Decide PROVE IntentRecorded'
  BY <1>7, Constants, NoCheckpointIsNone DEF TypeOK, OwnCheckpoint, CallOrder, IntentRecorded,
     Decide, disk, session, writes, calls
<1>8. ASSUME Begun PROVE IntentRecorded'
  <2>1. NewCheckpoint(run) \in Checkpoint
    BY <1>8, NewCheckpointType DEF TypeOK, OwnCheckpoint, Runs, Begun
  <2>. QED
    BY <1>8, <2>1, NoCheckpointIsNone DEF TypeOK, OwnCheckpoint, CallOrder, IntentRecorded, Begun,
       NewCheckpoint, writes, watchdog, calls
<1>9. ASSUME AgentStarts PROVE IntentRecorded'
  BY <1>9, Constants, NoCheckpointIsNone DEF TypeOK, OwnCheckpoint, CallOrder, IntentRecorded,
     AgentStarts, disk, writes, watchdog, calls
<1>10. ASSUME AgentStops PROVE IntentRecorded'
  BY <1>10, Constants, NoCheckpointIsNone DEF TypeOK, OwnCheckpoint, CallOrder, IntentRecorded,
     AgentStops, Writes, disk, watchdog, calls
<1>11. ASSUME Settle PROVE IntentRecorded'
  BY <1>11, Constants, NoCheckpointIsNone DEF TypeOK, OwnCheckpoint, CallOrder, IntentRecorded,
     Settle, disk, writes, watchdog, calls
<1>12. ASSUME Flush PROVE IntentRecorded'
  BY <1>12, Constants, NoCheckpointIsNone DEF TypeOK, OwnCheckpoint, CallOrder, IntentRecorded,
     Flush, disk, writes, watchdog, calls
<1>13. ASSUME Save PROVE IntentRecorded'
  <2>1. cp \in Checkpoint
    BY <1>13 DEF TypeOK, OwnCheckpoint, Save
  <2>. QED
    BY <1>13, <2>1, CommittedEffect, SettledEffect, NoCheckpointIsNone DEF TypeOK, OwnCheckpoint,
       CallOrder, IntentRecorded, Save, writes, watchdog, calls
<1>14. ASSUME Close PROVE IntentRecorded'
  BY <1>14, Constants, NoCheckpointIsNone DEF TypeOK, OwnCheckpoint, CallOrder, IntentRecorded,
     Close, disk, writes, calls
<1>15. ASSUME Abort PROVE IntentRecorded'
  BY <1>15, Constants, NoCheckpointIsNone DEF TypeOK, OwnCheckpoint, CallOrder, IntentRecorded,
     Abort, disk, writes, calls
<1>16. ASSUME WatchdogStops PROVE IntentRecorded'
  BY <1>16, Constants, NoCheckpointIsNone DEF TypeOK, OwnCheckpoint, CallOrder, IntentRecorded,
     WatchdogStops, disk, writes, watchdog, calls
<1>17. ASSUME Rescue PROVE IntentRecorded'
  BY <1>17, Constants, NoCheckpointIsNone DEF TypeOK, OwnCheckpoint, CallOrder, IntentRecorded,
     Rescue, Busy, disk, writes, watchdog, calls
<1>18. ASSUME Crash PROVE IntentRecorded'
  BY <1>18, Constants, NoCheckpointIsNone DEF TypeOK, OwnCheckpoint, CallOrder, IntentRecorded,
     Crash, Fault, disk
<1>19. ASSUME NEW t \in Tools, Use(t) PROVE IntentRecorded'
  BY <1>19, Constants, NoCheckpointIsNone DEF TypeOK, OwnCheckpoint, CallOrder, IntentRecorded,
     Use, Queue, disk, session, watchdog
<1>20. ASSUME NEW t \in Tools, Approve(t) PROVE IntentRecorded'
  BY <1>20, Constants, NoCheckpointIsNone DEF TypeOK, OwnCheckpoint, CallOrder, IntentRecorded,
     Approve, Active, disk, session, writes, watchdog
<1>21. ASSUME NEW t \in Tools, RecordIntent(t) PROVE IntentRecorded'
  <2>1. cp \in Checkpoint
    BY <1>21 DEF TypeOK, OwnCheckpoint, RecordIntent
  <2>. QED
    BY <1>21, <2>1, RecordedEffect, NoCheckpointIsNone DEF TypeOK, OwnCheckpoint, CallOrder,
       IntentRecorded, RecordIntent, session, writes, watchdog
<1>22. ASSUME NEW t \in Tools, IntentFails(t) PROVE IntentRecorded'
  BY <1>22, Constants, NoCheckpointIsNone DEF TypeOK, OwnCheckpoint, CallOrder, IntentRecorded,
     IntentFails, StorageFailure, Active, Fault, disk, writes, watchdog
<1>23. ASSUME NEW t \in Tools, Dispatch(t) PROVE IntentRecorded'
  BY <1>23, Constants, NoCheckpointIsNone DEF TypeOK, OwnCheckpoint, CallOrder, IntentRecorded,
     Dispatch, Permitted, disk, session, writes, watchdog
<1>24. ASSUME NEW t \in Tools, Withhold(t) PROVE IntentRecorded'
  BY <1>24, Constants, NoCheckpointIsNone DEF TypeOK, OwnCheckpoint, CallOrder, IntentRecorded,
     Withhold, StorageFailure, Active, Permitted, disk, writes, watchdog
<1>25. ASSUME NEW t \in Tools, Report(t) PROVE IntentRecorded'
  BY <1>25, Constants, NoCheckpointIsNone DEF TypeOK, OwnCheckpoint, CallOrder, IntentRecorded,
     Report, Queue, disk, session, watchdog
<1>26. ASSUME NEW w \in pending, Write(w) PROVE IntentRecorded'
  <2>1. cp \in Checkpoint /\ w.tool \in Tools
    BY <1>26 DEF TypeOK, OwnCheckpoint, Write
  <2>. QED
    BY <1>26, <2>1, RecordedEffect, NoCheckpointIsNone DEF TypeOK, OwnCheckpoint, CallOrder,
       IntentRecorded, Write, NextWrite, session, watchdog, calls
<1>27. ASSUME NEW w \in pending, WriteFails(w) PROVE IntentRecorded'
  BY <1>27, Constants, NoCheckpointIsNone DEF TypeOK, OwnCheckpoint, CallOrder, IntentRecorded,
     WriteFails, NextWrite, StorageFailure, Active, Fault, disk, watchdog, calls
<1>. QED
  BY <1>1, <1>2, <1>3, <1>4, <1>5, <1>6, <1>7, <1>8, <1>9, <1>10, <1>11, <1>12, <1>13, <1>14,
     <1>15, <1>16, <1>17, <1>18, <1>19, <1>20, <1>21, <1>22, <1>23, <1>24, <1>25, <1>26, <1>27 DEF
     Next, Ending

\* A step makes no result out of nothing.
LEMMA ResultNext ==
  ASSUME TypeOK, OwnCheckpoint, ResultWasReported, Next
  PROVE  ResultWasReported'
<1>1. ASSUME Prompt PROVE ResultWasReported'
  BY <1>1, Constants, NoCheckpointIsNone DEF TypeOK, OwnCheckpoint, ResultWasReported, Prompt,
     StartRun, disk, writes, calls
<1>2. ASSUME Resume PROVE ResultWasReported'
  BY <1>2, Constants, NoCheckpointIsNone DEF TypeOK, OwnCheckpoint, ResultWasReported, Resume,
     StartRun, disk, writes, calls
<1>3. ASSUME BeginFails PROVE ResultWasReported'
  BY <1>3, Constants, NoCheckpointIsNone DEF TypeOK, OwnCheckpoint, ResultWasReported, BeginFails,
     StorageFailure, Active, Fault, disk, writes, watchdog, calls
<1>4. ASSUME AgentMissing PROVE ResultWasReported'
  BY <1>4, Constants, NoCheckpointIsNone DEF TypeOK, OwnCheckpoint, ResultWasReported,
     AgentMissing, disk, writes, watchdog, calls
<1>5. ASSUME AgentEnds PROVE ResultWasReported'
  BY <1>5, Constants, NoCheckpointIsNone DEF TypeOK, OwnCheckpoint, ResultWasReported, AgentEnds,
     Busy, Discarded, Writes, disk, watchdog
<1>6. ASSUME SaveFails PROVE ResultWasReported'
  BY <1>6, Constants, NoCheckpointIsNone DEF TypeOK, OwnCheckpoint, ResultWasReported, SaveFails,
     StorageFailure, Active, Fault, disk, writes, watchdog, calls
<1>7. ASSUME Decide PROVE ResultWasReported'
  BY <1>7, Constants, NoCheckpointIsNone DEF TypeOK, OwnCheckpoint, ResultWasReported, Decide,
     disk, session, writes, calls
<1>8. ASSUME Begun PROVE ResultWasReported'
  BY <1>8, Constants, NoCheckpointIsNone DEF TypeOK, OwnCheckpoint, ResultWasReported, Begun,
     NewCheckpoint, writes, watchdog, calls
<1>9. ASSUME AgentStarts PROVE ResultWasReported'
  BY <1>9, Constants, NoCheckpointIsNone DEF TypeOK, OwnCheckpoint, ResultWasReported,
     AgentStarts, disk, writes, watchdog, calls
<1>10. ASSUME AgentStops PROVE ResultWasReported'
  BY <1>10, Constants, NoCheckpointIsNone DEF TypeOK, OwnCheckpoint, ResultWasReported,
     AgentStops, Writes, disk, watchdog, calls
<1>11. ASSUME Settle PROVE ResultWasReported'
  BY <1>11, Constants, NoCheckpointIsNone DEF TypeOK, OwnCheckpoint, ResultWasReported, Settle,
     disk, writes, watchdog, calls
<1>12. ASSUME Flush PROVE ResultWasReported'
  BY <1>12, Constants, NoCheckpointIsNone DEF TypeOK, OwnCheckpoint, ResultWasReported, Flush,
     disk, writes, watchdog, calls
<1>13. ASSUME Save PROVE ResultWasReported'
  BY <1>13, Constants, NoCheckpointIsNone DEF TypeOK, OwnCheckpoint, ResultWasReported, Save,
     Committed, writes, watchdog, calls
<1>14. ASSUME Close PROVE ResultWasReported'
  BY <1>14, Constants, NoCheckpointIsNone DEF TypeOK, OwnCheckpoint, ResultWasReported, Close,
     disk, writes, calls
<1>15. ASSUME Abort PROVE ResultWasReported'
  BY <1>15, Constants, NoCheckpointIsNone DEF TypeOK, OwnCheckpoint, ResultWasReported, Abort,
     disk, writes, calls
<1>16. ASSUME WatchdogStops PROVE ResultWasReported'
  BY <1>16, Constants, NoCheckpointIsNone DEF TypeOK, OwnCheckpoint, ResultWasReported,
     WatchdogStops, disk, writes, watchdog, calls
<1>17. ASSUME Rescue PROVE ResultWasReported'
  BY <1>17, Constants, NoCheckpointIsNone DEF TypeOK, OwnCheckpoint, ResultWasReported, Rescue,
     Busy, disk, writes, watchdog, calls
<1>18. ASSUME Crash PROVE ResultWasReported'
  BY <1>18, Constants, NoCheckpointIsNone DEF TypeOK, OwnCheckpoint, ResultWasReported, Crash,
     Fault, disk
<1>19. ASSUME NEW t \in Tools, Use(t) PROVE ResultWasReported'
  BY <1>19, Constants, NoCheckpointIsNone DEF TypeOK, OwnCheckpoint, ResultWasReported, Use,
     Queue, disk, session, watchdog
<1>20. ASSUME NEW t \in Tools, Approve(t) PROVE ResultWasReported'
  BY <1>20, Constants, NoCheckpointIsNone DEF TypeOK, OwnCheckpoint, ResultWasReported, Approve,
     Active, disk, session, writes, watchdog
<1>21. ASSUME NEW t \in Tools, RecordIntent(t) PROVE ResultWasReported'
  BY <1>21, Constants, NoCheckpointIsNone DEF TypeOK, OwnCheckpoint, ResultWasReported,
     RecordIntent, Recorded, session, writes, watchdog
<1>22. ASSUME NEW t \in Tools, IntentFails(t) PROVE ResultWasReported'
  BY <1>22, Constants, NoCheckpointIsNone DEF TypeOK, OwnCheckpoint, ResultWasReported,
     IntentFails, StorageFailure, Active, Fault, disk, writes, watchdog
<1>23. ASSUME NEW t \in Tools, Dispatch(t) PROVE ResultWasReported'
  BY <1>23, Constants, NoCheckpointIsNone DEF TypeOK, OwnCheckpoint, ResultWasReported, Dispatch,
     Permitted, disk, session, writes, watchdog
<1>24. ASSUME NEW t \in Tools, Withhold(t) PROVE ResultWasReported'
  BY <1>24, Constants, NoCheckpointIsNone DEF TypeOK, OwnCheckpoint, ResultWasReported, Withhold,
     StorageFailure, Active, Permitted, disk, writes, watchdog
<1>25. ASSUME NEW t \in Tools, Report(t) PROVE ResultWasReported'
  BY <1>25, Constants, NoCheckpointIsNone DEF TypeOK, OwnCheckpoint, ResultWasReported, Report,
     Queue, disk, session, watchdog
<1>26. ASSUME NEW w \in pending, Write(w) PROVE ResultWasReported'
  BY <1>26, Constants, NoCheckpointIsNone DEF TypeOK, OwnCheckpoint, ResultWasReported, Write,
     NextWrite, Recorded, session, watchdog, calls
<1>27. ASSUME NEW w \in pending, WriteFails(w) PROVE ResultWasReported'
  BY <1>27, Constants, NoCheckpointIsNone DEF TypeOK, OwnCheckpoint, ResultWasReported,
     WriteFails, NextWrite, StorageFailure, Active, Fault, disk, watchdog, calls
<1>. QED
  BY <1>1, <1>2, <1>3, <1>4, <1>5, <1>6, <1>7, <1>8, <1>9, <1>10, <1>11, <1>12, <1>13, <1>14,
     <1>15, <1>16, <1>17, <1>18, <1>19, <1>20, <1>21, <1>22, <1>23, <1>24, <1>25, <1>26, <1>27 DEF
     Next, Ending

\* A step leaves no call of an unstopped run without its agent.
LEMMA BatchNext ==
  ASSUME TypeOK, OwnCheckpoint, BatchOfAgent, Next
  PROVE  BatchOfAgent'
<1>1. ASSUME Prompt PROVE BatchOfAgent'
  BY <1>1, Constants, NoCheckpointIsNone DEF TypeOK, OwnCheckpoint, BatchOfAgent, Prompt,
     StartRun, disk, writes, calls
<1>2. ASSUME Resume PROVE BatchOfAgent'
  BY <1>2, Constants, NoCheckpointIsNone DEF TypeOK, OwnCheckpoint, BatchOfAgent, Resume,
     StartRun, disk, writes, calls
<1>3. ASSUME BeginFails PROVE BatchOfAgent'
  BY <1>3, Constants, NoCheckpointIsNone DEF TypeOK, OwnCheckpoint, BatchOfAgent, BeginFails,
     StorageFailure, Active, Fault, disk, writes, watchdog, calls
<1>4. ASSUME AgentMissing PROVE BatchOfAgent'
  BY <1>4, Constants, NoCheckpointIsNone DEF TypeOK, OwnCheckpoint, BatchOfAgent, AgentMissing,
     disk, writes, watchdog, calls
<1>5. ASSUME AgentEnds PROVE BatchOfAgent'
  BY <1>5, Constants, NoCheckpointIsNone DEF TypeOK, OwnCheckpoint, BatchOfAgent, AgentEnds, Busy,
     Discarded, Writes, disk, watchdog
<1>6. ASSUME SaveFails PROVE BatchOfAgent'
  BY <1>6, Constants, NoCheckpointIsNone DEF TypeOK, OwnCheckpoint, BatchOfAgent, SaveFails,
     StorageFailure, Active, Fault, disk, writes, watchdog, calls
<1>7. ASSUME Decide PROVE BatchOfAgent'
  BY <1>7, Constants, NoCheckpointIsNone DEF TypeOK, OwnCheckpoint, BatchOfAgent, Decide, disk,
     session, writes, calls
<1>8. ASSUME Begun PROVE BatchOfAgent'
  BY <1>8, Constants, NoCheckpointIsNone DEF TypeOK, OwnCheckpoint, BatchOfAgent, Begun,
     NewCheckpoint, writes, watchdog, calls
<1>9. ASSUME AgentStarts PROVE BatchOfAgent'
  BY <1>9, Constants, NoCheckpointIsNone DEF TypeOK, OwnCheckpoint, BatchOfAgent, AgentStarts,
     disk, writes, watchdog, calls
<1>10. ASSUME AgentStops PROVE BatchOfAgent'
  BY <1>10, Constants, NoCheckpointIsNone DEF TypeOK, OwnCheckpoint, BatchOfAgent, AgentStops,
     Writes, disk, watchdog, calls
<1>11. ASSUME Settle PROVE BatchOfAgent'
  BY <1>11, Constants, NoCheckpointIsNone DEF TypeOK, OwnCheckpoint, BatchOfAgent, Settle, disk,
     writes, watchdog, calls
<1>12. ASSUME Flush PROVE BatchOfAgent'
  BY <1>12, Constants, NoCheckpointIsNone DEF TypeOK, OwnCheckpoint, BatchOfAgent, Flush, disk,
     writes, watchdog, calls
<1>13. ASSUME Save PROVE BatchOfAgent'
  BY <1>13, Constants, NoCheckpointIsNone DEF TypeOK, OwnCheckpoint, BatchOfAgent, Save,
     Committed, writes, watchdog, calls
<1>14. ASSUME Close PROVE BatchOfAgent'
  BY <1>14, Constants, NoCheckpointIsNone DEF TypeOK, OwnCheckpoint, BatchOfAgent, Close, disk,
     writes, calls
<1>15. ASSUME Abort PROVE BatchOfAgent'
  BY <1>15, Constants, NoCheckpointIsNone DEF TypeOK, OwnCheckpoint, BatchOfAgent, Abort, disk,
     writes, calls
<1>16. ASSUME WatchdogStops PROVE BatchOfAgent'
  BY <1>16, Constants, NoCheckpointIsNone DEF TypeOK, OwnCheckpoint, BatchOfAgent, WatchdogStops,
     disk, writes, watchdog, calls
<1>17. ASSUME Rescue PROVE BatchOfAgent'
  BY <1>17, Constants, NoCheckpointIsNone DEF TypeOK, OwnCheckpoint, BatchOfAgent, Rescue, Busy,
     disk, writes, watchdog, calls
<1>18. ASSUME Crash PROVE BatchOfAgent'
  BY <1>18, Constants, NoCheckpointIsNone DEF TypeOK, OwnCheckpoint, BatchOfAgent, Crash, Fault,
     disk
<1>19. ASSUME NEW t \in Tools, Use(t) PROVE BatchOfAgent'
  BY <1>19, Constants, NoCheckpointIsNone DEF TypeOK, OwnCheckpoint, BatchOfAgent, Use, Queue,
     disk, session, watchdog
<1>20. ASSUME NEW t \in Tools, Approve(t) PROVE BatchOfAgent'
  BY <1>20, Constants, NoCheckpointIsNone DEF TypeOK, OwnCheckpoint, BatchOfAgent, Approve,
     Active, disk, session, writes, watchdog
<1>21. ASSUME NEW t \in Tools, RecordIntent(t) PROVE BatchOfAgent'
  BY <1>21, Constants, NoCheckpointIsNone DEF TypeOK, OwnCheckpoint, BatchOfAgent, RecordIntent,
     Recorded, session, writes, watchdog
<1>22. ASSUME NEW t \in Tools, IntentFails(t) PROVE BatchOfAgent'
  BY <1>22, Constants, NoCheckpointIsNone DEF TypeOK, OwnCheckpoint, BatchOfAgent, IntentFails,
     StorageFailure, Active, Fault, disk, writes, watchdog
<1>23. ASSUME NEW t \in Tools, Dispatch(t) PROVE BatchOfAgent'
  BY <1>23, Constants, NoCheckpointIsNone DEF TypeOK, OwnCheckpoint, BatchOfAgent, Dispatch,
     Permitted, disk, session, writes, watchdog
<1>24. ASSUME NEW t \in Tools, Withhold(t) PROVE BatchOfAgent'
  BY <1>24, Constants, NoCheckpointIsNone DEF TypeOK, OwnCheckpoint, BatchOfAgent, Withhold,
     StorageFailure, Active, Permitted, disk, writes, watchdog
<1>25. ASSUME NEW t \in Tools, Report(t) PROVE BatchOfAgent'
  BY <1>25, Constants, NoCheckpointIsNone DEF TypeOK, OwnCheckpoint, BatchOfAgent, Report, Queue,
     disk, session, watchdog
<1>26. ASSUME NEW w \in pending, Write(w) PROVE BatchOfAgent'
  BY <1>26, Constants, NoCheckpointIsNone DEF TypeOK, OwnCheckpoint, BatchOfAgent, Write,
     NextWrite, Recorded, session, watchdog, calls
<1>27. ASSUME NEW w \in pending, WriteFails(w) PROVE BatchOfAgent'
  BY <1>27, Constants, NoCheckpointIsNone DEF TypeOK, OwnCheckpoint, BatchOfAgent, WriteFails,
     NextWrite, StorageFailure, Active, Fault, disk, watchdog, calls
<1>. QED
  BY <1>1, <1>2, <1>3, <1>4, <1>5, <1>6, <1>7, <1>8, <1>9, <1>10, <1>11, <1>12, <1>13, <1>14,
     <1>15, <1>16, <1>17, <1>18, <1>19, <1>20, <1>21, <1>22, <1>23, <1>24, <1>25, <1>26, <1>27 DEF
     Next, Ending

\* A step keeps the status in accord with the run.
LEMMA StatusNext ==
  ASSUME TypeOK, StatusOfRun, Next
  PROVE  StatusOfRun'
<1>1. ASSUME Prompt PROVE StatusOfRun'
  BY <1>1, Constants, NoCheckpointIsNone DEF TypeOK, StatusOfRun, Prompt, StartRun, disk, writes,
     calls
<1>2. ASSUME Resume PROVE StatusOfRun'
  BY <1>2, Constants, NoCheckpointIsNone DEF TypeOK, StatusOfRun, Resume, StartRun, disk, writes,
     calls
<1>3. ASSUME BeginFails PROVE StatusOfRun'
  BY <1>3, Constants, NoCheckpointIsNone DEF TypeOK, StatusOfRun, BeginFails, StorageFailure,
     Active, Fault, disk, writes, watchdog, calls
<1>4. ASSUME AgentMissing PROVE StatusOfRun'
  BY <1>4, Constants, NoCheckpointIsNone DEF TypeOK, StatusOfRun, AgentMissing, disk, writes,
     watchdog, calls
<1>5. ASSUME AgentEnds PROVE StatusOfRun'
  BY <1>5, Constants, NoCheckpointIsNone DEF TypeOK, StatusOfRun, AgentEnds, Busy, Discarded,
     Writes, disk, watchdog
<1>6. ASSUME SaveFails PROVE StatusOfRun'
  BY <1>6, Constants, NoCheckpointIsNone DEF TypeOK, StatusOfRun, SaveFails, StorageFailure,
     Active, Fault, disk, writes, watchdog, calls
<1>7. ASSUME Decide PROVE StatusOfRun'
  BY <1>7, Constants, NoCheckpointIsNone DEF TypeOK, StatusOfRun, Decide, disk, session, writes,
     calls
<1>8. ASSUME Begun PROVE StatusOfRun'
  BY <1>8, Constants, NoCheckpointIsNone DEF TypeOK, StatusOfRun, Begun, NewCheckpoint, writes,
     watchdog, calls
<1>9. ASSUME AgentStarts PROVE StatusOfRun'
  BY <1>9, Constants, NoCheckpointIsNone DEF TypeOK, StatusOfRun, AgentStarts, disk, writes,
     watchdog, calls
<1>10. ASSUME AgentStops PROVE StatusOfRun'
  BY <1>10, Constants, NoCheckpointIsNone DEF TypeOK, StatusOfRun, AgentStops, Writes, disk,
     watchdog, calls
<1>11. ASSUME Settle PROVE StatusOfRun'
  BY <1>11, Constants, NoCheckpointIsNone DEF TypeOK, StatusOfRun, Settle, disk, writes, watchdog,
     calls
<1>12. ASSUME Flush PROVE StatusOfRun'
  BY <1>12, Constants, NoCheckpointIsNone DEF TypeOK, StatusOfRun, Flush, disk, writes, watchdog,
     calls
<1>13. ASSUME Save PROVE StatusOfRun'
  BY <1>13, Constants, NoCheckpointIsNone DEF TypeOK, StatusOfRun, Save, Committed, writes,
     watchdog, calls
<1>14. ASSUME Close PROVE StatusOfRun'
  BY <1>14, Constants, NoCheckpointIsNone DEF TypeOK, StatusOfRun, Close, disk, writes, calls
<1>15. ASSUME Abort PROVE StatusOfRun'
  BY <1>15, Constants, NoCheckpointIsNone DEF TypeOK, StatusOfRun, Abort, disk, writes, calls
<1>16. ASSUME WatchdogStops PROVE StatusOfRun'
  BY <1>16, Constants, NoCheckpointIsNone DEF TypeOK, StatusOfRun, WatchdogStops, disk, writes,
     watchdog, calls
<1>17. ASSUME Rescue PROVE StatusOfRun'
  BY <1>17, Constants, NoCheckpointIsNone DEF TypeOK, StatusOfRun, Rescue, Busy, disk, writes,
     watchdog, calls
<1>18. ASSUME Crash PROVE StatusOfRun'
  BY <1>18, Constants, NoCheckpointIsNone DEF TypeOK, StatusOfRun, Crash, Fault, disk
<1>19. ASSUME NEW t \in Tools, Use(t) PROVE StatusOfRun'
  BY <1>19, Constants, NoCheckpointIsNone DEF TypeOK, StatusOfRun, Use, Queue, disk, session,
     watchdog
<1>20. ASSUME NEW t \in Tools, Approve(t) PROVE StatusOfRun'
  BY <1>20, Constants, NoCheckpointIsNone DEF TypeOK, StatusOfRun, Approve, Active, disk, session,
     writes, watchdog
<1>21. ASSUME NEW t \in Tools, RecordIntent(t) PROVE StatusOfRun'
  BY <1>21, Constants, NoCheckpointIsNone DEF TypeOK, StatusOfRun, RecordIntent, Recorded,
     session, writes, watchdog
<1>22. ASSUME NEW t \in Tools, IntentFails(t) PROVE StatusOfRun'
  BY <1>22, Constants, NoCheckpointIsNone DEF TypeOK, StatusOfRun, IntentFails, StorageFailure,
     Active, Fault, disk, writes, watchdog
<1>23. ASSUME NEW t \in Tools, Dispatch(t) PROVE StatusOfRun'
  BY <1>23, Constants, NoCheckpointIsNone DEF TypeOK, StatusOfRun, Dispatch, Permitted, disk,
     session, writes, watchdog
<1>24. ASSUME NEW t \in Tools, Withhold(t) PROVE StatusOfRun'
  BY <1>24, Constants, NoCheckpointIsNone DEF TypeOK, StatusOfRun, Withhold, StorageFailure,
     Active, Permitted, disk, writes, watchdog
<1>25. ASSUME NEW t \in Tools, Report(t) PROVE StatusOfRun'
  BY <1>25, Constants, NoCheckpointIsNone DEF TypeOK, StatusOfRun, Report, Queue, disk, session,
     watchdog
<1>26. ASSUME NEW w \in pending, Write(w) PROVE StatusOfRun'
  BY <1>26, Constants, NoCheckpointIsNone DEF TypeOK, StatusOfRun, Write, NextWrite, Recorded,
     session, watchdog, calls
<1>27. ASSUME NEW w \in pending, WriteFails(w) PROVE StatusOfRun'
  BY <1>27, Constants, NoCheckpointIsNone DEF TypeOK, StatusOfRun, WriteFails, NextWrite,
     StorageFailure, Active, Fault, disk, watchdog, calls
<1>. QED
  BY <1>1, <1>2, <1>3, <1>4, <1>5, <1>6, <1>7, <1>8, <1>9, <1>10, <1>11, <1>12, <1>13, <1>14,
     <1>15, <1>16, <1>17, <1>18, <1>19, <1>20, <1>21, <1>22, <1>23, <1>24, <1>25, <1>26, <1>27 DEF
     Next, Ending

\* A step leaves nothing under way in a run that succeeds.
LEMMA CallsNext ==
  ASSUME TypeOK, OwnCheckpoint, StatusOfRun, CallsAreOver, Next
  PROVE  CallsAreOver'
<1>1. ASSUME Prompt PROVE CallsAreOver'
  BY <1>1, Constants, NoCheckpointIsNone DEF TypeOK, OwnCheckpoint, StatusOfRun, CallsAreOver,
     Succeeding, Prompt, StartRun, disk, writes, calls
<1>2. ASSUME Resume PROVE CallsAreOver'
  BY <1>2, Constants, NoCheckpointIsNone DEF TypeOK, OwnCheckpoint, StatusOfRun, CallsAreOver,
     Succeeding, Resume, StartRun, disk, writes, calls
<1>3. ASSUME BeginFails PROVE CallsAreOver'
  BY <1>3, Constants, NoCheckpointIsNone DEF TypeOK, OwnCheckpoint, StatusOfRun, CallsAreOver,
     Succeeding, BeginFails, StorageFailure, Active, Fault, disk, writes, watchdog, calls
<1>4. ASSUME AgentMissing PROVE CallsAreOver'
  BY <1>4, Constants, NoCheckpointIsNone DEF TypeOK, OwnCheckpoint, StatusOfRun, CallsAreOver,
     Succeeding, AgentMissing, disk, writes, watchdog, calls
<1>5. ASSUME AgentEnds PROVE CallsAreOver'
  BY <1>5, Constants, NoCheckpointIsNone DEF TypeOK, OwnCheckpoint, StatusOfRun, CallsAreOver,
     Succeeding, AgentEnds, Busy, Discarded, Writes, disk, watchdog
<1>6. ASSUME SaveFails PROVE CallsAreOver'
  BY <1>6, Constants, NoCheckpointIsNone DEF TypeOK, OwnCheckpoint, StatusOfRun, CallsAreOver,
     Succeeding, SaveFails, StorageFailure, Active, Fault, disk, writes, watchdog, calls
<1>7. ASSUME Decide PROVE CallsAreOver'
  BY <1>7, Constants, NoCheckpointIsNone DEF TypeOK, OwnCheckpoint, StatusOfRun, CallsAreOver,
     Succeeding, Decide, disk, session, writes, calls
<1>8. ASSUME Begun PROVE CallsAreOver'
  BY <1>8, Constants, NoCheckpointIsNone DEF TypeOK, OwnCheckpoint, StatusOfRun, CallsAreOver,
     Succeeding, Begun, NewCheckpoint, writes, watchdog, calls
<1>9. ASSUME AgentStarts PROVE CallsAreOver'
  BY <1>9, Constants, NoCheckpointIsNone DEF TypeOK, OwnCheckpoint, StatusOfRun, CallsAreOver,
     Succeeding, AgentStarts, disk, writes, watchdog, calls
<1>10. ASSUME AgentStops PROVE CallsAreOver'
  BY <1>10, Constants, NoCheckpointIsNone DEF TypeOK, OwnCheckpoint, StatusOfRun, CallsAreOver,
     Succeeding, AgentStops, Writes, disk, watchdog, calls
<1>11. ASSUME Settle PROVE CallsAreOver'
  BY <1>11, Constants, NoCheckpointIsNone DEF TypeOK, OwnCheckpoint, StatusOfRun, CallsAreOver,
     Succeeding, Settle, disk, writes, watchdog, calls
<1>12. ASSUME Flush PROVE CallsAreOver'
  BY <1>12, Constants, NoCheckpointIsNone DEF TypeOK, OwnCheckpoint, StatusOfRun, CallsAreOver,
     Succeeding, Flush, disk, writes, watchdog, calls
<1>13. ASSUME Save PROVE CallsAreOver'
  BY <1>13, Constants, NoCheckpointIsNone DEF TypeOK, OwnCheckpoint, StatusOfRun, CallsAreOver,
     Succeeding, Save, Committed, writes, watchdog, calls
<1>14. ASSUME Close PROVE CallsAreOver'
  BY <1>14, Constants, NoCheckpointIsNone DEF TypeOK, OwnCheckpoint, StatusOfRun, CallsAreOver,
     Succeeding, Close, disk, writes, calls
<1>15. ASSUME Abort PROVE CallsAreOver'
  BY <1>15, Constants, NoCheckpointIsNone DEF TypeOK, OwnCheckpoint, StatusOfRun, CallsAreOver,
     Succeeding, Abort, disk, writes, calls
<1>16. ASSUME WatchdogStops PROVE CallsAreOver'
  BY <1>16, Constants, NoCheckpointIsNone DEF TypeOK, OwnCheckpoint, StatusOfRun, CallsAreOver,
     Succeeding, WatchdogStops, disk, writes, watchdog, calls
<1>17. ASSUME Rescue PROVE CallsAreOver'
  BY <1>17, Constants, NoCheckpointIsNone DEF TypeOK, OwnCheckpoint, StatusOfRun, CallsAreOver,
     Succeeding, Rescue, Busy, disk, writes, watchdog, calls
<1>18. ASSUME Crash PROVE CallsAreOver'
  BY <1>18, Constants, NoCheckpointIsNone DEF TypeOK, OwnCheckpoint, StatusOfRun, CallsAreOver,
     Succeeding, Crash, Fault, disk
<1>19. ASSUME NEW t \in Tools, Use(t) PROVE CallsAreOver'
  BY <1>19, Constants, NoCheckpointIsNone DEF TypeOK, OwnCheckpoint, StatusOfRun, CallsAreOver,
     Succeeding, Use, Queue, disk, session, watchdog
<1>20. ASSUME NEW t \in Tools, Approve(t) PROVE CallsAreOver'
  BY <1>20, Constants, NoCheckpointIsNone DEF TypeOK, OwnCheckpoint, StatusOfRun, CallsAreOver,
     Succeeding, Approve, Active, disk, session, writes, watchdog
<1>21. ASSUME NEW t \in Tools, RecordIntent(t) PROVE CallsAreOver'
  BY <1>21, Constants, NoCheckpointIsNone DEF TypeOK, OwnCheckpoint, StatusOfRun, CallsAreOver,
     Succeeding, RecordIntent, Recorded, session, writes, watchdog
<1>22. ASSUME NEW t \in Tools, IntentFails(t) PROVE CallsAreOver'
  BY <1>22, Constants, NoCheckpointIsNone DEF TypeOK, OwnCheckpoint, StatusOfRun, CallsAreOver,
     Succeeding, IntentFails, StorageFailure, Active, Fault, disk, writes, watchdog
<1>23. ASSUME NEW t \in Tools, Dispatch(t) PROVE CallsAreOver'
  BY <1>23, Constants, NoCheckpointIsNone DEF TypeOK, OwnCheckpoint, StatusOfRun, CallsAreOver,
     Succeeding, Dispatch, Permitted, disk, session, writes, watchdog
<1>24. ASSUME NEW t \in Tools, Withhold(t) PROVE CallsAreOver'
  BY <1>24, Constants, NoCheckpointIsNone DEF TypeOK, OwnCheckpoint, StatusOfRun, CallsAreOver,
     Succeeding, Withhold, StorageFailure, Active, Permitted, disk, writes, watchdog
<1>25. ASSUME NEW t \in Tools, Report(t) PROVE CallsAreOver'
  BY <1>25, Constants, NoCheckpointIsNone DEF TypeOK, OwnCheckpoint, StatusOfRun, CallsAreOver,
     Succeeding, Report, Queue, disk, session, watchdog
<1>26. ASSUME NEW w \in pending, Write(w) PROVE CallsAreOver'
  BY <1>26, Constants, NoCheckpointIsNone DEF TypeOK, OwnCheckpoint, StatusOfRun, CallsAreOver,
     Succeeding, Write, NextWrite, Recorded, session, watchdog, calls
<1>27. ASSUME NEW w \in pending, WriteFails(w) PROVE CallsAreOver'
  BY <1>27, Constants, NoCheckpointIsNone DEF TypeOK, OwnCheckpoint, StatusOfRun, CallsAreOver,
     Succeeding, WriteFails, NextWrite, StorageFailure, Active, Fault, disk, watchdog, calls
<1>. QED
  BY <1>1, <1>2, <1>3, <1>4, <1>5, <1>6, <1>7, <1>8, <1>9, <1>10, <1>11, <1>12, <1>13, <1>14,
     <1>15, <1>16, <1>17, <1>18, <1>19, <1>20, <1>21, <1>22, <1>23, <1>24, <1>25, <1>26, <1>27 DEF
     Next, Ending

\* A step leaves no write unawaited in a run that succeeds.
LEMMA AwaitNext ==
  ASSUME TypeOK, OwnCheckpoint, StatusOfRun, CallsAreOver, ResultWasReported, WritesAreAwaited,
     Next
  PROVE  WritesAreAwaited'
<1>1. ASSUME Prompt PROVE WritesAreAwaited'
  BY <1>1, Constants, NoCheckpointIsNone DEF TypeOK, OwnCheckpoint, StatusOfRun, CallsAreOver,
     ResultWasReported, WritesAreAwaited, Succeeding, Prompt, StartRun, disk, writes, calls
<1>2. ASSUME Resume PROVE WritesAreAwaited'
  BY <1>2, Constants, NoCheckpointIsNone DEF TypeOK, OwnCheckpoint, StatusOfRun, CallsAreOver,
     ResultWasReported, WritesAreAwaited, Succeeding, Resume, StartRun, disk, writes, calls
<1>3. ASSUME BeginFails PROVE WritesAreAwaited'
  BY <1>3, Constants, NoCheckpointIsNone DEF TypeOK, OwnCheckpoint, StatusOfRun, CallsAreOver,
     ResultWasReported, WritesAreAwaited, Succeeding, BeginFails, StorageFailure, Active, Fault,
     disk, writes, watchdog, calls
<1>4. ASSUME AgentMissing PROVE WritesAreAwaited'
  BY <1>4, Constants, NoCheckpointIsNone DEF TypeOK, OwnCheckpoint, StatusOfRun, CallsAreOver,
     ResultWasReported, WritesAreAwaited, Succeeding, AgentMissing, disk, writes, watchdog, calls
<1>5. ASSUME AgentEnds PROVE WritesAreAwaited'
  BY <1>5, Constants, NoCheckpointIsNone DEF TypeOK, OwnCheckpoint, StatusOfRun, CallsAreOver,
     ResultWasReported, WritesAreAwaited, Succeeding, AgentEnds, Busy, Discarded, Writes, disk,
     watchdog
<1>6. ASSUME SaveFails PROVE WritesAreAwaited'
  BY <1>6, Constants, NoCheckpointIsNone DEF TypeOK, OwnCheckpoint, StatusOfRun, CallsAreOver,
     ResultWasReported, WritesAreAwaited, Succeeding, SaveFails, StorageFailure, Active, Fault,
     disk, writes, watchdog, calls
<1>7. ASSUME Decide PROVE WritesAreAwaited'
  BY <1>7, Constants, NoCheckpointIsNone DEF TypeOK, OwnCheckpoint, StatusOfRun, CallsAreOver,
     ResultWasReported, WritesAreAwaited, Succeeding, Decide, disk, session, writes, calls
<1>8. ASSUME Begun PROVE WritesAreAwaited'
  BY <1>8, Constants, NoCheckpointIsNone DEF TypeOK, OwnCheckpoint, StatusOfRun, CallsAreOver,
     ResultWasReported, WritesAreAwaited, Succeeding, Begun, NewCheckpoint, writes, watchdog,
     calls
<1>9. ASSUME AgentStarts PROVE WritesAreAwaited'
  BY <1>9, Constants, NoCheckpointIsNone DEF TypeOK, OwnCheckpoint, StatusOfRun, CallsAreOver,
     ResultWasReported, WritesAreAwaited, Succeeding, AgentStarts, disk, writes, watchdog, calls
<1>10. ASSUME AgentStops PROVE WritesAreAwaited'
  BY <1>10, Constants, NoCheckpointIsNone DEF TypeOK, OwnCheckpoint, StatusOfRun, CallsAreOver,
     ResultWasReported, WritesAreAwaited, Succeeding, AgentStops, Writes, disk, watchdog, calls
<1>11. ASSUME Settle PROVE WritesAreAwaited'
  BY <1>11, Constants, NoCheckpointIsNone DEF TypeOK, OwnCheckpoint, StatusOfRun, CallsAreOver,
     ResultWasReported, WritesAreAwaited, Succeeding, Settle, disk, writes, watchdog, calls
<1>12. ASSUME Flush PROVE WritesAreAwaited'
  BY <1>12, Constants, NoCheckpointIsNone DEF TypeOK, OwnCheckpoint, StatusOfRun, CallsAreOver,
     ResultWasReported, WritesAreAwaited, Succeeding, Flush, disk, writes, watchdog, calls
<1>13. ASSUME Save PROVE WritesAreAwaited'
  BY <1>13, Constants, NoCheckpointIsNone DEF TypeOK, OwnCheckpoint, StatusOfRun, CallsAreOver,
     ResultWasReported, WritesAreAwaited, Succeeding, Save, Committed, writes, watchdog, calls
<1>14. ASSUME Close PROVE WritesAreAwaited'
  BY <1>14, Constants, NoCheckpointIsNone DEF TypeOK, OwnCheckpoint, StatusOfRun, CallsAreOver,
     ResultWasReported, WritesAreAwaited, Succeeding, Close, disk, writes, calls
<1>15. ASSUME Abort PROVE WritesAreAwaited'
  BY <1>15, Constants, NoCheckpointIsNone DEF TypeOK, OwnCheckpoint, StatusOfRun, CallsAreOver,
     ResultWasReported, WritesAreAwaited, Succeeding, Abort, disk, writes, calls
<1>16. ASSUME WatchdogStops PROVE WritesAreAwaited'
  BY <1>16, Constants, NoCheckpointIsNone DEF TypeOK, OwnCheckpoint, StatusOfRun, CallsAreOver,
     ResultWasReported, WritesAreAwaited, Succeeding, WatchdogStops, disk, writes, watchdog, calls
<1>17. ASSUME Rescue PROVE WritesAreAwaited'
  BY <1>17, Constants, NoCheckpointIsNone DEF TypeOK, OwnCheckpoint, StatusOfRun, CallsAreOver,
     ResultWasReported, WritesAreAwaited, Succeeding, Rescue, Busy, disk, writes, watchdog, calls
<1>18. ASSUME Crash PROVE WritesAreAwaited'
  BY <1>18, Constants, NoCheckpointIsNone DEF TypeOK, OwnCheckpoint, StatusOfRun, CallsAreOver,
     ResultWasReported, WritesAreAwaited, Succeeding, Crash, Fault, disk
<1>19. ASSUME NEW t \in Tools, Use(t) PROVE WritesAreAwaited'
  BY <1>19, Constants, NoCheckpointIsNone DEF TypeOK, OwnCheckpoint, StatusOfRun, CallsAreOver,
     ResultWasReported, WritesAreAwaited, Succeeding, Use, Queue, disk, session, watchdog
<1>20. ASSUME NEW t \in Tools, Approve(t) PROVE WritesAreAwaited'
  BY <1>20, Constants, NoCheckpointIsNone DEF TypeOK, OwnCheckpoint, StatusOfRun, CallsAreOver,
     ResultWasReported, WritesAreAwaited, Succeeding, Approve, Active, disk, session, writes,
     watchdog
<1>21. ASSUME NEW t \in Tools, RecordIntent(t) PROVE WritesAreAwaited'
  BY <1>21, Constants, NoCheckpointIsNone DEF TypeOK, OwnCheckpoint, StatusOfRun, CallsAreOver,
     ResultWasReported, WritesAreAwaited, Succeeding, RecordIntent, Recorded, session, writes,
     watchdog
<1>22. ASSUME NEW t \in Tools, IntentFails(t) PROVE WritesAreAwaited'
  BY <1>22, Constants, NoCheckpointIsNone DEF TypeOK, OwnCheckpoint, StatusOfRun, CallsAreOver,
     ResultWasReported, WritesAreAwaited, Succeeding, IntentFails, StorageFailure, Active, Fault,
     disk, writes, watchdog
<1>23. ASSUME NEW t \in Tools, Dispatch(t) PROVE WritesAreAwaited'
  BY <1>23, Constants, NoCheckpointIsNone DEF TypeOK, OwnCheckpoint, StatusOfRun, CallsAreOver,
     ResultWasReported, WritesAreAwaited, Succeeding, Dispatch, Permitted, disk, session, writes,
     watchdog
<1>24. ASSUME NEW t \in Tools, Withhold(t) PROVE WritesAreAwaited'
  BY <1>24, Constants, NoCheckpointIsNone DEF TypeOK, OwnCheckpoint, StatusOfRun, CallsAreOver,
     ResultWasReported, WritesAreAwaited, Succeeding, Withhold, StorageFailure, Active, Permitted,
     disk, writes, watchdog
<1>25. ASSUME NEW t \in Tools, Report(t) PROVE WritesAreAwaited'
  BY <1>25, Constants, NoCheckpointIsNone DEF TypeOK, OwnCheckpoint, StatusOfRun, CallsAreOver,
     ResultWasReported, WritesAreAwaited, Succeeding, Report, Queue, disk, session, watchdog
<1>26. ASSUME NEW w \in pending, Write(w) PROVE WritesAreAwaited'
  BY <1>26, Constants, NoCheckpointIsNone DEF TypeOK, OwnCheckpoint, StatusOfRun, CallsAreOver,
     ResultWasReported, WritesAreAwaited, Succeeding, Write, NextWrite, Recorded, session,
     watchdog, calls
<1>27. ASSUME NEW w \in pending, WriteFails(w) PROVE WritesAreAwaited'
  BY <1>27, Constants, NoCheckpointIsNone DEF TypeOK, OwnCheckpoint, StatusOfRun, CallsAreOver,
     ResultWasReported, WritesAreAwaited, Succeeding, WriteFails, NextWrite, StorageFailure,
     Active, Fault, disk, watchdog, calls
<1>. QED
  BY <1>1, <1>2, <1>3, <1>4, <1>5, <1>6, <1>7, <1>8, <1>9, <1>10, <1>11, <1>12, <1>13, <1>14,
     <1>15, <1>16, <1>17, <1>18, <1>19, <1>20, <1>21, <1>22, <1>23, <1>24, <1>25, <1>26, <1>27 DEF
     Next, Ending

\* A step loses no reported result of the running run.
LEMMA KeptNext ==
  ASSUME TypeOK, OwnCheckpoint, CallOrder, StatusOfRun, ResultWasReported, ResultKept, Next
  PROVE  ResultKept'
<1>1. ASSUME Prompt PROVE ResultKept'
  BY <1>1, Constants, NoCheckpointIsNone DEF TypeOK, OwnCheckpoint, CallOrder, StatusOfRun,
     ResultWasReported, ResultKept, Prompt, StartRun, disk, writes, calls
<1>2. ASSUME Resume PROVE ResultKept'
  BY <1>2, Constants, NoCheckpointIsNone DEF TypeOK, OwnCheckpoint, CallOrder, StatusOfRun,
     ResultWasReported, ResultKept, Resume, StartRun, disk, writes, calls
<1>3. ASSUME BeginFails PROVE ResultKept'
  BY <1>3, Constants, NoCheckpointIsNone DEF TypeOK, OwnCheckpoint, CallOrder, StatusOfRun,
     ResultWasReported, ResultKept, BeginFails, StorageFailure, Active, Fault, disk, writes,
     watchdog, calls
<1>4. ASSUME AgentMissing PROVE ResultKept'
  BY <1>4, Constants, NoCheckpointIsNone DEF TypeOK, OwnCheckpoint, CallOrder, StatusOfRun,
     ResultWasReported, ResultKept, AgentMissing, disk, writes, watchdog, calls
<1>5. ASSUME AgentEnds PROVE ResultKept'
  BY <1>5, Constants, NoCheckpointIsNone DEF TypeOK, OwnCheckpoint, CallOrder, StatusOfRun,
     ResultWasReported, ResultKept, AgentEnds, Busy, Discarded, Writes, disk, watchdog
<1>6. ASSUME SaveFails PROVE ResultKept'
  BY <1>6, Constants, NoCheckpointIsNone DEF TypeOK, OwnCheckpoint, CallOrder, StatusOfRun,
     ResultWasReported, ResultKept, SaveFails, StorageFailure, Active, Fault, disk, writes,
     watchdog, calls
<1>7. ASSUME Decide PROVE ResultKept'
  BY <1>7, Constants, NoCheckpointIsNone DEF TypeOK, OwnCheckpoint, CallOrder, StatusOfRun,
     ResultWasReported, ResultKept, Decide, disk, session, writes, calls
<1>8. ASSUME Begun PROVE ResultKept'
  <2>1. NewCheckpoint(run) \in Checkpoint
    BY <1>8, NewCheckpointType DEF TypeOK, OwnCheckpoint, Runs, Begun
  <2>. QED
    BY <1>8, <2>1, NoCheckpointIsNone DEF TypeOK, OwnCheckpoint, CallOrder, StatusOfRun,
       ResultWasReported, ResultKept, Begun, NewCheckpoint, writes, watchdog, calls
<1>9. ASSUME AgentStarts PROVE ResultKept'
  BY <1>9, Constants, NoCheckpointIsNone DEF TypeOK, OwnCheckpoint, CallOrder, StatusOfRun,
     ResultWasReported, ResultKept, AgentStarts, disk, writes, watchdog, calls
<1>10. ASSUME AgentStops PROVE ResultKept'
  BY <1>10, Constants, NoCheckpointIsNone DEF TypeOK, OwnCheckpoint, CallOrder, StatusOfRun,
     ResultWasReported, ResultKept, AgentStops, Writes, disk, watchdog, calls
<1>11. ASSUME Settle PROVE ResultKept'
  BY <1>11, Constants, NoCheckpointIsNone DEF TypeOK, OwnCheckpoint, CallOrder, StatusOfRun,
     ResultWasReported, ResultKept, Settle, disk, writes, watchdog, calls
<1>12. ASSUME Flush PROVE ResultKept'
  BY <1>12, Constants, NoCheckpointIsNone DEF TypeOK, OwnCheckpoint, CallOrder, StatusOfRun,
     ResultWasReported, ResultKept, Flush, disk, writes, watchdog, calls
<1>13. ASSUME Save PROVE ResultKept'
  <2>1. cp \in Checkpoint
    BY <1>13 DEF TypeOK, OwnCheckpoint, Save
  <2>. QED
    BY <1>13, <2>1, CommittedEffect, SettledEffect, NoCheckpointIsNone DEF TypeOK, OwnCheckpoint,
       CallOrder, StatusOfRun, ResultWasReported, ResultKept, Save, writes, watchdog, calls
<1>14. ASSUME Close PROVE ResultKept'
  BY <1>14, Constants, NoCheckpointIsNone DEF TypeOK, OwnCheckpoint, CallOrder, StatusOfRun,
     ResultWasReported, ResultKept, Close, disk, writes, calls
<1>15. ASSUME Abort PROVE ResultKept'
  BY <1>15, Constants, NoCheckpointIsNone DEF TypeOK, OwnCheckpoint, CallOrder, StatusOfRun,
     ResultWasReported, ResultKept, Abort, disk, writes, calls
<1>16. ASSUME WatchdogStops PROVE ResultKept'
  BY <1>16, Constants, NoCheckpointIsNone DEF TypeOK, OwnCheckpoint, CallOrder, StatusOfRun,
     ResultWasReported, ResultKept, WatchdogStops, disk, writes, watchdog, calls
<1>17. ASSUME Rescue PROVE ResultKept'
  BY <1>17, Constants, NoCheckpointIsNone DEF TypeOK, OwnCheckpoint, CallOrder, StatusOfRun,
     ResultWasReported, ResultKept, Rescue, Busy, disk, writes, watchdog, calls
<1>18. ASSUME Crash PROVE ResultKept'
  BY <1>18, Constants, NoCheckpointIsNone DEF TypeOK, OwnCheckpoint, CallOrder, StatusOfRun,
     ResultWasReported, ResultKept, Crash, Fault, disk
<1>19. ASSUME NEW t \in Tools, Use(t) PROVE ResultKept'
  BY <1>19, Constants, NoCheckpointIsNone DEF TypeOK, OwnCheckpoint, CallOrder, StatusOfRun,
     ResultWasReported, ResultKept, Use, Queue, disk, session, watchdog
<1>20. ASSUME NEW t \in Tools, Approve(t) PROVE ResultKept'
  BY <1>20, Constants, NoCheckpointIsNone DEF TypeOK, OwnCheckpoint, CallOrder, StatusOfRun,
     ResultWasReported, ResultKept, Approve, Active, disk, session, writes, watchdog
<1>21. ASSUME NEW t \in Tools, RecordIntent(t) PROVE ResultKept'
  <2>1. cp \in Checkpoint
    BY <1>21 DEF TypeOK, OwnCheckpoint, RecordIntent
  <2>. QED
    BY <1>21, <2>1, RecordedEffect, NoCheckpointIsNone DEF TypeOK, OwnCheckpoint, CallOrder,
       StatusOfRun, ResultWasReported, ResultKept, RecordIntent, session, writes, watchdog
<1>22. ASSUME NEW t \in Tools, IntentFails(t) PROVE ResultKept'
  BY <1>22, Constants, NoCheckpointIsNone DEF TypeOK, OwnCheckpoint, CallOrder, StatusOfRun,
     ResultWasReported, ResultKept, IntentFails, StorageFailure, Active, Fault, disk, writes,
     watchdog
<1>23. ASSUME NEW t \in Tools, Dispatch(t) PROVE ResultKept'
  BY <1>23, Constants, NoCheckpointIsNone DEF TypeOK, OwnCheckpoint, CallOrder, StatusOfRun,
     ResultWasReported, ResultKept, Dispatch, Permitted, disk, session, writes, watchdog
<1>24. ASSUME NEW t \in Tools, Withhold(t) PROVE ResultKept'
  BY <1>24, Constants, NoCheckpointIsNone DEF TypeOK, OwnCheckpoint, CallOrder, StatusOfRun,
     ResultWasReported, ResultKept, Withhold, StorageFailure, Active, Permitted, disk, writes,
     watchdog
<1>25. ASSUME NEW t \in Tools, Report(t) PROVE ResultKept'
  BY <1>25, Constants, NoCheckpointIsNone DEF TypeOK, OwnCheckpoint, CallOrder, StatusOfRun,
     ResultWasReported, ResultKept, Report, Queue, disk, session, watchdog
<1>26. ASSUME NEW w \in pending, Write(w) PROVE ResultKept'
  <2>1. cp \in Checkpoint /\ w.tool \in Tools
    BY <1>26 DEF TypeOK, OwnCheckpoint, Write
  <2>. QED
    BY <1>26, <2>1, RecordedEffect, NoCheckpointIsNone DEF TypeOK, OwnCheckpoint, CallOrder,
       StatusOfRun, ResultWasReported, ResultKept, Write, NextWrite, session, watchdog, calls
<1>27. ASSUME NEW w \in pending, WriteFails(w) PROVE ResultKept'
  BY <1>27, Constants, NoCheckpointIsNone DEF TypeOK, OwnCheckpoint, CallOrder, StatusOfRun,
     ResultWasReported, ResultKept, WriteFails, NextWrite, StorageFailure, Active, Fault, disk,
     watchdog, calls
<1>. QED
  BY <1>1, <1>2, <1>3, <1>4, <1>5, <1>6, <1>7, <1>8, <1>9, <1>10, <1>11, <1>12, <1>13, <1>14,
     <1>15, <1>16, <1>17, <1>18, <1>19, <1>20, <1>21, <1>22, <1>23, <1>24, <1>25, <1>26, <1>27 DEF
     Next, Ending

\* A step keeps the saved checkpoint of a run that succeeds.
LEMMA ClosingNext ==
  ASSUME TypeOK, OwnCheckpoint, CallOrder, StatusOfRun, CallsAreOver, ResultWasReported,
     WritesAreAwaited, ResultKept, ClosingIsSaved, Next
  PROVE  ClosingIsSaved'
<1>1. ASSUME Prompt PROVE ClosingIsSaved'
  BY <1>1, Constants, NoCheckpointIsNone DEF TypeOK, OwnCheckpoint, CallOrder, StatusOfRun,
     CallsAreOver, ResultWasReported, WritesAreAwaited, ResultKept, ClosingIsSaved, Succeeding,
     Saved, Prompt, StartRun, disk, writes, calls
<1>2. ASSUME Resume PROVE ClosingIsSaved'
  BY <1>2, Constants, NoCheckpointIsNone DEF TypeOK, OwnCheckpoint, CallOrder, StatusOfRun,
     CallsAreOver, ResultWasReported, WritesAreAwaited, ResultKept, ClosingIsSaved, Succeeding,
     Saved, Resume, StartRun, disk, writes, calls
<1>3. ASSUME BeginFails PROVE ClosingIsSaved'
  BY <1>3, Constants, NoCheckpointIsNone DEF TypeOK, OwnCheckpoint, CallOrder, StatusOfRun,
     CallsAreOver, ResultWasReported, WritesAreAwaited, ResultKept, ClosingIsSaved, Succeeding,
     Saved, BeginFails, StorageFailure, Active, Fault, disk, writes, watchdog, calls
<1>4. ASSUME AgentMissing PROVE ClosingIsSaved'
  BY <1>4, Constants, NoCheckpointIsNone DEF TypeOK, OwnCheckpoint, CallOrder, StatusOfRun,
     CallsAreOver, ResultWasReported, WritesAreAwaited, ResultKept, ClosingIsSaved, Succeeding,
     Saved, AgentMissing, disk, writes, watchdog, calls
<1>5. ASSUME AgentEnds PROVE ClosingIsSaved'
  BY <1>5, Constants, NoCheckpointIsNone DEF TypeOK, OwnCheckpoint, CallOrder, StatusOfRun,
     CallsAreOver, ResultWasReported, WritesAreAwaited, ResultKept, ClosingIsSaved, Succeeding,
     Saved, AgentEnds, Busy, Discarded, Writes, disk, watchdog
<1>6. ASSUME SaveFails PROVE ClosingIsSaved'
  BY <1>6, Constants, NoCheckpointIsNone DEF TypeOK, OwnCheckpoint, CallOrder, StatusOfRun,
     CallsAreOver, ResultWasReported, WritesAreAwaited, ResultKept, ClosingIsSaved, Succeeding,
     Saved, SaveFails, StorageFailure, Active, Fault, disk, writes, watchdog, calls
<1>7. ASSUME Decide PROVE ClosingIsSaved'
  BY <1>7, Constants, NoCheckpointIsNone DEF TypeOK, OwnCheckpoint, CallOrder, StatusOfRun,
     CallsAreOver, ResultWasReported, WritesAreAwaited, ResultKept, ClosingIsSaved, Succeeding,
     Saved, Decide, disk, session, writes, calls
<1>8. ASSUME Begun PROVE ClosingIsSaved'
  <2>1. NewCheckpoint(run) \in Checkpoint
    BY <1>8, NewCheckpointType DEF TypeOK, OwnCheckpoint, Runs, Begun
  <2>. QED
    BY <1>8, <2>1, NoCheckpointIsNone DEF TypeOK, OwnCheckpoint, CallOrder, StatusOfRun,
       CallsAreOver, ResultWasReported, WritesAreAwaited, ResultKept, ClosingIsSaved, Succeeding,
       Saved, Begun, NewCheckpoint, writes, watchdog, calls
<1>9. ASSUME AgentStarts PROVE ClosingIsSaved'
  BY <1>9, Constants, NoCheckpointIsNone DEF TypeOK, OwnCheckpoint, CallOrder, StatusOfRun,
     CallsAreOver, ResultWasReported, WritesAreAwaited, ResultKept, ClosingIsSaved, Succeeding,
     Saved, AgentStarts, disk, writes, watchdog, calls
<1>10. ASSUME AgentStops PROVE ClosingIsSaved'
  BY <1>10, Constants, NoCheckpointIsNone DEF TypeOK, OwnCheckpoint, CallOrder, StatusOfRun,
     CallsAreOver, ResultWasReported, WritesAreAwaited, ResultKept, ClosingIsSaved, Succeeding,
     Saved, AgentStops, Writes, disk, watchdog, calls
<1>11. ASSUME Settle PROVE ClosingIsSaved'
  BY <1>11, Constants, NoCheckpointIsNone DEF TypeOK, OwnCheckpoint, CallOrder, StatusOfRun,
     CallsAreOver, ResultWasReported, WritesAreAwaited, ResultKept, ClosingIsSaved, Succeeding,
     Saved, Settle, disk, writes, watchdog, calls
<1>12. ASSUME Flush PROVE ClosingIsSaved'
  BY <1>12, Constants, NoCheckpointIsNone DEF TypeOK, OwnCheckpoint, CallOrder, StatusOfRun,
     CallsAreOver, ResultWasReported, WritesAreAwaited, ResultKept, ClosingIsSaved, Succeeding,
     Saved, Flush, disk, writes, watchdog, calls
<1>13. ASSUME Save PROVE ClosingIsSaved'
  <2>1. cp \in Checkpoint
    BY <1>13 DEF TypeOK, OwnCheckpoint, Save
  <2>2. CASE status # "running"
    BY <1>13, <2>2 DEF StatusOfRun, ClosingIsSaved, Save
  <2>3. CASE status = "running"
    <3>1. phase = "committing" /\ cp' = Committed(cp)
      BY <1>13, <2>3 DEF StatusOfRun, Save
    <3>2. ASSUME NEW t \in told, owner[t] = run PROVE cp.tools[t] \in {"answered", "persisted"}
      BY <2>3, <3>1, <3>2 DEF TypeOK, ResultKept, WritesAreAwaited, Succeeding
    <3>. QED
      BY <1>13, <2>1, <2>3, <3>1, <3>2, CommittedEffect, NoCheckpointIsNone
      DEF TypeOK, OwnCheckpoint, ClosingIsSaved, Saved, Save, writes, watchdog, calls
  <2>. QED
    BY <2>2, <2>3
<1>14. ASSUME Close PROVE ClosingIsSaved'
  BY <1>14, Constants, NoCheckpointIsNone DEF TypeOK, OwnCheckpoint, CallOrder, StatusOfRun,
     CallsAreOver, ResultWasReported, WritesAreAwaited, ResultKept, ClosingIsSaved, Succeeding,
     Saved, Close, disk, writes, calls
<1>15. ASSUME Abort PROVE ClosingIsSaved'
  BY <1>15, Constants, NoCheckpointIsNone DEF TypeOK, OwnCheckpoint, CallOrder, StatusOfRun,
     CallsAreOver, ResultWasReported, WritesAreAwaited, ResultKept, ClosingIsSaved, Succeeding,
     Saved, Abort, disk, writes, calls
<1>16. ASSUME WatchdogStops PROVE ClosingIsSaved'
  BY <1>16, Constants, NoCheckpointIsNone DEF TypeOK, OwnCheckpoint, CallOrder, StatusOfRun,
     CallsAreOver, ResultWasReported, WritesAreAwaited, ResultKept, ClosingIsSaved, Succeeding,
     Saved, WatchdogStops, disk, writes, watchdog, calls
<1>17. ASSUME Rescue PROVE ClosingIsSaved'
  BY <1>17, Constants, NoCheckpointIsNone DEF TypeOK, OwnCheckpoint, CallOrder, StatusOfRun,
     CallsAreOver, ResultWasReported, WritesAreAwaited, ResultKept, ClosingIsSaved, Succeeding,
     Saved, Rescue, Busy, disk, writes, watchdog, calls
<1>18. ASSUME Crash PROVE ClosingIsSaved'
  BY <1>18, Constants, NoCheckpointIsNone DEF TypeOK, OwnCheckpoint, CallOrder, StatusOfRun,
     CallsAreOver, ResultWasReported, WritesAreAwaited, ResultKept, ClosingIsSaved, Succeeding,
     Saved, Crash, Fault, disk
<1>19. ASSUME NEW t \in Tools, Use(t) PROVE ClosingIsSaved'
  BY <1>19, Constants, NoCheckpointIsNone DEF TypeOK, OwnCheckpoint, CallOrder, StatusOfRun,
     CallsAreOver, ResultWasReported, WritesAreAwaited, ResultKept, ClosingIsSaved, Succeeding,
     Saved, Use, Queue, disk, session, watchdog
<1>20. ASSUME NEW t \in Tools, Approve(t) PROVE ClosingIsSaved'
  BY <1>20, Constants, NoCheckpointIsNone DEF TypeOK, OwnCheckpoint, CallOrder, StatusOfRun,
     CallsAreOver, ResultWasReported, WritesAreAwaited, ResultKept, ClosingIsSaved, Succeeding,
     Saved, Approve, Active, disk, session, writes, watchdog
<1>21. ASSUME NEW t \in Tools, RecordIntent(t) PROVE ClosingIsSaved'
  <2>1. cp \in Checkpoint
    BY <1>21 DEF TypeOK, OwnCheckpoint, RecordIntent
  <2>. QED
    BY <1>21, <2>1, RecordedEffect, NoCheckpointIsNone DEF TypeOK, OwnCheckpoint, CallOrder,
       StatusOfRun, CallsAreOver, ResultWasReported, WritesAreAwaited, ResultKept, ClosingIsSaved,
       Succeeding, Saved, RecordIntent, session, writes, watchdog
<1>22. ASSUME NEW t \in Tools, IntentFails(t) PROVE ClosingIsSaved'
  BY <1>22, Constants, NoCheckpointIsNone DEF TypeOK, OwnCheckpoint, CallOrder, StatusOfRun,
     CallsAreOver, ResultWasReported, WritesAreAwaited, ResultKept, ClosingIsSaved, Succeeding,
     Saved, IntentFails, StorageFailure, Active, Fault, disk, writes, watchdog
<1>23. ASSUME NEW t \in Tools, Dispatch(t) PROVE ClosingIsSaved'
  BY <1>23, Constants, NoCheckpointIsNone DEF TypeOK, OwnCheckpoint, CallOrder, StatusOfRun,
     CallsAreOver, ResultWasReported, WritesAreAwaited, ResultKept, ClosingIsSaved, Succeeding,
     Saved, Dispatch, Permitted, disk, session, writes, watchdog
<1>24. ASSUME NEW t \in Tools, Withhold(t) PROVE ClosingIsSaved'
  BY <1>24, Constants, NoCheckpointIsNone DEF TypeOK, OwnCheckpoint, CallOrder, StatusOfRun,
     CallsAreOver, ResultWasReported, WritesAreAwaited, ResultKept, ClosingIsSaved, Succeeding,
     Saved, Withhold, StorageFailure, Active, Permitted, disk, writes, watchdog
<1>25. ASSUME NEW t \in Tools, Report(t) PROVE ClosingIsSaved'
  BY <1>25, Constants, NoCheckpointIsNone DEF TypeOK, OwnCheckpoint, CallOrder, StatusOfRun,
     CallsAreOver, ResultWasReported, WritesAreAwaited, ResultKept, ClosingIsSaved, Succeeding,
     Saved, Report, Queue, disk, session, watchdog
<1>26. ASSUME NEW w \in pending, Write(w) PROVE ClosingIsSaved'
  <2>1. cp \in Checkpoint /\ w.tool \in Tools
    BY <1>26 DEF TypeOK, OwnCheckpoint, Write
  <2>. QED
    BY <1>26, <2>1, RecordedEffect, NoCheckpointIsNone DEF TypeOK, OwnCheckpoint, CallOrder,
       StatusOfRun, CallsAreOver, ResultWasReported, WritesAreAwaited, ResultKept, ClosingIsSaved,
       Succeeding, Saved, Write, NextWrite, session, watchdog, calls
<1>27. ASSUME NEW w \in pending, WriteFails(w) PROVE ClosingIsSaved'
  BY <1>27, Constants, NoCheckpointIsNone DEF TypeOK, OwnCheckpoint, CallOrder, StatusOfRun,
     CallsAreOver, ResultWasReported, WritesAreAwaited, ResultKept, ClosingIsSaved, Succeeding,
     Saved, WriteFails, NextWrite, StorageFailure, Active, Fault, disk, watchdog, calls
<1>. QED
  BY <1>1, <1>2, <1>3, <1>4, <1>5, <1>6, <1>7, <1>8, <1>9, <1>10, <1>11, <1>12, <1>13, <1>14,
     <1>15, <1>16, <1>17, <1>18, <1>19, <1>20, <1>21, <1>22, <1>23, <1>24, <1>25, <1>26, <1>27 DEF
     Next, Ending

-----------------------------------------------------------------------------
(* The theorems.                                                           *)

\* A step that changes nothing keeps the invariant.
LEMMA StutterNext ==
  ASSUME IInv, UNCHANGED vars
  PROVE  IInv'
BY DEF IInv, vars, disk, session, writes, watchdog, calls, TypeOK, OwnCheckpoint, CallOrder,
       IntentRecorded, ResultWasReported, BatchOfAgent, StatusOfRun, CallsAreOver, Succeeding,
       WritesAreAwaited, ResultKept, ClosingIsSaved, Saved

\* The invariant holds throughout: every part is inductive with those before it.
THEOREM InductiveInvariant == Spec => []IInv
<1>1. Init => IInv
  <2>1. ASSUME Init PROVE TypeOK
    <3>1. owner \in [Tools -> 0..run]
      BY <2>1 DEF Init
    <3>2. pending \subseteq [tool : Tools, kind : {"use", "result"}, run : 1..run]
      BY <2>1 DEF Init
    <3>3. run \in 0..MaxRuns /\ faults \in 0..MaxFaults
      BY <2>1, Constants DEF Init
    <3>. QED
      BY <2>1, <3>1, <3>2, <3>3 DEF Init, TypeOK
  <2>2. Init => OwnCheckpoint /\ CallOrder /\ IntentRecorded
    BY DEF Init, OwnCheckpoint, CallOrder, IntentRecorded
  <2>3. Init => ResultWasReported /\ BatchOfAgent /\ StatusOfRun
    BY DEF Init, ResultWasReported, BatchOfAgent, StatusOfRun
  <2>4. Init => CallsAreOver /\ WritesAreAwaited /\ ResultKept /\ ClosingIsSaved
    BY DEF Init, CallsAreOver, Succeeding, WritesAreAwaited, ResultKept, ClosingIsSaved
  <2>. QED
    BY <2>1, <2>2, <2>3, <2>4 DEF IInv
<1>2. IInv /\ [Next]_vars => IInv'
  <2>1. ASSUME IInv, Next PROVE IInv'
    BY <2>1, TypeNext, OwnNext, CallNext, IntentNext, ResultNext, BatchNext, StatusNext,
       CallsNext,
       AwaitNext, KeptNext, ClosingNext DEF IInv
  <2>. QED
    BY <2>1, StutterNext
<1>. QED
  BY <1>1, <1>2, PTL DEF Spec

\* Every variable has its type.
THEOREM TypeCorrect == Spec => []TypeOK
<1>1. IInv => TypeOK
  BY DEF IInv
<1>. QED
  BY <1>1, InductiveInvariant, PTL

\* A tool executed for the run of the checkpoint is in the checkpoint.
THEOREM EffectsRecordedHolds == Spec => []EffectsRecorded
<1>1. IInv => EffectsRecorded
  BY DEF IInv, TypeOK, IntentRecorded, EffectsRecorded
<1>. QED
  BY <1>1, InductiveInvariant, PTL

\* A persisted result was reported.
THEOREM PersistedWasReportedHolds == Spec => []PersistedWasReported
<1>1. IInv => PersistedWasReported
  BY DEF IInv, ResultWasReported, PersistedWasReported
<1>. QED
  BY <1>1, InductiveInvariant, PTL

\* A completed run has saved all it reported.
THEOREM DoneIsDurableHolds == Spec => []DoneIsDurable
<1>1. IInv => DoneIsDurable
  BY DEF IInv, ClosingIsSaved, Saved, DoneIsDurable
<1>. QED
  BY <1>1, InductiveInvariant, PTL

\* Only the agent of the running run executes tools.
THEOREM NoStrayEffectHolds == Spec => NoStrayEffect
<1>1. IInv /\ [Next]_vars => [\A t \in acted' \ acted :
                                  owner[t] = run /\ phase = "agent" /\ status = "running"]_vars
  <2> SUFFICES ASSUME IInv, [Next]_vars, NEW t \in acted' \ acted
               PROVE  owner[t] = run /\ phase = "agent" /\ status = "running"
    OBVIOUS
  <2>1. t \in Tools /\ Dispatch(t)
    BY DEF IInv, TypeOK, Next, Ending, vars, calls, Prompt, Resume, StartRun, BeginFails,
       AgentMissing, AgentEnds, SaveFails, Decide, Begun, AgentStarts, AgentStops, Settle, Flush,
       Save, Close, Abort, WatchdogStops, Rescue, Crash, Use, Approve, RecordIntent, IntentFails,
       Dispatch, Withhold, Report, Write, WriteFails
  <2>. QED
    BY <2>1 DEF IInv, BatchOfAgent, Dispatch, Permitted
<1>. QED
  BY <1>1, InductiveInvariant, PTL DEF Spec, NoStrayEffect

\* A resume names every tool that was executed and never answered.
THEOREM ResumeNamesHolds == Spec => ResumeNames
<1>1. IInv => [Resume => \A t \in acted \ told : owner[t] = cp.run => t \in named']_vars
  <2> SUFFICES ASSUME IInv, Resume, NEW t \in acted \ told, owner[t] = cp.run
               PROVE  t \in named'
    OBVIOUS
  <2>1. cp # NoCheckpoint /\ t \in Tools /\ cp.tools[t] # "absent"
    BY DEF IInv, TypeOK, IntentRecorded
  <2>2. cp.tools[t] = "unknown"
    BY <2>1 DEF IInv, TypeOK, ResultWasReported, Checkpoint, Outcome
  <2>. QED
    BY <2>1, <2>2 DEF Resume, NeedsConfirmation
<1>. QED
  BY <1>1, InductiveInvariant, PTL DEF Spec, ResumeNames
=============================================================================
