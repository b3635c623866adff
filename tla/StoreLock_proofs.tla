-------------------------- MODULE StoreLock_proofs --------------------------
(***************************************************************************)
(* Proofs about StoreLock, for any number of processes, machines and pids. *)
(***************************************************************************)
EXTENDS StoreLock, TLAPS

\* Every step keeps the type invariant; the only arithmetic is the miss count.
LEMMA TypeStep == TypeOK /\ [Next]_vars => TypeOK'
<1> USE ProcAssumption DEF TypeOK, Contents, Labels, Attempt, Results,
        HEARTBEAT_READ_MISS_LIMIT, files, local, Step, Forget, Keep, Finally, Read,
        Publishes, Exists, CreateFails, Removes
<1> SUFFICES ASSUME TypeOK, [Next]_vars PROVE TypeOK'
  OBVIOUS
<1>1. ASSUME NEW p \in Proc, Start(p) PROVE TypeOK'
  BY <1>1 DEF Start
<1>2. ASSUME NEW p \in Proc, Die(p) PROVE TypeOK'
  BY <1>2 DEF Die
<1>3. ASSUME NEW p \in Proc, Reap(p) PROVE TypeOK'
  BY <1>3 DEF Reap
<1>4. ASSUME NEW p \in Proc, TakeCron(p) PROVE TypeOK'
  BY <1>4 DEF TakeCron
<1>5. ASSUME NEW p \in Proc, GiveUp(p) PROVE TypeOK'
  BY <1>5 DEF GiveUp
<1>6. ASSUME NEW p \in Proc, StopServing(p) PROVE TypeOK'
  BY <1>6 DEF StopServing
<1>7. ASSUME NEW p \in Proc, LegacyRead(p) PROVE TypeOK'
  BY <1>7 DEF LegacyRead
<1>8. ASSUME NEW p \in Proc, LegacyGone(p) PROVE TypeOK'
  BY <1>8 DEF LegacyGone
<1>9. ASSUME NEW p \in Proc, LegacyHeld(p) PROVE TypeOK'
  BY <1>9 DEF LegacyHeld
<1>10. ASSUME NEW p \in Proc, LegacyMain(p) PROVE TypeOK'
  BY <1>10 DEF LegacyMain
<1>11. ASSUME NEW p \in Proc, Create(p) PROVE TypeOK'
  BY <1>11 DEF Create
<1>12. ASSUME NEW p \in Proc, ReadOwner(p) PROVE TypeOK'
  BY <1>12 DEF ReadOwner
<1>13. ASSUME NEW p \in Proc, ProbeOwner(p) PROVE TypeOK'
  BY <1>13 DEF ProbeOwner
<1>14. ASSUME NEW p \in Proc, Retry(p) PROVE TypeOK'
  BY <1>14 DEF Retry
<1>15. ASSUME NEW p \in Proc, RcCreate(p) PROVE TypeOK'
  BY <1>15 DEF RcCreate
<1>16. ASSUME NEW p \in Proc, RcRead(p) PROVE TypeOK'
  BY <1>16 DEF RcRead
<1>17. ASSUME NEW p \in Proc, RcProbe(p) PROVE TypeOK'
  BY <1>17 DEF RcProbe
<1>18. ASSUME NEW p \in Proc, RcLatest(p) PROVE TypeOK'
  BY <1>18 DEF RcLatest
<1>19. ASSUME NEW p \in Proc, RcRemove(p) PROVE TypeOK'
  BY <1>19 DEF RcRemove
<1>20. ASSUME NEW p \in Proc, RcRetry(p) PROVE TypeOK'
  BY <1>20 DEF RcRetry
<1>21. ASSUME NEW p \in Proc, Recheck(p) PROVE TypeOK'
  BY <1>21 DEF Recheck
<1>22. ASSUME NEW p \in Proc, ReProbe(p) PROVE TypeOK'
  BY <1>22 DEF ReProbe
<1>23. ASSUME NEW p \in Proc, FinalAtomic(p) PROVE TypeOK'
  BY <1>23 DEF FinalAtomic
<1>24. ASSUME NEW p \in Proc, FinalLock(p) PROVE TypeOK'
  BY <1>24 DEF FinalLock
<1>25. ASSUME NEW p \in Proc, FinalReclaim(p) PROVE TypeOK'
  BY <1>25 DEF FinalReclaim
<1>26. ASSUME NEW p \in Proc, Remove(p) PROVE TypeOK'
  BY <1>26 DEF Remove
<1>27. ASSUME NEW p \in Proc, Publish(p) PROVE TypeOK'
  BY <1>27 DEF Publish
<1>28. ASSUME NEW p \in Proc, RcRelease(p) PROVE TypeOK'
  BY <1>28 DEF RcRelease
<1>29. ASSUME NEW p \in Proc, RcUnlink(p) PROVE TypeOK'
  BY <1>29 DEF RcUnlink
<1>30. ASSUME NEW p \in Proc, Heartbeat(p) PROVE TypeOK'
  BY <1>30 DEF Heartbeat, Lost
<1>31. ASSUME NEW p \in Proc, Release(p) PROVE TypeOK'
  BY <1>31 DEF Release
<1>32. ASSUME NEW p \in Proc, Unlink(p) PROVE TypeOK'
  BY <1>32 DEF Unlink
<1>33. CASE DamageLock
  BY <1>33 DEF DamageLock
<1>34. CASE UNCHANGED vars
  BY <1>34 DEF vars
<1>35. QED
  BY <1>1, <1>2, <1>3, <1>4, <1>5, <1>6, <1>7, <1>8, <1>9, <1>10, <1>11, <1>12, <1>13, <1>14,
     <1>15, <1>16, <1>17, <1>18, <1>19, <1>20, <1>21, <1>22, <1>23, <1>24, <1>25, <1>26, <1>27,
     <1>28, <1>29, <1>30, <1>31, <1>32, <1>33, <1>34 DEF Next, Run, Event, LegacyCheck, Judge,
     TakeReclaim, Recover, GiveBack, Exit

\* TypeOK holds in every reachable state.
THEOREM TypeCorrect == Spec => []TypeOK
<1>1. Init => TypeOK
  BY ProcAssumption DEF Init, TypeOK, Contents, Labels, Results, HEARTBEAT_READ_MISS_LIMIT
<1>2. QED
  BY <1>1, TypeStep, PTL DEF Spec

---------------------------------------------------------------------------
(* Mutual exclusion of the writers.  It needs the takeover to be one step,  *)
(* lock files that stay readable, and records that name the machine they    *)
(* come from: a process may judge only processes of its own process table.  *)

SoundIdentity ==
  \A p, q \in Proc : MayJudge(p, q) => MachineOf[p] = MachineOf[q]

Assumptions == AtomicTakeover /\ ~MayCorrupt /\ SoundIdentity

Listed(p) == os[p] \in {"alive", "zombie"}
Stopped(p) == os[p] \in {"zombie", "dead"}

\* The system lists at most one process under a pid.
PidUnique ==
  \A p, q \in Proc :
    Listed(p) /\ Listed(q) /\ MachineOf[p] = MachineOf[q] /\ PidOf[p] = PidOf[q] => p = q

\* Only running processes execute.
OnlyAliveRun == \A p \in Proc : pc[p] # "idle" => os[p] = "alive"

\* The file is readable and its author has been started at some time.
LockReadable == lock # Corrupt /\ (lock \in Proc => os[lock] # "unborn")

\* What an attempt goes on to recover is a record that it may judge.
SeenJudged ==
  \A p \in Proc :
    /\ pc[p] \in {"probe", "rcCreate", "rcRead", "rcProbe", "rcLatest", "rcRemove",
                  "rcRetry", "recheck"}
    /\ seen[p] # NoOwner
    => MayJudge(p, seen[p])

CurJudged ==
  \A p \in Proc :
    pc[p] = "reProbe" =>
      /\ cur[p] \in Proc
      /\ MachineOf[p] = MachineOf[cur[p]]
      /\ os[cur[p]] # "unborn"

\* The verdict of the second look stays true until the removal, since no
\* incarnation comes back.
VerdictSound ==
  \A p \in Proc : pc[p] = "final" /\ cur[p] \in Proc => cur[p] = p \/ Stopped(cur[p])

\* From the publication until the release the file is the owner's.
Owns(p) ==
  \/ pc[p] \in {"holding", "drain", "unlink"}
  \/ pc[p] \in {"rcRelease", "rcUnlink"} /\ res[p] = "holding"
OwnersFile == \A p \in Proc : Owns(p) => lock = p

\* The release forgets that it was an owner; a takeover makes no separate calls.
Outcomes ==
  \A p \in Proc : /\ pc[p] = "unlink" => res[p] = "exiting"
                  /\ pc[p] \notin {"finalReclaim", "remove", "publish"}

IInv ==
  /\ TypeOK
  /\ PidUnique
  /\ OnlyAliveRun
  /\ LockReadable
  /\ SeenJudged
  /\ CurJudged
  /\ VerdictSound
  /\ OwnersFile
  /\ Outcomes

\* A verdict "gone" about a process of the same machine that was ever started
\* is right: no listed process has its pid but a zombie, or another one has.
LEMMA GoneIsStopped ==
  ASSUME PidUnique, TypeOK, NEW p \in Proc, NEW q \in Proc,
         MachineOf[p] = MachineOf[q], os[q] # "unborn", MayFindGone(p, q)
  PROVE  Stopped(q)
<1> SUFFICES ASSUME os[q] = "alive" PROVE FALSE
  BY DEF TypeOK, Stopped
<1>1. q \in Occupants(p, q)
  BY DEF Occupants
<1>2. CASE Vacant(p, q)
  BY <1>1, <1>2 DEF Vacant
<1>3. CASE Reused(p, q)
  <2>1. PICK r \in Occupants(p, q) : r # q
    BY <1>3 DEF Reused
  <2>2. QED
    BY <2>1 DEF PidUnique, Listed, Occupants
<1>4. QED
  BY <1>2, <1>3 DEF MayFindGone

LEMMA IInvInit == Init => IInv
BY ProcAssumption DEF Init, IInv, TypeOK, Contents, Labels, Results,
  HEARTBEAT_READ_MISS_LIMIT, PidUnique, OnlyAliveRun, LockReadable, SeenJudged,
  CurJudged, VerdictSound, OwnersFile, Owns, Outcomes, Listed

LEMMA IInvStep == Assumptions /\ IInv /\ [Next]_vars => IInv'
<1> SUFFICES ASSUME Assumptions, IInv, [Next]_vars PROVE IInv'
  OBVIOUS
<1>t. TypeOK /\ TypeOK'
  BY TypeStep DEF IInv
<1> DEFINE Rest == /\ PidUnique /\ OnlyAliveRun /\ LockReadable /\ SeenJudged
                   /\ CurJudged /\ VerdictSound /\ OwnersFile /\ Outcomes
<1> SUFFICES Rest'
  BY <1>t DEF IInv
<1> USE <1>t, ProcAssumption DEF IInv, PidUnique, OnlyAliveRun, LockReadable, SeenJudged,
        CurJudged, VerdictSound, OwnersFile, Owns, Outcomes, Listed, Stopped,
        files, local, Step, Forget, Keep, Finally, Read, Alive,
        Publishes, Exists, CreateFails, Removes, Results, Contents, TypeOK
<1>1. ASSUME NEW p \in Proc, Start(p) PROVE Rest'
  BY <1>1, SMTT(30) DEF Start, Occupants
<1>2. ASSUME NEW p \in Proc, Die(p) PROVE Rest'
  BY <1>2 DEF Die
<1>3. ASSUME NEW p \in Proc, Reap(p) PROVE Rest'
  BY <1>3 DEF Reap
<1>4. ASSUME NEW p \in Proc, TakeCron(p) PROVE Rest'
  BY <1>4 DEF TakeCron
<1>5. ASSUME NEW p \in Proc, GiveUp(p) PROVE Rest'
  BY <1>5 DEF GiveUp
<1>6. ASSUME NEW p \in Proc, StopServing(p) PROVE Rest'
  BY <1>6 DEF StopServing
<1>7. ASSUME NEW p \in Proc, LegacyRead(p) PROVE Rest'
  BY <1>7 DEF LegacyRead
<1>8. ASSUME NEW p \in Proc, LegacyGone(p) PROVE Rest'
  BY <1>8 DEF LegacyGone
<1>9. ASSUME NEW p \in Proc, LegacyHeld(p) PROVE Rest'
  BY <1>9 DEF LegacyHeld
<1>10. ASSUME NEW p \in Proc, LegacyMain(p) PROVE Rest'
  BY <1>10 DEF LegacyMain
<1>11. ASSUME NEW p \in Proc, Create(p) PROVE Rest'
  BY <1>11 DEF Create
<1>12. ASSUME NEW p \in Proc, ReadOwner(p) PROVE Rest'
  BY <1>12 DEF ReadOwner, MayJudge
<1>13. ASSUME NEW p \in Proc, ProbeOwner(p) PROVE Rest'
  BY <1>13 DEF ProbeOwner
<1>14. ASSUME NEW p \in Proc, Retry(p) PROVE Rest'
  BY <1>14 DEF Retry
<1>15. ASSUME NEW p \in Proc, RcCreate(p) PROVE Rest'
  BY <1>15 DEF RcCreate
<1>16. ASSUME NEW p \in Proc, RcRead(p) PROVE Rest'
  BY <1>16 DEF RcRead
<1>17. ASSUME NEW p \in Proc, RcProbe(p) PROVE Rest'
  BY <1>17 DEF RcProbe
<1>18. ASSUME NEW p \in Proc, RcLatest(p) PROVE Rest'
  BY <1>18 DEF RcLatest
<1>19. ASSUME NEW p \in Proc, RcRemove(p) PROVE Rest'
  BY <1>19 DEF RcRemove
<1>20. ASSUME NEW p \in Proc, RcRetry(p) PROVE Rest'
  BY <1>20 DEF RcRetry
<1>21. ASSUME NEW p \in Proc, Recheck(p) PROVE Rest'
  <2>1. CASE Finally(p, "recheck", "backoff")
    BY <1>21, <2>1 DEF Recheck
  <2>2. CASE pc' # [pc EXCEPT ![p] = "rcRelease"]
    <3>1. /\ pc[p] = "recheck" /\ Read(lock) \in {NoOwner, seen[p]} /\ lock' = lock /\ os' = os
          /\ pc' = [pc EXCEPT ![p] = IF Read(lock) \in {NoOwner, p} THEN "final" ELSE "reProbe"]
          /\ cur' = [cur EXCEPT ![p] = Read(lock)] /\ seen' = seen /\ res' = res
      BY <1>21, <2>2 DEF Recheck
    <3>2. lock # NoOwner => lock \in Proc /\ lock = seen[p] /\ MachineOf[p] = MachineOf[lock]
      BY <3>1 DEF Assumptions, SoundIdentity
    <3>3. CASE lock \in {NoOwner, p}
      BY <1>21, <3>1, <3>3
    <3>4. CASE lock \notin {NoOwner, p}
      BY <1>21, <3>1, <3>2, <3>4
    <3>5. QED
      BY <3>3, <3>4
  <2>3. QED
    BY <1>21, <2>1, <2>2 DEF Recheck
<1>22. ASSUME NEW p \in Proc, ReProbe(p) PROVE Rest'
  <2>1. CASE pc' = [pc EXCEPT ![p] = "final"] /\ MayFindGone(p, cur[p]) /\ UNCHANGED local
    <3>1. Stopped(cur[p])
      BY <1>22, <2>1, GoneIsStopped DEF ReProbe
    <3>2. QED
      BY <1>22, <2>1, <3>1 DEF ReProbe
  <2>2. CASE Finally(p, "reProbe", "backoff")
    BY <1>22, <2>2 DEF ReProbe
  <2>3. QED
    BY <1>22, <2>1, <2>2 DEF ReProbe
<1>23. ASSUME NEW p \in Proc, FinalAtomic(p) PROVE Rest'
  BY <1>23 DEF FinalAtomic, StillMine, Assumptions
<1>24. ASSUME NEW p \in Proc, FinalLock(p) PROVE Rest'
  BY <1>24 DEF FinalLock, Assumptions
<1>25. ASSUME NEW p \in Proc, FinalReclaim(p) PROVE Rest'
  BY <1>25 DEF FinalReclaim
<1>26. ASSUME NEW p \in Proc, Remove(p) PROVE Rest'
  BY <1>26 DEF Remove
<1>27. ASSUME NEW p \in Proc, Publish(p) PROVE Rest'
  BY <1>27 DEF Publish
<1>28. ASSUME NEW p \in Proc, RcRelease(p) PROVE Rest'
  BY <1>28 DEF RcRelease
<1>29. ASSUME NEW p \in Proc, RcUnlink(p) PROVE Rest'
  BY <1>29 DEF RcUnlink
<1>30. ASSUME NEW p \in Proc, Heartbeat(p) PROVE Rest'
  BY <1>30 DEF Heartbeat, Lost
<1>31. ASSUME NEW p \in Proc, Release(p) PROVE Rest'
  BY <1>31 DEF Release
<1>32. ASSUME NEW p \in Proc, Unlink(p) PROVE Rest'
  BY <1>32 DEF Unlink
<1>33. CASE DamageLock
  BY <1>33 DEF DamageLock, Assumptions
<1>34. CASE UNCHANGED vars
  BY <1>34 DEF vars
<1>35. QED
  BY <1>1, <1>2, <1>3, <1>4, <1>5, <1>6, <1>7, <1>8, <1>9, <1>10, <1>11, <1>12, <1>13, <1>14,
     <1>15, <1>16, <1>17, <1>18, <1>19, <1>20, <1>21, <1>22, <1>23, <1>24, <1>25, <1>26, <1>27,
     <1>28, <1>29, <1>30, <1>31, <1>32, <1>33, <1>34 DEF Next, Run, Event, LegacyCheck, Judge,
     TakeReclaim, Recover, GiveBack, Exit

\* The session store has a single writer, for any number of processes, crashes,
\* pid reuses and failing probes.
THEOREM SingleWriterHolds ==
  ASSUME Assumptions PROVE Spec => []SingleWriter
<1>1. IInv => SingleWriter
  BY DEF IInv, SingleWriter, Owner, OwnersFile, Owns
<1>2. IInv /\ [Next]_vars => IInv'
  BY IInvStep
<1>3. QED
  BY <1>1, <1>2, IInvInit, PTL DEF Spec

\* While a process serves, and until it has deleted it at its exit, the file is
\* its own: release() never deletes the lock of another one.
THEOREM OwnerFileIntactHolds ==
  ASSUME Assumptions PROVE Spec => []OwnerFileIntact
<1>1. IInv => OwnerFileIntact
  BY DEF IInv, OwnerFileIntact, OwnersFile, Owns
<1>2. IInv /\ [Next]_vars => IInv'
  BY IInvStep
<1>3. QED
  BY <1>1, <1>2, IInvInit, PTL DEF Spec

---------------------------------------------------------------------------
(* The check for a writer that knows no sidecar.lock.  It needs neither the *)
(* takeover to be one step nor a readable file, but that what legacyWriter()*)
(* goes by is true: a record that names this machine was written on it, and *)
(* nobody who took sidecar.lock had the pid that an old release has now     *)
(* (the shortcut for the holder of both locks compares nothing else).       *)

SoundHosts ==
  \A p, q \in Proc : SameMachine(p, q) \/ LegacyHost(q) => MachineOf[p] = MachineOf[q]

OldPidsApart ==
  \A q \in Old \ Untimed, p \in Proc \ Old : PidOf[p] # PidOf[q]

\* Old releases take the scheduler's lock only: all that ever goes through an
\* attempt, or is named in sidecar.lock, is a current one.
OldStaysOut ==
  /\ \A p \in Proc : pc[p] \notin {"idle", "old"} => p \notin Old
  /\ lock \notin Old

\* The owner under judgement has been started, on the machine of its judge.
CronStarted == cron \in Proc => os[cron] # "unborn"

LegacyJudged ==
  \A p \in Proc :
    pc[p] \in {"legacyProbe", "legacyMain"} =>
      /\ seen[p] \in Proc
      /\ os[seen[p]] # "unborn"
      /\ MachineOf[p] = MachineOf[seen[p]]
      /\ pc[p] = "legacyMain" => seen[p] \notin Untimed

\* An old release that an attempt has passed has stopped for good.
Passed ==
  \A p \in Proc : pc[p] = "create" /\ seen[p] \in Old => Stopped(seen[p])

LegacyInv == /\ TypeOK /\ PidUnique /\ OnlyAliveRun
             /\ OldStaysOut /\ CronStarted /\ LegacyJudged /\ Passed

LEMMA LegacyInit == Init => LegacyInv
BY ProcAssumption DEF Init, LegacyInv, TypeOK, Contents, Labels, Results,
  HEARTBEAT_READ_MISS_LIMIT, PidUnique, OnlyAliveRun, OldStaysOut, CronStarted,
  LegacyJudged, Passed, Listed

LEMMA LegacyStep ==
  SoundHosts /\ OldPidsApart /\ LegacyInv /\ [Next]_vars => LegacyInv'
<1> SUFFICES ASSUME SoundHosts, OldPidsApart, LegacyInv, [Next]_vars PROVE LegacyInv'
  OBVIOUS
<1>t. TypeOK /\ TypeOK'
  BY TypeStep DEF LegacyInv
<1> DEFINE Rest == PidUnique /\ OnlyAliveRun /\ OldStaysOut /\ CronStarted /\ LegacyJudged /\ Passed
<1> SUFFICES Rest'
  BY <1>t DEF LegacyInv
<1> USE <1>t, ProcAssumption DEF LegacyInv, PidUnique, OnlyAliveRun, OldStaysOut, CronStarted,
        LegacyJudged, Passed, Listed, Stopped, files, local, Step, Forget, Keep, Finally,
        Read, Alive, Publishes, Exists, CreateFails, Removes, Results, Contents, TypeOK
<1>1. ASSUME NEW p \in Proc, Start(p) PROVE Rest'
  BY <1>1, SMTT(30) DEF Start, Occupants
<1>2. ASSUME NEW p \in Proc, Die(p) PROVE Rest'
  BY <1>2 DEF Die
<1>3. ASSUME NEW p \in Proc, Reap(p) PROVE Rest'
  BY <1>3 DEF Reap
<1>4. ASSUME NEW p \in Proc, TakeCron(p) PROVE Rest'
  BY <1>4 DEF TakeCron
<1>5. ASSUME NEW p \in Proc, GiveUp(p) PROVE Rest'
  BY <1>5 DEF GiveUp
<1>6. ASSUME NEW p \in Proc, StopServing(p) PROVE Rest'
  BY <1>6 DEF StopServing
<1>7. ASSUME NEW p \in Proc, LegacyRead(p) PROVE Rest'
  <2>1. /\ pc[p] = "legacy" /\ os[p] = "alive" /\ p \notin Old
        /\ UNCHANGED <<os, lock, cron>> /\ seen' = [seen EXCEPT ![p] = cron]
    BY <1>7 DEF LegacyRead
  <2>2. pc'[p] = "create" /\ cron \in Old => Stopped(cron)
    <3>1. SUFFICES ASSUME pc'[p] = "create", cron \in Old, os[cron] = "alive" PROVE FALSE
      BY <1>t
    <3>2. PidOf[cron] = PidOf[p] /\ SameMachine(p, cron)
      BY <1>7, <3>1 DEF LegacyRead
    <3>3. cron = p
      BY <2>1, <3>1, <3>2 DEF SoundHosts
    <3>4. QED
      BY <2>1, <3>1, <3>3
  <2>3. pc'[p] \in {"legacyProbe", "legacyMain"} =>
          cron \in Proc /\ MachineOf[p] = MachineOf[cron] /\ pc'[p] # "legacyMain"
    BY <1>7 DEF LegacyRead, SoundHosts
  <2>4. pc' = [pc EXCEPT ![p] = pc'[p]]
    BY <1>7 DEF LegacyRead
  <2>5. QED
    BY <2>1, <2>2, <2>3, <2>4
<1>8. ASSUME NEW p \in Proc, LegacyGone(p) PROVE Rest'
  <2>1. Stopped(seen[p])
    BY <1>8, GoneIsStopped DEF LegacyGone
  <2>2. QED
    BY <1>8, <2>1 DEF LegacyGone
<1>9. ASSUME NEW p \in Proc, LegacyHeld(p) PROVE Rest'
  <2>1. CASE pc' = [pc EXCEPT ![p] = "legacyMain"]
    BY <1>9, <2>1 DEF LegacyHeld
  <2>2. CASE pc' = [pc EXCEPT ![p] = "backoff"]
    BY <1>9, <2>2 DEF LegacyHeld
  <2>3. QED
    BY <1>9, <2>1, <2>2 DEF LegacyHeld
<1>10. ASSUME NEW p \in Proc, LegacyMain(p) PROVE Rest'
  <2>1. CASE HoldsBoth(seen[p])
    <3>1. lock \in Proc \ Old /\ PidOf[lock] = PidOf[seen[p]]
      BY <2>1 DEF HoldsBoth
    <3>2. seen[p] \notin Old
      BY <1>10, <3>1 DEF LegacyMain, OldPidsApart
    <3>3. QED
      BY <1>10, <3>2 DEF LegacyMain
  <2>2. CASE ~HoldsBoth(seen[p])
    BY <1>10, <2>2 DEF LegacyMain
  <2>3. QED
    BY <2>1, <2>2
<1>11. ASSUME NEW p \in Proc, Create(p) PROVE Rest'
  BY <1>11 DEF Create
<1>12. ASSUME NEW p \in Proc, ReadOwner(p) PROVE Rest'
  BY <1>12 DEF ReadOwner
<1>13. ASSUME NEW p \in Proc, ProbeOwner(p) PROVE Rest'
  BY <1>13 DEF ProbeOwner
<1>14. ASSUME NEW p \in Proc, Retry(p) PROVE Rest'
  BY <1>14 DEF Retry
<1>15. ASSUME NEW p \in Proc, RcCreate(p) PROVE Rest'
  BY <1>15 DEF RcCreate
<1>16. ASSUME NEW p \in Proc, RcRead(p) PROVE Rest'
  BY <1>16 DEF RcRead
<1>17. ASSUME NEW p \in Proc, RcProbe(p) PROVE Rest'
  BY <1>17 DEF RcProbe
<1>18. ASSUME NEW p \in Proc, RcLatest(p) PROVE Rest'
  BY <1>18 DEF RcLatest
<1>19. ASSUME NEW p \in Proc, RcRemove(p) PROVE Rest'
  BY <1>19 DEF RcRemove
<1>20. ASSUME NEW p \in Proc, RcRetry(p) PROVE Rest'
  BY <1>20 DEF RcRetry
<1>21. ASSUME NEW p \in Proc, Recheck(p) PROVE Rest'
  BY <1>21 DEF Recheck
<1>22. ASSUME NEW p \in Proc, ReProbe(p) PROVE Rest'
  BY <1>22 DEF ReProbe
<1>23. ASSUME NEW p \in Proc, FinalAtomic(p) PROVE Rest'
  BY <1>23 DEF FinalAtomic, StillMine
<1>24. ASSUME NEW p \in Proc, FinalLock(p) PROVE Rest'
  BY <1>24 DEF FinalLock
<1>25. ASSUME NEW p \in Proc, FinalReclaim(p) PROVE Rest'
  BY <1>25 DEF FinalReclaim
<1>26. ASSUME NEW p \in Proc, Remove(p) PROVE Rest'
  BY <1>26 DEF Remove
<1>27. ASSUME NEW p \in Proc, Publish(p) PROVE Rest'
  BY <1>27 DEF Publish
<1>28. ASSUME NEW p \in Proc, RcRelease(p) PROVE Rest'
  BY <1>28 DEF RcRelease
<1>29. ASSUME NEW p \in Proc, RcUnlink(p) PROVE Rest'
  BY <1>29 DEF RcUnlink
<1>30. ASSUME NEW p \in Proc, Heartbeat(p) PROVE Rest'
  BY <1>30 DEF Heartbeat, Lost
<1>31. ASSUME NEW p \in Proc, Release(p) PROVE Rest'
  BY <1>31 DEF Release
<1>32. ASSUME NEW p \in Proc, Unlink(p) PROVE Rest'
  BY <1>32 DEF Unlink
<1>33. CASE DamageLock
  BY <1>33 DEF DamageLock
<1>34. CASE UNCHANGED vars
  BY <1>34 DEF vars
<1>35. QED
  BY <1>1, <1>2, <1>3, <1>4, <1>5, <1>6, <1>7, <1>8, <1>9, <1>10, <1>11, <1>12, <1>13, <1>14,
     <1>15, <1>16, <1>17, <1>18, <1>19, <1>20, <1>21, <1>22, <1>23, <1>24, <1>25, <1>26, <1>27,
     <1>28, <1>29, <1>30, <1>31, <1>32, <1>33, <1>34
  DEF Next, Run, Event, LegacyCheck, Judge, TakeReclaim, Recover, GiveBack, Exit

\* legacyWriter() never passes an owner of the scheduler's lock that is still
\* running and may write the store without looking at sidecar.lock.
THEOREM LegacyVerdictSoundHolds ==
  ASSUME SoundHosts, OldPidsApart PROVE Spec => []LegacyVerdictSound
<1>1. LegacyInv => LegacyVerdictSound
  BY DEF LegacyInv, LegacyVerdictSound, Passed, Stopped, Alive
<1>2. LegacyInv /\ [Next]_vars => LegacyInv'
  BY LegacyStep
<1>3. QED
  BY <1>1, <1>2, LegacyInit, PTL DEF Spec

---------------------------------------------------------------------------
(* Refinement: what happens to the files, the process table and the owners  *)
(* is what StoreContract allows.                                            *)

Up      == {p \in Proc : os[p] = "alive"}
Gone    == {p \in Proc : os[p] \in {"zombie", "dead"}}
Writers == {p \in Proc : Owner(p)}

\* A step of the contract, or one that it does not see.
Allowed == Contract!Next \/ <<Up, Gone, lock, Writers>>' = <<Up, Gone, lock, Writers>>

LEMMA ContractInit == Init => Contract!Init
<1> SUFFICES ASSUME Init PROVE Contract!Init
  OBVIOUS
<1>1. PICK leftover \in SUBSET Proc :
        /\ os = [p \in Proc |-> IF p \in leftover THEN "dead" ELSE "unborn"]
        /\ lock \in leftover \cup {NoOwner}
  BY DEF Init
<1>2. Gone = leftover /\ Up = {} /\ Writers = {}
  BY <1>1 DEF Gone, Up, Writers, Owner, Init
<1>3. QED
  BY <1>1, <1>2 DEF Contract!Init, Gone, Up, Writers

\* A process becomes a writer only with the file of its own.
LEMMA OpenStep ==
  ASSUME IInv, NEW p \in Proc, os[p] = "alive", lock = p, UNCHANGED <<os, lock>>,
         pc' = [pc EXCEPT ![p] = "holding"]
  PROVE  Contract!Next
<1>1. Contract!Open(p)
  BY DEF Contract!Open, Owner, IInv, TypeOK
<1>2. QED
  BY <1>1 DEF Contract!Next

LEMMA QuietStep ==
  ASSUME IInv, NEW p \in Proc, NEW l, pc[p] \notin {"holding", "drain"},
         l \notin {"holding", "drain"},
         UNCHANGED lock, pc' = [pc EXCEPT ![p] = l], UNCHANGED os
  PROVE  Allowed
BY DEF Allowed, Up, Gone, Writers, Owner, IInv, TypeOK

LEMMA ClaimStep ==
  ASSUME IInv, NEW p \in Proc, NEW l, os[p] = "alive", pc[p] \notin {"holding", "drain"},
         lock \notin Up, lock' = p, pc' = [pc EXCEPT ![p] = l], UNCHANGED os
  PROVE  Allowed
<1>1. Writers' = Writers \/ Writers' = Writers \cup {p}
  BY DEF Writers, Owner, IInv, TypeOK
<1>2. Contract!Claim(p)
  BY <1>1 DEF Contract!Claim, Up, Writers
<1>3. QED
  BY <1>2 DEF Contract!Next, Allowed

LEMMA ContractStep ==
  ASSUME Assumptions, IInv, [Next]_vars PROVE Allowed
<1>t. TypeOK /\ OwnersFile /\ OnlyAliveRun /\ LockReadable /\ VerdictSound /\ Outcomes
  BY DEF IInv
<1> USE ProcAssumption DEF TypeOK
<1>1. ASSUME NEW p \in Proc, Start(p) PROVE Allowed
  <2>1. Contract!Boot(p)
    BY <1>1, <1>t DEF Start, Contract!Boot, files, local, Owner, OnlyAliveRun
  <2>2. QED
    BY <2>1 DEF Contract!Next, Allowed
<1>2. ASSUME NEW p \in Proc, Die(p) PROVE Allowed
  <2>1. Contract!Stop(p)
    BY <1>2, <1>t DEF Die, Contract!Stop, files, Alive, Owner
  <2>2. QED
    BY <2>1 DEF Contract!Next, Allowed
<1>3. ASSUME NEW p \in Proc, Create(p) PROVE Allowed
  <2>1. CASE lock' = lock
    BY <1>3, <2>1, <1>t, QuietStep DEF Create, Step, Publishes, Exists, CreateFails
  <2>2. CASE lock = NoOwner /\ lock' = p
    BY <1>3, <2>2, <1>t, ClaimStep DEF Create, Step, Alive, Up
  <2>3. QED
    BY <1>3, <2>1, <2>2 DEF Create, Publishes, Exists, CreateFails
<1>4. ASSUME NEW p \in Proc, ReadOwner(p) PROVE Allowed
  <2>1. CASE lock = p
    BY <1>4, <2>1, <1>t, OpenStep DEF ReadOwner, Step, Alive, Read, files, Allowed
  <2>2. CASE lock # p
    BY <1>4, <2>2, <1>t, QuietStep DEF ReadOwner, Step, Read, files
  <2>3. QED
    BY <2>1, <2>2
<1>5. ASSUME NEW p \in Proc, FinalAtomic(p) PROVE Allowed
  <2> USE <1>5 DEF FinalAtomic, Finally, Step, Alive, Forget
  <2>1. CASE lock' = lock
    BY <2>1, <1>t, QuietStep
  <2>2. CASE lock' # lock
    <3>1. /\ lock = cur[p]
          /\ lock' \in {p, NoOwner}
      BY <2>2, <1>t DEF StillMine, Read, LockReadable, Removes, Publishes, Exists, CreateFails
    <3>2. lock # p => lock \notin Up
      BY <3>1, <1>t DEF VerdictSound, Stopped, Up
    <3>3. CASE lock' = p
      BY <2>2, <3>2, <3>3, <1>t, ClaimStep
    <3>4. CASE lock' = NoOwner
      <4>1. Writers' = Writers /\ p \notin Writers
        BY <1>t DEF Writers, Owner
      <4>2. CASE lock # p
        BY <3>2, <3>4, <4>1, <4>2 DEF Contract!Clear, Contract!Next, Allowed, Up, Writers
      <4>3. CASE lock = p
        <5>1. Contract!Yield(p)
          BY <3>4, <4>1, <4>3 DEF Contract!Yield, Writers
        <5>2. QED
          BY <5>1 DEF Contract!Next, Allowed
      <4>4. QED
        BY <4>2, <4>3
    <3>5. QED
      BY <3>1, <3>3, <3>4
  <2>3. QED
    BY <2>1, <2>2
<1>6. ASSUME NEW p \in Proc, RcRelease(p) PROVE Allowed
  <2>1. CASE pc' = [pc EXCEPT ![p] = "holding"]
    <3>1. lock = p
      BY <1>6, <2>1, <1>t DEF RcRelease, Step, OwnersFile, Owns
    <3>2. QED
      BY <1>6, <2>1, <3>1, OpenStep DEF RcRelease, Step, Alive, Keep, files, Allowed
  <2>2. CASE pc' # [pc EXCEPT ![p] = "holding"]
    BY <1>6, <2>2, <1>t, QuietStep DEF RcRelease, Step, Keep, files, Results
  <2>3. QED
    BY <2>1, <2>2
<1>7. ASSUME NEW p \in Proc, RcUnlink(p) PROVE Allowed
  <2>1. CASE pc' = [pc EXCEPT ![p] = "holding"]
    <3>1. lock = p
      BY <1>7, <2>1, <1>t DEF RcUnlink, Step, OwnersFile, Owns
    <3>2. QED
      BY <1>7, <2>1, <3>1, OpenStep DEF RcUnlink, Step, Alive, Keep, files, Allowed
  <2>2. CASE pc' # [pc EXCEPT ![p] = "holding"]
    BY <1>7, <2>2, <1>t, QuietStep DEF RcUnlink, Step, Keep, files, Results
  <2>3. QED
    BY <2>1, <2>2
<1>8. ASSUME NEW p \in Proc, Heartbeat(p) PROVE Allowed
  <2>1. CASE Lost(p)
    <3>1. Contract!Close(p)
      BY <1>8, <2>1, <1>t DEF Heartbeat, Step, files, Contract!Close, Owner
    <3>2. QED
      BY <3>1 DEF Contract!Next, Allowed
  <2>2. CASE ~Lost(p)
    <3>1. UNCHANGED <<os, lock>> /\ \A q \in Proc : pc'[q] = pc[q]
      BY <1>8, <2>2, <1>t DEF Heartbeat, Step, files
    <3>2. QED
      BY <3>1 DEF Allowed, Up, Gone, Writers, Owner
  <2>3. QED
    BY <2>1, <2>2
<1>9. ASSUME NEW p \in Proc, StopServing(p) PROVE Allowed
  <2>1. CASE Step(p, "holding", "drain")
    <3>1. /\ UNCHANGED <<os, lock>>
          /\ \A q \in Proc : pc'[q] \in {"holding", "drain"} <=> pc[q] \in {"holding", "drain"}
      BY <1>9, <2>1, <1>t DEF StopServing, Step, files
    <3>2. QED
      BY <3>1 DEF Allowed, Up, Gone, Writers, Owner
  <2>2. CASE Step(p, "drain", "release")
    <3>1. Contract!Close(p)
      BY <1>9, <2>2, <1>t DEF StopServing, Step, files, Contract!Close, Owner
    <3>2. QED
      BY <3>1 DEF Contract!Next, Allowed
  <2>3. CASE Step(p, "degraded", "release")
    BY <1>9, <2>3, <1>t, QuietStep DEF StopServing, Step, files
  <2>4. QED
    BY <1>9, <2>1, <2>2, <2>3 DEF StopServing
<1>10. ASSUME NEW p \in Proc, Unlink(p) PROVE Allowed
  <2>1. CASE lock' = lock
    BY <1>10, <2>1, <1>t, QuietStep DEF Unlink, Step
  <2>2. CASE lock' # lock
    <3>1. Contract!Yield(p)
      BY <1>10, <2>2, <1>t
      DEF Unlink, Step, Removes, Contract!Yield, Owner, OwnersFile, Owns, Alive
    <3>2. QED
      BY <3>1 DEF Contract!Next, Allowed
  <2>3. QED
    BY <2>1, <2>2
<1>11. ASSUME NEW p \in Proc, Reap(p) PROVE Allowed
  BY <1>11, <1>t DEF Reap, files, Allowed, Up, Gone, Writers, Owner
<1>12. ASSUME NEW p \in Proc, TakeCron(p) PROVE Allowed
  BY <1>12, <1>t DEF TakeCron, files, Allowed, Up, Gone, Writers, Owner
<1>13. ASSUME NEW p \in Proc, GiveUp(p) PROVE Allowed
  BY <1>13, <1>t, QuietStep DEF GiveUp, Step, Keep, files
<1>14. ASSUME NEW p \in Proc, LegacyRead(p) PROVE Allowed
  BY <1>14, <1>t, QuietStep DEF LegacyRead, Step, Keep, files
<1>15. ASSUME NEW p \in Proc, LegacyGone(p) PROVE Allowed
  BY <1>15, <1>t, QuietStep DEF LegacyGone, Step, Keep, files
<1>16. ASSUME NEW p \in Proc, LegacyHeld(p) PROVE Allowed
  BY <1>16, <1>t, QuietStep DEF LegacyHeld, Step, Keep, files
<1>17. ASSUME NEW p \in Proc, LegacyMain(p) PROVE Allowed
  BY <1>17, <1>t, QuietStep DEF LegacyMain, Step, Keep, files
<1>18. ASSUME NEW p \in Proc, ProbeOwner(p) PROVE Allowed
  BY <1>18, <1>t, QuietStep DEF ProbeOwner, Step, Keep, files
<1>19. ASSUME NEW p \in Proc, Retry(p) PROVE Allowed
  BY <1>19, <1>t, QuietStep DEF Retry, Step, Keep, files
<1>20. ASSUME NEW p \in Proc, RcCreate(p) PROVE Allowed
  BY <1>20, <1>t, QuietStep DEF RcCreate, Step, Keep, files
<1>21. ASSUME NEW p \in Proc, RcRead(p) PROVE Allowed
  BY <1>21, <1>t, QuietStep DEF RcRead, Step, Keep, files
<1>22. ASSUME NEW p \in Proc, RcProbe(p) PROVE Allowed
  BY <1>22, <1>t, QuietStep DEF RcProbe, Step, Keep, files
<1>23. ASSUME NEW p \in Proc, RcLatest(p) PROVE Allowed
  BY <1>23, <1>t, QuietStep DEF RcLatest, Step, Keep, files
<1>24. ASSUME NEW p \in Proc, RcRemove(p) PROVE Allowed
  BY <1>24, <1>t, QuietStep DEF RcRemove, Step, Keep, files
<1>25. ASSUME NEW p \in Proc, RcRetry(p) PROVE Allowed
  BY <1>25, <1>t, QuietStep DEF RcRetry, Step, Keep, files
<1>26. ASSUME NEW p \in Proc, Recheck(p) PROVE Allowed
  BY <1>26, <1>t, QuietStep DEF Recheck, Step, Keep, files, Finally
<1>27. ASSUME NEW p \in Proc, ReProbe(p) PROVE Allowed
  BY <1>27, <1>t, QuietStep DEF ReProbe, Step, Keep, files, Finally
<1>28. ASSUME NEW p \in Proc, FinalLock(p) PROVE Allowed
  BY <1>28, <1>t, QuietStep DEF FinalLock, Step, Keep, files, Finally
<1>29. ASSUME NEW p \in Proc, FinalReclaim(p) PROVE Allowed
  BY <1>29, <1>t, QuietStep DEF FinalReclaim, Step, Keep, files, Outcomes, Finally
<1>30. ASSUME NEW p \in Proc, Remove(p) PROVE Allowed
  BY <1>30, <1>t, QuietStep DEF Remove, Step, Keep, files, Outcomes
<1>31. ASSUME NEW p \in Proc, Publish(p) PROVE Allowed
  BY <1>31, <1>t, QuietStep DEF Publish, Step, Keep, files, Outcomes, Finally
<1>32. ASSUME NEW p \in Proc, Release(p) PROVE Allowed
  BY <1>32, <1>t, QuietStep DEF Release, Step, Keep, files
<1>33. CASE DamageLock
  BY <1>33 DEF DamageLock, Assumptions
<1>34. CASE UNCHANGED vars
  BY <1>34 DEF vars, Allowed, Up, Gone, Writers, Owner
<1>35. QED
  BY <1>1, <1>2, <1>3, <1>4, <1>5, <1>6, <1>7, <1>8, <1>9, <1>10, <1>11, <1>12, <1>13, <1>14,
     <1>15, <1>16, <1>17, <1>18, <1>19, <1>20, <1>21, <1>22, <1>23, <1>24, <1>25, <1>26, <1>27,
     <1>28, <1>29, <1>30, <1>31, <1>32, <1>33, <1>34 DEF Next, Run, Event, LegacyCheck, Judge,
     TakeReclaim, Recover, GiveBack, Exit

\* The file protocol of the lock implements the contract of the store.
THEOREM ImplementsContract ==
  ASSUME Assumptions PROVE Spec => ContractSpec
<1>1. IInv /\ [Next]_vars => [Contract!Next]_(Contract!vars)
  BY ContractStep DEF Allowed, Contract!vars, Up, Gone, Writers
<1>2. IInv /\ [Next]_vars => IInv'
  BY IInvStep
<1>3. QED
  BY <1>1, <1>2, IInvInit, ContractInit, PTL DEF Spec, ContractSpec, Contract!Spec

\* The contract by itself keeps a second writer out: a lease is never taken from
\* a running process, so whoever writes is its running owner.
THEOREM ContractKeepsOneWriter == ContractSpec => []Contract!OneWriter
<1>1. Contract!Init => Contract!OneWriter
  BY DEF Contract!Init, Contract!OneWriter
<1>2. Contract!OneWriter /\ [Contract!Next]_(Contract!vars) => Contract!OneWriter'
  <2> SUFFICES ASSUME Contract!OneWriter, [Contract!Next]_(Contract!vars)
               PROVE  Contract!OneWriter'
    OBVIOUS
  <2> USE DEF Contract!OneWriter
  <2>1. CASE Contract!Clear
    BY <2>1 DEF Contract!Clear
  <2>2. ASSUME NEW p \in Proc, Contract!Boot(p) PROVE Contract!OneWriter'
    BY <2>2 DEF Contract!Boot
  <2>3. ASSUME NEW p \in Proc, Contract!Stop(p) PROVE Contract!OneWriter'
    BY <2>3 DEF Contract!Stop
  <2>4. ASSUME NEW p \in Proc, Contract!Claim(p) PROVE Contract!OneWriter'
    BY <2>4 DEF Contract!Claim
  <2>5. ASSUME NEW p \in Proc, Contract!Open(p) PROVE Contract!OneWriter'
    BY <2>5 DEF Contract!Open
  <2>6. ASSUME NEW p \in Proc, Contract!Close(p) PROVE Contract!OneWriter'
    BY <2>6 DEF Contract!Close
  <2>7. ASSUME NEW p \in Proc, Contract!Yield(p) PROVE Contract!OneWriter'
    BY <2>7 DEF Contract!Yield
  <2>8. CASE UNCHANGED Contract!vars
    BY <2>8 DEF Contract!vars
  <2>9. QED
    BY <2>1, <2>2, <2>3, <2>4, <2>5, <2>6, <2>7, <2>8 DEF Contract!Next
<1>3. QED
  BY <1>1, <1>2, PTL DEF ContractSpec, Contract!Spec
=============================================================================
