----------------------------- MODULE StoreLock -----------------------------
(***************************************************************************)
(* The single-writer lock of the desktop session store.                    *)
(*                                                                         *)
(* Every sidecar process that opens the store first takes sidecar.lock     *)
(* (src/src/server/store-lock.ts), a file published atomically with the    *)
(* identity of its writer, built on the lock-file primitives of            *)
(* src/src/server/cron-lock.ts.  Processes share nothing but the file      *)
(* system and the process table, so one step here is one file-system call, *)
(* one verdict about another process, or one event of the system.          *)
(***************************************************************************)
EXTENDS Naturals

CONSTANTS
  Proc,        \* process incarnations; an incarnation is its own ownerToken
  Old,         \* incarnations of releases that know no sidecar.lock
  Untimed,     \* incarnations whose records carry no ownerToken/startedAtMs
  PidOf,       \* the pid of an incarnation (the system reuses pids)
  MachineOf,   \* the machine it runs on
  HostOf,      \* the host name it writes
  MachineIdOf, \* the machine id it resolved, NoId when the probe failed
  NoId,
  NoOwner,     \* readLockFile's null; also UNKNOWN_OWNER, which matches nobody
  Corrupt,     \* a lock file whose content does not parse
  AllowLegacyHostRecovery, \* RIVET_STORE_LOCK_RECOVER_LEGACY_HOST=1
  AtomicTakeover, \* no other process runs between the last check and the publish
  MayCorrupt,     \* the disk may damage a lock file
  FsMayFail,      \* a create or a remove may fail with an unexpected errno
  ProbesMayFail   \* a probe of a process may time out

ASSUME ProcAssumption ==
  /\ Old \subseteq Proc
  /\ Untimed \subseteq Proc
  /\ NoOwner \notin Proc
  /\ Corrupt \notin Proc \cup {NoOwner}

ASSUME SwitchAssumption ==
  {AllowLegacyHostRecovery, AtomicTakeover, MayCorrupt, FsMayFail, ProbesMayFail}
    \subseteq BOOLEAN

VARIABLES
  os,      \* process table: "unborn", "alive", "zombie" or "dead"
  lock,    \* content of sidecar.lock
  reclaim, \* content of sidecar.lock.reclaim
  cron,    \* content of scheduled_tasks.lock, the scheduler's lock
  pc,      \* where each process is between two file-system calls
  seen,    \* the owner read by attemptAcquire or by legacyWriter
  cur,     \* the owner re-read by recoverLock under the reclaim lock
  rseen,   \* the owner of the reclaim lock read by acquireReclaimLock
  res,     \* what to do once the reclaim lock is released
  misses   \* readMissCount

local == <<seen, cur, rseen, res>>
files == <<lock, reclaim, cron>>
vars  == <<os, lock, reclaim, cron, pc, seen, cur, rseen, res, misses>>

HEARTBEAT_READ_MISS_LIMIT == 3

\* The labels a process may have when a release of the reclaim lock is over.
Results  == {"backoff", "holding", "degraded", "exiting"}
Attempt  == {"legacy", "legacyProbe", "legacyMain", "create", "readOwner",
             "probe", "backoff", "rcCreate", "rcRead", "rcProbe", "rcLatest",
             "rcRemove", "rcRetry", "recheck", "reProbe", "final",
             "finalReclaim", "remove", "publish"}
Labels   == Attempt \cup Results \cup
            {"idle", "old", "drain", "release", "unlink", "rcRelease", "rcUnlink"}
Contents == Proc \cup {NoOwner, Corrupt}

---------------------------------------------------------------------------
(* What a process can find out about another one.                          *)

Alive(p) == os[p] = "alive"

\* A missing file and one that does not parse both read as null.
Read(file) == IF file = Corrupt THEN NoOwner ELSE file

\* isSameMachine, as p evaluates it on the record of q.
SameMachine(p, q) ==
  IF MachineIdOf[q] # NoId THEN MachineIdOf[q] = MachineIdOf[p]
                           ELSE HostOf[q] = HostOf[p]

\* The recovery switch lets any process judge a record without a machine id.
LegacyHost(q) == AllowLegacyHostRecovery /\ MachineIdOf[q] = NoId

\* The conditions under which p goes on to probe the pid that q recorded.
MayJudge(p, q) == IF SameMachine(p, q) THEN q \notin Untimed ELSE LegacyHost(q)
MayJudgeReclaimer_MainLockOnly(p, q) == LegacyHost(q)
MayJudgeReclaimer(p, q) == MayJudge(p, q) \/ LegacyHost(q)

\* The processes that p's machine lists under the pid that q recorded.
Occupants(p, q) ==
  {r \in Proc : /\ MachineOf[r] = MachineOf[p]
                /\ PidOf[r] = PidOf[q]
                /\ os[r] \in {"alive", "zombie"}}

\* isHolderGone answers that nobody, or only a zombie, has the pid ("pid_dead");
\* the creation time read at the pid is not the recorded one ("pid_reused").
Vacant(p, q)    == \A r \in Occupants(p, q) : os[r] = "zombie"
Reused_AnyOccupant(p, q) == q \notin Untimed /\ Occupants(p, q) # {}
Reused(p, q)    == q \notin Untimed /\ \E r \in Occupants(p, q) : r # q
MayFindGone_OnTimeout(p, q) == Vacant(p, q) \/ Reused(p, q) \/ ProbesMayFail
MayFindGone(p, q) == Vacant(p, q) \/ Reused(p, q)

\* Everything else counts as held: a match, a record without a creation time,
\* a probe that failed.
MayFindHeld(p, q) ==
  \E r \in Occupants(p, q) :
    ProbesMayFail \/ (os[r] = "alive" /\ (r = q \/ q \in Untimed))

---------------------------------------------------------------------------
(* Steps of one process.                                                   *)

Step(p, from, to) ==
  /\ Alive(p)
  /\ pc[p] = from
  /\ pc' = [pc EXCEPT ![p] = to]

\* The locals of an attempt, but for the outcome r, die with it.
Forget(p, r) ==
  /\ seen'  = [seen  EXCEPT ![p] = NoOwner]
  /\ cur'   = [cur   EXCEPT ![p] = NoOwner]
  /\ rseen' = [rseen EXCEPT ![p] = NoOwner]
  /\ res'   = [res   EXCEPT ![p] = r]

Keep == UNCHANGED <<os, files, local, misses>>

\* createLockFileExclusive by p of a file whose content goes from old to new.
Publishes(p, old, new) == old = NoOwner /\ new = p
Exists(old, new) == old # NoOwner /\ new = old
\* Any other errno; the unlink of the temporary name fails after the link did not.
CreateFails(p, old, new) ==
  FsMayFail /\ (new = old \/ Publishes(p, old, new))

\* removeLockFile deletes what is there, whoever owns it by now.
Removes(old, new) == new = NoOwner \/ (FsMayFail /\ new = old)

Init ==
  \* A store as earlier runs left it: nothing, or the files of dead processes.
  /\ \E leftover \in SUBSET Proc :
       /\ os = [p \in Proc |-> IF p \in leftover THEN "dead" ELSE "unborn"]
       /\ lock \in (leftover \ Old) \cup {NoOwner}
       /\ reclaim \in (leftover \ Old) \cup {NoOwner}
       /\ cron \in leftover \cup {NoOwner}
  /\ pc = [p \in Proc |-> "idle"]
  /\ seen = [p \in Proc |-> NoOwner]
  /\ cur = [p \in Proc |-> NoOwner]
  /\ rseen = [p \in Proc |-> NoOwner]
  /\ res = [p \in Proc |-> "backoff"]
  /\ misses = [p \in Proc |-> 0]

---------------------------------------------------------------------------
(* The system around the lock.                                             *)

\* A process starts under a pid that its machine has free.  What wrote records
\* without an identity no longer starts, unless it is a release without the lock.
Start(p) ==
  /\ os[p] = "unborn"
  /\ Occupants(p, p) = {}
  /\ p \in Untimed => p \in Old
  /\ os' = [os EXCEPT ![p] = "alive"]
  /\ pc' = [pc EXCEPT ![p] = IF p \in Old THEN "old" ELSE "legacy"]
  /\ UNCHANGED <<files, local, misses>>

\* A crash or SIGKILL anywhere, and the exit at the end of a shutdown.
Die(p) ==
  /\ Alive(p)
  /\ os' = [os EXCEPT ![p] = "zombie"]
  /\ pc' = [pc EXCEPT ![p] = "idle"]
  /\ misses' = [misses EXCEPT ![p] = 0]
  /\ Forget(p, "backoff")
  /\ UNCHANGED files

Reap(p) ==
  /\ os[p] = "zombie"
  /\ os' = [os EXCEPT ![p] = "dead"]
  /\ UNCHANGED <<files, pc, local, misses>>

DamageLock ==
  /\ MayCorrupt
  /\ lock \in Proc
  /\ lock' = Corrupt
  /\ UNCHANGED <<os, reclaim, cron, pc, local, misses>>

\* The scheduler's lock goes to an old sidecar, which looks at nothing else, or
\* to a store owner that starts its scheduler, once its owner is gone.
TakeCron(p) ==
  /\ Alive(p) /\ pc[p] \in {"old", "holding"}
  /\ \/ cron = NoOwner
     \/ cron # NoOwner /\ ~Alive(cron)
  /\ cron' = p
  /\ UNCHANGED <<os, lock, reclaim, pc, local, misses>>

---------------------------------------------------------------------------
(* attemptAcquire, before the exclusive create: legacyWriter().            *)

LegacyRead(p) ==
  LET w    == cron
      own  == w # NoOwner /\ PidOf[w] = PidOf[p] /\ SameMachine(p, w)
      free == w = NoOwner \/ own
  IN  /\ Step(p, "legacy",
              IF free THEN "create"
              ELSE IF SameMachine(p, w) \/ LegacyHost(w) THEN "legacyProbe"
              ELSE "backoff")
      /\ seen' = [seen EXCEPT ![p] = w]
      /\ UNCHANGED <<os, files, cur, rseen, res, misses>>

LegacyGone(p) ==
  /\ Step(p, "legacyProbe", "create")
  /\ MayFindGone(p, seen[p])
  /\ Keep

LegacyHeld(p) ==
  LET match == /\ SameMachine(p, seen[p])
               /\ seen[p] \in Occupants(p, seen[p]) \ Untimed
  IN  /\ \/ Step(p, "legacyProbe", "legacyMain") /\ match
         \/ Step(p, "legacyProbe", "backoff") /\ (~match \/ ProbesMayFail)
      /\ MayFindHeld(p, seen[p])
      /\ Keep

\* The holder of both locks is no legacy writer; only the pids are compared.
HoldsBoth_AnyPid(q) == Read(lock) # NoOwner
HoldsBoth(q) == Read(lock) # NoOwner /\ PidOf[lock] = PidOf[q]

LegacyMain(p) ==
  /\ Step(p, "legacyMain", IF HoldsBoth(seen[p]) THEN "create" ELSE "backoff")
  /\ Keep

---------------------------------------------------------------------------
(* attemptAcquire: the exclusive create and the judgement of the holder.   *)

Create(p) ==
  /\ \/ Publishes(p, lock, lock') /\ Step(p, "create", "holding")
     \/ Exists(lock, lock')       /\ Step(p, "create", "readOwner")
     \/ CreateFails(p, lock, lock') /\ Step(p, "create", "degraded")
  /\ Forget(p, "backoff")
  /\ UNCHANGED <<os, reclaim, cron, misses>>

ReadOwner(p) ==
  LET owner == Read(lock) IN
  /\ Step(p, "readOwner",
          IF owner = NoOwner THEN "rcCreate"
          ELSE IF owner = p THEN "holding"
          ELSE IF MayJudge(p, owner) THEN "probe"
          ELSE "backoff")
  /\ seen' = [seen EXCEPT ![p] = owner]
  /\ UNCHANGED <<os, files, cur, rseen, res, misses>>

ProbeOwner(p) ==
  /\ \/ Step(p, "probe", "rcCreate") /\ MayFindGone(p, seen[p])
     \/ Step(p, "probe", "backoff") /\ MayFindHeld(p, seen[p])
  /\ Keep

\* acquire(): another attempt within the retry window, or none.  A sidecar that
\* did not get the lock stays up without it and never tries again.
Retry(p) ==
  /\ Step(p, "backoff", "legacy")
  /\ Forget(p, "backoff")
  /\ UNCHANGED <<os, files, misses>>

GiveUp(p) ==
  /\ Step(p, "backoff", "degraded")
  /\ Forget(p, "backoff")
  /\ UNCHANGED <<os, files, misses>>

---------------------------------------------------------------------------
(* acquireReclaimLock.                                                     *)

RcCreate(p) ==
  /\ \/ Publishes(p, reclaim, reclaim')   /\ Step(p, "rcCreate", "recheck")
     \/ Exists(reclaim, reclaim')         /\ Step(p, "rcCreate", "rcRead")
     \/ CreateFails(p, reclaim, reclaim') /\ Step(p, "rcCreate", "backoff")
  /\ UNCHANGED <<os, lock, cron, local, misses>>

RcRead(p) ==
  LET owner == Read(reclaim) IN
  /\ Step(p, "rcRead",
          IF owner = NoOwner THEN "backoff"
          ELSE IF owner = p THEN "recheck"
          ELSE IF MayJudgeReclaimer(p, owner) THEN "rcProbe"
          ELSE "backoff")
  /\ rseen' = [rseen EXCEPT ![p] = owner]
  /\ UNCHANGED <<os, files, seen, cur, res, misses>>

RcProbe(p) ==
  /\ \/ Step(p, "rcProbe", "rcLatest") /\ MayFindGone(p, rseen[p])
     \/ Step(p, "rcProbe", "backoff") /\ MayFindHeld(p, rseen[p])
  /\ Keep

RcLatest(p) ==
  /\ Step(p, "rcLatest", IF Read(reclaim) = rseen[p] THEN "rcRemove" ELSE "backoff")
  /\ Keep

RcRemove(p) ==
  /\ Removes(reclaim, reclaim')
  /\ Step(p, "rcRemove", "rcRetry")
  /\ UNCHANGED <<os, lock, cron, local, misses>>

RcRetry(p) ==
  /\ \/ Publishes(p, reclaim, reclaim') /\ Step(p, "rcRetry", "recheck")
     \/ /\ Exists(reclaim, reclaim') \/ CreateFails(p, reclaim, reclaim')
        /\ Step(p, "rcRetry", "backoff")
  /\ UNCHANGED <<os, lock, cron, local, misses>>

---------------------------------------------------------------------------
(* recoverLock, under the reclaim lock.                                    *)

\* The finally block releases the reclaim lock, then the attempt ends as r says.
Finally(p, from, r) ==
  /\ Step(p, from, "rcRelease")
  /\ Forget(p, r)

Recheck(p) ==
  LET current == Read(lock) IN
  /\ \/ /\ current \notin {NoOwner, seen[p]}
        /\ Finally(p, "recheck", "backoff")
     \/ /\ current \in {NoOwner, seen[p]}
        /\ Step(p, "recheck", IF current \in {NoOwner, p} THEN "final" ELSE "reProbe")
        /\ cur' = [cur EXCEPT ![p] = current]
        /\ UNCHANGED <<seen, rseen, res>>
  /\ UNCHANGED <<os, files, misses>>

ReProbe(p) ==
  /\ \/ /\ Step(p, "reProbe", "final")
        /\ MayFindGone(p, cur[p])
        /\ UNCHANGED local
     \/ /\ Finally(p, "reProbe", "backoff")
        /\ MayFindHeld(p, cur[p])
  /\ UNCHANGED <<os, files, misses>>

\* The last look at both files: the target and the reclaim lock are as they were.
StillMine_Reclaim(p) == Read(reclaim) = p
StillMine(p) == Read(lock) = cur[p] /\ Read(reclaim) = p

\* That look, the removal and the publication, as one step ...
FinalAtomic(p) ==
  /\ AtomicTakeover
  /\ \/ /\ ~StillMine(p)
        /\ Finally(p, "final", "backoff")
        /\ UNCHANGED lock
     \/ /\ StillMine(p)
        /\ \E left \in Contents :
             /\ Removes(lock, left)
             /\ \/ Publishes(p, left, lock')   /\ Finally(p, "final", "holding")
                \/ Exists(left, lock')         /\ Finally(p, "final", "backoff")
                \/ CreateFails(p, left, lock') /\ Finally(p, "final", "degraded")
  /\ UNCHANGED <<os, reclaim, cron, misses>>

\* ... and as the four calls they are, between which other processes run.
FinalLock(p) ==
  /\ ~AtomicTakeover
  /\ \/ Read(lock) = cur[p] /\ Step(p, "final", "finalReclaim") /\ UNCHANGED local
     \/ Read(lock) # cur[p] /\ Finally(p, "final", "backoff")
  /\ UNCHANGED <<os, files, misses>>

FinalReclaim(p) ==
  /\ \/ Read(reclaim) = p /\ Step(p, "finalReclaim", "remove") /\ UNCHANGED local
     \/ Read(reclaim) # p /\ Finally(p, "finalReclaim", "backoff")
  /\ UNCHANGED <<os, files, misses>>

Remove(p) ==
  /\ Removes(lock, lock')
  /\ Step(p, "remove", "publish")
  /\ UNCHANGED <<os, reclaim, cron, local, misses>>

Publish(p) ==
  /\ \/ Publishes(p, lock, lock')   /\ Finally(p, "publish", "holding")
     \/ Exists(lock, lock')         /\ Finally(p, "publish", "backoff")
     \/ CreateFails(p, lock, lock') /\ Finally(p, "publish", "degraded")
  /\ UNCHANGED <<os, reclaim, cron, misses>>

\* releaseReclaimLock.
RcRelease(p) ==
  /\ Step(p, "rcRelease", IF Read(reclaim) = p THEN "rcUnlink" ELSE res[p])
  /\ Keep

RcUnlink(p) ==
  /\ Removes(reclaim, reclaim')
  /\ Step(p, "rcUnlink", res[p])
  /\ UNCHANGED <<os, lock, cron, local, misses>>

---------------------------------------------------------------------------
(* Ownership: the heartbeat, its verdict, and release().                   *)

\* heartbeatTick: a file that is gone or somebody else's is lost at once, one
\* that cannot be read after HEARTBEAT_READ_MISS_LIMIT ticks in a row.
Lost_Late(p) ==
  \/ lock \notin {p, Corrupt}
  \/ lock = Corrupt /\ misses[p] >= HEARTBEAT_READ_MISS_LIMIT
Lost_Deleted(p) ==
  \/ lock = NoOwner
  \/ lock = Corrupt /\ misses[p] + 1 >= HEARTBEAT_READ_MISS_LIMIT
Lost(p) ==
  \/ lock \notin {p, Corrupt}
  \/ lock = Corrupt /\ misses[p] + 1 >= HEARTBEAT_READ_MISS_LIMIT

\* markLockLost ends ownership, and serve.ts's handler releases and exits.
Heartbeat(p) ==
  /\ \E at \in {"holding", "drain"} : Step(p, at, IF Lost(p) THEN "release" ELSE at)
  /\ misses' = [misses EXCEPT ![p] = IF lock = Corrupt /\ ~Lost(p) THEN @ + 1 ELSE 0]
  /\ UNCHANGED <<os, files, local>>

\* Shutdown: an owner writes on until its sessions are drained and flushed.
StopServing(p) ==
  /\ \/ Step(p, "holding", "drain") /\ UNCHANGED misses
     \/ /\ \E from \in {"drain", "degraded"} : Step(p, from, "release")
        /\ misses' = [misses EXCEPT ![p] = 0]
  /\ UNCHANGED <<os, files, local>>

\* wiring.stop() has given the scheduler's lock back before release() reads.
Release(p) ==
  /\ Step(p, "release", IF Read(lock) = p THEN "unlink" ELSE "rcRelease")
  /\ cron' = IF cron = p THEN NoOwner ELSE cron
  /\ res' = [res EXCEPT ![p] = "exiting"]
  /\ UNCHANGED <<os, lock, reclaim, seen, cur, rseen, misses>>

Unlink(p) ==
  /\ Removes(lock, lock')
  /\ Step(p, "unlink", "rcRelease")
  /\ UNCHANGED <<os, reclaim, cron, local, misses>>

---------------------------------------------------------------------------
LegacyCheck(p) == LegacyRead(p) \/ LegacyGone(p) \/ LegacyHeld(p) \/ LegacyMain(p)
Judge(p)       == Create(p) \/ ReadOwner(p) \/ ProbeOwner(p)
TakeReclaim(p) == \/ RcCreate(p) \/ RcRead(p) \/ RcProbe(p)
                  \/ RcLatest(p) \/ RcRemove(p) \/ RcRetry(p)
Recover(p)     == \/ Recheck(p) \/ ReProbe(p) \/ FinalAtomic(p) \/ FinalLock(p)
                  \/ FinalReclaim(p) \/ Remove(p) \/ Publish(p)
GiveBack(p)    == Release(p) \/ Unlink(p) \/ RcRelease(p) \/ RcUnlink(p)

\* The CLI's handler of a lost lock, and a finished shutdown, end the process.
Exit(p) == pc[p] = "exiting" /\ Die(p)

\* What a running process does on its own, and what may happen to it.
Run(p)   == \/ LegacyCheck(p) \/ Judge(p) \/ Retry(p) \/ TakeReclaim(p)
            \/ Recover(p) \/ GiveBack(p) \/ Heartbeat(p) \/ Exit(p)
Event(p) == \/ Start(p) \/ Die(p) \/ Reap(p) \/ TakeCron(p)
            \/ GiveUp(p) \/ StopServing(p)

Next == DamageLock \/ \E p \in Proc : Run(p) \/ Event(p)

Spec == Init /\ [][Next]_vars

\* Synchronous code runs on, and the retry and heartbeat timers fire.
Fairness == \A p \in Proc : WF_vars(Run(p))

FairSpec == Spec /\ Fairness
---------------------------------------------------------------------------
(* Properties.                                                             *)

TypeOK ==
  /\ os \in [Proc -> {"unborn", "alive", "zombie", "dead"}]
  /\ lock \in Contents /\ reclaim \in Contents /\ cron \in Contents \ {Corrupt}
  /\ pc \in [Proc -> Labels]
  /\ seen \in [Proc -> Proc \cup {NoOwner}]
  /\ cur \in [Proc -> Proc \cup {NoOwner}]
  /\ rseen \in [Proc -> Proc \cup {NoOwner}]
  /\ res \in [Proc -> Results]
  /\ misses \in [Proc -> 0 .. HEARTBEAT_READ_MISS_LIMIT - 1]

\* isOwner(): the process serves and writes the session store.
Owner(p) == pc[p] \in {"holding", "drain"}

\* The store has a single writer: "the session store must be single-writer"
\* (header of store-lock.ts), whatever crashes, reused pids, failed probes and
\* concurrent takeovers happened before.
SingleWriter == \A p, q \in Proc : Owner(p) /\ Owner(q) => p = q

\* The file speaks for the owner as long as it serves, and what release() is
\* about to delete is its own file ("never delete somebody else's lock").
OwnerFileIntact == \A p \in Proc : pc[p] \in {"holding", "drain", "unlink"} => lock = p

\* legacyWriter() lets a process pass a scheduler-lock owner of a release that
\* knows no sidecar.lock only when that owner is gone or its pid was reused.
LegacyVerdictSound ==
  \A p \in Proc : pc[p] = "create" /\ seen[p] \in Old => ~Alive(seen[p])

\* Two writers never last: an owner whose file is no longer its own, deleted,
\* replaced or unreadable, stops serving (heartbeatTick, markLockLost).
DisplacedOwnerStops == \A p \in Proc : Owner(p) /\ lock # p ~> ~Owner(p)

\* A crash anywhere, also inside a takeover, does not lock the store for good:
\* a sidecar that keeps trying gets it, unless a running process has the file.
DeadOwnerReplaced ==
  \A p \in Proc :
    pc[p] = "legacy" ~> \/ pc[p] \notin Attempt
                        \/ \E q \in Proc : Alive(q) /\ lock = q

\* The lock implements the contract of the store.
Contract == INSTANCE StoreContract
  WITH up <- {p \in Proc : os[p] = "alive"},
       gone <- {p \in Proc : os[p] \in {"zombie", "dead"}},
       lease <- lock,
       writers <- {p \in Proc : Owner(p)}
ContractSpec == Contract!Spec
=============================================================================
