----------------------------- MODULE FileClaims -----------------------------
(***************************************************************************)
(* Exclusive claims on files, by which sessions that write in one          *)
(* workspace keep out of each other's edits: agent/session-registry.ts and *)
(* agent/claim-registry-storage.ts, the takeover of agent/claim-liveness.ts*)
(* and the write guard of agent/tool-pipeline.ts, from the first claim of  *)
(* a tool call to its rollback or to the claims after the edit.            *)
(*                                                                         *)
(* Sessions share a database.  In the CLI each session is a process, and   *)
(* a step is one statement or transaction.  In the sidecar all sessions    *)
(* are one process: another session comes only where this one awaits.      *)
(*                                                                         *)
(* Definitions whose names hold an underscore are deliberate slips, each   *)
(* the mutation of the definition that precedes the underscore.            *)
(***************************************************************************)
EXTENDS Integers, FiniteSets

CONSTANTS
  Session,      \* ids of sessions
  File,         \* claim keys: paths relative to the workspace
  Calls,        \* preWriteClaimPaths: the sets of files a tool call may write
  None,         \* nobody, and no file
  Deployments,  \* which of the two are looked at: TRUE is the sidecar
  MaxPaths,     \* bound: paths of all tool calls
  MaxStops      \* bound: crashes

ASSUME Constants ==
  /\ None \notin Session /\ None \notin File /\ Deployments \subseteq BOOLEAN
  /\ Calls \subseteq (SUBSET File) \ {{}}
  /\ IsFiniteSet(File) /\ MaxPaths \in Nat /\ MaxStops \in Nat

VARIABLES
  sidecar,    \* the deployment
  claim,      \* claims: the session whose row is there, all are exclusive
  stale,      \* claims that were not touched for FILE_CLAIM_STALE_MS
  row,        \* sessions: no row, or one whose pid is alive or dead
  pc,         \* where a session is: see Await and Sync
  todo,       \* paths the loop at hand has yet to visit
  staked,     \* ToolClaimBoundary.staked, until the call is over
  displaced,  \* ToolClaimBoundary.displaced
  cur,        \* claimPath
  asked,      \* owner: what checkClaim returned
  judged,     \* liveness.ownerSessionId
  same,       \* sessions whose liveness.lastTouchedAt is still the claim's
  aborted,    \* sessions whose abort signal has fired during the call
  doomed,     \* rows that a reaper has listed as dead
  lost,       \* history: how a running call lost the claim on a file it staked
  returned,   \* history: claims a rollback has inserted for their former owner
  paths,      \* counter of the bound: paths of tool calls
  stops       \* counter of the bound: crashes

table == <<claim, stale, returned>>
guard == <<todo, staked, displaced>>
takeover == <<cur, asked, judged>>
vars == <<sidecar, table, row, pc, guard, takeover, same, aborted, doomed, lost,
          paths, stops>>
bounds == <<paths, stops>>

\* A call waits: for the tool's turn, a probe of git, an answer, or its own edit.
Waiting == {"probeDead", "probeStale", "asking", "ready", "edit"}

Await == {"off", "rest"} \cup Waiting

\* Between two statements.
Sync == {"bootClaims", "bootRows", "register", "sweepClaims", "sweepRows", "leave",
         "acquire", "check", "judge", "seize", "grab", "seizeAsked", "grabAsked",
         "note", "undo"}

Why == {"no", "approved", "stale", "dead", "ghost", "reaped", "released", "robbed"}

Turn(s) == sidecar => \A q \in Session \ {s} : pc[q] \in Await

At(s, label) == pc[s] = label /\ Turn(s)

Go(s, label) == pc' = [pc EXCEPT ![s] = label]

-----------------------------------------------------------------------------
(* Statements.                                                             *)

Available_Anyway(s, f) == TRUE

\* acquireClaim succeeds: nobody else has a claim on f.
Available(s, f) == claim[f] \in {None, s}

\* It inserts or renews the claim, with a credential nobody has read.
Grant(s, f) ==
  /\ claim' = [claim EXCEPT ![f] = s]
  /\ stale' = stale \ {f}
  /\ returned' = returned \ {f}
  /\ same' = {q \in same : cur[q] # f}

\* Claims of the sessions of S on the files of F are deleted.
Delete(S, F) ==
  /\ claim' = [f \in File |-> IF f \in F /\ claim[f] \in S THEN None ELSE claim[f]]
  /\ stale' = {f \in stale : ~(f \in F /\ claim[f] \in S)}
  /\ returned' = {f \in returned : ~(f \in F /\ claim[f] \in S)}

\* The calls of S lose what they have staked among F.
Loses(S, F, why) ==
  lost' = [s \in Session |-> [f \in File |->
            IF s \in S /\ f \in F /\ f \in staked[s] /\ claim[f] = s THEN why
                                                                   ELSE lost[s][f]]]

Unchanged_Renewed(s) == claim[cur[s]] = judged[s]

\* releaseClaimIfUnchanged finds the claim, with the credential that was read.
Unchanged(s) == claim[cur[s]] = judged[s] /\ s \in same

-----------------------------------------------------------------------------
Init ==
  /\ sidecar \in Deployments
  /\ claim = [f \in File |-> None]
  /\ stale = {} /\ returned = {}
  /\ row = [s \in Session |-> IF sidecar THEN "live" ELSE "none"]
  /\ pc = [s \in Session |-> IF sidecar THEN "rest" ELSE "off"]
  /\ todo = [s \in Session |-> {}]
  /\ staked = [s \in Session |-> {}]
  /\ displaced = [s \in Session |-> {}]
  /\ cur = [s \in Session |-> None]
  /\ asked = [s \in Session |-> None]
  /\ judged = [s \in Session |-> None]
  /\ same = {} /\ aborted = {}
  /\ doomed = [s \in Session |-> {}]
  /\ lost = [s \in Session |-> [f \in File |-> "no"]]
  /\ paths = 0 /\ stops = 0

\* Nobody has touched the claim for ten minutes of a clock that may be set.
Age(f) ==
  /\ claim[f] # None /\ f \notin stale
  /\ stale' = stale \cup {f}
  /\ UNCHANGED <<sidecar, bounds, claim, returned, row, pc, guard, takeover, same, aborted,
                 doomed, lost>>

-----------------------------------------------------------------------------
(* Processes.                                                              *)

DeadRows == {s \in Session : row[s] = "dead"}

\* The locals of a call, of every session of S, are gone.
Over(S) ==
  /\ todo' = [s \in Session |-> IF s \in S THEN {} ELSE todo[s]]
  /\ staked' = [s \in Session |-> IF s \in S THEN {} ELSE staked[s]]
  /\ displaced' = [s \in Session |-> IF s \in S THEN {} ELSE displaced[s]]
  /\ cur' = [s \in Session |-> IF s \in S THEN None ELSE cur[s]]
  /\ asked' = [s \in Session |-> IF s \in S THEN None ELSE asked[s]]
  /\ judged' = [s \in Session |-> IF s \in S THEN None ELSE judged[s]]
  /\ same' = same \ S
  /\ aborted' = aborted \ S
  /\ lost' = [s \in Session |-> IF s \in S THEN [f \in File |-> "no"] ELSE lost[s]]

\* createSessionInfrastructure, or reapStaleClaims before a rewind: rows are listed.
Boot(s) ==
  /\ ~sidecar /\ pc[s] = "off"
  /\ doomed' = [doomed EXCEPT ![s] = DeadRows]
  /\ Go(s, IF DeadRows = {} THEN "register" ELSE "bootClaims")
  /\ UNCHANGED <<sidecar, bounds, table, row, guard, takeover, same, aborted, lost>>

Sweep(s) ==
  /\ ~sidecar /\ pc[s] = "rest" /\ DeadRows # {}
  /\ doomed' = [doomed EXCEPT ![s] = DeadRows]
  /\ Go(s, "sweepClaims")
  /\ UNCHANGED <<sidecar, bounds, table, row, guard, takeover, same, aborted, lost>>

DeleteClaims(s) ==
  /\ pc[s] \in {"bootClaims", "sweepClaims"}
  /\ Delete(doomed[s], File)
  /\ Loses(doomed[s], File, "reaped")
  /\ Go(s, IF pc[s] = "bootClaims" THEN "bootRows" ELSE "sweepRows")
  /\ UNCHANGED <<sidecar, bounds, row, guard, takeover, same, aborted, doomed>>

DeleteRows(s) ==
  /\ pc[s] \in {"bootRows", "sweepRows"}
  /\ row' = [q \in Session |-> IF q \in doomed[s] THEN "none" ELSE row[q]]
  /\ doomed' = [doomed EXCEPT ![s] = {}]
  /\ Go(s, IF pc[s] = "bootRows" THEN "register" ELSE "rest")
  /\ UNCHANGED <<sidecar, bounds, table, guard, takeover, same, aborted, lost>>

Register(s) ==
  /\ pc[s] = "register"
  /\ row' = [row EXCEPT ![s] = "live"]
  /\ Go(s, "rest")
  /\ UNCHANGED <<sidecar, bounds, table, guard, takeover, same, aborted, doomed, lost>>

\* The sidecar starts again: one process reaps what its predecessor has left, and
\* restores the sessions.  Only createSession registers one.
Restart ==
  /\ sidecar /\ \A s \in Session : pc[s] = "off"
  /\ Delete(DeadRows, File)
  /\ row' = [s \in Session |-> IF s \in DeadRows THEN "none" ELSE row[s]]
  /\ pc' = [s \in Session |-> "rest"]
  /\ UNCHANGED <<sidecar, bounds, guard, takeover, same, aborted, doomed, lost>>

\* A CLI session leaves: unregister.
Unregister(s) ==
  /\ ~sidecar /\ pc[s] = "rest"
  /\ Delete({s}, File)
  /\ Go(s, "leave")
  /\ UNCHANGED <<sidecar, bounds, row, guard, takeover, same, aborted, doomed, lost>>

Leave(s) ==
  /\ pc[s] = "leave"
  /\ row' = [row EXCEPT ![s] = "none"]
  /\ Go(s, "off")
  /\ UNCHANGED <<sidecar, bounds, table, guard, takeover, same, aborted, doomed, lost>>

\* A process dies at any point, with all its sessions.
Crash(s) ==
  LET S == IF sidecar THEN Session ELSE {s}
  IN /\ pc[s] # "off"
     /\ stops < MaxStops /\ stops' = stops + 1
     /\ pc' = [q \in Session |-> IF q \in S THEN "off" ELSE pc[q]]
     /\ row' = [q \in Session |-> IF q \in S /\ row[q] = "live" THEN "dead" ELSE row[q]]
     /\ doomed' = [q \in Session |-> IF q \in S THEN {} ELSE doomed[q]]
     /\ Over(S)
     /\ UNCHANGED <<sidecar, table, paths>>

\* The signal fires while the call waits.
Abort(s) ==
  /\ pc[s] \in Waiting /\ Turn(s)
  /\ aborted' = aborted \cup {s}
  /\ UNCHANGED <<sidecar, bounds, table, row, pc, guard, takeover, same, doomed, lost>>

\* A run of the sidecar settles.  An aborted one may have left its call behind.
Settle(s) ==
  /\ sidecar /\ Turn(s)
  /\ pc[s] = "rest" \/ (s \in aborted /\ pc[s] \in Waiting)
  /\ \E f \in File : claim[f] = s
  /\ Delete({s}, File)
  /\ Loses({s}, File, "released")
  /\ UNCHANGED <<sidecar, bounds, row, pc, guard, takeover, same, aborted, doomed>>

-----------------------------------------------------------------------------
(* The guard before a write.                                               *)

Begin(s) ==
  /\ At(s, "rest")
  /\ \E F \in Calls : /\ todo' = [todo EXCEPT ![s] = F]
                      /\ paths' = paths + Cardinality(F) /\ paths' <= MaxPaths
  /\ Go(s, "acquire")
  /\ UNCHANGED <<sidecar, stops, table, row, staked, displaced, takeover, same, aborted,
                 doomed, lost>>

\* What the loop knows of a path does not outlast it.
Forget(s) ==
  /\ cur' = [cur EXCEPT ![s] = None]
  /\ asked' = [asked EXCEPT ![s] = None]
  /\ judged' = [judged EXCEPT ![s] = None]

\* stake(): the loop goes on with the next path.
Stake(s, f, owner) ==
  /\ Forget(s)
  /\ staked' = [staked EXCEPT ![s] = @ \cup {f}]
  /\ displaced' = [displaced EXCEPT ![s] =
                     IF owner = None THEN @ ELSE @ \cup {[file |-> f, owner |-> owner]}]
  /\ todo' = [todo EXCEPT ![s] = @ \ {f}]
  /\ Go(s, IF todo[s] \ {f} = {} THEN "ready" ELSE "acquire")

Undone_AndCurrent(s) == staked[s] \cup {cur[s]}

Undone_Current(s) == {cur[s]} \cap staked[s]

\* What rollback() releases: everything staked.
Undone(s) == staked[s]

\* The call is refused, or an exception ends it.
Refuse(s) ==
  /\ Forget(s)
  /\ todo' = [todo EXCEPT ![s] = Undone(s)]
  /\ Go(s, "undo")
  /\ UNCHANGED <<staked, displaced>>

\* No takeover without asking: the user is asked about the owner that was seen.
AskOrRefuse(s) ==
  IF asked[s] # None THEN Go(s, "asking") /\ UNCHANGED <<guard, takeover>> ELSE Refuse(s)

Acquire(s, f) ==
  /\ At(s, "acquire") /\ f \in todo[s]
  /\ IF Available(s, f)
     THEN Grant(s, f) /\ Stake(s, f, None)
     ELSE /\ cur' = [cur EXCEPT ![s] = f]
          /\ Go(s, "check")
          /\ UNCHANGED <<table, guard, asked, judged, same>>
  /\ UNCHANGED <<sidecar, bounds, row, aborted, doomed, lost>>

\* checkClaim and claimLiveness leave the session's own claim out.
Peer(s, f) == IF claim[f] = s THEN None ELSE claim[f]

Check(s) ==
  /\ At(s, "check")
  /\ asked' = [asked EXCEPT ![s] = Peer(s, cur[s])]
  /\ Go(s, "judge")
  /\ UNCHANGED <<sidecar, bounds, table, row, guard, cur, judged, same, aborted, doomed, lost>>

Verdict_DeadIsFresh(o, f) ==
  CASE o = None                           -> "asking"
    [] o # None /\ row[o] = "none"        -> "seize"
    [] o # None /\ row[o] = "dead"        -> "asking"
    [] OTHER                              -> IF f \in stale THEN "probeStale" ELSE "asking"

\* evaluateClaimTakeover, up to its probe, of the claim of o on f.
Verdict(o, f) ==
  CASE o = None                           -> "asking"
    [] o # None /\ row[o] = "none"        -> "seize"
    [] o # None /\ row[o] = "dead"        -> "probeDead"
    [] OTHER                              -> IF f \in stale THEN "probeStale" ELSE "asking"

\* claimLiveness reads the owner and the credential.
Judge(s) ==
  LET o == Peer(s, cur[s])
  IN /\ At(s, "judge")
     /\ IF Verdict(o, cur[s]) = "asking" /\ asked[s] = None
        THEN Refuse(s) /\ UNCHANGED same
        ELSE /\ judged' = [judged EXCEPT ![s] = o]
             /\ same' = IF o = None THEN same ELSE same \cup {s}
             /\ Go(s, Verdict(o, cur[s]))
             /\ UNCHANGED <<guard, cur, asked>>
     /\ UNCHANGED <<sidecar, bounds, table, row, aborted, doomed, lost>>

\* git status has answered: it decides unless the owner is dead.
Probed(s) ==
  /\ At(s, "probeDead") \/ At(s, "probeStale")
  /\ \/ Go(s, "seize") /\ UNCHANGED <<guard, takeover>>
     \/ pc[s] = "probeStale" /\ AskOrRefuse(s)
  /\ UNCHANGED <<sidecar, bounds, table, row, same, aborted, doomed, lost>>

\* By what right the claim of o on f is taken without asking.
Right(o, f) ==
  CASE row[o] = "none" -> "ghost"
    [] row[o] = "dead" -> "dead"
    [] OTHER           -> IF f \in stale THEN "stale" ELSE "robbed"

\* The claim is deleted if it is still the one that was judged.
Seize(s) ==
  /\ At(s, "seize")
  /\ IF Unchanged(s)
     THEN /\ Delete({judged[s]}, {cur[s]})
          /\ Loses({judged[s]}, {cur[s]}, Right(judged[s], cur[s]))
          /\ Go(s, "grab")
          /\ UNCHANGED <<guard, takeover>>
     ELSE AskOrRefuse(s) /\ UNCHANGED <<table, lost>>
  /\ UNCHANGED <<sidecar, bounds, row, same, aborted, doomed>>

Grab(s) ==
  /\ At(s, "grab")
  /\ IF Available(s, cur[s]) THEN Grant(s, cur[s]) /\ Stake(s, cur[s], judged[s])
                             ELSE AskOrRefuse(s) /\ UNCHANGED <<table, same>>
  /\ UNCHANGED <<sidecar, bounds, row, aborted, doomed, lost>>

\* The user's answer; nobody to answer is a refusal, and so is an abort.
Answer(s) ==
  /\ At(s, "asking")
  /\ \/ s \notin aborted /\ Go(s, "seizeAsked") /\ UNCHANGED <<guard, takeover>>
     \/ Refuse(s)
  /\ UNCHANGED <<sidecar, bounds, table, row, same, aborted, doomed, lost>>

\* The approval holds for the claim that was shown; if another owner or none was
\* judged, for no claim at all.
SeizeAsked(s) ==
  /\ At(s, "seizeAsked")
  /\ \/ /\ asked[s] = judged[s] /\ Unchanged(s)
        /\ Delete({judged[s]}, {cur[s]})
        /\ Loses({judged[s]}, {cur[s]}, IF s \in same THEN "approved" ELSE "robbed")
        /\ Go(s, "grabAsked")
        /\ UNCHANGED <<guard, takeover>>
     \/ /\ asked[s] # judged[s] /\ claim[cur[s]] = None
        /\ Go(s, "grabAsked")
        /\ UNCHANGED <<table, guard, takeover, lost>>
     \/ /\ IF asked[s] = judged[s] THEN ~Unchanged(s) ELSE claim[cur[s]] # None
        /\ Refuse(s)
        /\ UNCHANGED <<table, lost>>
  /\ UNCHANGED <<sidecar, bounds, row, same, aborted, doomed>>

GrabAsked(s) ==
  /\ At(s, "grabAsked")
  /\ IF Available(s, cur[s]) THEN Grant(s, cur[s]) /\ Stake(s, cur[s], asked[s])
                             ELSE Refuse(s) /\ UNCHANGED <<table, same>>
  /\ UNCHANGED <<sidecar, bounds, row, aborted, doomed, lost>>

-----------------------------------------------------------------------------
(* The edit and the end of the call.                                       *)

\* Checkpoint, file history and beforeToolExecute are through: executionStarted.
Execute(s) ==
  /\ At(s, "ready") /\ s \notin aborted
  /\ Go(s, "edit")
  /\ UNCHANGED <<sidecar, bounds, table, row, guard, takeover, same, aborted, doomed, lost>>

\* The signal, the recovery journal or a policy stops the call before the edit.
Withdraw(s) ==
  /\ At(s, "ready")
  /\ Refuse(s)
  /\ UNCHANGED <<sidecar, bounds, table, row, same, aborted, doomed, lost>>

\* The tool has returned; so has a write that the read gate refused at dispatch.
Return(s) ==
  /\ \/ At(s, "edit")
     \/ At(s, "ready") /\ s \notin aborted /\ \E f \in File : staked[s] = {f}
  /\ todo' = [todo EXCEPT ![s] = staked[s]]
  /\ Go(s, "note")
  /\ UNCHANGED <<sidecar, bounds, table, row, staked, displaced, takeover, same, aborted,
                 doomed, lost>>

\* The claim after the edit, whose failure nobody looks at.
Note(s, f) ==
  /\ At(s, "note") /\ f \in todo[s]
  /\ IF Available(s, f) THEN Grant(s, f) ELSE UNCHANGED <<table, same>>
  /\ todo' = [todo EXCEPT ![s] = @ \ {f}]
  /\ UNCHANGED <<sidecar, bounds, row, pc, staked, displaced, takeover, aborted, doomed, lost>>

\* The call is over: with the claims after the edit, or without them if a patch
\* failed or the tool threw, which rolls nothing back.
End(s) ==
  /\ (At(s, "note") /\ todo[s] = {}) \/ At(s, "edit")
  /\ Go(s, "rest")
  /\ Over({s})
  /\ UNCHANGED <<sidecar, bounds, table, row, doomed>>

\* releaseClaim: the row of this session only.
Released(s, f) == Delete({s}, {f})

\* rollback(): what was staked is released, then the displaced owners get theirs back.
Release(s, f) ==
  /\ At(s, "undo") /\ f \in todo[s]
  /\ Released(s, f)
  /\ todo' = [todo EXCEPT ![s] = @ \ {f}]
  /\ UNCHANGED <<sidecar, bounds, row, pc, staked, displaced, takeover, same, aborted, doomed,
                 lost>>

GiveBack(s, d) ==
  /\ At(s, "undo") /\ todo[s] = {} /\ d \in displaced[s]
  /\ IF Available(d.owner, d.file)
     THEN /\ claim' = [claim EXCEPT ![d.file] = d.owner]
          /\ stale' = stale \ {d.file}
          /\ returned' = returned \cup {d.file}
          /\ same' = {q \in same : cur[q] # d.file}
     ELSE UNCHANGED <<table, same>>
  /\ displaced' = [displaced EXCEPT ![s] = @ \ {d}]
  /\ UNCHANGED <<sidecar, bounds, row, pc, todo, staked, takeover, aborted, doomed, lost>>

Refused(s) ==
  /\ At(s, "undo") /\ todo[s] = {} /\ displaced[s] = {}
  /\ Go(s, "rest")
  /\ Over({s})
  /\ UNCHANGED <<sidecar, bounds, table, row, doomed>>

-----------------------------------------------------------------------------
Process(s) ==
  \/ Boot(s) \/ Sweep(s) \/ DeleteClaims(s) \/ DeleteRows(s) \/ Register(s)
  \/ Unregister(s) \/ Leave(s) \/ Crash(s) \/ Abort(s) \/ Settle(s)

\* What a running call does by itself.
Guard(s) ==
  \/ \E f \in File : Acquire(s, f)
  \/ Check(s) \/ Judge(s) \/ Probed(s) \/ Seize(s) \/ Grab(s)
  \/ SeizeAsked(s) \/ GrabAsked(s)

Edit(s) ==
  \/ Execute(s) \/ Withdraw(s) \/ Return(s) \/ End(s)
  \/ \E f \in File : Note(s, f) \/ Release(s, f)
  \/ \E d \in displaced[s] : GiveBack(s, d)
  \/ Refused(s)

Next ==
  \/ Restart
  \/ \E f \in File : Age(f)
  \/ \E s \in Session : Process(s) \/ Begin(s) \/ Guard(s) \/ Answer(s) \/ Edit(s)

Spec == Init /\ [][Next]_vars

\* The statements of a call follow each other, and git answers or is given up.
FairSpec == Spec /\ \A s \in Session : WF_vars(Guard(s))

-----------------------------------------------------------------------------
(* Properties.                                                             *)

\* Every variable has its type.
TypeOK ==
  /\ sidecar \in BOOLEAN
  /\ claim \in [File -> Session \cup {None}]
  /\ stale \subseteq File /\ returned \subseteq File
  /\ row \in [Session -> {"none", "live", "dead"}]
  /\ pc \in [Session -> Await \cup Sync]
  /\ todo \in [Session -> SUBSET File]
  /\ staked \in [Session -> SUBSET File]
  /\ displaced \in [Session -> SUBSET [file : File, owner : Session]]
  /\ cur \in [Session -> File \cup {None}]
  /\ asked \in [Session -> Session \cup {None}]
  /\ judged \in [Session -> Session \cup {None}]
  /\ same \subseteq Session /\ aborted \subseteq Session
  /\ doomed \in [Session -> SUBSET Session]
  /\ lost \in [Session -> [File -> Why]]
  /\ paths \in 0..MaxPaths /\ stops \in 0..MaxStops

\* A running call loses a claim to a peer only if its row is gone or dead, if it
\* has not touched the file for ten minutes, or if a person has approved that very
\* claim: a renewal while a peer probes or asks always wins.
ClaimsRespected == \A s \in Session : \A f \in File : lost[s][f] # "robbed"

Editing(s, f) == pc[s] = "edit" /\ f \in staked[s]

\* Two sessions edit one file at a time only after one of them has lost its claim
\* on it: no order of claims, takeovers, rollbacks and renewals lets both in unseen.
EditsExclusive ==
  \A s, q \in Session : \A f \in File :
    s # q /\ Editing(s, f) /\ Editing(q, f) => lost[s][f] # "no" \/ lost[q][f] # "no"

\* A refused call keeps none of the claims it has staked, also when it was refused
\* at a later path, unless the rollback of a peer has given one back to it.
RefusalKeepsNothing ==
  [][\A s \in Session :
       pc[s] = "undo" /\ pc'[s] = "rest" =>
         \A f \in staked[s] : claim'[f] = s => f \in returned]_vars

HeldByDead(f) == f # None /\ claim[f] # None /\ row[claim[f]] = "dead"

\* Whoever is kept out by the claim of a process that is gone gets past it: without
\* asking anybody it finds the claim gone or renewed, or takes it, unless it stops.
DeadOwnerYields ==
  \A s \in Session :
    (pc[s] = "judge" /\ HeldByDead(cur[s]))
      ~> (pc[s] \in {"grab", "off"} \/ (cur[s] # None /\ ~HeldByDead(cur[s])))

\* tool-pipeline.ts says: fail-closed, refuse the write instead of clobbering a peer
\* session's in-flight edit.  Only an approval, ten idle minutes or an abort do that.
PeerEditsRefused ==
  \A s, q \in Session : \A f \in File :
    s # q /\ Editing(s, f) /\ Editing(q, f) =>
      {lost[s][f], lost[q][f]} \cap {"approved", "stale", "released"} # {}
=============================================================================
