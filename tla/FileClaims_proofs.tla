-------------------------- MODULE FileClaims_proofs --------------------------
(***************************************************************************)
(* Proofs about FileClaims, for any sessions, files, calls and crashes.    *)
(*                                                                         *)
(* Two sessions do not edit one file unseen because a running call holds   *)
(* the claim on whatever it has staked until it is told otherwise (Held),  *)
(* and a takeover that was judged harmless stays so until the credential   *)
(* changes (Judgement).                                                    *)
(***************************************************************************)
EXTENDS FileClaims, FiniteSetTheorems, TLAPS

\* A session without a call has staked nothing.
IdleIsClear ==
  \A s \in Session :
    pc[s] \in {"off", "rest", "bootClaims", "bootRows", "register", "sweepClaims",
               "sweepRows", "leave"} => staked[s] = {}

\* From the conflict on, the call knows its path.
PathAtHand ==
  \A s \in Session :
    /\ pc[s] \in {"check", "judge", "probeDead", "probeStale", "seize", "grab", "asking",
                  "seizeAsked", "grabAsked"} => cur[s] \in File
    /\ pc[s] \in {"probeDead", "probeStale", "seize", "grab"} => judged[s] \in Session

\* Until it is refused or has edited, a call holds what it has staked.
Held ==
  \A s \in Session : \A f \in staked[s] :
    pc[s] \notin {"note", "undo"} /\ lost[s][f] = "no" => claim[f] = s

\* A verdict to take over a claim that a call relies on stays right as long as its
\* credential is unchanged.
Judgement ==
  \A s \in Session :
    /\ pc[s] \in {"probeDead", "probeStale", "seize"}
    /\ s \in same /\ claim[cur[s]] = judged[s] /\ cur[s] \in staked[judged[s]]
    => row[judged[s]] # "live" \/ cur[s] \in stale

\* What a rollback has passed is not the session's any more.
Passed ==
  \A s \in Session :
    pc[s] = "undo" => \A f \in staked[s] \ todo[s] : claim[f] = s => f \in returned

Parts ==
  TypeOK /\ PathAtHand /\ IdleIsClear /\ Held /\ Judgement /\ ClaimsRespected /\ Passed

-----------------------------------------------------------------------------
(* The steps of a call at a conflict are six moves.                        *)

Elsewhere == <<sidecar, bounds, row, aborted, doomed>>

\* The call goes on and nothing else changes.
Hop(s) ==
  /\ \/ pc[s] \in {"probeDead", "probeStale"} /\ Go(s, "seize")
     \/ pc[s] \in {"probeStale", "seize", "grab"} /\ Go(s, "asking")
     \/ pc[s] = "asking" /\ Go(s, "seizeAsked")
     \/ pc[s] = "seizeAsked" /\ Go(s, "grabAsked")
  /\ UNCHANGED <<Elsewhere, table, guard, takeover, same, lost>>

\* The call is refused.
Turned(s) ==
  /\ pc[s] \in {"judge", "probeStale", "seize", "grab", "asking", "seizeAsked", "grabAsked"}
  /\ Refuse(s)
  /\ UNCHANGED <<Elsewhere, table, same, lost>>

\* It finds the claim of a peer.
Conflict(s, f) ==
  /\ pc[s] = "acquire"
  /\ cur' = [cur EXCEPT ![s] = f]
  /\ Go(s, "check")
  /\ UNCHANGED <<Elsewhere, table, guard, asked, judged, same, lost>>

\* It judges that claim.
Judged(s) ==
  /\ pc[s] = "judge"
  /\ judged' = [judged EXCEPT ![s] = Peer(s, cur[s])]
  /\ same' = IF Peer(s, cur[s]) = None THEN same ELSE same \cup {s}
  /\ Go(s, Verdict(Peer(s, cur[s]), cur[s]))
  /\ UNCHANGED <<Elsewhere, table, guard, cur, asked, lost>>

\* It takes that claim away.
Taken(s) ==
  /\ \/ /\ pc[s] = "seize" /\ Go(s, "grab")
        /\ Loses({judged[s]}, {cur[s]}, Right(judged[s], cur[s]))
     \/ /\ pc[s] = "seizeAsked" /\ Go(s, "grabAsked")
        /\ Loses({judged[s]}, {cur[s]}, "approved")
  /\ Unchanged(s)
  /\ Delete({judged[s]}, {cur[s]})
  /\ UNCHANGED <<Elsewhere, guard, takeover, same>>

\* It gets the claim and stakes the path.
Claimed(s, f, owner) ==
  /\ pc[s] = "acquire" \/ (pc[s] \in {"grab", "grabAsked"} /\ f = cur[s])
  /\ Available(s, f) /\ Grant(s, f) /\ Stake(s, f, owner)
  /\ UNCHANGED <<Elsewhere, lost>>

Move(s) ==
  \/ Hop(s) \/ Turned(s) \/ Judged(s) \/ Taken(s)
  \/ \E f \in File : Conflict(s, f)
  \/ \E f \in File : \E o \in Session \cup {None} : Claimed(s, f, o)

\* Nobody is neither a session nor a file.
LEMMA NoneIsNone == None \notin Session /\ None \notin File
  BY Constants

\* Acquire is a move.
LEMMA AcquireMoves ==
  ASSUME TypeOK, PathAtHand, NEW s \in Session, NEW f \in File, Acquire(s, f)
  PROVE  Move(s)
<1>1. CASE Available(s, f)
  <2>1. Claimed(s, f, None)
    BY <1>1 DEF Acquire, Claimed, At, Elsewhere
  <2>. QED
    BY <2>1 DEF Move
<1>2. CASE ~Available(s, f)
  <2>1. Conflict(s, f)
    BY <1>2 DEF Acquire, Conflict, At, Elsewhere, guard
  <2>. QED
    BY <2>1 DEF Move
<1>. QED
  BY <1>1, <1>2

\* Judge is a move.
LEMMA JudgeMoves ==
  ASSUME TypeOK, PathAtHand, NEW s \in Session, Judge(s)
  PROVE  Move(s)
<1>1. Turned(s) \/ Judged(s)
  BY DEF Judge, Turned, Judged, At, Elsewhere
<1>. QED
  BY <1>1 DEF Move

\* Probed is a move.
LEMMA ProbedMoves ==
  ASSUME TypeOK, PathAtHand, NEW s \in Session, Probed(s)
  PROVE  Move(s)
<1>1. Hop(s) \/ Turned(s)
  BY DEF Probed, AskOrRefuse, Hop, Turned, At, Elsewhere
<1>. QED
  BY <1>1 DEF Move

\* Seize is a move.
LEMMA SeizeMoves ==
  ASSUME TypeOK, PathAtHand, NEW s \in Session, Seize(s)
  PROVE  Move(s)
<1>1. Taken(s) \/ Hop(s) \/ Turned(s)
  BY DEF Seize, Taken, AskOrRefuse, Hop, Turned, At, Elsewhere
<1>. QED
  BY <1>1 DEF Move

\* Grab is a move.
LEMMA GrabMoves ==
  ASSUME TypeOK, PathAtHand, NEW s \in Session, Grab(s)
  PROVE  Move(s)
<1>1. cur[s] \in File /\ judged[s] \in Session
  BY DEF PathAtHand, Grab, At
<1>2. Claimed(s, cur[s], judged[s]) \/ Hop(s) \/ Turned(s)
  BY DEF Grab, Claimed, AskOrRefuse, Hop, Turned, At, Elsewhere
<1>. QED
  BY <1>1, <1>2 DEF Move

\* Answer is a move.
LEMMA AnswerMoves ==
  ASSUME TypeOK, PathAtHand, NEW s \in Session, Answer(s)
  PROVE  Move(s)
<1>1. Hop(s) \/ Turned(s)
  BY DEF Answer, Hop, Turned, At, Elsewhere
<1>. QED
  BY <1>1 DEF Move

\* SeizeAsked is a move.
LEMMA SeizeAskedMoves ==
  ASSUME TypeOK, PathAtHand, NEW s \in Session, SeizeAsked(s)
  PROVE  Move(s)
<1>1. Taken(s) \/ Hop(s) \/ Turned(s)
  BY DEF SeizeAsked, Taken, Unchanged, Hop, Turned, At, Elsewhere
<1>. QED
  BY <1>1 DEF Move

\* GrabAsked is a move.
LEMMA GrabAskedMoves ==
  ASSUME TypeOK, PathAtHand, NEW s \in Session, GrabAsked(s)
  PROVE  Move(s)
<1>1. cur[s] \in File /\ asked[s] \in Session \cup {None}
  BY DEF PathAtHand, TypeOK, GrabAsked, At
<1>2. Claimed(s, cur[s], asked[s]) \/ Turned(s)
  BY DEF GrabAsked, Claimed, Turned, At, Elsewhere
<1>. QED
  BY <1>1, <1>2 DEF Move

\* What the moves do to the sessions that are not at it.
Others(s) ==
  \A q \in Session \ {s} :
    /\ pc'[q] = pc[q] /\ staked'[q] = staked[q] /\ todo'[q] = todo[q]
    /\ cur'[q] = cur[q] /\ judged'[q] = judged[q]

\* Hop and Turned at their session, and elsewhere.
LEMMA HopEffect ==
  ASSUME TypeOK, NEW s \in Session, Hop(s)
  PROVE  /\ Others(s)
         /\ pc'[s] \in {"seize", "asking", "seizeAsked", "grabAsked"}
         /\ pc'[s] = "seize" => pc[s] \in {"probeDead", "probeStale"}
         /\ UNCHANGED <<row, claim, stale, returned, same, lost, staked, todo, cur, judged>>
  BY DEF TypeOK, Hop, Others, Go, Elsewhere, table, guard, takeover

LEMMA TurnedEffect ==
  ASSUME TypeOK, NEW s \in Session, Turned(s)
  PROVE  /\ Others(s)
         /\ pc'[s] = "undo" /\ todo'[s] = staked[s]
         /\ UNCHANGED <<row, claim, stale, returned, same, lost, staked>>
  BY DEF TypeOK, Turned, Refuse, Forget, Undone, Others, Go, Elsewhere, table

LEMMA ConflictEffect ==
  ASSUME TypeOK, NEW s \in Session, NEW f \in File, Conflict(s, f)
  PROVE  /\ Others(s)
         /\ pc'[s] = "check" /\ cur'[s] = f
         /\ UNCHANGED <<row, claim, stale, returned, same, lost, staked, todo, judged>>
  BY DEF TypeOK, Conflict, Others, Go, Elsewhere, table, guard

LEMMA JudgedEffect ==
  ASSUME TypeOK, NEW s \in Session, Judged(s)
  PROVE  /\ Others(s)
         /\ judged'[s] = Peer(s, cur[s])
         /\ pc'[s] = Verdict(Peer(s, cur[s]), cur[s])
         /\ same' \subseteq same \cup {s}
         /\ UNCHANGED <<row, claim, stale, returned, lost, staked, todo, cur>>
  BY DEF TypeOK, Judged, Others, Go, Elsewhere, table, guard

LEMMA TakenEffect ==
  ASSUME TypeOK, NEW s \in Session, Taken(s)
  PROVE  /\ Others(s)
         /\ pc[s] \in {"seize", "seizeAsked"} /\ pc'[s] \in {"grab", "grabAsked"}
         /\ pc'[s] = "grab" => pc[s] = "seize"
         /\ UNCHANGED <<row, same, staked, todo, cur, judged>>
         /\ s \in same /\ claim[cur[s]] = judged[s]
  BY DEF TypeOK, Taken, Unchanged, Others, Go, Elsewhere, guard, takeover

LEMMA TakenTable ==
  ASSUME TypeOK, PathAtHand, NEW s \in Session, Taken(s)
  PROVE  /\ claim'[cur[s]] = None
         /\ \A g \in File : g # cur[s] => claim'[g] = claim[g]
         /\ stale' = stale \ {cur[s]} /\ returned' = returned \ {cur[s]}
<1>1. cur[s] \in File /\ claim[cur[s]] = judged[s]
  BY DEF Taken, PathAtHand, Unchanged
<1>2. Delete({judged[s]}, {cur[s]})
  BY DEF Taken
<1>. QED
  BY <1>1, <1>2 DEF TypeOK, Delete

\* The loss that a takeover inflicts, and why.
LEMMA TakenLoss ==
  ASSUME TypeOK, PathAtHand, NEW s \in Session, Taken(s), NEW q \in Session, NEW g \in File
  PROVE  lost'[q][g] = IF q = judged[s] /\ g = cur[s] /\ g \in staked[q]
                       THEN IF pc[s] = "seize" THEN Right(q, g) ELSE "approved"
                       ELSE lost[q][g]
<1>1. claim[cur[s]] = judged[s]
  BY DEF Taken, Unchanged
<1>2. CASE pc[s] = "seize"
  <2>1. Loses({judged[s]}, {cur[s]}, Right(judged[s], cur[s]))
    BY <1>2 DEF Taken
  <2>. QED
    BY <1>1, <1>2, <2>1 DEF Loses
<1>3. CASE pc[s] = "seizeAsked"
  <2>1. Loses({judged[s]}, {cur[s]}, "approved")
    BY <1>3 DEF Taken
  <2>. QED
    BY <1>1, <1>3, <2>1 DEF Loses
<1>. QED
  BY <1>2, <1>3 DEF Taken

LEMMA ClaimedEffect ==
  ASSUME TypeOK, NEW s \in Session, NEW f \in File, NEW o \in Session \cup {None},
         Claimed(s, f, o)
  PROVE  /\ Others(s)
         /\ pc[s] \in {"acquire", "grab", "grabAsked"} /\ pc'[s] \in {"ready", "acquire"}
         /\ staked'[s] = staked[s] \cup {f}
         /\ claim[f] \in {None, s} /\ claim'[f] = s
         /\ \A g \in File : g # f => claim'[g] = claim[g]
         /\ stale' = stale \ {f} /\ returned' = returned \ {f}
         /\ same' = {q \in same : cur[q] # f}
         /\ UNCHANGED <<row, lost>>
<1>1. Others(s) /\ pc'[s] \in {"ready", "acquire"} /\ staked'[s] = staked[s] \cup {f}
  BY DEF TypeOK, Claimed, Stake, Forget, Others, Go
<1>. QED
  BY <1>1 DEF TypeOK, Claimed, Available, Grant, Elsewhere

\* Hop keeps the invariant.
LEMMA HopKeeps ==
  ASSUME Parts, NEW s \in Session, Hop(s)
  PROVE  PathAtHand' /\ IdleIsClear' /\ Held'
         /\ Judgement' /\ ClaimsRespected' /\ Passed'
<1>. TypeOK /\ PathAtHand /\ IdleIsClear /\ Held /\ Judgement /\ ClaimsRespected /\ Passed
  BY DEF Parts
<1>7. /\ Others(s)
      /\ pc'[s] \in {"seize", "asking", "seizeAsked", "grabAsked"}
      /\ pc'[s] = "seize" => pc[s] \in {"probeDead", "probeStale"}
      /\ UNCHANGED <<row, claim, stale, returned, same, lost, staked, todo, cur, judged>>
  BY HopEffect
<1>1. PathAtHand'
  BY NoneIsNone, <1>7 DEF TypeOK, Others, PathAtHand, Hop
<1>2. IdleIsClear'
  BY NoneIsNone, <1>7 DEF TypeOK, Others, IdleIsClear, Hop
<1>3. Held'
  <2>. SUFFICES ASSUME NEW q \in Session, NEW g \in staked'[q], pc'[q] \notin {"note", "undo"},
                       lost'[q][g] = "no"
                PROVE  claim'[g] = q
    BY DEF Held
  <2>. Others(s)
    BY <1>7
  <2>1. CASE q = s
    BY <2>1, NoneIsNone, <1>7 DEF TypeOK, Others, PathAtHand, Held, Hop
  <2>2. CASE q # s
    BY <2>2, NoneIsNone, <1>7 DEF TypeOK, Others, PathAtHand, Held, Hop
  <2>. QED
    BY <2>1, <2>2
<1>4. Judgement'
  BY NoneIsNone, <1>7 DEF TypeOK, Others, PathAtHand, Judgement, Hop
<1>5. ClaimsRespected'
  BY NoneIsNone, <1>7 DEF TypeOK, Others, PathAtHand, Judgement, ClaimsRespected, Hop
<1>6. Passed'
  BY NoneIsNone, <1>7 DEF TypeOK, Others, PathAtHand, Passed, Hop
<1>. QED
  BY <1>1, <1>2, <1>3, <1>4, <1>5, <1>6

\* Turned keeps the invariant.
LEMMA TurnedKeeps ==
  ASSUME Parts, NEW s \in Session, Turned(s)
  PROVE  PathAtHand' /\ IdleIsClear' /\ Held'
         /\ Judgement' /\ ClaimsRespected' /\ Passed'
<1>. TypeOK /\ PathAtHand /\ IdleIsClear /\ Held /\ Judgement /\ ClaimsRespected /\ Passed
  BY DEF Parts
<1>7. /\ Others(s)
      /\ pc'[s] = "undo" /\ todo'[s] = staked[s]
      /\ UNCHANGED <<row, claim, stale, returned, same, lost, staked>>
  BY TurnedEffect
<1>1. PathAtHand'
  BY NoneIsNone, <1>7 DEF TypeOK, Others, PathAtHand, Turned
<1>2. IdleIsClear'
  BY NoneIsNone, <1>7 DEF TypeOK, Others, IdleIsClear, Turned
<1>3. Held'
  <2>. SUFFICES ASSUME NEW q \in Session, NEW g \in staked'[q], pc'[q] \notin {"note", "undo"},
                       lost'[q][g] = "no"
                PROVE  claim'[g] = q
    BY DEF Held
  <2>. Others(s)
    BY <1>7
  <2>1. CASE q = s
    BY <2>1, NoneIsNone, <1>7 DEF TypeOK, Others, PathAtHand, Held, Turned
  <2>2. CASE q # s
    BY <2>2, NoneIsNone, <1>7 DEF TypeOK, Others, PathAtHand, Held, Turned
  <2>. QED
    BY <2>1, <2>2
<1>4. Judgement'
  BY NoneIsNone, <1>7 DEF TypeOK, Others, PathAtHand, Judgement, Turned
<1>5. ClaimsRespected'
  BY NoneIsNone, <1>7 DEF TypeOK, Others, PathAtHand, Judgement, ClaimsRespected, Turned
<1>6. Passed'
  BY NoneIsNone, <1>7 DEF TypeOK, Others, PathAtHand, Passed, Turned
<1>. QED
  BY <1>1, <1>2, <1>3, <1>4, <1>5, <1>6

\* Conflict keeps the invariant.
LEMMA ConflictKeeps ==
  ASSUME Parts, NEW s \in Session, NEW f \in File, Conflict(s, f)
  PROVE  PathAtHand' /\ IdleIsClear' /\ Held'
         /\ Judgement' /\ ClaimsRespected' /\ Passed'
<1>. TypeOK /\ PathAtHand /\ IdleIsClear /\ Held /\ Judgement /\ ClaimsRespected /\ Passed
  BY DEF Parts
<1>7. /\ Others(s)
      /\ pc'[s] = "check" /\ cur'[s] = f
      /\ UNCHANGED <<row, claim, stale, returned, same, lost, staked, todo, judged>>
  BY ConflictEffect
<1>1. PathAtHand'
  <2>. SUFFICES ASSUME NEW q \in Session
                PROVE  /\ pc'[q] \in {"check", "judge", "probeDead", "probeStale", "seize", "grab",
                                     "asking",
                                     "seizeAsked", "grabAsked"} => cur'[q] \in File
                       /\ pc'[q] \in {"probeDead", "probeStale", "seize", "grab"} => judged'[q]
                            \in Session
    BY DEF PathAtHand
  <2>. Others(s)
    BY <1>7
  <2>1. CASE q = s
    BY <2>1, NoneIsNone, <1>7 DEF TypeOK, Others, PathAtHand, Conflict
  <2>2. CASE q # s
    BY <2>2, NoneIsNone, <1>7 DEF TypeOK, Others, PathAtHand, Conflict
  <2>. QED
    BY <2>1, <2>2
<1>2. IdleIsClear'
  BY NoneIsNone, <1>7 DEF TypeOK, Others, IdleIsClear, Conflict
<1>3. Held'
  <2>. SUFFICES ASSUME NEW q \in Session, NEW g \in staked'[q], pc'[q] \notin {"note", "undo"},
                       lost'[q][g] = "no"
                PROVE  claim'[g] = q
    BY DEF Held
  <2>. Others(s)
    BY <1>7
  <2>1. CASE q = s
    BY <2>1, NoneIsNone, <1>7 DEF TypeOK, Others, PathAtHand, Held, Conflict
  <2>2. CASE q # s
    BY <2>2, NoneIsNone, <1>7 DEF TypeOK, Others, PathAtHand, Held, Conflict
  <2>. QED
    BY <2>1, <2>2
<1>4. Judgement'
  <2>. SUFFICES ASSUME NEW q \in Session, pc'[q] \in {"probeDead", "probeStale", "seize"}, q \in
     same',
                       claim'[cur'[q]] = judged'[q], cur'[q] \in staked'[judged'[q]]
                PROVE  row'[judged'[q]] # "live" \/ cur'[q] \in stale'
    BY DEF Judgement
  <2>. Others(s)
    BY <1>7
  <2>1. CASE q = s
    BY <2>1, NoneIsNone, <1>7 DEF TypeOK, Others, PathAtHand, Judgement, Conflict
  <2>2. CASE q # s
    BY <2>2, NoneIsNone, <1>7 DEF TypeOK, Others, PathAtHand, Judgement, Conflict
  <2>. QED
    BY <2>1, <2>2
<1>5. ClaimsRespected'
  BY NoneIsNone, <1>7 DEF TypeOK, Others, PathAtHand, Judgement, ClaimsRespected, Conflict
<1>6. Passed'
  BY NoneIsNone, <1>7 DEF TypeOK, Others, PathAtHand, Passed, Conflict
<1>. QED
  BY <1>1, <1>2, <1>3, <1>4, <1>5, <1>6

\* Judged keeps the invariant.
LEMMA JudgedKeeps ==
  ASSUME Parts, NEW s \in Session, Judged(s)
  PROVE  PathAtHand' /\ IdleIsClear' /\ Held'
         /\ Judgement' /\ ClaimsRespected' /\ Passed'
<1>. TypeOK /\ PathAtHand /\ IdleIsClear /\ Held /\ Judgement /\ ClaimsRespected /\ Passed
  BY DEF Parts
<1>7. /\ Others(s)
      /\ judged'[s] = Peer(s, cur[s])
      /\ pc'[s] = Verdict(Peer(s, cur[s]), cur[s])
      /\ same' \subseteq same \cup {s}
      /\ UNCHANGED <<row, claim, stale, returned, lost, staked, todo, cur>>
  BY JudgedEffect
<1>1. PathAtHand'
  <2>. SUFFICES ASSUME NEW q \in Session
                PROVE  /\ pc'[q] \in {"check", "judge", "probeDead", "probeStale", "seize", "grab",
                                     "asking",
                                     "seizeAsked", "grabAsked"} => cur'[q] \in File
                       /\ pc'[q] \in {"probeDead", "probeStale", "seize", "grab"} => judged'[q]
                            \in Session
    BY DEF PathAtHand
  <2>. Others(s)
    BY <1>7
  <2>1. CASE q = s
    BY <2>1, NoneIsNone, <1>7 DEF TypeOK, Others, PathAtHand, Judged, Peer, Verdict
  <2>2. CASE q # s
    BY <2>2, NoneIsNone, <1>7 DEF TypeOK, Others, PathAtHand, Judged, Peer, Verdict
  <2>. QED
    BY <2>1, <2>2
<1>2. IdleIsClear'
  BY NoneIsNone, <1>7 DEF TypeOK, Others, IdleIsClear, Judged, Peer, Verdict
<1>3. Held'
  <2>. SUFFICES ASSUME NEW q \in Session, NEW g \in staked'[q], pc'[q] \notin {"note", "undo"},
                       lost'[q][g] = "no"
                PROVE  claim'[g] = q
    BY DEF Held
  <2>1. g \in staked[q] /\ lost[q][g] = "no" /\ pc[q] \notin {"note", "undo"}
    BY <1>7 DEF Others, Judged
  <2>. QED
    BY <2>1, <1>7 DEF Held
<1>4. Judgement'
  <2>. SUFFICES ASSUME NEW q \in Session, pc'[q] \in {"probeDead", "probeStale", "seize"}, q \in
     same',
                       claim'[cur'[q]] = judged'[q], cur'[q] \in staked'[judged'[q]]
                PROVE  row'[judged'[q]] # "live" \/ cur'[q] \in stale'
    BY DEF Judgement
  <2>. Others(s)
    BY <1>7
  <2>1. CASE q = s
    BY <2>1, NoneIsNone, <1>7 DEF TypeOK, Others, PathAtHand, Judgement, Judged, Peer, Verdict
  <2>2. CASE q # s
    BY <2>2, NoneIsNone, <1>7 DEF TypeOK, Others, PathAtHand, Judgement, Judged, Peer, Verdict
  <2>. QED
    BY <2>1, <2>2
<1>5. ClaimsRespected'
  BY NoneIsNone, <1>7 DEF TypeOK, Others, PathAtHand, Judgement, ClaimsRespected, Judged, Peer,
     Verdict
<1>6. Passed'
  BY NoneIsNone, <1>7 DEF TypeOK, Others, PathAtHand, Passed, Judged, Peer, Verdict
<1>. QED
  BY <1>1, <1>2, <1>3, <1>4, <1>5, <1>6

\* Taken keeps the invariant.
LEMMA TakenKeeps ==
  ASSUME Parts, NEW s \in Session, Taken(s)
  PROVE  PathAtHand' /\ IdleIsClear' /\ Held'
         /\ Judgement' /\ ClaimsRespected' /\ Passed'
<1>. TypeOK /\ PathAtHand /\ IdleIsClear /\ Held /\ Judgement /\ ClaimsRespected /\ Passed
  BY DEF Parts
<1>7. /\ Others(s)
      /\ pc[s] \in {"seize", "seizeAsked"} /\ pc'[s] \in {"grab", "grabAsked"}
      /\ pc'[s] = "grab" => pc[s] = "seize"
      /\ UNCHANGED <<row, same, staked, todo, cur, judged>>
      /\ s \in same /\ claim[cur[s]] = judged[s]
  BY TakenEffect
<1>8. /\ claim'[cur[s]] = None
      /\ \A g \in File : g # cur[s] => claim'[g] = claim[g]
      /\ stale' = stale \ {cur[s]} /\ returned' = returned \ {cur[s]}
  BY TakenTable
<1>9. \A q \in Session : \A g \in File :
        lost'[q][g] = IF q = judged[s] /\ g = cur[s] /\ g \in staked[q]
                        THEN IF pc[s] = "seize" THEN Right(q, g) ELSE "approved"
                        ELSE lost[q][g]
  BY TakenLoss
<1>1. PathAtHand'
  BY NoneIsNone, <1>7, <1>8, <1>9 DEF TypeOK, Others, PathAtHand
<1>2. IdleIsClear'
  BY NoneIsNone, <1>7, <1>8, <1>9 DEF TypeOK, Others, IdleIsClear
<1>3. Held'
  <2>. SUFFICES ASSUME NEW q \in Session, NEW g \in staked'[q], pc'[q] \notin {"note", "undo"},
                       lost'[q][g] = "no"
                PROVE  claim'[g] = q
    BY DEF Held
  <2>. g \in File
    BY <1>7 DEF TypeOK
  <2>1. ~(q = judged[s] /\ g = cur[s])
    BY <1>7, <1>9 DEF Right
  <2>2. lost[q][g] = "no"
    BY <2>1, <1>9
  <2>3. claim[g] = q
    BY <2>2, <1>7 DEF Held, Others
  <2>. QED
    BY <2>1, <2>3, <1>7, <1>8
<1>4. Judgement'
  <2>. SUFFICES ASSUME NEW q \in Session, pc'[q] \in {"probeDead", "probeStale", "seize"}, q \in
     same',
                       claim'[cur'[q]] = judged'[q], cur'[q] \in staked'[judged'[q]]
                PROVE  row'[judged'[q]] # "live" \/ cur'[q] \in stale'
    BY DEF Judgement
  <2>. Others(s)
    BY <1>7, <1>8, <1>9
  <2>1. CASE q = s
    BY <2>1, NoneIsNone, <1>7, <1>8, <1>9 DEF TypeOK, Others, PathAtHand, Judgement
  <2>2. CASE q # s
    BY <2>2, NoneIsNone, <1>7, <1>8, <1>9 DEF TypeOK, Others, PathAtHand, Judgement
  <2>. QED
    BY <2>1, <2>2
<1>5. ClaimsRespected'
  <2>. SUFFICES ASSUME NEW q \in Session, NEW g \in File
                PROVE  lost'[q][g] # "robbed"
    BY DEF ClaimsRespected
  <2>1. CASE q = judged[s] /\ g = cur[s] /\ g \in staked[q]
    <3>1. CASE pc[s] = "seize"
      <4>1. row[q] # "live" \/ g \in stale
        BY <2>1, <3>1, <1>7 DEF Judgement
      <4>2. Right(q, g) # "robbed"
        BY <4>1 DEF Right, TypeOK
      <4>. QED
        BY <2>1, <3>1, <4>2, <1>9
    <3>2. CASE pc[s] # "seize"
      BY <2>1, <3>2, <1>9
    <3>. QED
      BY <3>1, <3>2
  <2>2. CASE ~(q = judged[s] /\ g = cur[s] /\ g \in staked[q])
    BY <2>2, <1>9 DEF ClaimsRespected
  <2>. QED
    BY <2>1, <2>2
<1>6. Passed'
  <2>. SUFFICES ASSUME NEW q \in Session, pc'[q] = "undo", NEW g \in staked'[q] \ todo'[q],
     claim'[g] = q
                PROVE  g \in returned'
    BY DEF Passed
  <2>. Others(s)
    BY <1>7, <1>8, <1>9
  <2>1. CASE q = s
    BY <2>1, NoneIsNone, <1>7, <1>8, <1>9 DEF TypeOK, Others, PathAtHand, Passed
  <2>2. CASE q # s
    BY <2>2, NoneIsNone, <1>7, <1>8, <1>9 DEF TypeOK, Others, PathAtHand, Passed
  <2>. QED
    BY <2>1, <2>2
<1>. QED
  BY <1>1, <1>2, <1>3, <1>4, <1>5, <1>6

\* Claimed keeps the invariant.
LEMMA ClaimedKeeps ==
  ASSUME Parts, NEW s \in Session, NEW f \in File, NEW o \in Session \cup {None}, Claimed(s, f, o)
  PROVE  PathAtHand' /\ IdleIsClear' /\ Held'
         /\ Judgement' /\ ClaimsRespected' /\ Passed'
<1>. TypeOK /\ PathAtHand /\ IdleIsClear /\ Held /\ Judgement /\ ClaimsRespected /\ Passed
  BY DEF Parts
<1>7. /\ Others(s)
      /\ pc[s] \in {"acquire", "grab", "grabAsked"} /\ pc'[s] \in {"ready", "acquire"}
      /\ staked'[s] = staked[s] \cup {f}
      /\ claim[f] \in {None, s} /\ claim'[f] = s
      /\ \A g \in File : g # f => claim'[g] = claim[g]
      /\ stale' = stale \ {f} /\ returned' = returned \ {f}
      /\ same' = {q \in same : cur[q] # f}
      /\ UNCHANGED <<row, lost>>
  BY ClaimedEffect
<1>1. PathAtHand'
  BY NoneIsNone, <1>7 DEF TypeOK, Others, PathAtHand
<1>2. IdleIsClear'
  <2>. SUFFICES ASSUME NEW q \in Session,
                       pc'[q] \in {"off", "rest", "bootClaims", "bootRows", "register",
                                  "sweepClaims", "sweepRows", "leave"}
                PROVE  staked'[q] = {}
    BY DEF IdleIsClear
  <2>. Others(s)
    BY <1>7
  <2>1. CASE q = s
    BY <2>1, NoneIsNone, <1>7 DEF TypeOK, Others, IdleIsClear
  <2>2. CASE q # s
    BY <2>2, NoneIsNone, <1>7 DEF TypeOK, Others, IdleIsClear
  <2>. QED
    BY <2>1, <2>2
<1>3. Held'
  <2>. SUFFICES ASSUME NEW q \in Session, NEW g \in staked'[q], pc'[q] \notin {"note", "undo"},
                       lost'[q][g] = "no"
                PROVE  claim'[g] = q
    BY DEF Held
  <2>. Others(s)
    BY <1>7
  <2>1. CASE q = s
    BY <2>1, NoneIsNone, <1>7 DEF TypeOK, Others, PathAtHand, Held
  <2>2. CASE q # s
    BY <2>2, NoneIsNone, <1>7 DEF TypeOK, Others, PathAtHand, Held
  <2>. QED
    BY <2>1, <2>2
<1>4. Judgement'
  <2>. SUFFICES ASSUME NEW q \in Session, pc'[q] \in {"probeDead", "probeStale", "seize"}, q \in
     same',
                       claim'[cur'[q]] = judged'[q], cur'[q] \in staked'[judged'[q]]
                PROVE  row'[judged'[q]] # "live" \/ cur'[q] \in stale'
    BY DEF Judgement
  <2>. Others(s)
    BY <1>7
  <2>1. CASE q = s
    BY <2>1, NoneIsNone, <1>7 DEF TypeOK, Others, PathAtHand, Judgement
  <2>2. CASE q # s
    BY <2>2, NoneIsNone, <1>7 DEF TypeOK, Others, PathAtHand, Judgement
  <2>. QED
    BY <2>1, <2>2
<1>5. ClaimsRespected'
  BY NoneIsNone, <1>7 DEF TypeOK, Others, PathAtHand, Judgement, ClaimsRespected
<1>6. Passed'
  <2>. SUFFICES ASSUME NEW q \in Session, pc'[q] = "undo", NEW g \in staked'[q] \ todo'[q],
     claim'[g] = q
                PROVE  g \in returned'
    BY DEF Passed
  <2>. Others(s)
    BY <1>7
  <2>1. CASE q = s
    BY <2>1, NoneIsNone, <1>7 DEF TypeOK, Others, PathAtHand, Passed
  <2>2. CASE q # s
    BY <2>2, NoneIsNone, <1>7 DEF TypeOK, Others, PathAtHand, Passed
  <2>. QED
    BY <2>1, <2>2
<1>. QED
  BY <1>1, <1>2, <1>3, <1>4, <1>5, <1>6

\* So does every move.
LEMMA MoveKeeps ==
  ASSUME Parts, NEW s \in Session, Move(s)
  PROVE  PathAtHand' /\ IdleIsClear' /\ Held'
         /\ Judgement' /\ ClaimsRespected' /\ Passed'
  BY HopKeeps, TurnedKeeps, ConflictKeeps, JudgedKeeps, TakenKeeps, ClaimedKeeps DEF Move

\* A step keeps PathAtHand.
LEMMA PathNext ==
  ASSUME Parts, Next
  PROVE  PathAtHand'
<1>1. ASSUME Restart PROVE PathAtHand'
  BY <1>1, NoneIsNone DEF Parts, TypeOK, PathAtHand, Restart, Delete, DeadRows, guard, takeover,
     bounds
<1>2. ASSUME NEW f \in File, Age(f) PROVE PathAtHand'
  BY <1>2, NoneIsNone DEF Parts, TypeOK, PathAtHand, Age, guard, takeover, bounds
<1>3. ASSUME NEW s \in Session, Boot(s) PROVE PathAtHand'
  BY <1>3, NoneIsNone DEF Parts, TypeOK, PathAtHand, Boot, Go, DeadRows, table, guard, takeover,
     bounds
<1>4. ASSUME NEW s \in Session, Sweep(s) PROVE PathAtHand'
  BY <1>4, NoneIsNone DEF Parts, TypeOK, PathAtHand, Sweep, Go, DeadRows, table, guard, takeover,
     bounds
<1>5. ASSUME NEW s \in Session, DeleteClaims(s) PROVE PathAtHand'
  BY <1>5, NoneIsNone DEF Parts, TypeOK, PathAtHand, DeleteClaims, Go, Delete, Loses, guard,
     takeover, bounds
<1>6. ASSUME NEW s \in Session, DeleteRows(s) PROVE PathAtHand'
  BY <1>6, NoneIsNone DEF Parts, TypeOK, PathAtHand, DeleteRows, Go, table, guard, takeover,
     bounds
<1>7. ASSUME NEW s \in Session, Register(s) PROVE PathAtHand'
  BY <1>7, NoneIsNone DEF Parts, TypeOK, PathAtHand, Register, Go, table, guard, takeover, bounds
<1>8. ASSUME NEW s \in Session, Unregister(s) PROVE PathAtHand'
  BY <1>8, NoneIsNone DEF Parts, TypeOK, PathAtHand, Unregister, Go, Delete, guard, takeover,
     bounds
<1>9. ASSUME NEW s \in Session, Leave(s) PROVE PathAtHand'
  BY <1>9, NoneIsNone DEF Parts, TypeOK, PathAtHand, Leave, Go, table, guard, takeover, bounds
<1>10. ASSUME NEW s \in Session, Crash(s) PROVE PathAtHand'
  BY <1>10, NoneIsNone DEF Parts, TypeOK, PathAtHand, Crash, Over, table
<1>11. ASSUME NEW s \in Session, Abort(s) PROVE PathAtHand'
  BY <1>11, NoneIsNone DEF Parts, TypeOK, PathAtHand, Abort, table, guard, takeover, bounds
<1>12. ASSUME NEW s \in Session, Settle(s) PROVE PathAtHand'
  BY <1>12, NoneIsNone DEF Parts, TypeOK, PathAtHand, Settle, Delete, Loses, guard, takeover,
     bounds
<1>13. ASSUME NEW s \in Session, Begin(s) PROVE PathAtHand'
  BY <1>13, NoneIsNone DEF Parts, TypeOK, PathAtHand, Begin, At, Go, table, takeover
<1>14. ASSUME NEW s \in Session, Check(s) PROVE PathAtHand'
  BY <1>14, NoneIsNone DEF Parts, TypeOK, PathAtHand, Check, At, Go, Peer, table, guard, bounds
<1>15. ASSUME NEW s \in Session, Judge(s) PROVE PathAtHand'
  BY <1>15, JudgeMoves, MoveKeeps DEF Parts
<1>16. ASSUME NEW s \in Session, Probed(s) PROVE PathAtHand'
  BY <1>16, ProbedMoves, MoveKeeps DEF Parts
<1>17. ASSUME NEW s \in Session, Seize(s) PROVE PathAtHand'
  BY <1>17, SeizeMoves, MoveKeeps DEF Parts
<1>18. ASSUME NEW s \in Session, Grab(s) PROVE PathAtHand'
  BY <1>18, GrabMoves, MoveKeeps DEF Parts
<1>19. ASSUME NEW s \in Session, Answer(s) PROVE PathAtHand'
  BY <1>19, AnswerMoves, MoveKeeps DEF Parts
<1>20. ASSUME NEW s \in Session, SeizeAsked(s) PROVE PathAtHand'
  BY <1>20, SeizeAskedMoves, MoveKeeps DEF Parts
<1>21. ASSUME NEW s \in Session, GrabAsked(s) PROVE PathAtHand'
  BY <1>21, GrabAskedMoves, MoveKeeps DEF Parts
<1>22. ASSUME NEW s \in Session, Execute(s) PROVE PathAtHand'
  BY <1>22, NoneIsNone DEF Parts, TypeOK, PathAtHand, Execute, At, Go, table, guard, takeover,
     bounds
<1>23. ASSUME NEW s \in Session, Withdraw(s) PROVE PathAtHand'
  BY <1>23, NoneIsNone DEF Parts, TypeOK, PathAtHand, Withdraw, At, Refuse, Go, Forget, Undone,
     table, bounds
<1>24. ASSUME NEW s \in Session, Return(s) PROVE PathAtHand'
  BY <1>24, NoneIsNone DEF Parts, TypeOK, PathAtHand, Return, At, Go, table, takeover, bounds
<1>25. ASSUME NEW s \in Session, End(s) PROVE PathAtHand'
  BY <1>25, NoneIsNone DEF Parts, TypeOK, PathAtHand, End, At, Go, Over, table, bounds
<1>26. ASSUME NEW s \in Session, Refused(s) PROVE PathAtHand'
  BY <1>26, NoneIsNone DEF Parts, TypeOK, PathAtHand, Refused, At, Go, Over, table, bounds
<1>27. ASSUME NEW s \in Session, NEW f \in File, Acquire(s, f) PROVE PathAtHand'
  BY <1>27, AcquireMoves, MoveKeeps DEF Parts
<1>28. ASSUME NEW s \in Session, NEW f \in File, Note(s, f) PROVE PathAtHand'
  BY <1>28, NoneIsNone DEF Parts, TypeOK, PathAtHand, Note, At, Grant, Available, table, takeover,
     bounds
<1>29. ASSUME NEW s \in Session, NEW f \in File, Release(s, f) PROVE PathAtHand'
  BY <1>29, NoneIsNone DEF Parts, TypeOK, PathAtHand, Release, At, Released, Delete, takeover,
     bounds
<1>30. ASSUME NEW s \in Session, NEW d \in displaced[s], GiveBack(s, d) PROVE PathAtHand'
  BY <1>30, NoneIsNone DEF Parts, TypeOK, PathAtHand, GiveBack, At, Available, table, takeover,
     bounds
<1>. QED
  BY <1>1, <1>2, <1>3, <1>4, <1>5, <1>6, <1>7, <1>8, <1>9, <1>10, <1>11, <1>12, <1>13, <1>14,
     <1>15, <1>16, <1>17, <1>18, <1>19, <1>20, <1>21, <1>22, <1>23, <1>24, <1>25, <1>26, <1>27,
     <1>28, <1>29, <1>30 DEF Next, Process, Guard, Edit

\* A step keeps IdleIsClear.
LEMMA IdleNext ==
  ASSUME Parts, Next
  PROVE  IdleIsClear'
<1>1. ASSUME Restart PROVE IdleIsClear'
  BY <1>1, NoneIsNone DEF Parts, TypeOK, IdleIsClear, Restart, Delete, DeadRows, guard, takeover,
     bounds
<1>2. ASSUME NEW f \in File, Age(f) PROVE IdleIsClear'
  BY <1>2, NoneIsNone DEF Parts, TypeOK, IdleIsClear, Age, guard, takeover, bounds
<1>3. ASSUME NEW s \in Session, Boot(s) PROVE IdleIsClear'
  BY <1>3, NoneIsNone DEF Parts, TypeOK, IdleIsClear, Boot, Go, DeadRows, table, guard, takeover,
     bounds
<1>4. ASSUME NEW s \in Session, Sweep(s) PROVE IdleIsClear'
  BY <1>4, NoneIsNone DEF Parts, TypeOK, IdleIsClear, Sweep, Go, DeadRows, table, guard, takeover,
     bounds
<1>5. ASSUME NEW s \in Session, DeleteClaims(s) PROVE IdleIsClear'
  BY <1>5, NoneIsNone DEF Parts, TypeOK, IdleIsClear, DeleteClaims, Go, Delete, Loses, guard,
     takeover, bounds
<1>6. ASSUME NEW s \in Session, DeleteRows(s) PROVE IdleIsClear'
  BY <1>6, NoneIsNone DEF Parts, TypeOK, IdleIsClear, DeleteRows, Go, table, guard, takeover,
     bounds
<1>7. ASSUME NEW s \in Session, Register(s) PROVE IdleIsClear'
  BY <1>7, NoneIsNone DEF Parts, TypeOK, IdleIsClear, Register, Go, table, guard, takeover, bounds
<1>8. ASSUME NEW s \in Session, Unregister(s) PROVE IdleIsClear'
  BY <1>8, NoneIsNone DEF Parts, TypeOK, IdleIsClear, Unregister, Go, Delete, guard, takeover,
     bounds
<1>9. ASSUME NEW s \in Session, Leave(s) PROVE IdleIsClear'
  BY <1>9, NoneIsNone DEF Parts, TypeOK, IdleIsClear, Leave, Go, table, guard, takeover, bounds
<1>10. ASSUME NEW s \in Session, Crash(s) PROVE IdleIsClear'
  BY <1>10, NoneIsNone DEF Parts, TypeOK, IdleIsClear, Crash, Over, table
<1>11. ASSUME NEW s \in Session, Abort(s) PROVE IdleIsClear'
  BY <1>11, NoneIsNone DEF Parts, TypeOK, IdleIsClear, Abort, table, guard, takeover, bounds
<1>12. ASSUME NEW s \in Session, Settle(s) PROVE IdleIsClear'
  BY <1>12, NoneIsNone DEF Parts, TypeOK, IdleIsClear, Settle, Delete, Loses, guard, takeover,
     bounds
<1>13. ASSUME NEW s \in Session, Begin(s) PROVE IdleIsClear'
  BY <1>13, NoneIsNone DEF Parts, TypeOK, IdleIsClear, Begin, At, Go, table, takeover
<1>14. ASSUME NEW s \in Session, Check(s) PROVE IdleIsClear'
  BY <1>14, NoneIsNone DEF Parts, TypeOK, IdleIsClear, Check, At, Go, Peer, table, guard, bounds
<1>15. ASSUME NEW s \in Session, Judge(s) PROVE IdleIsClear'
  BY <1>15, JudgeMoves, MoveKeeps DEF Parts
<1>16. ASSUME NEW s \in Session, Probed(s) PROVE IdleIsClear'
  BY <1>16, ProbedMoves, MoveKeeps DEF Parts
<1>17. ASSUME NEW s \in Session, Seize(s) PROVE IdleIsClear'
  BY <1>17, SeizeMoves, MoveKeeps DEF Parts
<1>18. ASSUME NEW s \in Session, Grab(s) PROVE IdleIsClear'
  BY <1>18, GrabMoves, MoveKeeps DEF Parts
<1>19. ASSUME NEW s \in Session, Answer(s) PROVE IdleIsClear'
  BY <1>19, AnswerMoves, MoveKeeps DEF Parts
<1>20. ASSUME NEW s \in Session, SeizeAsked(s) PROVE IdleIsClear'
  BY <1>20, SeizeAskedMoves, MoveKeeps DEF Parts
<1>21. ASSUME NEW s \in Session, GrabAsked(s) PROVE IdleIsClear'
  BY <1>21, GrabAskedMoves, MoveKeeps DEF Parts
<1>22. ASSUME NEW s \in Session, Execute(s) PROVE IdleIsClear'
  BY <1>22, NoneIsNone DEF Parts, TypeOK, IdleIsClear, Execute, At, Go, table, guard, takeover,
     bounds
<1>23. ASSUME NEW s \in Session, Withdraw(s) PROVE IdleIsClear'
  BY <1>23, NoneIsNone DEF Parts, TypeOK, IdleIsClear, Withdraw, At, Refuse, Go, Forget, Undone,
     table, bounds
<1>24. ASSUME NEW s \in Session, Return(s) PROVE IdleIsClear'
  BY <1>24, NoneIsNone DEF Parts, TypeOK, IdleIsClear, Return, At, Go, table, takeover, bounds
<1>25. ASSUME NEW s \in Session, End(s) PROVE IdleIsClear'
  BY <1>25, NoneIsNone DEF Parts, TypeOK, IdleIsClear, End, At, Go, Over, table, bounds
<1>26. ASSUME NEW s \in Session, Refused(s) PROVE IdleIsClear'
  BY <1>26, NoneIsNone DEF Parts, TypeOK, IdleIsClear, Refused, At, Go, Over, table, bounds
<1>27. ASSUME NEW s \in Session, NEW f \in File, Acquire(s, f) PROVE IdleIsClear'
  BY <1>27, AcquireMoves, MoveKeeps DEF Parts
<1>28. ASSUME NEW s \in Session, NEW f \in File, Note(s, f) PROVE IdleIsClear'
  BY <1>28, NoneIsNone DEF Parts, TypeOK, IdleIsClear, Note, At, Grant, Available, table,
     takeover, bounds
<1>29. ASSUME NEW s \in Session, NEW f \in File, Release(s, f) PROVE IdleIsClear'
  BY <1>29, NoneIsNone DEF Parts, TypeOK, IdleIsClear, Release, At, Released, Delete, takeover,
     bounds
<1>30. ASSUME NEW s \in Session, NEW d \in displaced[s], GiveBack(s, d) PROVE IdleIsClear'
  BY <1>30, NoneIsNone DEF Parts, TypeOK, IdleIsClear, GiveBack, At, Available, table, takeover,
     bounds
<1>. QED
  BY <1>1, <1>2, <1>3, <1>4, <1>5, <1>6, <1>7, <1>8, <1>9, <1>10, <1>11, <1>12, <1>13, <1>14,
     <1>15, <1>16, <1>17, <1>18, <1>19, <1>20, <1>21, <1>22, <1>23, <1>24, <1>25, <1>26, <1>27,
     <1>28, <1>29, <1>30 DEF Next, Process, Guard, Edit

\* A step keeps Held.
LEMMA HeldNext ==
  ASSUME Parts, Next
  PROVE  Held'
<1>1. ASSUME Restart PROVE Held'
  BY <1>1, NoneIsNone DEF Parts, TypeOK, PathAtHand, Held, IdleIsClear, Restart, Delete, DeadRows,
     guard, takeover, bounds
<1>2. ASSUME NEW f \in File, Age(f) PROVE Held'
  BY <1>2, NoneIsNone DEF Parts, TypeOK, PathAtHand, Held, IdleIsClear, Age, guard, takeover,
     bounds
<1>3. ASSUME NEW s \in Session, Boot(s) PROVE Held'
  BY <1>3, NoneIsNone DEF Parts, TypeOK, PathAtHand, Held, IdleIsClear, Boot, Go, DeadRows, table,
     guard, takeover, bounds
<1>4. ASSUME NEW s \in Session, Sweep(s) PROVE Held'
  BY <1>4, NoneIsNone DEF Parts, TypeOK, PathAtHand, Held, IdleIsClear, Sweep, Go, DeadRows,
     table, guard, takeover, bounds
<1>5. ASSUME NEW s \in Session, DeleteClaims(s) PROVE Held'
  BY <1>5, NoneIsNone DEF Parts, TypeOK, PathAtHand, Held, IdleIsClear, DeleteClaims, Go, Delete,
     Loses, guard, takeover, bounds
<1>6. ASSUME NEW s \in Session, DeleteRows(s) PROVE Held'
  BY <1>6, NoneIsNone DEF Parts, TypeOK, PathAtHand, Held, IdleIsClear, DeleteRows, Go, table,
     guard, takeover, bounds
<1>7. ASSUME NEW s \in Session, Register(s) PROVE Held'
  BY <1>7, NoneIsNone DEF Parts, TypeOK, PathAtHand, Held, IdleIsClear, Register, Go, table,
     guard, takeover, bounds
<1>8. ASSUME NEW s \in Session, Unregister(s) PROVE Held'
  BY <1>8, NoneIsNone DEF Parts, TypeOK, PathAtHand, Held, IdleIsClear, Unregister, Go, Delete,
     guard, takeover, bounds
<1>9. ASSUME NEW s \in Session, Leave(s) PROVE Held'
  BY <1>9, NoneIsNone DEF Parts, TypeOK, PathAtHand, Held, IdleIsClear, Leave, Go, table, guard,
     takeover, bounds
<1>10. ASSUME NEW s \in Session, Crash(s) PROVE Held'
  BY <1>10, NoneIsNone DEF Parts, TypeOK, PathAtHand, Held, IdleIsClear, Crash, Over, table
<1>11. ASSUME NEW s \in Session, Abort(s) PROVE Held'
  BY <1>11, NoneIsNone DEF Parts, TypeOK, PathAtHand, Held, IdleIsClear, Abort, table, guard,
     takeover, bounds
<1>12. ASSUME NEW s \in Session, Settle(s) PROVE Held'
  BY <1>12, NoneIsNone DEF Parts, TypeOK, PathAtHand, Held, IdleIsClear, Settle, Delete, Loses,
     guard, takeover, bounds
<1>13. ASSUME NEW s \in Session, Begin(s) PROVE Held'
  BY <1>13, NoneIsNone DEF Parts, TypeOK, PathAtHand, Held, IdleIsClear, Begin, At, Go, table,
     takeover
<1>14. ASSUME NEW s \in Session, Check(s) PROVE Held'
  BY <1>14, NoneIsNone DEF Parts, TypeOK, PathAtHand, Held, IdleIsClear, Check, At, Go, Peer,
     table, guard, bounds
<1>15. ASSUME NEW s \in Session, Judge(s) PROVE Held'
  BY <1>15, JudgeMoves, MoveKeeps DEF Parts
<1>16. ASSUME NEW s \in Session, Probed(s) PROVE Held'
  BY <1>16, ProbedMoves, MoveKeeps DEF Parts
<1>17. ASSUME NEW s \in Session, Seize(s) PROVE Held'
  BY <1>17, SeizeMoves, MoveKeeps DEF Parts
<1>18. ASSUME NEW s \in Session, Grab(s) PROVE Held'
  BY <1>18, GrabMoves, MoveKeeps DEF Parts
<1>19. ASSUME NEW s \in Session, Answer(s) PROVE Held'
  BY <1>19, AnswerMoves, MoveKeeps DEF Parts
<1>20. ASSUME NEW s \in Session, SeizeAsked(s) PROVE Held'
  BY <1>20, SeizeAskedMoves, MoveKeeps DEF Parts
<1>21. ASSUME NEW s \in Session, GrabAsked(s) PROVE Held'
  BY <1>21, GrabAskedMoves, MoveKeeps DEF Parts
<1>22. ASSUME NEW s \in Session, Execute(s) PROVE Held'
  BY <1>22, NoneIsNone DEF Parts, TypeOK, PathAtHand, Held, IdleIsClear, Execute, At, Go, table,
     guard, takeover, bounds
<1>23. ASSUME NEW s \in Session, Withdraw(s) PROVE Held'
  BY <1>23, NoneIsNone DEF Parts, TypeOK, PathAtHand, Held, IdleIsClear, Withdraw, At, Refuse, Go,
     Forget, Undone, table, bounds
<1>24. ASSUME NEW s \in Session, Return(s) PROVE Held'
  BY <1>24, NoneIsNone DEF Parts, TypeOK, PathAtHand, Held, IdleIsClear, Return, At, Go, table,
     takeover, bounds
<1>25. ASSUME NEW s \in Session, End(s) PROVE Held'
  BY <1>25, NoneIsNone DEF Parts, TypeOK, PathAtHand, Held, IdleIsClear, End, At, Go, Over, table,
     bounds
<1>26. ASSUME NEW s \in Session, Refused(s) PROVE Held'
  BY <1>26, NoneIsNone DEF Parts, TypeOK, PathAtHand, Held, IdleIsClear, Refused, At, Go, Over,
     table, bounds
<1>27. ASSUME NEW s \in Session, NEW f \in File, Acquire(s, f) PROVE Held'
  BY <1>27, AcquireMoves, MoveKeeps DEF Parts
<1>28. ASSUME NEW s \in Session, NEW f \in File, Note(s, f) PROVE Held'
  BY <1>28, NoneIsNone DEF Parts, TypeOK, PathAtHand, Held, IdleIsClear, Note, At, Grant,
     Available, table, takeover, bounds
<1>29. ASSUME NEW s \in Session, NEW f \in File, Release(s, f) PROVE Held'
  BY <1>29, NoneIsNone DEF Parts, TypeOK, PathAtHand, Held, IdleIsClear, Release, At, Released,
     Delete, takeover, bounds
<1>30. ASSUME NEW s \in Session, NEW d \in displaced[s], GiveBack(s, d) PROVE Held'
  BY <1>30, NoneIsNone DEF Parts, TypeOK, PathAtHand, Held, IdleIsClear, GiveBack, At, Available,
     table, takeover, bounds
<1>. QED
  BY <1>1, <1>2, <1>3, <1>4, <1>5, <1>6, <1>7, <1>8, <1>9, <1>10, <1>11, <1>12, <1>13, <1>14,
     <1>15, <1>16, <1>17, <1>18, <1>19, <1>20, <1>21, <1>22, <1>23, <1>24, <1>25, <1>26, <1>27,
     <1>28, <1>29, <1>30 DEF Next, Process, Guard, Edit

\* A step keeps Judgement.
LEMMA JudgementNext ==
  ASSUME Parts, Next
  PROVE  Judgement'
<1>1. ASSUME Restart PROVE Judgement'
  BY <1>1, NoneIsNone DEF Parts, TypeOK, PathAtHand, Judgement, IdleIsClear, Restart, Delete,
     DeadRows, guard, takeover, bounds
<1>2. ASSUME NEW f \in File, Age(f) PROVE Judgement'
  BY <1>2, NoneIsNone DEF Parts, TypeOK, PathAtHand, Judgement, IdleIsClear, Age, guard, takeover,
     bounds
<1>3. ASSUME NEW s \in Session, Boot(s) PROVE Judgement'
  BY <1>3, NoneIsNone DEF Parts, TypeOK, PathAtHand, Judgement, IdleIsClear, Boot, Go, DeadRows,
     table, guard, takeover, bounds
<1>4. ASSUME NEW s \in Session, Sweep(s) PROVE Judgement'
  BY <1>4, NoneIsNone DEF Parts, TypeOK, PathAtHand, Judgement, IdleIsClear, Sweep, Go, DeadRows,
     table, guard, takeover, bounds
<1>5. ASSUME NEW s \in Session, DeleteClaims(s) PROVE Judgement'
  BY <1>5, NoneIsNone DEF Parts, TypeOK, PathAtHand, Judgement, IdleIsClear, DeleteClaims, Go,
     Delete, Loses, guard, takeover, bounds
<1>6. ASSUME NEW s \in Session, DeleteRows(s) PROVE Judgement'
  BY <1>6, NoneIsNone DEF Parts, TypeOK, PathAtHand, Judgement, IdleIsClear, DeleteRows, Go,
     table, guard, takeover, bounds
<1>7. ASSUME NEW s \in Session, Register(s) PROVE Judgement'
  BY <1>7, NoneIsNone DEF Parts, TypeOK, PathAtHand, Judgement, IdleIsClear, Register, Go, table,
     guard, takeover, bounds
<1>8. ASSUME NEW s \in Session, Unregister(s) PROVE Judgement'
  BY <1>8, NoneIsNone DEF Parts, TypeOK, PathAtHand, Judgement, IdleIsClear, Unregister, Go,
     Delete, guard, takeover, bounds
<1>9. ASSUME NEW s \in Session, Leave(s) PROVE Judgement'
  BY <1>9, NoneIsNone DEF Parts, TypeOK, PathAtHand, Judgement, IdleIsClear, Leave, Go, table,
     guard, takeover, bounds
<1>10. ASSUME NEW s \in Session, Crash(s) PROVE Judgement'
  BY <1>10, NoneIsNone DEF Parts, TypeOK, PathAtHand, Judgement, IdleIsClear, Crash, Over, table
<1>11. ASSUME NEW s \in Session, Abort(s) PROVE Judgement'
  BY <1>11, NoneIsNone DEF Parts, TypeOK, PathAtHand, Judgement, IdleIsClear, Abort, table, guard,
     takeover, bounds
<1>12. ASSUME NEW s \in Session, Settle(s) PROVE Judgement'
  BY <1>12, NoneIsNone DEF Parts, TypeOK, PathAtHand, Judgement, IdleIsClear, Settle, Delete,
     Loses, guard, takeover, bounds
<1>13. ASSUME NEW s \in Session, Begin(s) PROVE Judgement'
  BY <1>13, NoneIsNone DEF Parts, TypeOK, PathAtHand, Judgement, IdleIsClear, Begin, At, Go,
     table, takeover
<1>14. ASSUME NEW s \in Session, Check(s) PROVE Judgement'
  BY <1>14, NoneIsNone DEF Parts, TypeOK, PathAtHand, Judgement, IdleIsClear, Check, At, Go, Peer,
     table, guard, bounds
<1>15. ASSUME NEW s \in Session, Judge(s) PROVE Judgement'
  BY <1>15, JudgeMoves, MoveKeeps DEF Parts
<1>16. ASSUME NEW s \in Session, Probed(s) PROVE Judgement'
  BY <1>16, ProbedMoves, MoveKeeps DEF Parts
<1>17. ASSUME NEW s \in Session, Seize(s) PROVE Judgement'
  BY <1>17, SeizeMoves, MoveKeeps DEF Parts
<1>18. ASSUME NEW s \in Session, Grab(s) PROVE Judgement'
  BY <1>18, GrabMoves, MoveKeeps DEF Parts
<1>19. ASSUME NEW s \in Session, Answer(s) PROVE Judgement'
  BY <1>19, AnswerMoves, MoveKeeps DEF Parts
<1>20. ASSUME NEW s \in Session, SeizeAsked(s) PROVE Judgement'
  BY <1>20, SeizeAskedMoves, MoveKeeps DEF Parts
<1>21. ASSUME NEW s \in Session, GrabAsked(s) PROVE Judgement'
  BY <1>21, GrabAskedMoves, MoveKeeps DEF Parts
<1>22. ASSUME NEW s \in Session, Execute(s) PROVE Judgement'
  BY <1>22, NoneIsNone DEF Parts, TypeOK, PathAtHand, Judgement, IdleIsClear, Execute, At, Go,
     table, guard, takeover, bounds
<1>23. ASSUME NEW s \in Session, Withdraw(s) PROVE Judgement'
  BY <1>23, NoneIsNone DEF Parts, TypeOK, PathAtHand, Judgement, IdleIsClear, Withdraw, At,
     Refuse, Go, Forget, Undone, table, bounds
<1>24. ASSUME NEW s \in Session, Return(s) PROVE Judgement'
  BY <1>24, NoneIsNone DEF Parts, TypeOK, PathAtHand, Judgement, IdleIsClear, Return, At, Go,
     table, takeover, bounds
<1>25. ASSUME NEW s \in Session, End(s) PROVE Judgement'
  BY <1>25, NoneIsNone DEF Parts, TypeOK, PathAtHand, Judgement, IdleIsClear, End, At, Go, Over,
     table, bounds
<1>26. ASSUME NEW s \in Session, Refused(s) PROVE Judgement'
  BY <1>26, NoneIsNone DEF Parts, TypeOK, PathAtHand, Judgement, IdleIsClear, Refused, At, Go,
     Over, table, bounds
<1>27. ASSUME NEW s \in Session, NEW f \in File, Acquire(s, f) PROVE Judgement'
  BY <1>27, AcquireMoves, MoveKeeps DEF Parts
<1>28. ASSUME NEW s \in Session, NEW f \in File, Note(s, f) PROVE Judgement'
  BY <1>28, NoneIsNone DEF Parts, TypeOK, PathAtHand, Judgement, IdleIsClear, Note, At, Grant,
     Available, table, takeover, bounds
<1>29. ASSUME NEW s \in Session, NEW f \in File, Release(s, f) PROVE Judgement'
  BY <1>29, NoneIsNone DEF Parts, TypeOK, PathAtHand, Judgement, IdleIsClear, Release, At,
     Released, Delete, takeover, bounds
<1>30. ASSUME NEW s \in Session, NEW d \in displaced[s], GiveBack(s, d) PROVE Judgement'
  BY <1>30, NoneIsNone DEF Parts, TypeOK, PathAtHand, Judgement, IdleIsClear, GiveBack, At,
     Available, table, takeover, bounds
<1>. QED
  BY <1>1, <1>2, <1>3, <1>4, <1>5, <1>6, <1>7, <1>8, <1>9, <1>10, <1>11, <1>12, <1>13, <1>14,
     <1>15, <1>16, <1>17, <1>18, <1>19, <1>20, <1>21, <1>22, <1>23, <1>24, <1>25, <1>26, <1>27,
     <1>28, <1>29, <1>30 DEF Next, Process, Guard, Edit

\* No step robs a call.
LEMMA RespectNext ==
  ASSUME Parts, Next
  PROVE  ClaimsRespected'
<1>1. ASSUME Restart PROVE ClaimsRespected'
  BY <1>1, NoneIsNone DEF Parts, TypeOK, PathAtHand, Judgement, ClaimsRespected, Restart, Delete,
     DeadRows, guard, takeover, bounds
<1>2. ASSUME NEW f \in File, Age(f) PROVE ClaimsRespected'
  BY <1>2, NoneIsNone DEF Parts, TypeOK, PathAtHand, Judgement, ClaimsRespected, Age, guard,
     takeover, bounds
<1>3. ASSUME NEW s \in Session, Boot(s) PROVE ClaimsRespected'
  BY <1>3, NoneIsNone DEF Parts, TypeOK, PathAtHand, Judgement, ClaimsRespected, Boot, Go,
     DeadRows, table, guard, takeover, bounds
<1>4. ASSUME NEW s \in Session, Sweep(s) PROVE ClaimsRespected'
  BY <1>4, NoneIsNone DEF Parts, TypeOK, PathAtHand, Judgement, ClaimsRespected, Sweep, Go,
     DeadRows, table, guard, takeover, bounds
<1>5. ASSUME NEW s \in Session, DeleteClaims(s) PROVE ClaimsRespected'
  BY <1>5, NoneIsNone DEF Parts, TypeOK, PathAtHand, Judgement, ClaimsRespected, DeleteClaims, Go,
     Delete, Loses, guard, takeover, bounds
<1>6. ASSUME NEW s \in Session, DeleteRows(s) PROVE ClaimsRespected'
  BY <1>6, NoneIsNone DEF Parts, TypeOK, PathAtHand, Judgement, ClaimsRespected, DeleteRows, Go,
     table, guard, takeover, bounds
<1>7. ASSUME NEW s \in Session, Register(s) PROVE ClaimsRespected'
  BY <1>7, NoneIsNone DEF Parts, TypeOK, PathAtHand, Judgement, ClaimsRespected, Register, Go,
     table, guard, takeover, bounds
<1>8. ASSUME NEW s \in Session, Unregister(s) PROVE ClaimsRespected'
  BY <1>8, NoneIsNone DEF Parts, TypeOK, PathAtHand, Judgement, ClaimsRespected, Unregister, Go,
     Delete, guard, takeover, bounds
<1>9. ASSUME NEW s \in Session, Leave(s) PROVE ClaimsRespected'
  BY <1>9, NoneIsNone DEF Parts, TypeOK, PathAtHand, Judgement, ClaimsRespected, Leave, Go, table,
     guard, takeover, bounds
<1>10. ASSUME NEW s \in Session, Crash(s) PROVE ClaimsRespected'
  BY <1>10, NoneIsNone DEF Parts, TypeOK, PathAtHand, Judgement, ClaimsRespected, Crash, Over,
     table
<1>11. ASSUME NEW s \in Session, Abort(s) PROVE ClaimsRespected'
  BY <1>11, NoneIsNone DEF Parts, TypeOK, PathAtHand, Judgement, ClaimsRespected, Abort, table,
     guard, takeover, bounds
<1>12. ASSUME NEW s \in Session, Settle(s) PROVE ClaimsRespected'
  BY <1>12, NoneIsNone DEF Parts, TypeOK, PathAtHand, Judgement, ClaimsRespected, Settle, Delete,
     Loses, guard, takeover, bounds
<1>13. ASSUME NEW s \in Session, Begin(s) PROVE ClaimsRespected'
  BY <1>13, NoneIsNone DEF Parts, TypeOK, PathAtHand, Judgement, ClaimsRespected, Begin, At, Go,
     table, takeover
<1>14. ASSUME NEW s \in Session, Check(s) PROVE ClaimsRespected'
  BY <1>14, NoneIsNone DEF Parts, TypeOK, PathAtHand, Judgement, ClaimsRespected, Check, At, Go,
     Peer, table, guard, bounds
<1>15. ASSUME NEW s \in Session, Judge(s) PROVE ClaimsRespected'
  BY <1>15, JudgeMoves, MoveKeeps DEF Parts
<1>16. ASSUME NEW s \in Session, Probed(s) PROVE ClaimsRespected'
  BY <1>16, ProbedMoves, MoveKeeps DEF Parts
<1>17. ASSUME NEW s \in Session, Seize(s) PROVE ClaimsRespected'
  BY <1>17, SeizeMoves, MoveKeeps DEF Parts
<1>18. ASSUME NEW s \in Session, Grab(s) PROVE ClaimsRespected'
  BY <1>18, GrabMoves, MoveKeeps DEF Parts
<1>19. ASSUME NEW s \in Session, Answer(s) PROVE ClaimsRespected'
  BY <1>19, AnswerMoves, MoveKeeps DEF Parts
<1>20. ASSUME NEW s \in Session, SeizeAsked(s) PROVE ClaimsRespected'
  BY <1>20, SeizeAskedMoves, MoveKeeps DEF Parts
<1>21. ASSUME NEW s \in Session, GrabAsked(s) PROVE ClaimsRespected'
  BY <1>21, GrabAskedMoves, MoveKeeps DEF Parts
<1>22. ASSUME NEW s \in Session, Execute(s) PROVE ClaimsRespected'
  BY <1>22, NoneIsNone DEF Parts, TypeOK, PathAtHand, Judgement, ClaimsRespected, Execute, At, Go,
     table, guard, takeover, bounds
<1>23. ASSUME NEW s \in Session, Withdraw(s) PROVE ClaimsRespected'
  BY <1>23, NoneIsNone DEF Parts, TypeOK, PathAtHand, Judgement, ClaimsRespected, Withdraw, At,
     Refuse, Go, Forget, Undone, table, bounds
<1>24. ASSUME NEW s \in Session, Return(s) PROVE ClaimsRespected'
  BY <1>24, NoneIsNone DEF Parts, TypeOK, PathAtHand, Judgement, ClaimsRespected, Return, At, Go,
     table, takeover, bounds
<1>25. ASSUME NEW s \in Session, End(s) PROVE ClaimsRespected'
  BY <1>25, NoneIsNone DEF Parts, TypeOK, PathAtHand, Judgement, ClaimsRespected, End, At, Go,
     Over, table, bounds
<1>26. ASSUME NEW s \in Session, Refused(s) PROVE ClaimsRespected'
  BY <1>26, NoneIsNone DEF Parts, TypeOK, PathAtHand, Judgement, ClaimsRespected, Refused, At, Go,
     Over, table, bounds
<1>27. ASSUME NEW s \in Session, NEW f \in File, Acquire(s, f) PROVE ClaimsRespected'
  BY <1>27, AcquireMoves, MoveKeeps DEF Parts
<1>28. ASSUME NEW s \in Session, NEW f \in File, Note(s, f) PROVE ClaimsRespected'
  BY <1>28, NoneIsNone DEF Parts, TypeOK, PathAtHand, Judgement, ClaimsRespected, Note, At, Grant,
     Available, table, takeover, bounds
<1>29. ASSUME NEW s \in Session, NEW f \in File, Release(s, f) PROVE ClaimsRespected'
  BY <1>29, NoneIsNone DEF Parts, TypeOK, PathAtHand, Judgement, ClaimsRespected, Release, At,
     Released, Delete, takeover, bounds
<1>30. ASSUME NEW s \in Session, NEW d \in displaced[s], GiveBack(s, d) PROVE ClaimsRespected'
  BY <1>30, NoneIsNone DEF Parts, TypeOK, PathAtHand, Judgement, ClaimsRespected, GiveBack, At,
     Available, table, takeover, bounds
<1>. QED
  BY <1>1, <1>2, <1>3, <1>4, <1>5, <1>6, <1>7, <1>8, <1>9, <1>10, <1>11, <1>12, <1>13, <1>14,
     <1>15, <1>16, <1>17, <1>18, <1>19, <1>20, <1>21, <1>22, <1>23, <1>24, <1>25, <1>26, <1>27,
     <1>28, <1>29, <1>30 DEF Next, Process, Guard, Edit

\* A step keeps Passed.
LEMMA PassedNext ==
  ASSUME Parts, Next
  PROVE  Passed'
<1>1. ASSUME Restart PROVE Passed'
  BY <1>1, NoneIsNone DEF Parts, TypeOK, PathAtHand, Passed, Restart, Delete, DeadRows, guard,
     takeover, bounds
<1>2. ASSUME NEW f \in File, Age(f) PROVE Passed'
  BY <1>2, NoneIsNone DEF Parts, TypeOK, PathAtHand, Passed, Age, guard, takeover, bounds
<1>3. ASSUME NEW s \in Session, Boot(s) PROVE Passed'
  BY <1>3, NoneIsNone DEF Parts, TypeOK, PathAtHand, Passed, Boot, Go, DeadRows, table, guard,
     takeover, bounds
<1>4. ASSUME NEW s \in Session, Sweep(s) PROVE Passed'
  BY <1>4, NoneIsNone DEF Parts, TypeOK, PathAtHand, Passed, Sweep, Go, DeadRows, table, guard,
     takeover, bounds
<1>5. ASSUME NEW s \in Session, DeleteClaims(s) PROVE Passed'
  BY <1>5, NoneIsNone DEF Parts, TypeOK, PathAtHand, Passed, DeleteClaims, Go, Delete, Loses,
     guard, takeover, bounds
<1>6. ASSUME NEW s \in Session, DeleteRows(s) PROVE Passed'
  BY <1>6, NoneIsNone DEF Parts, TypeOK, PathAtHand, Passed, DeleteRows, Go, table, guard,
     takeover, bounds
<1>7. ASSUME NEW s \in Session, Register(s) PROVE Passed'
  BY <1>7, NoneIsNone DEF Parts, TypeOK, PathAtHand, Passed, Register, Go, table, guard, takeover,
     bounds
<1>8. ASSUME NEW s \in Session, Unregister(s) PROVE Passed'
  BY <1>8, NoneIsNone DEF Parts, TypeOK, PathAtHand, Passed, Unregister, Go, Delete, guard,
     takeover, bounds
<1>9. ASSUME NEW s \in Session, Leave(s) PROVE Passed'
  BY <1>9, NoneIsNone DEF Parts, TypeOK, PathAtHand, Passed, Leave, Go, table, guard, takeover,
     bounds
<1>10. ASSUME NEW s \in Session, Crash(s) PROVE Passed'
  BY <1>10, NoneIsNone DEF Parts, TypeOK, PathAtHand, Passed, Crash, Over, table
<1>11. ASSUME NEW s \in Session, Abort(s) PROVE Passed'
  BY <1>11, NoneIsNone DEF Parts, TypeOK, PathAtHand, Passed, Abort, table, guard, takeover,
     bounds
<1>12. ASSUME NEW s \in Session, Settle(s) PROVE Passed'
  BY <1>12, NoneIsNone DEF Parts, TypeOK, PathAtHand, Passed, Settle, Delete, Loses, guard,
     takeover, bounds
<1>13. ASSUME NEW s \in Session, Begin(s) PROVE Passed'
  BY <1>13, NoneIsNone DEF Parts, TypeOK, PathAtHand, Passed, Begin, At, Go, table, takeover
<1>14. ASSUME NEW s \in Session, Check(s) PROVE Passed'
  BY <1>14, NoneIsNone DEF Parts, TypeOK, PathAtHand, Passed, Check, At, Go, Peer, table, guard,
     bounds
<1>15. ASSUME NEW s \in Session, Judge(s) PROVE Passed'
  BY <1>15, JudgeMoves, MoveKeeps DEF Parts
<1>16. ASSUME NEW s \in Session, Probed(s) PROVE Passed'
  BY <1>16, ProbedMoves, MoveKeeps DEF Parts
<1>17. ASSUME NEW s \in Session, Seize(s) PROVE Passed'
  BY <1>17, SeizeMoves, MoveKeeps DEF Parts
<1>18. ASSUME NEW s \in Session, Grab(s) PROVE Passed'
  BY <1>18, GrabMoves, MoveKeeps DEF Parts
<1>19. ASSUME NEW s \in Session, Answer(s) PROVE Passed'
  BY <1>19, AnswerMoves, MoveKeeps DEF Parts
<1>20. ASSUME NEW s \in Session, SeizeAsked(s) PROVE Passed'
  BY <1>20, SeizeAskedMoves, MoveKeeps DEF Parts
<1>21. ASSUME NEW s \in Session, GrabAsked(s) PROVE Passed'
  BY <1>21, GrabAskedMoves, MoveKeeps DEF Parts
<1>22. ASSUME NEW s \in Session, Execute(s) PROVE Passed'
  BY <1>22, NoneIsNone DEF Parts, TypeOK, PathAtHand, Passed, Execute, At, Go, table, guard,
     takeover, bounds
<1>23. ASSUME NEW s \in Session, Withdraw(s) PROVE Passed'
  BY <1>23, NoneIsNone DEF Parts, TypeOK, PathAtHand, Passed, Withdraw, At, Refuse, Go, Forget,
     Undone, table, bounds
<1>24. ASSUME NEW s \in Session, Return(s) PROVE Passed'
  BY <1>24, NoneIsNone DEF Parts, TypeOK, PathAtHand, Passed, Return, At, Go, table, takeover,
     bounds
<1>25. ASSUME NEW s \in Session, End(s) PROVE Passed'
  BY <1>25, NoneIsNone DEF Parts, TypeOK, PathAtHand, Passed, End, At, Go, Over, table, bounds
<1>26. ASSUME NEW s \in Session, Refused(s) PROVE Passed'
  BY <1>26, NoneIsNone DEF Parts, TypeOK, PathAtHand, Passed, Refused, At, Go, Over, table, bounds
<1>27. ASSUME NEW s \in Session, NEW f \in File, Acquire(s, f) PROVE Passed'
  BY <1>27, AcquireMoves, MoveKeeps DEF Parts
<1>28. ASSUME NEW s \in Session, NEW f \in File, Note(s, f) PROVE Passed'
  BY <1>28, NoneIsNone DEF Parts, TypeOK, PathAtHand, Passed, Note, At, Grant, Available, table,
     takeover, bounds
<1>29. ASSUME NEW s \in Session, NEW f \in File, Release(s, f) PROVE Passed'
  BY <1>29, NoneIsNone DEF Parts, TypeOK, PathAtHand, Passed, Release, At, Released, Delete,
     takeover, bounds
<1>30. ASSUME NEW s \in Session, NEW d \in displaced[s], GiveBack(s, d) PROVE Passed'
  BY <1>30, NoneIsNone DEF Parts, TypeOK, PathAtHand, Passed, GiveBack, At, Available, table,
     takeover, bounds
<1>. QED
  BY <1>1, <1>2, <1>3, <1>4, <1>5, <1>6, <1>7, <1>8, <1>9, <1>10, <1>11, <1>12, <1>13, <1>14,
     <1>15, <1>16, <1>17, <1>18, <1>19, <1>20, <1>21, <1>22, <1>23, <1>24, <1>25, <1>26, <1>27,
     <1>28, <1>29, <1>30 DEF Next, Process, Guard, Edit

-----------------------------------------------------------------------------
\* The number of paths of a call is a number.
LEMMA CallIsFinite ==
  ASSUME NEW F \in Calls
  PROVE  Cardinality(F) \in Nat
<1>1. F \subseteq File /\ IsFiniteSet(File)
  BY Constants
<1>. QED
  BY <1>1, FS_Subset, FS_CardinalityType

\* The statements and the ends of a path keep the types of what they assign.
LEMMA GrantTypes ==
  ASSUME TypeOK, NEW s \in Session, NEW f \in File, Grant(s, f)
  PROVE  /\ claim' \in [File -> Session \cup {None}]
         /\ stale' \subseteq File /\ returned' \subseteq File /\ same' \subseteq Session
  BY DEF TypeOK, Grant

LEMMA StakeTypes ==
  ASSUME TypeOK, NEW s \in Session, NEW f \in File, NEW o \in Session \cup {None}, Stake(s, f, o)
  PROVE  /\ pc' \in [Session -> Await \cup Sync]
         /\ todo' \in [Session -> SUBSET File] /\ staked' \in [Session -> SUBSET File]
         /\ displaced' \in [Session -> SUBSET [file : File, owner : Session]]
         /\ cur' \in [Session -> File \cup {None}]
         /\ asked' \in [Session -> Session \cup {None}]
         /\ judged' \in [Session -> Session \cup {None}]
<1>1. pc' \in [Session -> Await \cup Sync]
  BY DEF TypeOK, Stake, Go, Await, Waiting, Sync
<1>2. todo' \in [Session -> SUBSET File] /\ staked' \in [Session -> SUBSET File]
  BY DEF TypeOK, Stake
<1>3. displaced' \in [Session -> SUBSET [file : File, owner : Session]]
  <2>1. CASE o = None
    BY <2>1 DEF TypeOK, Stake
  <2>2. CASE o # None
    BY <2>2 DEF TypeOK, Stake
  <2>. QED
    BY <2>1, <2>2
<1>4. /\ cur' \in [Session -> File \cup {None}]
      /\ asked' \in [Session -> Session \cup {None}]
      /\ judged' \in [Session -> Session \cup {None}]
  BY DEF TypeOK, Stake, Forget
<1>. QED
  BY <1>1, <1>2, <1>3, <1>4

LEMMA TakenTypes ==
  ASSUME TypeOK, NEW s \in Session, Taken(s)
  PROVE  /\ claim' \in [File -> Session \cup {None}]
         /\ stale' \subseteq File /\ returned' \subseteq File
         /\ lost' \in [Session -> [File -> Why]]
<1>1. /\ claim' \in [File -> Session \cup {None}]
      /\ stale' \subseteq File /\ returned' \subseteq File
  BY DEF TypeOK, Taken, Delete
<1>2. PICK why \in Why : Loses({judged[s]}, {cur[s]}, why)
  <2>1. Right(judged[s], cur[s]) \in Why /\ "approved" \in Why
    BY DEF Right, Why
  <2>. QED
    BY <2>1 DEF Taken
<1>3. lost' \in [Session -> [File -> Why]]
  BY <1>2 DEF TypeOK, Loses
<1>. QED
  BY <1>1, <1>3

\* Every move keeps the types.
LEMMA MoveTypes ==
  ASSUME TypeOK, PathAtHand, NEW s \in Session, Move(s)
  PROVE  TypeOK'
<1>. USE DEF Elsewhere, bounds
<1>1. CASE Hop(s)
  <2>1. pc' \in [Session -> Await \cup Sync]
    BY <1>1 DEF TypeOK, Hop, Go, Await, Waiting, Sync
  <2>. QED
    BY <1>1, <2>1 DEF TypeOK, Hop, table, guard, takeover
<1>2. CASE Turned(s)
  <2>1. pc' \in [Session -> Await \cup Sync]
    BY <1>2 DEF TypeOK, Turned, Refuse, Go, Sync
  <2>2. /\ todo' \in [Session -> SUBSET File]
        /\ cur' \in [Session -> File \cup {None}]
        /\ asked' \in [Session -> Session \cup {None}]
        /\ judged' \in [Session -> Session \cup {None}]
    BY <1>2 DEF TypeOK, Turned, Refuse, Forget, Undone
  <2>. QED
    BY <1>2, <2>1, <2>2 DEF TypeOK, Turned, Refuse, table
<1>3. CASE Judged(s)
  <2>1. cur[s] \in File
    BY <1>3 DEF Judged, PathAtHand
  <2>2. Peer(s, cur[s]) \in Session \cup {None}
    BY <2>1 DEF Peer, TypeOK
  <2>3. Verdict(Peer(s, cur[s]), cur[s]) \in Await \cup Sync
    BY DEF Verdict, Await, Waiting, Sync
  <2>4. pc' \in [Session -> Await \cup Sync]
    BY <1>3, <2>3 DEF TypeOK, Judged, Go
  <2>. QED
    BY <1>3, <2>2, <2>4 DEF TypeOK, Judged, table, guard
<1>4. CASE Taken(s)
  <2>1. pc' \in [Session -> Await \cup Sync]
    BY <1>4 DEF TypeOK, Taken, Go, Sync
  <2>. QED
    BY <1>4, <2>1, TakenTypes DEF TypeOK, Taken, guard, takeover
<1>5. ASSUME NEW f \in File, Conflict(s, f) PROVE TypeOK'
  <2>1. pc' \in [Session -> Await \cup Sync]
    BY <1>5 DEF TypeOK, Conflict, Go, Sync
  <2>. QED
    BY <1>5, <2>1 DEF TypeOK, Conflict, table, guard
<1>6. ASSUME NEW f \in File, NEW o \in Session \cup {None}, Claimed(s, f, o) PROVE TypeOK'
  BY <1>6, GrantTypes, StakeTypes DEF TypeOK, Claimed
<1>. QED
  BY <1>1, <1>2, <1>3, <1>4, <1>5, <1>6 DEF Move

\* A step keeps the types.
LEMMA TypeNext ==
  ASSUME TypeOK, PathAtHand, Next
  PROVE  TypeOK'
<1>1. ASSUME Restart PROVE TypeOK'
  BY <1>1, Constants DEF TypeOK, Await, Sync, Waiting, Why, Restart, Delete, DeadRows, guard,
     takeover, bounds
<1>2. ASSUME NEW f \in File, Age(f) PROVE TypeOK'
  BY <1>2, Constants DEF TypeOK, Await, Sync, Waiting, Why, Age, guard, takeover, bounds
<1>3. ASSUME NEW s \in Session, Boot(s) PROVE TypeOK'
  BY <1>3, Constants DEF TypeOK, Await, Sync, Waiting, Why, Boot, Go, DeadRows, table, guard,
     takeover, bounds
<1>4. ASSUME NEW s \in Session, Sweep(s) PROVE TypeOK'
  BY <1>4, Constants DEF TypeOK, Await, Sync, Waiting, Why, Sweep, Go, DeadRows, table, guard,
     takeover, bounds
<1>5. ASSUME NEW s \in Session, DeleteClaims(s) PROVE TypeOK'
  BY <1>5, Constants DEF TypeOK, Await, Sync, Waiting, Why, DeleteClaims, Go, Delete, Loses,
     guard, takeover, bounds
<1>6. ASSUME NEW s \in Session, DeleteRows(s) PROVE TypeOK'
  BY <1>6, Constants DEF TypeOK, Await, Sync, Waiting, Why, DeleteRows, Go, table, guard,
     takeover, bounds
<1>7. ASSUME NEW s \in Session, Register(s) PROVE TypeOK'
  BY <1>7, Constants DEF TypeOK, Await, Sync, Waiting, Why, Register, Go, table, guard, takeover,
     bounds
<1>8. ASSUME NEW s \in Session, Unregister(s) PROVE TypeOK'
  BY <1>8, Constants DEF TypeOK, Await, Sync, Waiting, Why, Unregister, Go, Delete, guard,
     takeover, bounds
<1>9. ASSUME NEW s \in Session, Leave(s) PROVE TypeOK'
  BY <1>9, Constants DEF TypeOK, Await, Sync, Waiting, Why, Leave, Go, table, guard, takeover,
     bounds
<1>10. ASSUME NEW s \in Session, Crash(s) PROVE TypeOK'
  BY <1>10, Constants DEF TypeOK, Await, Sync, Waiting, Why, Crash, Over, table
<1>11. ASSUME NEW s \in Session, Abort(s) PROVE TypeOK'
  BY <1>11, Constants DEF TypeOK, Await, Sync, Waiting, Why, Abort, table, guard, takeover, bounds
<1>12. ASSUME NEW s \in Session, Settle(s) PROVE TypeOK'
  BY <1>12, Constants DEF TypeOK, Await, Sync, Waiting, Why, Settle, Delete, Loses, guard,
     takeover, bounds
<1>13. ASSUME NEW s \in Session, Begin(s) PROVE TypeOK'
  BY <1>13, Constants, CallIsFinite DEF TypeOK, Await, Sync, Waiting, Why, Begin, At, Go, table,
     takeover
<1>14. ASSUME NEW s \in Session, Check(s) PROVE TypeOK'
  <2>1. Peer(s, cur[s]) \in Session \cup {None}
    BY <1>14 DEF PathAtHand, Check, At, Peer, TypeOK
  <2>2. pc' \in [Session -> Await \cup Sync]
    BY <1>14 DEF TypeOK, Check, Go, Sync
  <2>. QED
    BY <1>14, <2>1, <2>2 DEF TypeOK, Check, table, guard, bounds
<1>15. ASSUME NEW s \in Session, Judge(s) PROVE TypeOK'
  BY <1>15, JudgeMoves, MoveTypes
<1>16. ASSUME NEW s \in Session, Probed(s) PROVE TypeOK'
  BY <1>16, ProbedMoves, MoveTypes
<1>17. ASSUME NEW s \in Session, Seize(s) PROVE TypeOK'
  BY <1>17, SeizeMoves, MoveTypes
<1>18. ASSUME NEW s \in Session, Grab(s) PROVE TypeOK'
  BY <1>18, GrabMoves, MoveTypes
<1>19. ASSUME NEW s \in Session, Answer(s) PROVE TypeOK'
  BY <1>19, AnswerMoves, MoveTypes
<1>20. ASSUME NEW s \in Session, SeizeAsked(s) PROVE TypeOK'
  BY <1>20, SeizeAskedMoves, MoveTypes
<1>21. ASSUME NEW s \in Session, GrabAsked(s) PROVE TypeOK'
  BY <1>21, GrabAskedMoves, MoveTypes
<1>22. ASSUME NEW s \in Session, Execute(s) PROVE TypeOK'
  BY <1>22, Constants DEF TypeOK, Await, Sync, Waiting, Why, Execute, At, Go, table, guard,
     takeover, bounds
<1>23. ASSUME NEW s \in Session, Withdraw(s) PROVE TypeOK'
  BY <1>23, Constants DEF TypeOK, Await, Sync, Waiting, Why, Withdraw, At, Refuse, Go, Forget,
     Undone, table, bounds
<1>24. ASSUME NEW s \in Session, Return(s) PROVE TypeOK'
  BY <1>24, Constants DEF TypeOK, Await, Sync, Waiting, Why, Return, At, Go, table, takeover,
     bounds
<1>25. ASSUME NEW s \in Session, End(s) PROVE TypeOK'
  BY <1>25, Constants DEF TypeOK, Await, Sync, Waiting, Why, End, At, Go, Over, table, bounds
<1>26. ASSUME NEW s \in Session, Refused(s) PROVE TypeOK'
  BY <1>26, Constants DEF TypeOK, Await, Sync, Waiting, Why, Refused, At, Go, Over, table, bounds
<1>27. ASSUME NEW s \in Session, NEW f \in File, Acquire(s, f) PROVE TypeOK'
  BY <1>27, AcquireMoves, MoveTypes
<1>28. ASSUME NEW s \in Session, NEW f \in File, Note(s, f) PROVE TypeOK'
  <2>1. CASE Available(s, f)
    BY <1>28, <2>1, GrantTypes DEF TypeOK, Note, At, bounds, takeover
  <2>2. CASE ~Available(s, f)
    BY <1>28, <2>2 DEF TypeOK, Note, At, table, bounds, takeover
  <2>. QED
    BY <2>1, <2>2
<1>29. ASSUME NEW s \in Session, NEW f \in File, Release(s, f) PROVE TypeOK'
  BY <1>29, Constants DEF TypeOK, Await, Sync, Waiting, Why, Release, At, Released, Delete,
     takeover, bounds
<1>30. ASSUME NEW s \in Session, NEW d \in displaced[s], GiveBack(s, d) PROVE TypeOK'
  <2>1. d.file \in File /\ d.owner \in Session
    BY <1>30 DEF TypeOK
  <2>. QED
    BY <1>30, <2>1 DEF TypeOK, GiveBack, At, Available, table, bounds, takeover
<1>. QED
  BY <1>1, <1>2, <1>3, <1>4, <1>5, <1>6, <1>7, <1>8, <1>9, <1>10, <1>11, <1>12, <1>13, <1>14,
     <1>15, <1>16, <1>17, <1>18, <1>19, <1>20, <1>21, <1>22, <1>23, <1>24, <1>25, <1>26, <1>27,
     <1>28, <1>29, <1>30 DEF Next, Process, Guard, Edit

\* The invariant holds initially.
LEMMA InitParts ==
  ASSUME Init
  PROVE  Parts
<1>1. TypeOK
  BY Constants DEF Init, TypeOK, Await, Waiting, Why
<1>. QED
  BY <1>1 DEF Init, Parts, PathAtHand, IdleIsClear, Held, Judgement, ClaimsRespected, Passed

\* A step that changes nothing keeps it.
LEMMA StutterParts ==
  ASSUME Parts, UNCHANGED vars
  PROVE  Parts'
<1>. TypeOK /\ PathAtHand /\ IdleIsClear /\ Held /\ Judgement /\ ClaimsRespected /\ Passed
  BY DEF Parts
<1>. USE DEF vars, table, guard, takeover, bounds
<1>1. TypeOK'
  BY DEF TypeOK
<1>2. PathAtHand'
  BY DEF PathAtHand
<1>3. IdleIsClear'
  BY DEF IdleIsClear
<1>4. Held'
  BY DEF Held
<1>5. Judgement'
  BY DEF Judgement
<1>6. ClaimsRespected'
  BY DEF ClaimsRespected
<1>7. Passed'
  BY DEF Passed
<1>. QED
  BY <1>1, <1>2, <1>3, <1>4, <1>5, <1>6, <1>7 DEF Parts

\* The inductive invariant.
LEMMA InductiveInvariant == Spec => []Parts
<1>1. Init => Parts
  BY InitParts
<1>2. Parts /\ [Next]_vars => Parts'
  <2>1. CASE Parts /\ Next
    BY <2>1, TypeNext, PathNext, IdleNext, HeldNext, JudgementNext, RespectNext, PassedNext
    DEF Parts
  <2>2. CASE Parts /\ UNCHANGED vars
    BY <2>2, StutterParts
  <2>. QED
    BY <2>1, <2>2
<1>. QED
  BY <1>1, <1>2, PTL DEF Spec

\* Every variable has its type, whatever the sessions, files and calls.
THEOREM TypeCorrect == Spec => []TypeOK
<1>1. Parts => TypeOK
  BY DEF Parts
<1>. QED
  BY <1>1, InductiveInvariant, PTL

\* A running call loses a claim only by right: a renewal while a peer probes or asks
\* always wins.
THEOREM ClaimsRespectedHolds == Spec => []ClaimsRespected
<1>1. Parts => ClaimsRespected
  BY DEF Parts
<1>. QED
  BY <1>1, InductiveInvariant, PTL

\* Two sessions never edit one file unless one of them has lost its claim on it.
THEOREM EditsExclusiveHolds == Spec => []EditsExclusive
<1>1. Parts => EditsExclusive
  <2>. SUFFICES ASSUME Held, NEW s \in Session, NEW q \in Session, NEW f \in File,
                       s # q, Editing(s, f), Editing(q, f),
                       lost[s][f] = "no", lost[q][f] = "no"
                PROVE  FALSE
    BY DEF Parts, EditsExclusive
  <2>1. claim[f] = s /\ claim[f] = q
    BY DEF Held, Editing
  <2>. QED
    BY <2>1
<1>. QED
  BY <1>1, InductiveInvariant, PTL

\* The step that ends a refused call leaves it none of its claims.
Clean ==
  \A s \in Session :
    pc[s] = "undo" /\ pc'[s] = "rest" =>
      \A f \in staked[s] : claim'[f] = s => f \in returned

\* No move ends a call.
LEMMA MoveIsBusy ==
  ASSUME TypeOK, PathAtHand, NEW s \in Session, Move(s)
  PROVE  Others(s) /\ pc'[s] # "rest"
<1>1. CASE Judged(s)
  BY <1>1, JudgedEffect DEF Verdict
<1>2. CASE ~Judged(s)
  BY <1>2, HopEffect, TurnedEffect, ConflictEffect, TakenEffect, ClaimedEffect DEF Move
<1>. QED
  BY <1>1, <1>2

\* Only the end of a rollback is such a step, and it has passed all that was staked.
LEMMA RefusalIsClean ==
  ASSUME Parts, Next
  PROVE  Clean
<1>1. ASSUME Restart PROVE Clean
  BY <1>1, NoneIsNone DEF Parts, TypeOK, Passed, Clean, Restart, Delete, DeadRows, guard,
     takeover, bounds
<1>2. ASSUME NEW f \in File, Age(f) PROVE Clean
  BY <1>2, NoneIsNone DEF Parts, TypeOK, Passed, Clean, Age, guard, takeover, bounds
<1>3. ASSUME NEW s \in Session, Boot(s) PROVE Clean
  BY <1>3, NoneIsNone DEF Parts, TypeOK, Passed, Clean, Boot, Go, DeadRows, table, guard,
     takeover, bounds
<1>4. ASSUME NEW s \in Session, Sweep(s) PROVE Clean
  BY <1>4, NoneIsNone DEF Parts, TypeOK, Passed, Clean, Sweep, Go, DeadRows, table, guard,
     takeover, bounds
<1>5. ASSUME NEW s \in Session, DeleteClaims(s) PROVE Clean
  BY <1>5, NoneIsNone DEF Parts, TypeOK, Passed, Clean, DeleteClaims, Go, Delete, Loses, guard,
     takeover, bounds
<1>6. ASSUME NEW s \in Session, DeleteRows(s) PROVE Clean
  BY <1>6, NoneIsNone DEF Parts, TypeOK, Passed, Clean, DeleteRows, Go, table, guard, takeover,
     bounds
<1>7. ASSUME NEW s \in Session, Register(s) PROVE Clean
  BY <1>7, NoneIsNone DEF Parts, TypeOK, Passed, Clean, Register, Go, table, guard, takeover,
     bounds
<1>8. ASSUME NEW s \in Session, Unregister(s) PROVE Clean
  BY <1>8, NoneIsNone DEF Parts, TypeOK, Passed, Clean, Unregister, Go, Delete, guard, takeover,
     bounds
<1>9. ASSUME NEW s \in Session, Leave(s) PROVE Clean
  BY <1>9, NoneIsNone DEF Parts, TypeOK, Passed, Clean, Leave, Go, table, guard, takeover, bounds
<1>10. ASSUME NEW s \in Session, Crash(s) PROVE Clean
  BY <1>10, NoneIsNone DEF Parts, TypeOK, Passed, Clean, Crash, Over, table
<1>11. ASSUME NEW s \in Session, Abort(s) PROVE Clean
  BY <1>11, NoneIsNone DEF Parts, TypeOK, Passed, Clean, Abort, table, guard, takeover, bounds
<1>12. ASSUME NEW s \in Session, Settle(s) PROVE Clean
  BY <1>12, NoneIsNone DEF Parts, TypeOK, Passed, Clean, Settle, Delete, Loses, guard, takeover,
     bounds
<1>13. ASSUME NEW s \in Session, Begin(s) PROVE Clean
  BY <1>13, NoneIsNone DEF Parts, TypeOK, Passed, Clean, Begin, At, Go, table, takeover
<1>14. ASSUME NEW s \in Session, Check(s) PROVE Clean
  BY <1>14, NoneIsNone DEF Parts, TypeOK, Passed, Clean, Check, At, Go, Peer, table, guard, bounds
<1>15. ASSUME NEW s \in Session, Judge(s) PROVE Clean
  BY <1>15, JudgeMoves, MoveIsBusy DEF Parts, Clean, Others
<1>16. ASSUME NEW s \in Session, Probed(s) PROVE Clean
  BY <1>16, ProbedMoves, MoveIsBusy DEF Parts, Clean, Others
<1>17. ASSUME NEW s \in Session, Seize(s) PROVE Clean
  BY <1>17, SeizeMoves, MoveIsBusy DEF Parts, Clean, Others
<1>18. ASSUME NEW s \in Session, Grab(s) PROVE Clean
  BY <1>18, GrabMoves, MoveIsBusy DEF Parts, Clean, Others
<1>19. ASSUME NEW s \in Session, Answer(s) PROVE Clean
  BY <1>19, AnswerMoves, MoveIsBusy DEF Parts, Clean, Others
<1>20. ASSUME NEW s \in Session, SeizeAsked(s) PROVE Clean
  BY <1>20, SeizeAskedMoves, MoveIsBusy DEF Parts, Clean, Others
<1>21. ASSUME NEW s \in Session, GrabAsked(s) PROVE Clean
  BY <1>21, GrabAskedMoves, MoveIsBusy DEF Parts, Clean, Others
<1>22. ASSUME NEW s \in Session, Execute(s) PROVE Clean
  BY <1>22, NoneIsNone DEF Parts, TypeOK, Passed, Clean, Execute, At, Go, table, guard, takeover,
     bounds
<1>23. ASSUME NEW s \in Session, Withdraw(s) PROVE Clean
  BY <1>23, NoneIsNone DEF Parts, TypeOK, Passed, Clean, Withdraw, At, Refuse, Go, Forget, Undone,
     table, bounds
<1>24. ASSUME NEW s \in Session, Return(s) PROVE Clean
  BY <1>24, NoneIsNone DEF Parts, TypeOK, Passed, Clean, Return, At, Go, table, takeover, bounds
<1>25. ASSUME NEW s \in Session, End(s) PROVE Clean
  BY <1>25, NoneIsNone DEF Parts, TypeOK, Passed, Clean, End, At, Go, Over, table, bounds
<1>26. ASSUME NEW s \in Session, Refused(s) PROVE Clean
  BY <1>26, NoneIsNone DEF Parts, TypeOK, Passed, Clean, Refused, At, Go, Over, table, bounds
<1>27. ASSUME NEW s \in Session, NEW f \in File, Acquire(s, f) PROVE Clean
  BY <1>27, AcquireMoves, MoveIsBusy DEF Parts, Clean, Others
<1>28. ASSUME NEW s \in Session, NEW f \in File, Note(s, f) PROVE Clean
  BY <1>28, NoneIsNone DEF Parts, TypeOK, Passed, Clean, Note, At, Grant, Available, table,
     takeover, bounds
<1>29. ASSUME NEW s \in Session, NEW f \in File, Release(s, f) PROVE Clean
  BY <1>29, NoneIsNone DEF Parts, TypeOK, Passed, Clean, Release, At, Released, Delete, takeover,
     bounds
<1>30. ASSUME NEW s \in Session, NEW d \in displaced[s], GiveBack(s, d) PROVE Clean
  BY <1>30, NoneIsNone DEF Parts, TypeOK, Passed, Clean, GiveBack, At, Available, table, takeover,
     bounds
<1>. QED
  BY <1>1, <1>2, <1>3, <1>4, <1>5, <1>6, <1>7, <1>8, <1>9, <1>10, <1>11, <1>12, <1>13, <1>14,
     <1>15, <1>16, <1>17, <1>18, <1>19, <1>20, <1>21, <1>22, <1>23, <1>24, <1>25, <1>26, <1>27,
     <1>28, <1>29, <1>30 DEF Next, Process, Guard, Edit

\* A refused call leaves none of its claims, unless a peer gave one back.
THEOREM RefusalKeepsNothingHolds == Spec => RefusalKeepsNothing
<1>1. Parts /\ [Next]_vars => [Clean]_vars
  BY RefusalIsClean
<1>2. Spec => [][Clean]_vars
  BY <1>1, InductiveInvariant, PTL DEF Spec
<1>. QED
  BY <1>2 DEF Clean, RefusalKeepsNothing
=============================================================================
