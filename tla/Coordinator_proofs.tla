------------------------- MODULE Coordinator_proofs -------------------------
(***************************************************************************)
(* Proofs about Coordinator, for any calls, orders, tasks, files and caps. *)
(*                                                                         *)
(* The conjuncts of IInv are the books that the coordinator keeps: who     *)
(* waits (Queue), how far calls and orders are (Phases), who holds a slot  *)
(* (Slots), which files are in flight (Apart), who has reserved a task     *)
(* (Reserved), whom an abort reaches (Signals) and which calls have no     *)
(* loop left (Idle).  Wakes, about free slots, needs one pool of slots.    *)
(***************************************************************************)
EXTENDS Coordinator, FiniteSetTheorems, SequenceTheorems, TLAPS

Distinct(w) == \A i, j \in DOMAIN w : w[i] = w[j] => i = j

\* Whoever is on the list waits, and is on it once.
Queue == Distinct(waiters) /\ \A i \in DOMAIN waiters : pc[waiters[i]] = "waiting"

\* The state of an order fits that of its call.
Phases ==
  /\ \A o \in Order :
       /\ calls[CallOf[o]] = "new" => pc[o] = "new"
       /\ pc[o] \in Flight \cup {"pending"} => calls[CallOf[o]] = "open"
       /\ pc[o] = "swept" => calls[CallOf[o]] = "returned"
  /\ turn # Nobody => loops >= 1

Holders(r, s) == {o \in s : RoleOf(o) = r}

\* The counters count the holders of slots, who are in the gate.
Slots ==
  /\ IsFiniteSet(slot)
  /\ \A r \in Role : active[r] = Cardinality(Holders(r, slot)) /\ active[r] <= Cap[r]
  /\ active["explore"] + active["write"] <= TotalCap
  /\ \A o \in slot : pc[o] \in {"granted", "running", "packing", "leaving"}
  /\ \A o \in Order : pc[o] \in {"granted", "running", "packing"} => Nested(o) \/ o \in slot

\* The files of the workers are apart.
Apart ==
  /\ ~Over => Running \subseteq inflight
  /\ \A o, p \in inflight : o # p => ~Collide(o, p)

\* An order that has not been started yet.
Ahead == {"waiting", "woken", "granted"}

\* Who is in the gate has reserved a task, on disk too, that nobody else has.
Reserved ==
  /\ \A o, p \in busy : TaskOf[o] = TaskOf[p] => o = p
  /\ \A o \in Order :
       /\ pc[o] \in Ahead \cup {"running", "packing"}
            => o \in busy /\ durable[TaskOf[o]] # "free"
       /\ pc[o] \in Ahead => TaskOf[o] \notin spent
  /\ \A t \in spent : durable[t] # "free"

\* An abort reaches every worker that executes, and every call of one.
Signals ==
  /\ \A o \in alive : pc[o] = "running" \/ Cut(o)
  /\ \A c \in Call : calls[c] = "open" /\ CallerOf[c] # Main
       => pc[CallerOf[c]] = "running" \/ Cut(CallerOf[c])
  /\ shutdown # "no" => \A o \in Order : ~Nested(o)
       => pc[o] # "granted" /\ (pc[o] = "running" => o \in cut)

\* A call without an order in flight and without the turn has nothing left to take.
Idle ==
  \A c \in Call : calls[c] = "open" /\ turn # c /\ InQueueFlight(c) = {}
    => \A o \in Order : CallOf[o] = c /\ pc[o] = "pending" => ~Ready(o)

IInv ==
  TypeOK /\ Queue /\ Phases /\ Slots /\ Apart /\ Reserved /\ Signals /\ Idle /\ SweptForCause

\* A step in the gate: who changes is in flight before and after.
InGate ==
  \A p \in Order : \/ pc'[p] = pc[p] /\ result'[p] = result[p]
                   \/ pc[p] \in Flight /\ pc'[p] \in Flight

-----------------------------------------------------------------------------
(* Constants and sequences.                                                *)

\* The total cap is one of the three and none of them exceeds it (totalWorkerCap).
LEMMA TotalCapIs == TotalCap \in Nat \ {0} /\ \A r \in Role : Cap[r] <= TotalCap
<1>. DEFINE caps == {MaxWorkers, Cap["explore"], Cap["write"]}
<1>1. MaxWorkers \in Nat \ {0} /\ Cap["explore"] \in Nat \ {0} /\ Cap["write"] \in Nat \ {0}
  BY Constants DEF Role
<1>2. \E n \in caps : \A m \in caps : m <= n
  <2>1. CASE MaxWorkers >= Cap["explore"] /\ MaxWorkers >= Cap["write"]
    BY <1>1, <2>1
  <2>2. CASE Cap["explore"] >= MaxWorkers /\ Cap["explore"] >= Cap["write"]
    BY <1>1, <2>2
  <2>3. CASE Cap["write"] >= Cap["explore"] /\ Cap["write"] >= MaxWorkers
    BY <1>1, <2>3
  <2>. QED  BY <1>1, <2>1, <2>2, <2>3
<1>3. TotalCap \in caps /\ \A m \in caps : m <= TotalCap
  BY <1>2 DEF TotalCap
<1>. QED  BY <1>1, <1>3 DEF Role

\* What is left when one entry is taken off a list of distinct entries.
LEMMA WithoutIs ==
  ASSUME NEW S, NEW w \in Seq(S), NEW i \in DOMAIN w, Distinct(w)
  PROVE  /\ Without(w, i) \in Seq(S)
         /\ Distinct(Without(w, i))
         /\ \A k \in DOMAIN Without(w, i) :
              \E j \in DOMAIN w : j # i /\ Without(w, i)[k] = w[j]
<1>. DEFINE head == SubSeq(w, 1, i - 1)
            tail == SubSeq(w, i + 1, Len(w))
<1>1. Len(w) \in Nat /\ i \in 1 .. Len(w) /\ DOMAIN w = 1 .. Len(w)
  BY LenProperties
<1>2. /\ head \in Seq(S) /\ Len(head) = i - 1
      /\ \A k \in 1 .. i - 1 : head[k] = w[k]
  <2>1. 1 .. i - 1 \subseteq 1 .. Len(w)
    BY <1>1
  <2>2. \A k \in 1 .. i - 1 : w[k] \in S
    BY <1>1, <2>1, ElementOfSeq
  <2>. QED  BY <1>1, <2>1, <2>2, SubSeqProperties
<1>3. /\ tail \in Seq(S) /\ Len(tail) = Len(w) - i
      /\ \A k \in 1 .. Len(w) - i : tail[k] = w[i + k]
  <2>1. \A k \in i + 1 .. Len(w) : w[k] \in S
    BY <1>1, ElementOfSeq
  <2>. QED  BY <1>1, <2>1, SubSeqProperties
<1>4. /\ Without(w, i) \in Seq(S) /\ Len(Without(w, i)) = Len(w) - 1
      /\ \A k \in 1 .. Len(w) - 1 :
           Without(w, i)[k] = IF k < i THEN w[k] ELSE w[k + 1]
  <2>1. Without(w, i) = head \o tail
    BY DEF Without
  <2>. HIDE DEF head, tail
  <2>2. /\ head \o tail \in Seq(S)
        /\ Len(head \o tail) = Len(head) + Len(tail)
        /\ \A k \in 1 .. Len(head) + Len(tail) :
             (head \o tail)[k] = IF k <= Len(head) THEN head[k] ELSE tail[k - Len(head)]
    BY <1>2, <1>3, ConcatProperties
  <2>3. Len(head) + Len(tail) = Len(w) - 1
    BY <1>1, <1>2, <1>3
  <2>4. ASSUME NEW k \in 1 .. Len(w) - 1
        PROVE  (head \o tail)[k] = IF k < i THEN w[k] ELSE w[k + 1]
    <3>1. CASE k < i
      <4>1. k \in 1 .. i - 1 /\ k <= Len(head)
        BY <1>1, <1>2, <3>1
      <4>. QED  BY <1>2, <2>2, <2>3, <3>1, <4>1
    <3>2. CASE k >= i
      <4>1. k - Len(head) \in 1 .. Len(w) - i /\ ~(k <= Len(head)) /\ ~(k < i)
            /\ i + (k - Len(head)) = k + 1
        BY <1>1, <1>2, <3>2
      <4>2. (head \o tail)[k] = tail[k - Len(head)]
        BY <2>2, <2>3, <4>1
      <4>3. tail[k - Len(head)] = w[i + (k - Len(head))]
        BY <1>3, <4>1
      <4>4. w[i + (k - Len(head))] = w[k + 1]
        BY <4>1
      <4>. QED  BY <4>1, <4>2, <4>3, <4>4
    <3>3. k < i \/ k >= i
      BY <1>1
    <3>. QED  BY <3>1, <3>2, <3>3
  <2>. QED  BY <2>1, <2>2, <2>3, <2>4
<1>5. DOMAIN Without(w, i) = 1 .. Len(w) - 1
  BY <1>4, LenProperties
<1>6. \A k \in 1 .. Len(w) - 1 : IF k < i THEN k \in DOMAIN w ELSE k + 1 \in DOMAIN w
  BY <1>1
<1>7. Distinct(Without(w, i))
  <2>. DEFINE from(k) == IF k < i THEN k ELSE k + 1
  <2>1. \A k \in 1 .. Len(w) - 1 : from(k) \in DOMAIN w /\ Without(w, i)[k] = w[from(k)]
    BY <1>4, <1>6
  <2>2. \A k, j \in 1 .. Len(w) - 1 : from(k) = from(j) => k = j
    BY <1>1
  <2>. HIDE DEF from
  <2>. QED  BY <1>5, <2>1, <2>2 DEF Distinct
<1>. QED  BY <1>1, <1>4, <1>5, <1>6, <1>7

LEMMA AppendIs ==
  ASSUME NEW S, NEW w \in Seq(S), NEW e \in S, Distinct(w),
         \A j \in DOMAIN w : w[j] # e
  PROVE  /\ Append(w, e) \in Seq(S)
         /\ Distinct(Append(w, e))
         /\ \A k \in DOMAIN Append(w, e) :
              Append(w, e)[k] = e \/ \E j \in DOMAIN w : Append(w, e)[k] = w[j]
<1>1. Len(w) \in Nat /\ DOMAIN w = 1 .. Len(w)
  BY LenProperties
<1>2. /\ Append(w, e) \in Seq(S) /\ Len(Append(w, e)) = Len(w) + 1
      /\ \A k \in 1 .. Len(w) : Append(w, e)[k] = w[k]
      /\ Append(w, e)[Len(w) + 1] = e
  BY AppendProperties
<1>3. DOMAIN Append(w, e) = 1 .. Len(w) + 1
  BY <1>2, LenProperties
<1>. QED  BY <1>1, <1>2, <1>3 DEF Distinct

LEMMA RoleIs == \A o : RoleOf(o) \in Role
BY DEF RoleOf, Role

LEMMA OfOrder == \A o \in Order : TaskOf[o] \in Task /\ CallOf[o] \in Call
BY Constants

-----------------------------------------------------------------------------
(* Types.                                                                  *)

\* Who holds a slot is counted.
LEMMA HolderCounted ==
  ASSUME TypeOK, Slots, NEW o \in slot
  PROVE  active[RoleOf(o)] \in Nat \ {0}
<1>. DEFINE h == Holders(RoleOf(o), slot)
<1>1. RoleOf(o) \in Role
  BY RoleIs
<1>2. IsFiniteSet(h) /\ o \in h
  BY FS_Subset DEF Slots, Holders
<1>3. Cardinality(h) \in Nat \ {0}
  BY <1>2, FS_CardinalityType, FS_EmptySet
<1>. QED  BY <1>1, <1>3 DEF Slots

LEMMA ActiveDrops ==
  ASSUME TypeOK, Slots, NEW o \in slot
  PROVE  [active EXCEPT ![RoleOf(o)] = @ - 1] \in [Role -> Nat]
BY HolderCounted, RoleIs DEF TypeOK

\* Of the variables that the gate writes.
GateTypes ==
  /\ pc \in [Order -> State] /\ result \in [Order -> {"none", "passed", "failed"}]
  /\ waiters \in Seq(Order) /\ active \in [Role -> Nat] /\ slot \subseteq Order
  /\ busy \subseteq Order /\ failed \subseteq Task
  /\ durable \in [Task -> {"free", "started", "failed"}] /\ trouble \in Nat

LEMMA StatesAre ==
  /\ {"waiting", "woken", "granted", "running", "packing", "leaving", "settled", "new",
      "pending", "done", "cancelled", "swept", "lost"} \subseteq State
  /\ Gate \subseteq Flight /\ Flight \subseteq State
BY DEF State, Flight, Gate

LEMMA RecordTypes ==
  ASSUME TypeOK, NEW o \in Order, RecordFailure(o)
  PROVE  /\ failed' \subseteq Task /\ trouble' \in Nat
         /\ durable' \in [Task -> {"free", "started", "failed"}]
<1>. TaskOf[o] \in Task
  BY OfOrder
<1>1. trouble' \in Nat
  BY DEF TypeOK, RecordFailure, Trouble
<1>2. durable' \in [Task -> {"free", "started", "failed"}]
  BY DEF TypeOK, RecordFailure
<1>3. failed' \subseteq Task
  BY DEF TypeOK, RecordFailure
<1>. QED  BY <1>1, <1>2, <1>3

LEMMA FailTypes ==
  ASSUME TypeOK, NEW o \in Order, Fail(o)
  PROVE  /\ pc' \in [Order -> State] /\ result' \in [Order -> {"none", "passed", "failed"}]
         /\ failed' \subseteq Task /\ trouble' \in Nat
         /\ durable' \in [Task -> {"free", "started", "failed"}]
BY RecordTypes, StatesAre DEF TypeOK, Fail

LEMMA TakeTypes ==
  ASSUME TypeOK, NEW o \in Order, Take(o)
  PROVE  /\ pc' \in [Order -> State] /\ active' \in [Role -> Nat] /\ slot' \subseteq Order
BY RoleIs, StatesAre DEF TypeOK, Take

LEMMA WaitTypes ==
  ASSUME TypeOK, NEW o \in Order,
         pc' = [pc EXCEPT ![o] = "waiting"], waiters' = Append(waiters, o)
  PROVE  pc' \in [Order -> State] /\ waiters' \in Seq(Order)
BY StatesAre, AppendProperties DEF TypeOK

LEMMA EnterTypes ==
  ASSUME TypeOK, NEW o \in Order, Enter(o)
  PROVE  GateTypes'
<1>1. CASE /\ trouble' \in {trouble, trouble + 1}
           /\ result' = [result EXCEPT ![o] = "failed"]
           /\ pc' = [pc EXCEPT ![o] = "leaving"]
           /\ UNCHANGED <<gate, busy, failed, durable>>
  BY <1>1, StatesAre DEF TypeOK, GateTypes, gate
<1>2. CASE Fail(o) /\ busy' = busy \cup {o} /\ UNCHANGED gate
  BY <1>2, FailTypes DEF TypeOK, GateTypes, gate
<1>3. CASE /\ busy' = busy \cup {o} /\ durable' = [durable EXCEPT ![TaskOf[o]] = "started"]
           /\ UNCHANGED <<result, failed, trouble>>
           /\ pc' = [pc EXCEPT ![o] = "granted"] /\ UNCHANGED gate
  BY <1>3, OfOrder, StatesAre DEF TypeOK, GateTypes, gate
<1>4. CASE /\ busy' = busy \cup {o} /\ durable' = [durable EXCEPT ![TaskOf[o]] = "started"]
           /\ UNCHANGED <<result, failed, trouble>>
           /\ Take(o) /\ UNCHANGED waiters
  BY <1>4, OfOrder, TakeTypes DEF TypeOK, GateTypes
<1>5. CASE /\ busy' = busy \cup {o} /\ durable' = [durable EXCEPT ![TaskOf[o]] = "started"]
           /\ UNCHANGED <<result, failed, trouble>>
           /\ pc' = [pc EXCEPT ![o] = "waiting"] /\ waiters' = Append(waiters, o)
           /\ UNCHANGED <<active, slot>>
  BY <1>5, OfOrder, WaitTypes DEF TypeOK, GateTypes
<1>. QED  BY <1>1, <1>2, <1>3, <1>4, <1>5 DEF Enter, Trouble

\* What giving back the slot, the files and the reservation may do to the rest.
Released(o) ==
  /\ busy' = busy \ {o} /\ inflight' = inflight \ {o} /\ slot' = slot \ {o}
  /\ active' = IF o \in slot THEN [active EXCEPT ![RoleOf(o)] = @ - 1] ELSE active
  /\ \/ /\ waiters' = waiters
        /\ pc' = [pc EXCEPT ![o] = "settled"]
     \/ \E i \in DOMAIN waiters :
          /\ waiters' = Without(waiters, i)
          /\ pc' = [pc EXCEPT ![o] = "settled", ![waiters[i]] = "woken"]

LEMMA ReleaseIs == ASSUME NEW o \in Order, Release(o) PROVE Released(o)
BY DEF Release, Released, WakeFirst

LEMMA WaiterIs ==
  ASSUME TypeOK, Queue, NEW i \in DOMAIN waiters
  PROVE  /\ waiters[i] \in Order /\ pc[waiters[i]] = "waiting"
         /\ Without(waiters, i) \in Seq(Order) /\ Distinct(Without(waiters, i))
         /\ \A k \in DOMAIN Without(waiters, i) :
              \E j \in DOMAIN waiters :
                waiters[j] # waiters[i] /\ Without(waiters, i)[k] = waiters[j]
<1>1. waiters \in Seq(Order) /\ Distinct(waiters)
  BY DEF TypeOK, Queue
<1>2. i \in 1 .. Len(waiters)
  BY <1>1, LenProperties
<1>3. waiters[i] \in Order
  BY <1>1, <1>2, ElementOfSeq
<1>4. /\ Without(waiters, i) \in Seq(Order) /\ Distinct(Without(waiters, i))
      /\ \A k \in DOMAIN Without(waiters, i) :
           \E j \in DOMAIN waiters : j # i /\ Without(waiters, i)[k] = waiters[j]
  BY <1>1, WithoutIs
<1>5. \A j \in DOMAIN waiters : j # i => waiters[j] # waiters[i]
  BY <1>1 DEF Distinct
<1>. QED  BY <1>3, <1>4, <1>5 DEF Queue

LEMMA ReleaseTypes ==
  ASSUME TypeOK, Queue, Slots, NEW o \in Order, Release(o)
  PROVE  /\ pc' \in [Order -> State] /\ waiters' \in Seq(Order)
         /\ active' \in [Role -> Nat] /\ slot' \subseteq Order
         /\ busy' \subseteq Order /\ inflight' \subseteq Order
<1>1. Released(o)
  BY ReleaseIs
<1>2. pc' \in [Order -> State] /\ waiters' \in Seq(Order)
  <2>1. CASE waiters' = waiters /\ pc' = [pc EXCEPT ![o] = "settled"]
    BY <2>1, StatesAre DEF TypeOK
  <2>2. CASE \E i \in DOMAIN waiters :
               /\ waiters' = Without(waiters, i)
               /\ pc' = [pc EXCEPT ![o] = "settled", ![waiters[i]] = "woken"]
    <3>1. PICK i \in DOMAIN waiters :
            /\ waiters' = Without(waiters, i)
            /\ pc' = [pc EXCEPT ![o] = "settled", ![waiters[i]] = "woken"]
      BY <2>2
    <3>2. waiters[i] \in Order /\ Without(waiters, i) \in Seq(Order)
      BY WaiterIs
    <3>. QED  BY <3>1, <3>2, StatesAre DEF TypeOK
  <2>. QED  BY <1>1, <2>1, <2>2 DEF Released
<1>3. active' \in [Role -> Nat]
  BY <1>1, ActiveDrops DEF TypeOK, Released
<1>. QED  BY <1>1, <1>2, <1>3 DEF TypeOK, Released

LEMMA TypesKept == ASSUME IInv, [Next]_vars PROVE TypeOK'
<1>. TypeOK /\ Queue /\ Phases /\ Slots
  BY DEF IInv
<1>. USE StatesAre DEF looping, closing, workers, gate, ledger
<1>1. ASSUME NEW c \in Call, LoopsEnd(c) PROVE TypeOK'
  BY <1>1 DEF LoopsEnd, TypeOK
<1>2. ASSUME NEW c \in Call, NEW o \in Order, Dequeue(c, o) PROVE TypeOK'
  <2>1. GateTypes'
    BY <1>2, EnterTypes DEF Dequeue
  <2>2. loops' \in Nat /\ turn' \in Call \cup {Nobody}
    BY <1>2, Constants DEF Dequeue, TypeOK, Phases
  <2>. QED  BY <1>2, <2>1, <2>2 DEF Dequeue, TypeOK, GateTypes
<1>3. ASSUME NEW o \in Order, Resume(o) PROVE TypeOK'
  <2>1. CASE Fail(o) /\ UNCHANGED <<waiters, active, slot>>
    BY <1>3, <2>1, FailTypes DEF Resume, TypeOK
  <2>2. CASE Take(o) /\ UNCHANGED <<waiters, result, failed, durable, trouble>>
    BY <1>3, <2>2, TakeTypes DEF Resume, TypeOK
  <2>3. CASE /\ pc' = [pc EXCEPT ![o] = "waiting"] /\ waiters' = Append(waiters, o)
             /\ UNCHANGED <<active, slot, result, failed, durable, trouble>>
    BY <1>3, <2>3, WaitTypes DEF Resume, TypeOK
  <2>. QED  BY <1>3, <2>1, <2>2, <2>3 DEF Resume
<1>4. ASSUME NEW i \in DOMAIN waiters, GiveUp(i) PROVE TypeOK'
  BY <1>4, WaiterIs, FailTypes DEF GiveUp, TypeOK
<1>5. ASSUME NEW o \in Order, Start(o) PROVE TypeOK'
  <2>3. \E x \in {"leaving", "packing", "running"} : pc' = [pc EXCEPT ![o] = x]
    BY <1>5 DEF Start
  <2>4. \/ UNCHANGED result
        \/ \E x \in {"passed", "failed"} : result' = [result EXCEPT ![o] = x]
    BY <1>5 DEF Start
  <2>1. pc' \in [Order -> State] /\ result' \in [Order -> {"none", "passed", "failed"}]
    BY <2>3, <2>4 DEF TypeOK
  <2>2. inflight' \subseteq Order /\ alive' \subseteq Order /\ spent' \subseteq Task
    BY <1>5, OfOrder DEF Start, TypeOK
  <2>. QED  BY <1>5, <2>1, <2>2 DEF Start, TypeOK
<1>6. ASSUME NEW o \in Order, WorkerEnds(o) PROVE TypeOK'
  BY <1>6 DEF WorkerEnds, TypeOK
<1>7. ASSUME NEW o \in Order, Kill(o) \/ LateEnd(o) PROVE TypeOK'
  BY <1>7 DEF Kill, LateEnd, Trouble, TypeOK
<1>8. ASSUME NEW o \in Order, GraceOver(o) PROVE TypeOK'
  BY <1>8 DEF GraceOver, TypeOK
<1>9. ASSUME NEW o \in Order, Finish(o) PROVE TypeOK'
  <2>1. CASE /\ durable' = [durable EXCEPT ![TaskOf[o]] = "free"]
             /\ spent' = spent \ {TaskOf[o]} /\ Release(o)
             /\ UNCHANGED <<result, failed, trouble>>
    BY <1>9, <2>1, ReleaseTypes DEF Finish, TypeOK
  <2>2. CASE /\ Trouble /\ failed' = failed \cup {TaskOf[o]}
             /\ durable' = [durable EXCEPT ![TaskOf[o]] = "failed"]
             /\ result' = [result EXCEPT ![o] = "failed"]
             /\ pc' = [pc EXCEPT ![o] = "leaving"]
             /\ UNCHANGED <<gate, inflight, busy, spent>>
    BY <1>9, <2>2, OfOrder DEF Finish, TypeOK, Trouble
  <2>3. CASE RecordFailure(o) /\ Release(o) /\ UNCHANGED <<result, spent>>
    BY <1>9, <2>3, ReleaseTypes, RecordTypes DEF Finish, TypeOK
  <2>. QED  BY <1>9, <2>1, <2>2, <2>3 DEF Finish, Record
<1>10. ASSUME NEW o \in Order, Leave(o) PROVE TypeOK'
  BY <1>10, ReleaseTypes DEF Leave, TypeOK
<1>11. ASSUME NEW o \in Order, Collect(o) PROVE TypeOK'
  <2>1. CASE CancelRest(o)
    BY <1>11, <2>1, OfOrder DEF Collect, CancelRest, TypeOK
  <2>2. CASE pc' = [pc EXCEPT ![o] = "done"] /\ UNCHANGED <<result, cut, fired>>
    BY <1>11, <2>2, OfOrder DEF Collect, TypeOK
  <2>. QED  BY <1>11, <2>1, <2>2 DEF Collect
<1>12. ASSUME NEW c \in Call, Submit(c) PROVE TypeOK'
  BY <1>12, TotalCapIs DEF Submit, TypeOK
<1>13. ASSUME NEW c \in Call, Return(c) PROVE TypeOK'
  BY <1>13 DEF Return, TypeOK
<1>14. ASSUME NEW c \in Call, CallerAborts(c) PROVE TypeOK'
  BY <1>14 DEF CallerAborts, Trouble, TypeOK
<1>15. CASE Shutdown
  BY <1>15, EmptySeq DEF Shutdown, AbortInFlight, Trouble, TypeOK
<1>16. CASE ShutdownReturns
  BY <1>16 DEF ShutdownReturns, TypeOK
<1>17. CASE Crash
  BY <1>17, EmptySeq DEF Crash, Trouble, TypeOK
<1>18. CASE UNCHANGED vars
  BY <1>18 DEF vars, TypeOK
<1>. QED
  BY <1>1, <1>2, <1>3, <1>4, <1>5, <1>6, <1>7, <1>8, <1>9, <1>10, <1>11, <1>12, <1>13,
     <1>14, <1>15, <1>16, <1>17, <1>18 DEF Next, TurnStep, Continue, Event

-----------------------------------------------------------------------------
(* The list of those who wait.                                             *)

LEMMA QueueKept == ASSUME IInv, [Next]_vars PROVE Queue'
<1>. TypeOK /\ Queue /\ waiters \in Seq(Order) /\ pc \in [Order -> State] /\ Distinct(waiters)
  BY DEF IInv, TypeOK, Queue
<1>. USE DEF looping, closing, workers, gate, ledger
<1>w. \A i \in DOMAIN waiters : waiters[i] \in Order /\ pc[waiters[i]] = "waiting"
  BY WaiterIs
<1>a. ASSUME waiters' = waiters,
             \A p \in Order : pc[p] = "waiting" => pc'[p] = "waiting"
      PROVE  Queue'
  BY <1>a, <1>w DEF Queue
<1>b. ASSUME NEW i \in DOMAIN waiters, waiters' = Without(waiters, i),
             \A p \in Order : pc[p] = "waiting" /\ p # waiters[i] => pc'[p] = "waiting"
      PROVE  Queue'
  <2>1. \A k \in DOMAIN waiters' :
          \E j \in DOMAIN waiters : waiters[j] # waiters[i] /\ waiters'[k] = waiters[j]
    BY <1>b, WaiterIs
  <2>2. Distinct(waiters')
    BY <1>b, WaiterIs
  <2>. QED  BY <1>b, <1>w, <2>1, <2>2 DEF Queue
<1>c. ASSUME NEW o \in Order, pc[o] # "waiting", pc' = [pc EXCEPT ![o] = "waiting"],
             waiters' = Append(waiters, o)
      PROVE  Queue'
  <2>1. \A j \in DOMAIN waiters : waiters[j] # o
    BY <1>c, <1>w
  <2>2. /\ Distinct(waiters')
        /\ \A k \in DOMAIN waiters' :
             waiters'[k] = o \/ \E j \in DOMAIN waiters : waiters'[k] = waiters[j]
    BY <1>c, <2>1, AppendIs
  <2>. QED  BY <1>c, <1>w, <2>2 DEF Queue
<1>d. ASSUME waiters' = <<>> PROVE Queue'
  BY <1>d DEF Queue, Distinct
<1>e. ASSUME NEW o \in Order, pc[o] # "waiting", Release(o) PROVE Queue'
  <2>1. CASE waiters' = waiters /\ pc' = [pc EXCEPT ![o] = "settled"]
    BY <1>a, <1>e, <2>1
  <2>2. ASSUME NEW i \in DOMAIN waiters, waiters' = Without(waiters, i),
               pc' = [pc EXCEPT ![o] = "settled", ![waiters[i]] = "woken"]
        PROVE  Queue'
    BY <1>b, <1>e, <1>w, <2>2
  <2>. QED  BY <1>e, <2>1, <2>2, ReleaseIs DEF Released
<1>1. ASSUME NEW c \in Call, LoopsEnd(c) PROVE Queue'
  BY <1>1, <1>a DEF LoopsEnd
<1>2. ASSUME NEW c \in Call, NEW o \in Order, Dequeue(c, o) PROVE Queue'
  <2>. pc[o] = "pending" /\ Enter(o)
    BY <1>2 DEF Dequeue, CanRun
  <2>1. CASE waiters' = waiters /\ \E s \in State : pc' = [pc EXCEPT ![o] = s]
    BY <2>1, <1>a
  <2>2. CASE pc' = [pc EXCEPT ![o] = "waiting"] /\ waiters' = Append(waiters, o)
    BY <2>2, <1>c
  <2>. QED  BY <2>1, <2>2, StatesAre DEF Enter, Fail, Take
<1>3. ASSUME NEW o \in Order, Resume(o) PROVE Queue'
  <2>. pc[o] = "woken"
    BY <1>3 DEF Resume
  <2>1. CASE waiters' = waiters /\ \E s \in State : pc' = [pc EXCEPT ![o] = s]
    BY <2>1, <1>a
  <2>2. CASE pc' = [pc EXCEPT ![o] = "waiting"] /\ waiters' = Append(waiters, o)
    BY <2>2, <1>c
  <2>. QED  BY <1>3, <2>1, <2>2, StatesAre DEF Resume, Fail, Take
<1>4. ASSUME NEW i \in DOMAIN waiters, GiveUp(i) PROVE Queue'
  BY <1>4, <1>b, <1>w DEF GiveUp, Fail
<1>5. ASSUME NEW o \in Order, Start(o) PROVE Queue'
  BY <1>5, <1>a DEF Start
<1>6. ASSUME NEW o \in Order, WorkerEnds(o) \/ Kill(o) \/ GraceOver(o) \/ LateEnd(o)
      PROVE  Queue'
  BY <1>6, <1>a DEF WorkerEnds, Kill, GraceOver, LateEnd
<1>7. ASSUME NEW o \in Order, Finish(o) PROVE Queue'
  <2>1. CASE Release(o)
    BY <1>7, <1>e, <2>1 DEF Finish
  <2>2. CASE pc' = [pc EXCEPT ![o] = "leaving"] /\ waiters' = waiters
    BY <1>7, <1>a, <2>2 DEF Finish
  <2>. QED  BY <1>7, <2>1, <2>2 DEF Finish, Record
<1>8. ASSUME NEW o \in Order, Leave(o) PROVE Queue'
  BY <1>8, <1>e DEF Leave
<1>9. ASSUME NEW o \in Order, Collect(o) PROVE Queue'
  BY <1>9, <1>a DEF Collect, CancelRest
<1>10. ASSUME NEW c \in Call, Submit(c) PROVE Queue'
  <2>1. \A p \in Order : pc[p] = "waiting" => CallOf[p] # c
    BY <1>10 DEF IInv, Phases, Submit, Flight, Gate
  <2>. QED  BY <1>10, <1>a, <2>1 DEF Submit
<1>11. ASSUME NEW c \in Call, Return(c) \/ CallerAborts(c) PROVE Queue'
  BY <1>11, <1>a DEF Return, CallerAborts
<1>12. CASE Shutdown \/ Crash
  BY <1>12, <1>d DEF Shutdown, AbortInFlight, Crash
<1>13. CASE ShutdownReturns \/ UNCHANGED vars
  BY <1>13, <1>a DEF ShutdownReturns, vars
<1>. QED
  BY <1>1, <1>2, <1>3, <1>4, <1>5, <1>6, <1>7, <1>8, <1>9, <1>10, <1>11, <1>12, <1>13
     DEF Next, TurnStep, Continue, Event

-----------------------------------------------------------------------------
(* Slots.                                                                  *)

Inside == {"granted", "running", "packing"}

\* Who takes a free slot is one holder more.
LEMMA TakeCounts ==
  ASSUME TypeOK, Slots, NEW o \in Order, o \notin slot, Take(o), HasFree(active, RoleOf(o))
  PROVE  Slots'
<1>1. IsFiniteSet(slot')
  BY FS_AddElement DEF Slots, Take
<1>2. ASSUME NEW r \in Role
      PROVE  active'[r] = Cardinality(Holders(r, slot')) /\ active'[r] <= Cap[r]
  <2>1. IsFiniteSet(Holders(r, slot)) /\ active[r] = Cardinality(Holders(r, slot))
    BY FS_Subset DEF Slots, Holders
  <2>2. CASE r = RoleOf(o)
    <3>1. Holders(r, slot') = Holders(r, slot) \cup {o} /\ o \notin Holders(r, slot)
      BY <2>2 DEF Take, Holders
    <3>2. Cardinality(Holders(r, slot')) = Cardinality(Holders(r, slot)) + 1
      BY <2>1, <3>1, FS_AddElement
    <3>3. active'[r] = active[r] + 1
      BY <2>2 DEF Take, TypeOK
    <3>4. active[r] \in Nat /\ Cap[r] \in Nat /\ active[r] < Cap[r]
      BY <2>2, Constants DEF TypeOK, HasFree
    <3>. QED  BY <2>1, <3>2, <3>3, <3>4
  <2>3. CASE r # RoleOf(o)
    <3>1. Holders(r, slot') = Holders(r, slot)
      BY <2>3 DEF Take, Holders
    <3>2. active'[r] = active[r]
      BY <2>3 DEF Take, TypeOK
    <3>. QED  BY <2>1, <3>1, <3>2 DEF Slots
  <2>. QED  BY <2>2, <2>3
<1>3. active'["explore"] + active'["write"] <= TotalCap
  <2>1. /\ active["explore"] \in Nat /\ active["write"] \in Nat
        /\ active["explore"] + active["write"] < TotalCap
    BY DEF TypeOK, Role, HasFree
  <2>2. \/ active' = [active EXCEPT !["explore"] = @ + 1]
        \/ active' = [active EXCEPT !["write"] = @ + 1]
    BY DEF Take, RoleOf
  <2>3. active \in [Role -> Nat] /\ {"explore", "write"} = Role
    BY DEF TypeOK, Role
  <2>. QED  BY <2>1, <2>2, <2>3, TotalCapIs
<1>4. \A p \in slot' : pc'[p] \in {"granted", "running", "packing", "leaving"}
  BY DEF Slots, Take, TypeOK
<1>5. \A p \in Order : pc'[p] \in Inside => Nested(p) \/ p \in slot'
  BY DEF Slots, Take, TypeOK, Inside
<1>. QED  BY <1>1, <1>2, <1>3, <1>4, <1>5 DEF Slots, Inside

\* Who gives its slot back is one holder less.
LEMMA ReleaseCounts ==
  ASSUME TypeOK, Queue, Slots, NEW o \in Order, pc[o] \in {"packing", "leaving"}, Release(o)
  PROVE  Slots'
<1>. Released(o)
  BY ReleaseIs
<1>1. IsFiniteSet(slot')
  BY FS_RemoveElement DEF Slots, Released
<1>2. ASSUME NEW r \in Role
      PROVE  /\ active'[r] = Cardinality(Holders(r, slot'))
             /\ active'[r] \in Nat /\ active'[r] <= active[r]
  <2>1. /\ IsFiniteSet(Holders(r, slot)) /\ active[r] = Cardinality(Holders(r, slot))
        /\ active[r] \in Nat
    BY FS_Subset DEF Slots, Holders, TypeOK
  <2>2. CASE o \in slot /\ r = RoleOf(o)
    <3>1. Holders(r, slot') = Holders(r, slot) \ {o} /\ o \in Holders(r, slot)
      BY <2>2 DEF Released, Holders
    <3>2. Cardinality(Holders(r, slot')) = Cardinality(Holders(r, slot)) - 1
      BY <2>1, <3>1, FS_RemoveElement
    <3>3. active'[r] = active[r] - 1
      BY <2>2 DEF Released, TypeOK
    <3>4. active[r] \in Nat \ {0}
      BY <2>2, HolderCounted
    <3>. QED  BY <2>1, <3>2, <3>3, <3>4
  <2>3. CASE ~(o \in slot /\ r = RoleOf(o))
    <3>1. Holders(r, slot') = Holders(r, slot)
      BY <2>3 DEF Released, Holders
    <3>2. active'[r] = active[r]
      BY <2>3, RoleIs DEF Released, TypeOK
    <3>. QED  BY <2>1, <3>1, <3>2
  <2>. QED  BY <2>2, <2>3
<1>3. \A r \in Role : active'[r] <= Cap[r]
  <2>1. \A r \in Role : active[r] \in Nat /\ active[r] <= Cap[r] /\ Cap[r] \in Nat
    BY Constants DEF Slots, TypeOK
  <2>. QED  BY <1>2, <2>1
<1>4. active'["explore"] + active'["write"] <= TotalCap
  <2>1. /\ active["explore"] \in Nat /\ active["write"] \in Nat
        /\ active["explore"] + active["write"] <= TotalCap
        /\ active'["explore"] \in Nat /\ active'["write"] \in Nat
        /\ active'["explore"] <= active["explore"] /\ active'["write"] <= active["write"]
    BY <1>2 DEF TypeOK, Role, Slots
  <2>. QED  BY <2>1, TotalCapIs
<1>5. \A p \in Order \ {o} : pc'[p] = pc[p] \/ (pc[p] = "waiting" /\ pc'[p] = "woken")
  <2>1. ASSUME NEW i \in DOMAIN waiters,
               pc' = [pc EXCEPT ![o] = "settled", ![waiters[i]] = "woken"]
        PROVE  \A p \in Order \ {o} :
                 pc'[p] = pc[p] \/ (pc[p] = "waiting" /\ pc'[p] = "woken")
    BY <2>1, WaiterIs DEF TypeOK
  <2>2. CASE pc' = [pc EXCEPT ![o] = "settled"]
    BY <2>2 DEF TypeOK
  <2>. QED  BY <2>1, <2>2 DEF Released
<1>6. pc'[o] = "settled"
  <2>1. \A i \in DOMAIN waiters : waiters[i] \in Order /\ waiters[i] # o
    BY WaiterIs
  <2>. QED  BY <2>1 DEF Released, TypeOK
<1>7. \A p \in slot' : pc'[p] \in {"granted", "running", "packing", "leaving"}
  BY <1>5 DEF Slots, Released, TypeOK
<1>8. \A p \in Order : pc'[p] \in Inside => Nested(p) \/ p \in slot'
  BY <1>5, <1>6 DEF Slots, Released, TypeOK, Inside
<1>. QED  BY <1>1, <1>2, <1>3, <1>4, <1>7, <1>8 DEF Slots, Inside

LEMMA SlotsKept == ASSUME IInv, [Next]_vars PROVE Slots'
<1>. TypeOK /\ Queue /\ Phases /\ Slots /\ pc \in [Order -> State] /\ slot \subseteq Order
  BY DEF IInv, TypeOK
<1>. USE DEF looping, closing, workers, gate, ledger
<1>a. ASSUME UNCHANGED <<slot, active>>,
             \A p \in Order : p \in slot =>
               pc'[p] \in {"granted", "running", "packing", "leaving"},
             \A p \in Order : pc'[p] \in Inside => pc[p] \in Inside \/ Nested(p)
      PROVE  Slots'
  BY <1>a DEF Slots, Inside, Holders
<1>b. \A p \in Order :
        pc[p] \in {"new", "pending", "waiting", "woken", "settled"} => p \notin slot
  BY DEF Slots
<1>1. ASSUME NEW c \in Call, LoopsEnd(c) PROVE Slots'
  BY <1>1, <1>a DEF LoopsEnd, Slots
<1>2. ASSUME NEW c \in Call, NEW o \in Order, Dequeue(c, o) PROVE Slots'
  <2>. pc[o] = "pending" /\ Enter(o) /\ o \notin slot
    BY <1>2, <1>b DEF Dequeue, CanRun
  <2>1. CASE /\ UNCHANGED <<slot, active>>
             /\ \/ \E x \in {"leaving", "waiting"} : pc' = [pc EXCEPT ![o] = x]
                \/ pc' = [pc EXCEPT ![o] = "granted"] /\ Nested(o)
    BY <2>1, <1>a DEF Slots, Inside
  <2>2. CASE Take(o) /\ HasFree(active, RoleOf(o))
    BY <2>2, TakeCounts
  <2>. QED  BY <2>1, <2>2 DEF Enter, Fail
<1>3. ASSUME NEW o \in Order, Resume(o) PROVE Slots'
  <2>. pc[o] = "woken" /\ o \notin slot
    BY <1>3, <1>b DEF Resume
  <2>1. CASE /\ UNCHANGED <<slot, active>>
             /\ \E x \in {"leaving", "waiting"} : pc' = [pc EXCEPT ![o] = x]
    BY <2>1, <1>a DEF Slots, Inside
  <2>2. CASE Take(o) /\ HasFree(active, RoleOf(o))
    BY <2>2, TakeCounts
  <2>. QED  BY <1>3, <2>1, <2>2 DEF Resume, Fail
<1>4. ASSUME NEW i \in DOMAIN waiters, GiveUp(i) PROVE Slots'
  <2>1. pc' = [pc EXCEPT ![waiters[i]] = "leaving"] /\ UNCHANGED <<slot, active>>
    BY <1>4 DEF GiveUp, Fail
  <2>. QED  BY <2>1, <1>a DEF Slots, Inside
<1>5. ASSUME NEW o \in Order, Start(o) PROVE Slots'
  <2>1. /\ \E x \in {"leaving", "packing", "running"} : pc' = [pc EXCEPT ![o] = x]
        /\ pc[o] = "granted" /\ UNCHANGED <<slot, active>>
    BY <1>5 DEF Start
  <2>. QED  BY <2>1, <1>a DEF Slots, Inside
<1>6. ASSUME NEW o \in Order, WorkerEnds(o) \/ Kill(o) \/ GraceOver(o) \/ LateEnd(o)
      PROVE  Slots'
  BY <1>6, <1>a DEF WorkerEnds, Kill, GraceOver, LateEnd, Slots, Inside
<1>7. ASSUME NEW o \in Order, Finish(o) PROVE Slots'
  <2>1. CASE Release(o)
    BY <1>7, <2>1, ReleaseCounts DEF Finish
  <2>2. CASE pc' = [pc EXCEPT ![o] = "leaving"] /\ UNCHANGED <<slot, active>>
    BY <1>a, <2>2 DEF Slots, Inside
  <2>. QED  BY <1>7, <2>1, <2>2 DEF Finish, Record
<1>8. ASSUME NEW o \in Order, Leave(o) PROVE Slots'
  BY <1>8, ReleaseCounts DEF Leave
<1>9. ASSUME NEW o \in Order, Collect(o) PROVE Slots'
  BY <1>9, <1>a DEF Collect, CancelRest, Slots, Inside
<1>10. ASSUME NEW c \in Call, Submit(c) PROVE Slots'
  <2>1. \A p \in Order : CallOf[p] = c => p \notin slot
    BY <1>10, <1>b DEF Phases, Submit
  <2>. QED  BY <1>10, <1>a, <2>1 DEF Submit, Slots, Inside
<1>11. ASSUME NEW c \in Call, Return(c) \/ CallerAborts(c) PROVE Slots'
  BY <1>11, <1>a DEF Return, CallerAborts, Slots, Inside
<1>12. CASE Shutdown
  BY <1>12, <1>a DEF Shutdown, AbortInFlight, Slots, Inside
<1>13. CASE Crash
  <2>1. \A r : Holders(r, slot') = {}
    BY <1>13 DEF Crash, Holders
  <2>2. /\ IsFiniteSet(slot')
        /\ \A r \in Role : active'[r] = 0 /\ Cardinality(Holders(r, slot')) = 0
    BY <1>13, <2>1, FS_EmptySet DEF Crash
  <2>3. \A r \in Role : Cap[r] \in Nat
    BY Constants
  <2>4. active'["explore"] = 0 /\ active'["write"] = 0
    BY <2>2 DEF Role
  <2>5. \A p \in Order : pc'[p] \notin Inside
    BY <1>13 DEF Crash, Inside, Flight, Gate
  <2>6. slot' = {} /\ TotalCap \in Nat
    BY <1>13, TotalCapIs DEF Crash
  <2>. QED  BY <2>2, <2>3, <2>4, <2>5, <2>6 DEF Slots, Inside
<1>14. CASE ShutdownReturns \/ UNCHANGED vars
  BY <1>14, <1>a DEF ShutdownReturns, vars, Slots
<1>. QED
  BY <1>1, <1>2, <1>3, <1>4, <1>5, <1>6, <1>7, <1>8, <1>9, <1>10, <1>11, <1>12, <1>13, <1>14
     DEF Next, TurnStep, Continue, Event

-----------------------------------------------------------------------------
(* How far calls and orders are.                                           *)

\* The steps of an order between the queue and its collection, and those of a signal.
GateStep ==
  \/ \E o \in Order : Resume(o) \/ Start(o) \/ Finish(o) \/ Leave(o) \/ Event(o)
  \/ \E i \in DOMAIN waiters : GiveUp(i)
  \/ \E c \in Call : CallerAborts(c)
  \/ Shutdown \/ ShutdownReturns \/ UNCHANGED vars

\* Giving back moves o out, and at most one waiter on.
LEMMA ReleaseMoves ==
  ASSUME TypeOK, Queue, NEW o \in Order, pc[o] # "waiting", Release(o)
  PROVE  /\ pc'[o] = "settled"
         /\ \A p \in Order \ {o} : pc'[p] = pc[p] \/ (pc[p] = "waiting" /\ pc'[p] = "woken")
<1>1. Released(o)
  BY ReleaseIs
<1>2. CASE pc' = [pc EXCEPT ![o] = "settled"]
  BY <1>2 DEF TypeOK
<1>3. ASSUME NEW i \in DOMAIN waiters,
             pc' = [pc EXCEPT ![o] = "settled", ![waiters[i]] = "woken"]
      PROVE  /\ pc'[o] = "settled"
             /\ \A p \in Order \ {o} :
                  pc'[p] = pc[p] \/ (pc[p] = "waiting" /\ pc'[p] = "woken")
  <2>1. waiters[i] \in Order /\ waiters[i] # o /\ pc[waiters[i]] = "waiting"
    BY WaiterIs
  <2>. QED  BY <1>3, <2>1 DEF TypeOK
<1>. QED  BY <1>1, <1>2, <1>3 DEF Released

LEMMA GateStepStays ==
  ASSUME TypeOK, Queue, GateStep
  PROVE  InGate /\ UNCHANGED <<calls, turn, loops>>
<1>. TypeOK /\ pc \in [Order -> State] /\ result \in [Order -> {"none", "passed", "failed"}]
  BY DEF TypeOK
<1>. USE DEF InGate, Flight, Gate, looping, closing, workers, gate, ledger
<1>a. ASSUME NEW o \in Order, NEW x \in Flight, pc[o] \in Flight,
             pc' = [pc EXCEPT ![o] = x],
             \A p \in Order : p # o => result'[p] = result[p]
      PROVE  InGate
  BY <1>a
<1>1. ASSUME NEW o \in Order, Resume(o) PROVE InGate /\ UNCHANGED <<calls, turn, loops>>
  <2>1. /\ \E x \in Flight : pc' = [pc EXCEPT ![o] = x]
        /\ \A p \in Order : p # o => result'[p] = result[p]
    BY <1>1 DEF Resume, Fail, Take
  <2>2. pc[o] \in Flight
    BY <1>1 DEF Resume
  <2>. QED  BY <1>1, <1>a, <2>1, <2>2 DEF Resume
<1>2. ASSUME NEW o \in Order, Start(o) PROVE InGate /\ UNCHANGED <<calls, turn, loops>>
  <2>1. /\ \E x \in Flight : pc' = [pc EXCEPT ![o] = x]
        /\ \A p \in Order : p # o => result'[p] = result[p]
    BY <1>2 DEF Start
  <2>2. pc[o] \in Flight
    BY <1>2 DEF Start
  <2>. QED  BY <1>2, <1>a, <2>1, <2>2 DEF Start
<1>3. ASSUME NEW o \in Order, Finish(o) PROVE InGate /\ UNCHANGED <<calls, turn, loops>>
  <2>1. CASE Release(o) /\ UNCHANGED result
    BY <1>3, <2>1, ReleaseMoves DEF Finish
  <2>2. CASE pc' = [pc EXCEPT ![o] = "leaving"] /\ result' = [result EXCEPT ![o] = "failed"]
    BY <1>3, <2>2 DEF Finish
  <2>3. \/ Release(o) /\ UNCHANGED result
        \/ pc' = [pc EXCEPT ![o] = "leaving"] /\ result' = [result EXCEPT ![o] = "failed"]
    BY <1>3 DEF Finish, Record
  <2>. QED  BY <1>3, <2>1, <2>2, <2>3 DEF Finish
<1>4. ASSUME NEW o \in Order, Leave(o) PROVE InGate /\ UNCHANGED <<calls, turn, loops>>
  BY <1>4, ReleaseMoves DEF Leave
<1>5. ASSUME NEW o \in Order, WorkerEnds(o) \/ GraceOver(o)
      PROVE  InGate /\ UNCHANGED <<calls, turn, loops>>
  BY <1>5 DEF WorkerEnds, GraceOver
<1>6. ASSUME NEW o \in Order, Kill(o) \/ LateEnd(o)
      PROVE  InGate /\ UNCHANGED <<calls, turn, loops>>
  BY <1>6 DEF Kill, LateEnd
<1>7. ASSUME NEW i \in DOMAIN waiters, GiveUp(i)
      PROVE  InGate /\ UNCHANGED <<calls, turn, loops>>
  <2>. waiters[i] \in Order /\ pc[waiters[i]] = "waiting"
    BY WaiterIs
  <2>. QED  BY <1>7 DEF GiveUp, Fail
<1>8. ASSUME NEW c \in Call, CallerAborts(c) PROVE InGate /\ UNCHANGED <<calls, turn, loops>>
  BY <1>8 DEF CallerAborts
<1>9. CASE Shutdown
  BY <1>9 DEF Shutdown, AbortInFlight
<1>10. CASE ShutdownReturns \/ UNCHANGED vars
  BY <1>10 DEF ShutdownReturns, vars
<1>. QED
  BY <1>1, <1>2, <1>3, <1>4, <1>5, <1>6, <1>7, <1>8, <1>9, <1>10 DEF GateStep, Event

\* An order that is taken from the queue enters the gate; no other moves.
LEMMA EnterMoves ==
  ASSUME TypeOK, NEW o \in Order, Enter(o)
  PROVE  /\ pc'[o] \in {"waiting", "granted", "leaving"}
         /\ \A p \in Order \ {o} : pc'[p] = pc[p] /\ result'[p] = result[p]
<1>1. \E x \in {"waiting", "granted", "leaving"} : pc' = [pc EXCEPT ![o] = x]
  BY DEF Enter, Fail, Take
<1>2. result' = result \/ result' = [result EXCEPT ![o] = "failed"]
  BY DEF Enter, Fail
<1>. QED  BY <1>1, <1>2 DEF TypeOK

LEMMA NextIs ==
  ASSUME [Next]_vars
  PROVE  \/ GateStep
         \/ \E c \in Call : LoopsEnd(c) \/ \E o \in Order : Dequeue(c, o)
         \/ turn = Nobody /\ \E o \in Order : Collect(o)
         \/ turn = Nobody /\ \E c \in Call : Submit(c) \/ Return(c)
         \/ Crash
BY DEF Next, TurnStep, GateStep, Continue

LEMMA PhasesKept == ASSUME IInv, [Next]_vars PROVE Phases'
<1>. /\ TypeOK /\ Queue /\ Phases /\ pc \in [Order -> State]
     /\ calls \in [Call -> {"new", "open", "returned", "lost"}]
  BY DEF IInv, TypeOK
<1>. USE DEF looping, closing, workers, gate, ledger, Flight, Gate
<1>1. CASE GateStep
  BY <1>1, GateStepStays DEF InGate, Phases
<1>2. ASSUME NEW c \in Call, LoopsEnd(c) PROVE Phases'
  BY <1>2 DEF LoopsEnd, Phases
<1>3. ASSUME NEW c \in Call, NEW o \in Order, Dequeue(c, o) PROVE Phases'
  <2>1. /\ pc[o] = "pending" /\ Enter(o) /\ UNCHANGED calls
        /\ turn = c /\ loops' = loops - 1 /\ turn' = IF loops = 1 THEN Nobody ELSE turn
    BY <1>3 DEF Dequeue, CanRun
  <2>2. turn' # Nobody => loops' >= 1
    BY <2>1, Constants DEF Phases, TypeOK
  <2>3. /\ pc'[o] \in {"waiting", "granted", "leaving"}
        /\ \A p \in Order \ {o} : pc'[p] = pc[p]
    BY <2>1, EnterMoves
  <2>. QED  BY <2>1, <2>2, <2>3 DEF Phases
<1>4. ASSUME NEW o \in Order, Collect(o) PROVE Phases'
  <2>1. \A p \in Order : \/ pc'[p] = pc[p]
                         \/ pc[p] \in {"settled", "pending"} /\ pc'[p] \in {"done", "cancelled"}
    BY <1>4 DEF Collect, CancelRest
  <2>2. loops' = 1 /\ UNCHANGED calls
    BY <1>4 DEF Collect
  <2>. QED  BY <2>1, <2>2 DEF Phases
<1>5. ASSUME NEW c \in Call, Submit(c) PROVE Phases'
  <2>1. loops' >= 1
    BY <1>5, TotalCapIs DEF Submit
  <2>2. \A p \in Order : CallOf[p] \in Call
    BY OfOrder
  <2>. QED  BY <1>5, <2>1, <2>2 DEF Submit, Phases
<1>6. ASSUME NEW c \in Call, Return(c) PROVE Phases'
  <2>2. \A p \in Order : CallOf[p] \in Call
    BY OfOrder
  <2>3. \A p \in Order : CallOf[p] = c => pc[p] \notin Flight
    BY <1>6 DEF Return, InQueueFlight
  <2>. QED  BY <1>6, <2>2, <2>3 DEF Return, Phases
<1>7. CASE Crash
  BY <1>7, OfOrder DEF Crash, Phases
<1>. QED  BY <1>1, <1>2, <1>3, <1>4, <1>5, <1>6, <1>7, NextIs

-----------------------------------------------------------------------------
(* Files in flight.                                                        *)

LEMMA ApartKept == ASSUME IInv, [Next]_vars PROVE Apart'
<1>. TypeOK /\ Queue /\ Apart /\ pc \in [Order -> State] /\ inflight \subseteq Order
  BY DEF IInv, TypeOK
<1>. USE DEF looping, closing, workers, gate, ledger
<1>a. ASSUME Running' \subseteq Running, inflight' = inflight, shutdown' = shutdown PROVE Apart'
  BY <1>a DEF Apart, Over
<1>b. ASSUME NEW o \in Order, pc[o] \in {"packing", "leaving"}, Release(o), shutdown' = shutdown
      PROVE  Apart'
  <2>1. Running' \subseteq Running \ {o} /\ inflight' = inflight \ {o}
    BY <1>b, ReleaseMoves DEF Running, Release
  <2>. QED  BY <1>b, <2>1 DEF Apart, Over
<1>c. ASSUME NEW o \in Order, NEW x \in {"waiting", "granted", "leaving", "packing", "done"},
             pc' = [pc EXCEPT ![o] = x]
      PROVE  Running' \subseteq Running
  BY <1>c DEF Running
<1>1. ASSUME NEW c \in Call, LoopsEnd(c) PROVE Apart'
  BY <1>1, <1>a DEF LoopsEnd, Running
<1>2. ASSUME NEW c \in Call, NEW o \in Order, Dequeue(c, o) PROVE Apart'
  <2>1. Running' \subseteq Running
    BY <1>2, EnterMoves DEF Dequeue, Running
  <2>. QED  BY <1>2, <1>a, <2>1 DEF Dequeue
<1>3. ASSUME NEW o \in Order, Resume(o) PROVE Apart'
  <2>1. \E x \in {"leaving", "waiting", "granted"} : pc' = [pc EXCEPT ![o] = x]
    BY <1>3 DEF Resume, Fail, Take
  <2>. QED  BY <1>3, <1>a, <1>c, <2>1 DEF Resume
<1>4. ASSUME NEW i \in DOMAIN waiters, GiveUp(i) PROVE Apart'
  BY <1>4, <1>a, <1>c, WaiterIs DEF GiveUp, Fail
<1>5. ASSUME NEW o \in Order, Start(o) PROVE Apart'
  <2>1. shutdown' = shutdown
    BY <1>5 DEF Start
  <2>2. CASE pc' = [pc EXCEPT ![o] = "leaving"] /\ inflight' = inflight
    BY <1>a, <1>c, <2>1, <2>2
  <2>3. CASE /\ ~Conflict(o) /\ inflight' = inflight \cup {o}
             /\ \E x \in {"packing", "running"} : pc' = [pc EXCEPT ![o] = x]
    <3>1. Running' \subseteq Running \cup {o}
      BY <2>3 DEF Running
    <3>2. \A p \in inflight \ {o} : ~Collide(o, p) /\ ~Collide(p, o)
      BY <2>3 DEF Conflict, Collide
    <3>. QED  BY <2>1, <2>3, <3>1, <3>2 DEF Apart, Over
  <2>. QED  BY <1>5, <2>2, <2>3 DEF Start
<1>6. ASSUME NEW o \in Order, Event(o) PROVE Apart'
  <2>1. pc' = pc \/ pc' = [pc EXCEPT ![o] = "packing"]
    BY <1>6 DEF Event, WorkerEnds, Kill, GraceOver, LateEnd
  <2>2. inflight' = inflight /\ shutdown' = shutdown
    BY <1>6 DEF Event, WorkerEnds, Kill, GraceOver, LateEnd
  <2>. QED  BY <1>a, <1>c, <2>1, <2>2 DEF Running
<1>7. ASSUME NEW o \in Order, Finish(o) PROVE Apart'
  <2>1. CASE Release(o)
    BY <1>7, <1>b, <2>1 DEF Finish
  <2>2. CASE pc' = [pc EXCEPT ![o] = "leaving"] /\ inflight' = inflight
    BY <1>7, <1>a, <1>c, <2>2 DEF Finish
  <2>. QED  BY <1>7, <2>1, <2>2 DEF Finish, Record
<1>8. ASSUME NEW o \in Order, Leave(o) PROVE Apart'
  BY <1>8, <1>b DEF Leave
<1>9. ASSUME NEW o \in Order, Collect(o) PROVE Apart'
  <2>1. Running' \subseteq Running
    BY <1>9 DEF Collect, CancelRest, Running
  <2>. QED  BY <1>9, <1>a, <2>1 DEF Collect
<1>10. ASSUME NEW c \in Call, Submit(c) \/ Return(c) \/ CallerAborts(c) PROVE Apart'
  <2>1. Running' \subseteq Running
    BY <1>10 DEF Submit, Return, CallerAborts, Running
  <2>. QED  BY <1>10, <1>a, <2>1 DEF Submit, Return, CallerAborts
<1>11. CASE Shutdown
  BY <1>11 DEF Shutdown, AbortInFlight, Running, Apart, Over
<1>12. CASE ShutdownReturns
  BY <1>12 DEF ShutdownReturns, Apart, Over
<1>13. CASE Crash
  BY <1>13 DEF Crash, Running, Apart, Flight, Gate
<1>14. CASE UNCHANGED vars
  BY <1>14, <1>a DEF vars, Running
<1>. QED
  BY <1>1, <1>2, <1>3, <1>4, <1>5, <1>6, <1>7, <1>8, <1>9, <1>10, <1>11, <1>12, <1>13, <1>14
     DEF Next, TurnStep, Continue

-----------------------------------------------------------------------------
(* Reserved tasks.                                                         *)

Holding == Ahead \cup {"running", "packing"}

\* What a step of o may do to the books, when no other order gets into the gate or on.
OwnBooks(o) ==
  /\ busy' \subseteq busy
  /\ \A p \in Order \ {o} :
       /\ pc'[p] \in Holding => pc[p] \in Holding /\ (p \in busy => p \in busy')
       /\ pc'[p] \in Ahead => pc[p] \in Ahead

LEMMA StaysReserved ==
  ASSUME Reserved, NEW o \in Order, OwnBooks(o), pc'[o] \notin Holding,
         UNCHANGED spent, \A t \in Task : durable'[t] = "free" => durable[t] = "free",
         spent \subseteq Task
  PROVE  Reserved'
<1>1. \A p, q \in busy' : TaskOf[p] = TaskOf[q] => p = q
  BY DEF OwnBooks, Reserved
<1>2. ASSUME NEW p \in Order
      PROVE  /\ pc'[p] \in Holding => p \in busy' /\ durable'[TaskOf[p]] # "free"
             /\ pc'[p] \in Ahead => TaskOf[p] \notin spent'
  <2>1. p = o => pc'[p] \notin Holding /\ pc'[p] \notin Ahead
    BY DEF Holding
  <2>2. p # o /\ pc'[p] \in Holding => pc[p] \in Holding /\ (p \in busy => p \in busy')
    BY DEF OwnBooks
  <2>3. pc[p] \in Holding => p \in busy /\ durable[TaskOf[p]] # "free"
    BY DEF Reserved, Holding
  <2>4. pc'[p] \in Ahead /\ p # o => TaskOf[p] \notin spent
    BY DEF OwnBooks, Reserved
  <2>. QED  BY <2>1, <2>2, <2>3, <2>4, OfOrder
<1>3. \A t \in spent' : durable'[t] # "free"
  BY DEF Reserved
<1>. QED  BY <1>1, <1>2, <1>3 DEF Reserved, Holding

LEMMA RecordBooks ==
  ASSUME TypeOK, NEW o \in Order, RecordFailure(o)
  PROVE  \A t \in Task : durable'[t] = "free" => durable[t] = "free"
BY OfOrder DEF TypeOK, RecordFailure

\* A reservation that is made.
LEMMA EnterReserves ==
  ASSUME TypeOK, Reserved, NEW o \in Order, pc[o] = "pending", Enter(o), UNCHANGED spent
  PROVE  Reserved'
<1>. TaskOf[o] \in Task /\ pc \in [Order -> State] /\ busy \subseteq Order /\ spent \subseteq Task
     /\ durable \in [Task -> {"free", "started", "failed"}]
  BY OfOrder DEF TypeOK
<1>1. CASE UNCHANGED <<busy, durable>> /\ pc' = [pc EXCEPT ![o] = "leaving"]
  BY <1>1, StaysReserved DEF OwnBooks, Holding, Ahead
<1>2. CASE /\ ~Refused(o) /\ busy' = busy \cup {o}
           /\ durable' = [durable EXCEPT ![TaskOf[o]] = "started"]
           /\ \E x \in Ahead : pc' = [pc EXCEPT ![o] = x]
  <2>1. /\ durable[TaskOf[o]] = "free"
        /\ \A p \in busy : TaskOf[p] # TaskOf[o]
    BY <1>2 DEF Refused
  <2>2. TaskOf[o] \notin spent
    BY <2>1 DEF Reserved
  <2>3. \A p, q \in busy' : TaskOf[p] = TaskOf[q] => p = q
    BY <1>2, <2>1 DEF Reserved
  <2>4. \A p \in Order \ {o} : pc'[p] = pc[p]
    BY <1>2
  <2>5. \A t \in Task : durable'[t] = "free" => durable[t] = "free"
    BY <1>2
  <2>6. durable'[TaskOf[o]] # "free"
    BY <1>2
  <2>7. ASSUME NEW p \in Order
        PROVE  /\ pc'[p] \in Ahead \cup {"running", "packing"}
                    => p \in busy' /\ durable'[TaskOf[p]] # "free"
               /\ pc'[p] \in Ahead => TaskOf[p] \notin spent'
    BY <1>2, <2>2, <2>4, <2>5, <2>6, OfOrder DEF Reserved
  <2>. QED  BY <2>3, <2>5, <2>7 DEF Reserved
<1>3. CASE /\ busy' = busy \cup {o} /\ ~Refused(o)
           /\ RecordFailure(o) /\ pc' = [pc EXCEPT ![o] = "leaving"]
  <2>1. \A p, q \in busy' : TaskOf[p] = TaskOf[q] => p = q
    BY <1>3 DEF Refused, Reserved
  <2>2. \A t \in Task : durable'[t] = "free" => durable[t] = "free"
    BY <1>3, RecordBooks
  <2>3. \A p \in Order : pc'[p] \in Holding => pc'[p] = pc[p]
    BY <1>3 DEF Holding, Ahead
  <2>. QED  BY <1>3, <2>1, <2>2, <2>3, OfOrder DEF Reserved, Holding, Ahead
<1>. QED  BY <1>1, <1>2, <1>3 DEF Enter, Fail, Take, Ahead

LEMMA ReservedKept == ASSUME IInv, [Next]_vars PROVE Reserved'
<1>. TypeOK /\ Queue /\ Reserved /\ pc \in [Order -> State]
     /\ durable \in [Task -> {"free", "started", "failed"}]
     /\ spent \subseteq Task /\ busy \subseteq Order
  BY DEF IInv, TypeOK
<1>. USE DEF looping, closing, workers, gate, ledger
<1>a. ASSUME \A p \in Order : /\ pc'[p] \in Holding => pc[p] \in Holding
                              /\ pc'[p] \in Ahead => pc[p] \in Ahead,
             UNCHANGED <<busy, durable, spent>>
      PROVE  Reserved'
  BY <1>a DEF Reserved, Holding
<1>b. ASSUME NEW o \in Order, pc[o] \in {"packing", "leaving"}, Release(o)
      PROVE  OwnBooks(o) /\ pc'[o] = "settled" /\ busy' = busy \ {o}
  BY <1>b, ReleaseMoves DEF OwnBooks, Holding, Ahead, Release
<1>1. ASSUME NEW c \in Call, LoopsEnd(c) PROVE Reserved'
  BY <1>1, <1>a DEF LoopsEnd
<1>2. ASSUME NEW c \in Call, NEW o \in Order, Dequeue(c, o) PROVE Reserved'
  BY <1>2, EnterReserves DEF Dequeue, CanRun
<1>3. ASSUME NEW o \in Order, Resume(o) PROVE Reserved'
  <2>. pc[o] = "woken" /\ UNCHANGED <<busy, spent>>
    BY <1>3 DEF Resume
  <2>1. CASE Fail(o)
    <3>1. OwnBooks(o) /\ pc'[o] \notin Holding
      BY <2>1 DEF Fail, OwnBooks, Holding, Ahead
    <3>. QED  BY <2>1, <3>1, StaysReserved, RecordBooks DEF Fail
  <2>2. CASE /\ \E x \in {"granted", "waiting"} : pc' = [pc EXCEPT ![o] = x]
             /\ UNCHANGED durable
    BY <2>2, <1>a DEF Holding, Ahead
  <2>. QED  BY <1>3, <2>1, <2>2 DEF Resume, Take
<1>4. ASSUME NEW i \in DOMAIN waiters, GiveUp(i) PROVE Reserved'
  <2>. waiters[i] \in Order /\ UNCHANGED <<busy, spent>> /\ Fail(waiters[i])
    BY <1>4, WaiterIs DEF GiveUp
  <2>1. OwnBooks(waiters[i]) /\ pc'[waiters[i]] \notin Holding
    BY DEF Fail, OwnBooks, Holding, Ahead
  <2>. QED  BY <2>1, StaysReserved, RecordBooks DEF Fail
<1>5. ASSUME NEW o \in Order, Start(o) PROVE Reserved'
  <2>1. pc[o] = "granted" /\ UNCHANGED <<busy, durable>>
    BY <1>5 DEF Start
  <2>2. CASE /\ \E x \in {"leaving", "packing"} : pc' = [pc EXCEPT ![o] = x]
             /\ UNCHANGED spent
    BY <1>a, <2>1, <2>2 DEF Holding, Ahead
  <2>3. CASE pc' = [pc EXCEPT ![o] = "running"] /\ spent' = spent \cup {TaskOf[o]}
    <3>1. o \in busy /\ durable[TaskOf[o]] # "free"
      BY <2>1 DEF Reserved, Ahead
    <3>2. \A p \in Order \ {o} : pc[p] \in Ahead => TaskOf[p] # TaskOf[o]
      BY <3>1 DEF Reserved
    <3>3. \A p \in Order \ {o} : pc'[p] = pc[p]
      BY <2>3
    <3>4. pc'[o] \notin Ahead
      BY <2>3 DEF Ahead
    <3>. QED  BY <2>1, <2>3, <3>1, <3>2, <3>3, <3>4 DEF Reserved
  <2>. QED  BY <1>5, <2>2, <2>3 DEF Start
<1>6. ASSUME NEW o \in Order, Event(o) PROVE Reserved'
  <2>1. pc' = pc \/ (pc[o] = "running" /\ pc' = [pc EXCEPT ![o] = "packing"])
    BY <1>6 DEF Event, WorkerEnds, Kill, GraceOver, LateEnd
  <2>2. UNCHANGED <<busy, durable, spent>>
    BY <1>6 DEF Event, WorkerEnds, Kill, GraceOver, LateEnd
  <2>. QED  BY <1>a, <2>1, <2>2 DEF Holding, Ahead
<1>7. ASSUME NEW o \in Order, Finish(o) PROVE Reserved'
  <2>. pc[o] = "packing" /\ TaskOf[o] \in Task
    BY <1>7, OfOrder DEF Finish
  <2>1. CASE /\ durable' = [durable EXCEPT ![TaskOf[o]] = "free"]
             /\ spent' = spent \ {TaskOf[o]} /\ Release(o)
    <3>1. o \in busy
      BY DEF Reserved
    <3>2. /\ \A p \in Order \ {o} : (pc'[p] \in Holding => pc[p] \in Holding /\ p \in busy')
                                    /\ (pc'[p] \in Ahead => pc[p] \in Ahead)
          /\ pc'[o] \notin Holding /\ pc'[o] \notin Ahead /\ busy' = busy \ {o}
      BY <1>b, <2>1 DEF OwnBooks, Holding, Ahead, Reserved
    <3>3. \A p \in busy' : TaskOf[p] # TaskOf[o]
      BY <3>1, <3>2 DEF Reserved
    <3>4. \A t \in Task \ {TaskOf[o]} : durable'[t] = durable[t]
      BY <2>1
    <3>5. ASSUME NEW p \in Order
          PROVE  /\ pc'[p] \in Holding => p \in busy' /\ durable'[TaskOf[p]] # "free"
                 /\ pc'[p] \in Ahead => TaskOf[p] \notin spent'
      BY <2>1, <3>2, <3>3, <3>4, OfOrder DEF Reserved, Holding
    <3>6. \A t \in spent' : durable'[t] # "free"
      BY <2>1, <3>4 DEF Reserved
    <3>7. \A p, q \in busy' : TaskOf[p] = TaskOf[q] => p = q
      BY <3>2 DEF Reserved
    <3>. QED  BY <3>5, <3>6, <3>7 DEF Reserved, Holding
  <2>2. CASE /\ durable' = [durable EXCEPT ![TaskOf[o]] = "failed"]
             /\ pc' = [pc EXCEPT ![o] = "leaving"] /\ UNCHANGED <<busy, spent>>
    <3>1. OwnBooks(o) /\ pc'[o] \notin Holding
      BY <2>2 DEF OwnBooks, Holding, Ahead
    <3>2. \A t \in Task : durable'[t] = "free" => durable[t] = "free"
      BY <2>2
    <3>. QED  BY <2>2, <3>1, <3>2, StaysReserved
  <2>3. CASE RecordFailure(o) /\ Release(o) /\ UNCHANGED spent
    <3>1. OwnBooks(o) /\ pc'[o] \notin Holding
      BY <1>b, <2>3 DEF Holding, Ahead
    <3>. QED  BY <2>3, <3>1, StaysReserved, RecordBooks
  <2>. QED  BY <1>7, <2>1, <2>2, <2>3 DEF Finish, Record
<1>8. ASSUME NEW o \in Order, Leave(o) PROVE Reserved'
  <2>1. OwnBooks(o) /\ pc'[o] \notin Holding
    BY <1>8, <1>b DEF Leave, Holding, Ahead
  <2>2. UNCHANGED <<durable, spent>>
    BY <1>8 DEF Leave
  <2>. QED  BY <2>1, <2>2, StaysReserved
<1>9. ASSUME NEW o \in Order, Collect(o) PROVE Reserved'
  <2>1. \A p \in Order : pc'[p] = pc[p] \/ pc'[p] \in {"done", "cancelled"}
    BY <1>9 DEF Collect, CancelRest
  <2>. QED  BY <1>9, <1>a, <2>1 DEF Collect, Holding, Ahead
<1>10. ASSUME NEW c \in Call, Submit(c) \/ Return(c) \/ CallerAborts(c) PROVE Reserved'
  <2>1. \A p \in Order : pc'[p] = pc[p] \/ pc'[p] \in {"pending", "swept"}
    BY <1>10 DEF Submit, Return, CallerAborts
  <2>2. UNCHANGED <<busy, durable, spent>>
    BY <1>10 DEF Submit, Return, CallerAborts
  <2>. QED  BY <1>a, <2>1, <2>2 DEF Holding, Ahead
<1>11. CASE Shutdown
  BY <1>11, <1>a DEF Shutdown, AbortInFlight, Holding, Ahead
<1>12. CASE ShutdownReturns \/ UNCHANGED vars
  BY <1>12, <1>a DEF ShutdownReturns, vars
<1>13. CASE Crash
  <2>1. \A p \in Order : pc'[p] \notin Holding /\ pc'[p] \notin Ahead
    BY <1>13 DEF Crash, Holding, Ahead, Flight, Gate
  <2>. QED  BY <1>13, <2>1 DEF Crash, Reserved, Holding
<1>. QED
  BY <1>1, <1>2, <1>3, <1>4, <1>5, <1>6, <1>7, <1>8, <1>9, <1>10, <1>11, <1>12, <1>13
     DEF Next, TurnStep, Continue

-----------------------------------------------------------------------------
(* Whom an abort reaches.                                                  *)

CallerIs == \A c \in Call : CallerOf[c] # Main => CallerOf[c] \in Order

LEMMA Callers == CallerIs
BY Constants DEF CallerIs

\* Signals stay on.
LEMMA CutStays ==
  ASSUME cut \subseteq cut', quit \subseteq quit', NEW o, Cut(o)
  PROVE  Cut(o)'
BY DEF Cut, Aborted

LEMMA SignalsKept == ASSUME IInv, [Next]_vars PROVE Signals'
<1>. TypeOK /\ Queue /\ Phases /\ Signals /\ pc \in [Order -> State] /\ alive \subseteq Order
     /\ calls \in [Call -> {"new", "open", "returned", "lost"}]
  BY DEF IInv, TypeOK
<1>. USE DEF looping, closing, workers, gate, ledger
<1>. DEFINE Reached ==
       /\ \A o \in alive' : o \in alive \/ pc'[o] = "running"
       /\ \A o \in Order : pc[o] = "running" /\ pc'[o] # "running" =>
            \/ Cut(o)
            \/ o \notin alive' /\ CallsOf(o) = {}
       /\ cut \subseteq cut' /\ quit \subseteq quit'
       /\ \A c \in Call : calls'[c] = "open" => calls[c] = "open"
     Closed ==
       shutdown' # "no" =>
         /\ shutdown # "no" /\ cut \subseteq cut'
         /\ \A o \in Order : ~Nested(o) /\ pc'[o] \in {"granted", "running"} => pc'[o] = pc[o]
<1>a. ASSUME Reached
      PROVE  /\ \A o \in alive' : pc'[o] = "running" \/ Cut(o)'
             /\ \A c \in Call : calls'[c] = "open" /\ CallerOf[c] # Main
                  => pc'[CallerOf[c]] = "running" \/ Cut(CallerOf[c])'
  <2>1. ASSUME NEW o \in alive', o \in Order PROVE pc'[o] = "running" \/ Cut(o)'
    BY <1>a, <2>1, CutStays DEF Signals
  <2>2. ASSUME NEW c \in Call, calls'[c] = "open", CallerOf[c] # Main
        PROVE  pc'[CallerOf[c]] = "running" \/ Cut(CallerOf[c])'
    <3>1. CallerOf[c] \in Order /\ calls[c] = "open"
      BY <1>a, <2>2, Callers DEF CallerIs
    <3>2. CallsOf(CallerOf[c]) # {}
      BY <3>1 DEF CallsOf
    <3>3. pc[CallerOf[c]] = "running" \/ Cut(CallerOf[c])
      BY <2>2, <3>1 DEF Signals
    <3>. QED  BY <1>a, <3>1, <3>2, <3>3, CutStays
  <2>3. alive' \subseteq Order
    BY TypesKept DEF TypeOK
  <2>. QED  BY <2>1, <2>2, <2>3
<1>b. ASSUME Closed
      PROVE  shutdown' # "no" => \A o \in Order : ~Nested(o)
               => pc'[o] # "granted" /\ (pc'[o] = "running" => o \in cut')
  BY <1>b DEF Signals
<1>c. ASSUME Reached, Closed PROVE Signals'
  BY <1>a, <1>b, <1>c DEF Signals, Nested
<1>. HIDE DEF Reached, Closed
<1>1. ASSUME NEW c \in Call, LoopsEnd(c) PROVE Signals'
  BY <1>1, <1>c DEF LoopsEnd, Reached, Closed
<1>2. ASSUME NEW c \in Call, NEW o \in Order, Dequeue(c, o) PROVE Signals'
  <2>1. /\ Enter(o) /\ pc[o] = "pending" /\ UNCHANGED <<alive, cut, quit, calls, shutdown>>
    BY <1>2 DEF Dequeue, CanRun
  <2>2. /\ pc'[o] \in {"waiting", "granted", "leaving"}
        /\ \A p \in Order \ {o} : pc'[p] = pc[p]
    BY <2>1, EnterMoves
  <2>3. shutdown # "no" /\ ~Nested(o) => pc'[o] # "granted"
    BY <2>1 DEF Enter, Fail
  <2>4. Reached
    BY <2>1, <2>2 DEF Reached
  <2>5. Closed
    BY <2>1, <2>2, <2>3 DEF Closed
  <2>. QED  BY <1>c, <2>4, <2>5
<1>3. ASSUME NEW o \in Order, Resume(o) PROVE Signals'
  <2>1. pc[o] = "woken" /\ UNCHANGED <<alive, cut, quit, calls, shutdown>>
    BY <1>3 DEF Resume
  <2>2. CASE \E x \in {"leaving", "waiting"} : pc' = [pc EXCEPT ![o] = x]
    BY <1>c, <2>1, <2>2 DEF Reached, Closed
  <2>3. CASE shutdown = "no" /\ pc' = [pc EXCEPT ![o] = "granted"]
    BY <1>c, <2>1, <2>3 DEF Reached, Closed
  <2>. QED  BY <1>3, <2>2, <2>3 DEF Resume, Fail, Take
<1>4. ASSUME NEW i \in DOMAIN waiters, GiveUp(i) PROVE Signals'
  BY <1>4, <1>c, WaiterIs DEF GiveUp, Fail, Reached, Closed
<1>5. ASSUME NEW o \in Order, Start(o) PROVE Signals'
  <2>1. pc[o] = "granted" /\ UNCHANGED <<cut, quit, calls, shutdown>>
    BY <1>5 DEF Start
  <2>2. shutdown # "no" => Nested(o)
    BY <2>1 DEF Signals
  <2>3. \/ \E x \in {"leaving", "packing"} : pc' = [pc EXCEPT ![o] = x] /\ alive' = alive
        \/ pc' = [pc EXCEPT ![o] = "running"] /\ alive' = alive \cup {o}
    BY <1>5 DEF Start
  <2>4. Reached
    BY <2>1, <2>3 DEF Reached
  <2>5. Closed
    BY <2>1, <2>2, <2>3 DEF Closed
  <2>. QED  BY <1>c, <2>4, <2>5
<1>6. ASSUME NEW o \in Order, WorkerEnds(o) PROVE Signals'
  BY <1>6, <1>c DEF WorkerEnds, Reached, Closed
<1>7. ASSUME NEW o \in Order, Kill(o) \/ LateEnd(o) PROVE Signals'
  BY <1>7, <1>c DEF Kill, LateEnd, Reached, Closed
<1>8. ASSUME NEW o \in Order, GraceOver(o) PROVE Signals'
  BY <1>8, <1>c DEF GraceOver, Reached, Closed
<1>d. ASSUME NEW o \in Order, pc[o] \in {"packing", "leaving"}, Release(o),
             UNCHANGED <<alive, cut, quit, calls, shutdown>>
      PROVE  Signals'
  BY <1>d, <1>c, ReleaseMoves DEF Reached, Closed
<1>9. ASSUME NEW o \in Order, Finish(o) PROVE Signals'
  <2>1. CASE Release(o)
    BY <1>9, <1>d, <2>1 DEF Finish
  <2>2. CASE pc' = [pc EXCEPT ![o] = "leaving"]
    BY <1>9, <1>c, <2>2 DEF Finish, Reached, Closed
  <2>. QED  BY <1>9, <2>1, <2>2 DEF Finish, Record
<1>10. ASSUME NEW o \in Order, Leave(o) PROVE Signals'
  BY <1>10, <1>d DEF Leave
<1>11. ASSUME NEW o \in Order, Collect(o) PROVE Signals'
  <2>1. \A p \in Order : pc'[p] = pc[p] \/ (pc[p] # "running" /\ pc'[p] \in {"done", "cancelled"})
    BY <1>11 DEF Collect, CancelRest
  <2>2. cut \subseteq cut' /\ UNCHANGED <<alive, quit, calls, shutdown>>
    BY <1>11 DEF Collect, CancelRest
  <2>. QED  BY <1>c, <2>1, <2>2 DEF Reached, Closed
<1>12. ASSUME NEW c \in Call, Submit(c) PROVE Signals'
  <2>1. UNCHANGED <<alive, cut, quit, shutdown>> /\ calls' = [calls EXCEPT ![c] = "open"]
        /\ calls[c] = "new" /\ CallerOf[c] \in alive \cup {Main}
    BY <1>12 DEF Submit
  <2>2. \A p \in Order : pc'[p] = pc[p] \/ (pc[p] = "new" /\ pc'[p] = "pending")
    BY <1>12 DEF Submit, Phases
  <2>3. \A p : Cut(p)' = Cut(p)
    BY <2>1 DEF Cut, Aborted
  <2>4. \A d \in Call : calls'[d] = "open" => d = c \/ calls[d] = "open"
    BY <2>1
  <2>5. \A p \in Order : pc'[p] = "running" <=> pc[p] = "running"
    BY <2>2
  <2>6. CallerOf[c] # Main => pc[CallerOf[c]] = "running" \/ Cut(CallerOf[c])
    BY <2>1 DEF Signals
  <2>7. \A d \in Call : calls'[d] = "open" /\ CallerOf[d] # Main
          => pc'[CallerOf[d]] = "running" \/ Cut(CallerOf[d])'
    BY <2>3, <2>4, <2>5, <2>6, Callers DEF Signals, CallerIs
  <2>8. \A p \in alive' : pc'[p] = "running" \/ Cut(p)'
    BY <2>1, <2>3, <2>5 DEF Signals
  <2>9. Closed
    BY <2>1, <2>2 DEF Closed
  <2>. QED  BY <1>b, <2>7, <2>8, <2>9 DEF Signals, Nested
<1>13. ASSUME NEW c \in Call, Return(c) PROVE Signals'
  <2>1. \A p \in Order : pc'[p] = pc[p] \/ (pc[p] = "pending" /\ pc'[p] = "swept")
    BY <1>13 DEF Return
  <2>. QED  BY <1>13, <1>c, <2>1 DEF Return, Reached, Closed
<1>14. ASSUME NEW c \in Call, CallerAborts(c) PROVE Signals'
  BY <1>14, <1>c DEF CallerAborts, Reached, Closed
<1>15. CASE Shutdown /\ Drained
  <2>1. \A p \in Order : pc'[p] = pc[p] \/ (pc[p] = "waiting" /\ pc'[p] = "woken")
    BY <1>15 DEF Shutdown, AbortInFlight
  <2>2. cut' = cut \cup {o \in Order : pc[o] = "running"} /\ UNCHANGED <<alive, quit, calls>>
    BY <1>15 DEF Shutdown, AbortInFlight
  <2>3. Reached
    BY <2>1, <2>2 DEF Reached
  <2>4. \A o \in Order : pc'[o] # "granted" /\ (pc'[o] = "running" => o \in cut')
    BY <1>15, <2>1, <2>2 DEF Drained
  <2>. QED  BY <1>a, <2>3, <2>4 DEF Signals
<1>16. CASE ShutdownReturns \/ UNCHANGED vars
  BY <1>16, <1>c DEF ShutdownReturns, vars, Reached, Closed
<1>17. CASE Crash
  <2>1. alive' = {} /\ shutdown' = "no"
    BY <1>17 DEF Crash
  <2>2. \A c \in Call : calls'[c] # "open"
    BY <1>17 DEF Crash
  <2>. QED  BY <2>1, <2>2 DEF Signals
<1>. QED
  BY <1>1, <1>2, <1>3, <1>4, <1>5, <1>6, <1>7, <1>8, <1>9, <1>10, <1>11, <1>12, <1>13,
     <1>14, <1>15, <1>16, <1>17 DEF Next, TurnStep, Continue, Event

-----------------------------------------------------------------------------
(* What is left to take.                                                   *)

\* No order of the call moves.
Same(c) == \A p \in Order : CallOf[p] = c => pc'[p] = pc[p] /\ result'[p] = result[p]

\* Dependencies and their alternates belong to the same call.
LEMMA ReadySame ==
  ASSUME NEW o \in Order,
         \A p \in Order : CallOf[p] = CallOf[o] =>
            Completed(p)' = Completed(p) /\ FailedOrder(p)' = FailedOrder(p)
  PROVE  Ready(o)' = Ready(o)
<1>1. \A d \in Needs[o] : d \in Order /\ CallOf[d] = CallOf[o]
  BY Constants
<1>2. \A d \in Needs[o] : \A a \in InsteadOf[o][d] : a \in Order /\ CallOf[a] = CallOf[o]
  <2>1. \A d \in Needs[o] : InsteadOf[o][d] \subseteq Order
    BY <1>1, Constants
  <2>. QED  BY <1>1, <2>1, Constants
<1>3. \A d \in Needs[o] : Completed(d)' = Completed(d) /\ FailedOrder(d)' = FailedOrder(d)
  BY <1>1
<1>4. \A d \in Needs[o] : \A a \in InsteadOf[o][d] : Completed(a)' = Completed(a)
  BY <1>2
<1>. HIDE DEF Completed, FailedOrder
<1>5. Ready(o)' <=> \A d \in Needs[o] :
         Completed(d)' \/ (FailedOrder(d)' /\ \E a \in InsteadOf[o][d] : Completed(a)')
  BY DEF Ready
<1>6. Ready(o)' <=> Ready(o)
  BY <1>3, <1>4, <1>5 DEF Ready
<1>7. Ready(o) \in BOOLEAN
  BY DEF Ready
<1>8. Ready(o)' \in BOOLEAN
  BY DEF Ready
<1>. QED  BY <1>6, <1>7, <1>8

LEMMA SameReady ==
  ASSUME NEW o \in Order, Same(CallOf[o])
  PROVE  Ready(o)' <=> Ready(o)
BY ReadySame DEF Same, Completed, FailedOrder

IdleCall(c) ==
  calls[c] = "open" /\ turn # c /\ InQueueFlight(c) = {}
    => \A o \in Order : CallOf[o] = c /\ pc[o] = "pending" => ~Ready(o)

LEMMA IdleCallKept ==
  ASSUME Idle, NEW c \in Call, Same(c), turn # c, calls'[c] = "open" => calls[c] = "open"
  PROVE  IdleCall(c)'
<1>1. InQueueFlight(c)' = InQueueFlight(c)
  BY DEF InQueueFlight, Same
<1>2. \A o \in Order : CallOf[o] = c => (Ready(o)' <=> Ready(o)) /\ pc'[o] = pc[o]
  BY SameReady DEF Same
<1>. QED  BY <1>1, <1>2 DEF Idle, IdleCall

\* In the gate a call with nothing in flight does not move.
LEMMA GateStepSame ==
  ASSUME InGate, NEW c \in Call, InQueueFlight(c)' = {} \/ InQueueFlight(c) = {}
  PROVE  Same(c)
BY DEF InGate, Same, InQueueFlight

LEMMA IdleKept == ASSUME IInv, [Next]_vars PROVE Idle'
<1>. TypeOK /\ Queue /\ Idle /\ pc \in [Order -> State] /\ Nobody \notin Call
     /\ calls \in [Call -> {"new", "open", "returned", "lost"}]
  BY Constants DEF IInv, TypeOK
<1>. USE DEF looping, closing, workers, gate, ledger
<1>. SUFFICES ASSUME NEW d \in Call PROVE IdleCall(d)'
  BY DEF Idle, IdleCall
<1>1. CASE GateStep
  <2>1. InGate /\ UNCHANGED <<calls, turn>>
    BY <1>1, GateStepStays
  <2>2. CASE InQueueFlight(d)' = {} /\ turn # d
    BY <2>1, <2>2, GateStepSame, IdleCallKept
  <2>. QED  BY <2>1, <2>2 DEF IdleCall
<1>2. ASSUME NEW c \in Call, LoopsEnd(c) PROVE IdleCall(d)'
  <2>1. Same(d) /\ turn = c /\ UNCHANGED calls
    BY <1>2 DEF LoopsEnd, Same
  <2>2. CASE d # c
    BY <2>1, <2>2, IdleCallKept
  <2>3. CASE d = c /\ InQueueFlight(c) = {}
    <3>1. /\ Cardinality(InQueueFlight(c)) = 0
          /\ \A r : Cardinality({p \in InQueueFlight(c) : RoleOf(p) = r}) = 0
      <4>1. \A r : {p \in InQueueFlight(c) : RoleOf(p) = r} = {}
        BY <2>3
      <4>. QED  BY <2>3, <4>1, FS_EmptySet
    <3>2. 0 < TotalCap /\ \A r \in Role : 0 < Cap[r]
      BY TotalCapIs, Constants
    <3>3. \A o \in Order : CallOf[o] = c /\ pc[o] = "pending" => ~Ready(o)
      BY <1>2, <2>3, <3>1, <3>2, RoleIs DEF LoopsEnd, CanRun
    <3>4. \A o \in Order : CallOf[o] = c => (Ready(o)' <=> Ready(o)) /\ pc'[o] = pc[o]
      BY <2>1, <2>3, SameReady DEF Same
    <3>. QED  BY <2>3, <3>3, <3>4 DEF IdleCall
  <2>4. CASE d = c /\ InQueueFlight(c) # {}
    <3>1. InQueueFlight(c)' = InQueueFlight(c)
      BY <1>2 DEF LoopsEnd, InQueueFlight
    <3>. QED  BY <2>4, <3>1 DEF IdleCall
  <2>. QED  BY <2>2, <2>3, <2>4
<1>3. ASSUME NEW c \in Call, NEW o \in Order, Dequeue(c, o) PROVE IdleCall(d)'
  <2>1. /\ turn = c /\ CallOf[o] = c /\ UNCHANGED calls
        /\ pc'[o] \in Flight
        /\ \A p \in Order \ {o} : pc'[p] = pc[p] /\ result'[p] = result[p]
    BY <1>3, EnterMoves DEF Dequeue, CanRun, Flight, Gate
  <2>2. CASE d # c
    BY <2>1, <2>2, IdleCallKept DEF Same
  <2>3. CASE d = c
    BY <2>1, <2>3 DEF IdleCall, InQueueFlight
  <2>. QED  BY <2>2, <2>3
<1>4. ASSUME NEW o \in Order, Collect(o), turn = Nobody PROVE IdleCall(d)'
  <2>1. \A p \in Order : CallOf[p] # CallOf[o] => pc'[p] = pc[p] /\ result'[p] = result[p]
    <3>1. CASE CancelRest(o)
      BY <3>1 DEF CancelRest
    <3>2. CASE pc' = [pc EXCEPT ![o] = "done"] /\ UNCHANGED result
      BY <3>2
    <3>. QED  BY <1>4, <3>1, <3>2 DEF Collect
  <2>2. turn' = CallOf[o] /\ UNCHANGED calls
    BY <1>4 DEF Collect
  <2>3. CASE d # CallOf[o]
    BY <1>4, <2>1, <2>2, <2>3, IdleCallKept DEF Same
  <2>. QED  BY <2>2, <2>3 DEF IdleCall
<1>5. ASSUME NEW c \in Call, Submit(c), turn = Nobody PROVE IdleCall(d)'
  <2>1. CASE d # c
    <3>1. Same(d) /\ calls'[d] = calls[d]
      BY <1>5, <2>1 DEF Submit, Same
    <3>. QED  BY <1>5, <3>1, IdleCallKept
  <2>2. CASE d = c
    BY <1>5, <2>2 DEF Submit, IdleCall
  <2>. QED  BY <2>1, <2>2
<1>6. ASSUME NEW c \in Call, Return(c), turn = Nobody PROVE IdleCall(d)'
  <2>1. CASE d # c
    <3>1. Same(d) /\ calls'[d] = calls[d]
      <4>1. \A p \in Order : result \in [Order -> {"none", "passed", "failed"}]
        BY DEF TypeOK
      <4>. QED  BY <1>6, <2>1, <4>1 DEF Return, Same
    <3>. QED  BY <1>6, <3>1, IdleCallKept
  <2>2. CASE d = c
    BY <1>6, <2>2 DEF Return, IdleCall
  <2>. QED  BY <2>1, <2>2
<1>7. CASE Crash
  BY <1>7 DEF Crash, IdleCall
<1>. QED  BY <1>1, <1>2, <1>3, <1>4, <1>5, <1>6, <1>7, NextIs

\* The orders of a call that has returned do not move any more, and when a call
\* returns, what is left over was not ready.
LEMMA SweptKept == ASSUME IInv, [Next]_vars PROVE SweptForCause'
<1>. /\ TypeOK /\ Queue /\ Phases /\ Idle /\ SweptForCause /\ Nobody \notin Call
     /\ pc \in [Order -> State] /\ result \in [Order -> {"none", "passed", "failed"}]
     /\ calls \in [Call -> {"new", "open", "returned", "lost"}]
  BY Constants DEF IInv, TypeOK
<1>. USE DEF looping, closing, workers, gate, ledger
<1>. SUFFICES ASSUME NEW s \in Order, pc'[s] = "swept" PROVE ~Ready(s)'
  BY DEF SweptForCause
<1>c. CallOf[s] \in Call
  BY OfOrder
<1>a. ASSUME pc[s] = "swept", Same(CallOf[s]) PROVE ~Ready(s)'
  BY <1>a, SameReady DEF SweptForCause
<1>b. ASSUME pc[s] = "swept"
      PROVE  \A p \in Order : CallOf[p] = CallOf[s] => pc[p] \notin Flight \cup {"pending"}
  <2>1. calls[CallOf[s]] = "returned"
    BY <1>b DEF Phases
  <2>. QED  BY <2>1 DEF Phases
<1>1. CASE GateStep
  <2>1. InGate
    BY <1>1, GateStepStays
  <2>2. pc[s] = "swept"
    BY <2>1 DEF InGate, Flight, Gate
  <2>3. Same(CallOf[s])
    BY <1>b, <2>1, <2>2 DEF InGate, Same
  <2>. QED  BY <1>a, <2>2, <2>3
<1>2. ASSUME NEW c \in Call, LoopsEnd(c) PROVE ~Ready(s)'
  BY <1>2, <1>a DEF LoopsEnd, Same
<1>3. ASSUME NEW c \in Call, NEW o \in Order, Dequeue(c, o) PROVE ~Ready(s)'
  <2>1. /\ pc[o] = "pending" /\ pc'[o] # "swept"
        /\ \A p \in Order \ {o} : pc'[p] = pc[p] /\ result'[p] = result[p]
    BY <1>3, EnterMoves DEF Dequeue, CanRun
  <2>2. pc[s] = "swept" /\ s # o
    BY <2>1
  <2>3. Same(CallOf[s])
    BY <1>b, <2>1, <2>2 DEF Same
  <2>. QED  BY <1>a, <2>2, <2>3
<1>4. ASSUME NEW o \in Order, Collect(o) PROVE ~Ready(s)'
  <2>1. \A p \in Order : \/ pc'[p] = pc[p] /\ result'[p] = result[p]
                         \/ /\ pc[p] \in {"settled", "pending"}
                            /\ pc'[p] \in {"done", "cancelled"}
    <3>1. CASE CancelRest(o)
      BY <1>4, <3>1 DEF CancelRest, Collect
    <3>2. CASE pc' = [pc EXCEPT ![o] = "done"] /\ UNCHANGED result
      BY <1>4, <3>2 DEF Collect
    <3>. QED  BY <1>4, <3>1, <3>2 DEF Collect
  <2>2. pc[s] = "swept"
    BY <2>1
  <2>3. Same(CallOf[s])
    BY <1>b, <2>1, <2>2 DEF Same, Flight
  <2>. QED  BY <1>a, <2>2, <2>3
<1>5. ASSUME NEW c \in Call, Submit(c) PROVE ~Ready(s)'
  <2>1. pc[s] = "swept" /\ CallOf[s] # c
    <3>1. CASE CallOf[s] = c
      BY <1>5, <3>1 DEF Submit
    <3>. QED  BY <1>5, <3>1 DEF Submit
  <2>2. Same(CallOf[s])
    BY <1>5, <2>1 DEF Submit, Same
  <2>. QED  BY <1>a, <2>1, <2>2
<1>6. ASSUME NEW c \in Call, Return(c), turn = Nobody PROVE ~Ready(s)'
  <2>1. \A p \in Order :
          \/ pc'[p] = pc[p] /\ result'[p] = result[p]
          \/ CallOf[p] = c /\ pc[p] = "pending" /\ pc'[p] = "swept"
    BY <1>6 DEF Return
  <2>2. \A p \in Order : Completed(p)' = Completed(p) /\ FailedOrder(p)' = FailedOrder(p)
    BY <2>1 DEF Completed, FailedOrder
  <2>3. Ready(s)' = Ready(s)
    BY <2>2, ReadySame
  <2>4. CASE pc[s] = "swept"
    BY <2>3, <2>4 DEF SweptForCause
  <2>5. CASE CallOf[s] = c /\ pc[s] = "pending"
    <3>1. calls[c] = "open" /\ turn # c /\ InQueueFlight(c) = {}
      BY <1>6 DEF Return
    <3>2. ~Ready(s)
      BY <2>5, <3>1 DEF Idle
    <3>. QED  BY <2>3, <3>2
  <2>. QED  BY <2>1, <2>4, <2>5
<1>7. CASE Crash
  <2>1. pc[s] = "swept"
    BY <1>7 DEF Crash
  <2>2. Same(CallOf[s])
    BY <1>7, <1>b, <2>1 DEF Crash, Same
  <2>. QED  BY <1>a, <2>1, <2>2
<1>. QED  BY <1>1, <1>2, <1>3, <1>4, <1>5, <1>6, <1>7, NextIs

-----------------------------------------------------------------------------
(* The theorems.                                                           *)

LEMMA InitIInv == Init => IInv
<1>. SUFFICES ASSUME Init PROVE IInv
  OBVIOUS
<1>. USE DEF Init
<1>1. TypeOK
  BY StatesAre, EmptySeq DEF TypeOK
<1>2. Queue
  BY DEF Queue, Distinct
<1>3. Phases
  BY OfOrder DEF Phases, Flight, Gate
<1>4. Slots
  <2>1. \A r : Holders(r, slot) = {}
    BY DEF Holders
  <2>2. IsFiniteSet(slot) /\ \A r \in Role : active[r] = 0 /\ Cardinality(Holders(r, slot)) = 0
    BY <2>1, FS_EmptySet
  <2>3. \A r \in Role : Cap[r] \in Nat
    BY Constants
  <2>4. active["explore"] = 0 /\ active["write"] = 0
    BY DEF Role
  <2>5. \A p \in Order : pc[p] \notin {"granted", "running", "packing"}
    OBVIOUS
  <2>6. slot = {} /\ TotalCap \in Nat
    BY TotalCapIs
  <2>. HIDE DEF Init
  <2>. QED  BY <2>2, <2>3, <2>4, <2>5, <2>6 DEF Slots
<1>5. Apart
  BY DEF Apart, Running
<1>6. Reserved
  BY DEF Reserved, Ahead
<1>7. Signals
  BY DEF Signals
<1>8. Idle
  BY DEF Idle
<1>9. SweptForCause
  BY DEF SweptForCause
<1>. QED  BY <1>1, <1>2, <1>3, <1>4, <1>5, <1>6, <1>7, <1>8, <1>9 DEF IInv

LEMMA StepIInv == IInv /\ [Next]_vars => IInv'
BY TypesKept, QueueKept, PhasesKept, SlotsKept, ApartKept, ReservedKept, SignalsKept,
   IdleKept, SweptKept DEF IInv

LEMMA AlwaysIInv == Spec => []IInv
<1>. QED  BY InitIInv, StepIInv, PTL DEF Spec

\* Every variable keeps its type, in particular no counter of slots falls below zero
\* (releaseWorkerSlot takes one off without a look at the counter).
THEOREM TypeCorrect == Spec => []TypeOK
<1>1. IInv => TypeOK
  BY DEF IInv
<1>. QED  BY <1>1, AlwaysIInv, PTL

\* The counters are right and within the caps, whatever ends the waits and the workers
\* (acquireWorkerSlot, wakeEligibleWaiter, the finally block of the gate).
THEOREM CapsHoldHolds == Spec => []CapsHold
<1>1. IInv => CapsHold
  BY DEF IInv, CapsHold, Slots, Holders, Running
<1>. QED  BY <1>1, AlwaysIInv, PTL

\* No two workers that are waited for meet in a file that one of them writes, also when
\* one has asked for the other (checkGlobalFileConflict, inflightFiles).
THEOREM WritersExclusiveHolds == Spec => []WritersExclusive
<1>1. IInv => WritersExclusive
  BY DEF IInv, WritersExclusive, Apart
<1>. QED  BY <1>1, AlwaysIInv, PTL

\* What a batch leaves undone could not be done: the cause is a dependency that did not
\* pass (runLoop of the queue, and the sweep at the end of delegateBatch).
THEOREM SweptForCauseHolds == Spec => []SweptForCause
<1>1. IInv => SweptForCause
  BY DEF IInv
<1>. QED  BY <1>1, AlwaysIInv, PTL

\* Who comes to run does so by Start, from a slot that was granted.
LEMMA OnlyStartStarts ==
  ASSUME IInv, [Next]_vars, NEW o \in Order, Starts(o)
  PROVE  /\ pc[o] = "granted" /\ ~Aborted(CallOf[o])
<1>. TypeOK /\ Queue /\ pc \in [Order -> State]
  BY DEF IInv, TypeOK
<1>. USE DEF looping, closing, workers, gate, ledger, Starts
<1>1. ASSUME NEW p \in Order, Start(p) PROVE pc[o] = "granted" /\ ~Aborted(CallOf[o])
  <2>1. \/ \E x \in {"leaving", "packing"} : pc' = [pc EXCEPT ![p] = x]
        \/ ~Aborted(CallOf[p]) /\ pc' = [pc EXCEPT ![p] = "running"]
    BY <1>1 DEF Start
  <2>2. p = o /\ ~Aborted(CallOf[p])
    BY <2>1
  <2>. QED  BY <1>1, <2>2 DEF Start
<1>2. ASSUME NEW p \in Order, Resume(p) PROVE FALSE
  <2>1. \E x \in {"leaving", "waiting", "granted"} : pc' = [pc EXCEPT ![p] = x]
    BY <1>2 DEF Resume, Fail, Take
  <2>. QED  BY <2>1
<1>3. ASSUME NEW p \in Order, Finish(p) \/ Leave(p) PROVE FALSE
  <2>1. CASE Release(p)
    BY <1>3, <2>1, ReleaseMoves DEF Finish, Leave
  <2>2. CASE pc' = [pc EXCEPT ![p] = "leaving"]
    BY <2>2
  <2>. QED  BY <1>3, <2>1, <2>2 DEF Finish, Leave, Record
<1>4. ASSUME NEW p \in Order, Event(p) PROVE FALSE
  BY <1>4 DEF Event, WorkerEnds, Kill, GraceOver, LateEnd
<1>5. ASSUME NEW i \in DOMAIN waiters, GiveUp(i) PROVE FALSE
  BY <1>5 DEF GiveUp, Fail
<1>6. ASSUME NEW c \in Call, NEW p \in Order, Dequeue(c, p) PROVE FALSE
  BY <1>6, EnterMoves DEF Dequeue
<1>7. ASSUME NEW p \in Order, Collect(p) PROVE FALSE
  BY <1>7 DEF Collect, CancelRest
<1>8. ASSUME NEW c \in Call, Submit(c) \/ Return(c) \/ CallerAborts(c) \/ LoopsEnd(c)
      PROVE  FALSE
  BY <1>8 DEF Submit, Return, CallerAborts, LoopsEnd
<1>9. CASE Shutdown \/ ShutdownReturns \/ Crash \/ UNCHANGED vars
  BY <1>9 DEF Shutdown, AbortInFlight, ShutdownReturns, Crash, vars
<1>. QED
  BY <1>1, <1>2, <1>3, <1>4, <1>5, <1>6, <1>7, <1>8, <1>9
     DEF Next, TurnStep, Continue

\* A task is not executed a second time before it has passed, for any number of calls,
\* crashes and failing writes (begin and finish of WorkerTerminalPolicy).
THEOREM NoRepeatHolds == Spec => NoRepeat
<1>1. IInv /\ [Next]_vars => [\A o \in Order : Starts(o) => TaskOf[o] \notin spent]_vars
  BY OnlyStartStarts DEF IInv, Reserved, Ahead
<1>. QED  BY <1>1, AlwaysIInv, PTL DEF Spec, NoRepeat

\* After shutdownAndWait no order gets a worker: the waiting ones find the flag, and the
\* nested ones the aborted signal of the worker that has asked for them.
THEOREM NoStartAfterShutdownHolds == Spec => NoStartAfterShutdown
<1>1. ASSUME IInv, [Next]_vars, NEW o \in Order, Starts(o) PROVE shutdown = "no"
  <2>. DEFINE c == CallOf[o]
              p == CallerOf[c]
  <2>1. pc[o] = "granted" /\ ~Aborted(c)
    BY <1>1, OnlyStartStarts
  <2>2. c \in Call /\ calls[c] = "open"
    BY <1>1, <2>1, OfOrder DEF IInv, Phases, Flight, Gate
  <2>. SUFFICES ASSUME shutdown # "no" PROVE FALSE
    OBVIOUS
  <2>3. p # Main
    BY <1>1, <2>1 DEF IInv, Signals, Nested
  <2>4. p \in Order /\ CallerOf[CallOf[p]] = Main
    BY <2>2, <2>3, Constants
  <2>5. pc[p] = "running" \/ Cut(p)
    BY <1>1, <2>2, <2>3 DEF IInv, Signals
  <2>6. pc[p] = "running" => p \in cut
    BY <1>1, <2>4 DEF IInv, Signals, Nested
  <2>7. p \in cut \/ CallOf[p] \in quit
    BY <2>4, <2>5, <2>6 DEF Cut, Aborted
  <2>. QED  BY <2>1, <2>3, <2>7 DEF Aborted
<1>2. IInv /\ [Next]_vars => [\A o \in Order : Starts(o) => shutdown = "no"]_vars
  BY <1>1
<1>. QED  BY <1>2, AlwaysIInv, PTL DEF Spec, NoStartAfterShutdown

-----------------------------------------------------------------------------
(* Wake-ups.                                                               *)

\* No pool is smaller than the whole: the caps of the configuration left out.
OnePool == \A r \in Role : Cap[r] = TotalCap

Busy == active["explore"] + active["write"]

Woken == {o \in Order : pc[o] = "woken"}

Live == {i \in DOMAIN waiters : ~Aborted(CallOf[waiters[i]])}

\* While somebody waits in earnest, the workers and the woken orders use up the slots;
\* once the coordinator is shut down nobody waits.
Wakes ==
  /\ shutdown # "no" => waiters = <<>>
  /\ shutdown = "no" => /\ IsFiniteSet(Woken)
                        /\ Live # {} => Busy + Cardinality(Woken) >= TotalCap

LEMMA HasFreeIs ==
  ASSUME OnePool, NEW n \in [Role -> Nat], NEW r \in Role
  PROVE  HasFree(n, r) <=> n["explore"] + n["write"] < TotalCap
<1>1. n["explore"] \in Nat /\ n["write"] \in Nat /\ r \in {"explore", "write"}
  BY DEF Role
<1>2. Cap[r] = TotalCap /\ TotalCap \in Nat
  BY TotalCapIs DEF OnePool
<1>3. n[r] = n["explore"] \/ n[r] = n["write"]
  BY <1>1
<1>. QED  BY <1>1, <1>2, <1>3 DEF HasFree

LEMMA BusyIs == ASSUME TypeOK PROVE Busy \in Nat
BY DEF TypeOK, Busy, Role

LEMMA TakeBusy ==
  ASSUME TypeOK, NEW o \in Order, Take(o) PROVE Busy' = Busy + 1
<1>1. active \in [Role -> Nat] /\ Role = {"explore", "write"}
  BY DEF TypeOK, Role
<1>2. active["explore"] \in Nat /\ active["write"] \in Nat
  BY <1>1
<1>3. \/ active' = [active EXCEPT !["explore"] = @ + 1]
      \/ active' = [active EXCEPT !["write"] = @ + 1]
  BY DEF Take, RoleOf
<1>. QED  BY <1>1, <1>2, <1>3 DEF Busy

\* Fewer wait in earnest, and nothing else of Wakes changes.
LEMMA FewerLive ==
  ASSUME TypeOK, Queue, Wakes, shutdown = "no", shutdown' = "no",
         Live' # {} => Live # {}, Busy' + Cardinality(Woken') >= Busy + Cardinality(Woken),
         IsFiniteSet(Woken'), Busy' \in Nat
  PROVE  Wakes'
<1>1. Cardinality(Woken') \in Nat /\ IsFiniteSet(Woken)
  BY FS_CardinalityType DEF Wakes
<1>2. Cardinality(Woken) \in Nat /\ Busy \in Nat /\ TotalCap \in Nat
  BY <1>1, FS_CardinalityType, BusyIs, TotalCapIs
<1>. QED  BY <1>1, <1>2 DEF Wakes

\* All slots are taken.
LEMMA AllTaken ==
  ASSUME shutdown' = "no", IsFiniteSet(Woken'), Busy' \in Nat, Busy' >= TotalCap
  PROVE  Wakes'
<1>1. Cardinality(Woken') \in Nat /\ TotalCap \in Nat
  BY FS_CardinalityType, TotalCapIs
<1>. QED  BY <1>1 DEF Wakes

LEMMA WakesKept == ASSUME OnePool, IInv, Wakes, [Next]_vars PROVE Wakes'
<1>. TypeOK /\ Queue /\ Phases /\ Slots /\ waiters \in Seq(Order) /\ pc \in [Order -> State]
  BY DEF IInv, TypeOK
<1>. TypeOK' /\ Busy \in Nat /\ Busy' \in Nat /\ TotalCap \in Nat
  <2>1. TypeOK' => Busy' \in Nat
    BY DEF TypeOK, Busy, Role
  <2>. QED  BY <2>1, TypesKept, BusyIs, TotalCapIs
<1>. USE DEF looping, closing, workers, gate, ledger
<1>w. \A i \in DOMAIN waiters : waiters[i] \in Order /\ pc[waiters[i]] = "waiting"
  BY WaiterIs
<1>f. \A o : ~HasFree(active, RoleOf(o)) => Busy >= TotalCap
  <2>1. \A r \in Role : HasFree(active, r) <=> Busy < TotalCap
    BY HasFreeIs DEF TypeOK, Busy
  <2>. QED  BY <2>1, RoleIs
<1>. DEFINE Shorter == \A i \in DOMAIN waiters' :
                         \E j \in DOMAIN waiters : waiters'[i] = waiters[j]
            Signalled == cut \subseteq cut' /\ quit \subseteq quit'
<1>a. ASSUME Shorter, Signalled, Live' # {} PROVE Live # {}
  <2>1. PICK i \in Live' : i \in DOMAIN waiters'
    BY <1>a DEF Live
  <2>2. PICK j \in DOMAIN waiters : waiters'[i] = waiters[j]
    BY <1>a, <2>1
  <2>3. ~Aborted(CallOf[waiters[j]])
    BY <1>a, <2>1, <2>2 DEF Live, Aborted
  <2>. QED  BY <2>3 DEF Live
<1>b. ASSUME Shorter, Signalled, shutdown' = shutdown, active' = active, Woken' = Woken
      PROVE  Wakes'
  <2>1. CASE shutdown # "no"
    <3>1. DOMAIN waiters = {}
      BY <2>1 DEF Wakes
    <3>2. DOMAIN waiters' = {}
      BY <1>b, <3>1
    <3>3. waiters' \in Seq(Order)
      BY DEF TypeOK
    <3>4. waiters' = <<>>
      BY <3>2, <3>3, EmptySeq, LenProperties
    <3>. QED  BY <1>b, <2>1, <3>4 DEF Wakes
  <2>2. CASE shutdown = "no"
    <3>1. IsFiniteSet(Woken) /\ Busy' = Busy
      BY <1>b, <2>2 DEF Wakes, Busy
    <3>2. Live' # {} => Live # {}
      BY <1>a, <1>b
    <3>3. Cardinality(Woken) \in Nat
      BY <3>1, FS_CardinalityType
    <3>. QED  BY <1>b, <2>2, <3>1, <3>2, <3>3, FewerLive
  <2>. QED  BY <2>1, <2>2
<1>c. ASSUME UNCHANGED <<waiters, shutdown, active>>, Signalled,
             \A p \in Order : pc'[p] = "woken" <=> pc[p] = "woken"
      PROVE  Wakes'
  <2>1. Woken' = Woken
    BY <1>c DEF Woken
  <2>. QED  BY <1>b, <1>c, <2>1
\* An order enters or comes back from the wait.
<1>d. ASSUME NEW o \in Order, pc[o] \in {"pending", "woken"}, shutdown' = shutdown,
             \E x \in {"leaving", "waiting"} : pc' = [pc EXCEPT ![o] = x],
             active' = active, waiters' = waiters \/ shutdown = "no",
             shutdown # "no" \/ Busy >= TotalCap
      PROVE  Wakes'
  <2>1. CASE shutdown # "no"
    BY <1>d, <2>1 DEF Wakes
  <2>2. CASE shutdown = "no"
    <3>1. Woken' \subseteq Woken
      BY <1>d DEF Woken
    <3>2. IsFiniteSet(Woken') /\ Busy' = Busy
      BY <1>d, <2>2, <3>1, FS_Subset DEF Wakes, Busy
    <3>. QED  BY <1>d, <2>2, <3>2, AllTaken
  <2>. QED  BY <2>1, <2>2
<1>e. ASSUME NEW o \in Order, pc[o] \in {"pending", "woken"}, shutdown = "no",
             UNCHANGED <<shutdown, waiters>>, Signalled, Take(o)
      PROVE  Wakes'
  <2>1. Woken' = Woken \ {o} /\ Busy' = Busy + 1
    BY <1>e, TakeBusy DEF Woken, Take
  <2>2. IsFiniteSet(Woken)
    BY <1>e DEF Wakes
  <2>3. /\ IsFiniteSet(Woken')
        /\ \/ Cardinality(Woken') = Cardinality(Woken)
           \/ Cardinality(Woken') = Cardinality(Woken) - 1
    <3>1. CASE o \in Woken
      BY <2>1, <2>2, <3>1, FS_RemoveElement
    <3>2. CASE o \notin Woken
      BY <2>1, <2>2, <3>2
    <3>. QED  BY <3>1, <3>2
  <2>4. Cardinality(Woken) \in Nat /\ Cardinality(Woken') \in Nat
    BY <2>2, <2>3, FS_CardinalityType
  <2>5. Live' # {} => Live # {}
    BY <1>a, <1>e
  <2>. QED  BY <1>e, <2>1, <2>3, <2>4, <2>5, FewerLive
<1>g. ASSUME NEW o \in Order, pc[o] \in {"packing", "leaving"}, Release(o), Signalled,
             shutdown' = shutdown
      PROVE  Wakes'
  <2>1. CASE pc' = [pc EXCEPT ![o] = "settled"] /\ UNCHANGED <<active, waiters>>
    BY <1>c, <1>g, <2>1
  <2>2. CASE o \in slot
    <3>. DEFINE n == [active EXCEPT ![RoleOf(o)] = @ - 1]
    <3>1. active' = n /\ WakeFirst(o, n)
      BY <1>g, <2>2 DEF Release
    <3>2. n \in [Role -> Nat] /\ Busy' = Busy - 1 /\ Busy' = n["explore"] + n["write"]
      <4>1. n \in [Role -> Nat]
        BY <2>2, ActiveDrops
      <4>2. active \in [Role -> Nat] /\ Role = {"explore", "write"}
        BY DEF TypeOK, Role
      <4>3. n = [active EXCEPT !["explore"] = @ - 1] \/ n = [active EXCEPT !["write"] = @ - 1]
        BY DEF RoleOf
      <4>4. active["explore"] \in Nat /\ active["write"] \in Nat
        BY <4>2
      <4>5. n["explore"] + n["write"] = Busy - 1
        BY <4>2, <4>3, <4>4 DEF Busy
      <4>. QED  BY <3>1, <4>1, <4>5 DEF Busy
    <3>. DEFINE can == {i \in DOMAIN waiters : Eligible(n, i)}
    <3>3. \A i \in DOMAIN waiters : i \in can <=> i \in Live /\ Busy' < TotalCap
      <4>1. \A r \in Role : HasFree(n, r) <=> Busy' < TotalCap
        BY <3>2, HasFreeIs
      <4>. HIDE DEF n
      <4>. QED  BY <4>1, RoleIs DEF Eligible, Live
    <3>. HIDE DEF n
    <3>4. CASE shutdown # "no"
      <4>1. DOMAIN waiters = {}
        BY <3>4 DEF Wakes
      <4>2. waiters' = waiters
        BY <3>1, <4>1 DEF WakeFirst
      <4>. QED  BY <1>g, <3>4, <4>2 DEF Wakes
    <3>5. CASE shutdown = "no" /\ can = {}
      <4>1. pc' = [pc EXCEPT ![o] = "settled"] /\ UNCHANGED waiters
        BY <3>1, <3>5 DEF WakeFirst
      <4>2. Woken' = Woken
        BY <1>g, <4>1 DEF Woken
      <4>3. IsFiniteSet(Woken') /\ shutdown' = "no"
        BY <1>g, <3>5, <4>2 DEF Wakes
      <4>4. CASE Busy' >= TotalCap
        BY <4>3, <4>4, AllTaken
      <4>5. CASE Live = {}
        <5>1. Live' = {}
          BY <1>a, <1>g, <4>1, <4>5
        <5>. QED  BY <4>3, <5>1 DEF Wakes
      <4>. QED  BY <3>3, <3>5, <4>4, <4>5 DEF Live
    <3>6. CASE shutdown = "no" /\ can # {}
      <4>1. PICK i \in DOMAIN waiters :
              /\ i \in can
              /\ pc' = [pc EXCEPT ![o] = "settled", ![waiters[i]] = "woken"]
              /\ waiters' = Without(waiters, i)
        BY <3>1, <3>6 DEF WakeFirst
      <4>2. Live # {}
        BY <3>3, <4>1
      <4>3. Woken' = Woken \cup {waiters[i]} /\ waiters[i] \notin Woken
        BY <1>g, <1>w, <4>1 DEF Woken
      <4>4. IsFiniteSet(Woken)
        BY <3>6 DEF Wakes
      <4>5. IsFiniteSet(Woken') /\ Cardinality(Woken') = Cardinality(Woken) + 1
            /\ Cardinality(Woken) \in Nat
        BY <4>3, <4>4, FS_AddElement, FS_CardinalityType
      <4>. QED  BY <1>g, <3>2, <3>6, <4>2, <4>5, FewerLive
    <3>. QED  BY <3>4, <3>5, <3>6
  <2>. QED  BY <1>g, <2>1, <2>2 DEF Release
<1>1. ASSUME NEW c \in Call, LoopsEnd(c) PROVE Wakes'
  BY <1>1, <1>c DEF LoopsEnd
<1>2. ASSUME NEW c \in Call, NEW o \in Order, Dequeue(c, o) PROVE Wakes'
  <2>. pc[o] = "pending" /\ Enter(o) /\ UNCHANGED <<shutdown, cut, quit>>
    BY <1>2 DEF Dequeue, CanRun
  <2>1. CASE /\ UNCHANGED <<active, waiters>>
             /\ \E x \in {"leaving", "granted"} : pc' = [pc EXCEPT ![o] = x]
    BY <2>1, <1>c
  <2>2. CASE Take(o) /\ UNCHANGED waiters /\ shutdown = "no"
    BY <2>2, <1>e
  <2>3. CASE /\ shutdown = "no" /\ ~HasFree(active, RoleOf(o)) /\ active' = active
             /\ pc' = [pc EXCEPT ![o] = "waiting"]
    BY <2>3, <1>d, <1>f
  <2>. QED  BY <2>1, <2>2, <2>3 DEF Enter, Fail
<1>3. ASSUME NEW o \in Order, Resume(o) PROVE Wakes'
  <2>. pc[o] = "woken" /\ UNCHANGED <<shutdown, cut, quit>>
    BY <1>3 DEF Resume
  <2>1. CASE Fail(o) /\ UNCHANGED gate /\ (shutdown # "no" \/ ~HasFree(active, RoleOf(o)))
    <3>1. pc' = [pc EXCEPT ![o] = "leaving"] /\ UNCHANGED <<active, waiters>>
      BY <2>1 DEF Fail
    <3>. QED  BY <2>1, <3>1, <1>d, <1>f
  <2>2. CASE Take(o) /\ UNCHANGED waiters /\ shutdown = "no"
    BY <2>2, <1>e
  <2>3. CASE /\ shutdown = "no" /\ ~HasFree(active, RoleOf(o)) /\ active' = active
             /\ pc' = [pc EXCEPT ![o] = "waiting"]
    BY <2>3, <1>d, <1>f
  <2>. QED  BY <1>3, <2>1, <2>2, <2>3 DEF Resume
<1>4. ASSUME NEW i \in DOMAIN waiters, GiveUp(i) PROVE Wakes'
  <2>1. /\ pc' = [pc EXCEPT ![waiters[i]] = "leaving"] /\ waiters' = Without(waiters, i)
        /\ UNCHANGED <<active, shutdown, cut, quit>>
    BY <1>4 DEF GiveUp, Fail
  <2>2. Woken' = Woken
    BY <1>w, <2>1 DEF Woken
  <2>3. Shorter
    BY <2>1, WaiterIs
  <2>. QED  BY <1>b, <2>1, <2>2, <2>3
<1>5. ASSUME NEW o \in Order, Start(o) PROVE Wakes'
  <2>1. /\ pc[o] = "granted"
        /\ \E x \in {"leaving", "packing", "running"} : pc' = [pc EXCEPT ![o] = x]
        /\ UNCHANGED <<active, waiters, shutdown, cut, quit>>
    BY <1>5 DEF Start
  <2>. QED  BY <1>c, <2>1
<1>6. ASSUME NEW o \in Order, WorkerEnds(o) \/ Kill(o) \/ GraceOver(o) \/ LateEnd(o)
      PROVE  Wakes'
  BY <1>6, <1>c DEF WorkerEnds, Kill, GraceOver, LateEnd
<1>7. ASSUME NEW o \in Order, Finish(o) PROVE Wakes'
  <2>1. CASE Release(o)
    BY <1>7, <1>g, <2>1 DEF Finish
  <2>2. CASE pc' = [pc EXCEPT ![o] = "leaving"] /\ UNCHANGED <<active, waiters>>
    BY <1>7, <1>c, <2>2 DEF Finish
  <2>. QED  BY <1>7, <2>1, <2>2 DEF Finish, Record
<1>8. ASSUME NEW o \in Order, Leave(o) PROVE Wakes'
  BY <1>8, <1>g DEF Leave
<1>9. ASSUME NEW o \in Order, Collect(o) PROVE Wakes'
  BY <1>9, <1>c DEF Collect, CancelRest
<1>10. ASSUME NEW c \in Call, Submit(c) PROVE Wakes'
  <2>1. \A p \in Order : pc[p] = "woken" => CallOf[p] # c
    BY <1>10 DEF Phases, Submit, Flight, Gate
  <2>. QED  BY <1>10, <1>c, <2>1 DEF Submit
<1>11. ASSUME NEW c \in Call, Return(c) \/ CallerAborts(c) PROVE Wakes'
  BY <1>11, <1>c DEF Return, CallerAborts
<1>12. CASE Shutdown
  BY <1>12 DEF Shutdown, AbortInFlight, Wakes
<1>13. CASE ShutdownReturns
  BY <1>13 DEF ShutdownReturns, Wakes
<1>14. CASE Crash
  <2>1. Woken' = {}
    BY <1>14 DEF Crash, Woken, Flight, Gate
  <2>2. waiters' = <<>>
    BY <1>14 DEF Crash
  <2>3. Live' = {}
    BY <2>2 DEF Live
  <2>. QED  BY <2>1, <2>2, <2>3, FS_EmptySet DEF Wakes
<1>15. CASE UNCHANGED vars
  BY <1>15, <1>c DEF vars
<1>. QED
  BY <1>1, <1>2, <1>3, <1>4, <1>5, <1>6, <1>7, <1>8, <1>9, <1>10, <1>11, <1>12, <1>13,
     <1>14, <1>15 DEF Next, TurnStep, Continue, Event

\* No slot stays free beside somebody who waits for one, however waits end: an order that
\* leaves wakes one waiter, and no order that is woken leaves its slot to nobody
\* (acquireWorkerSlot, wakeEligibleWaiter).  With a pool smaller than the whole a woken
\* order may find no slot of its role while one of the other role stays free.
THEOREM NoIdleSlotHolds == ASSUME OnePool PROVE Spec => []NoIdleSlot
<1>1. Init => Wakes
  <2>. SUFFICES ASSUME Init PROVE Wakes
    OBVIOUS
  <2>1. Woken = {} /\ Live = {}
    BY DEF Init, Woken, Live
  <2>. QED  BY <2>1, FS_EmptySet DEF Init, Wakes
<1>2. IInv /\ Wakes /\ [Next]_vars => Wakes'
  BY WakesKept
<1>3. IInv /\ Wakes => NoIdleSlot
  <2>. SUFFICES ASSUME IInv, Wakes, NEW i \in DOMAIN waiters, Eligible(active, i)
                PROVE  \E o \in Order : pc[o] = "woken" /\ HasFree(active, RoleOf(o))
    BY DEF NoIdleSlot
  <2>1. TypeOK /\ active \in [Role -> Nat] /\ Busy \in Nat /\ TotalCap \in Nat
    BY BusyIs, TotalCapIs DEF IInv, TypeOK
  <2>2. \A r \in Role : HasFree(active, r) <=> Busy < TotalCap
    BY <2>1, HasFreeIs DEF Busy
  <2>3. i \in Live /\ Busy < TotalCap /\ shutdown = "no"
    BY <2>2, RoleIs DEF Eligible, Live, Wakes
  <2>4. IsFiniteSet(Woken) /\ Busy + Cardinality(Woken) >= TotalCap
    BY <2>3 DEF Wakes
  <2>5. Cardinality(Woken) # 0
    BY <2>1, <2>3, <2>4
  <2>6. PICK o \in Order : pc[o] = "woken"
    BY <2>4, <2>5, FS_EmptySet DEF Woken
  <2>. QED  BY <2>2, <2>3, <2>6, RoleIs
<1>. QED  BY <1>1, <1>2, <1>3, InitIInv, StepIInv, PTL DEF Spec
=============================================================================
