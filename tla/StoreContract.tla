--------------------------- MODULE StoreContract ---------------------------
(***************************************************************************)
(* What the session-store lock promises to the rest of the sidecar: the    *)
(* lease on the store belongs to at most one process, leaves a running     *)
(* process only by that process's own release, and passes on when its      *)
(* owner is gone; a process writes only while the lease is its own.  The   *)
(* header of src/src/server/store-lock.ts states it; StoreLock implements  *)
(* it.                                                                     *)
(***************************************************************************)
CONSTANTS Proc, NoOwner

VARIABLES
  up,     \* the running processes
  gone,   \* the ones that have stopped for good
  lease,  \* the owner of the store, which may have died
  writers \* the processes that take themselves for the writer

vars == <<up, gone, lease, writers>>

Init ==
  /\ gone \in SUBSET Proc
  /\ up = {}
  /\ lease \in gone \cup {NoOwner}
  /\ writers = {}

Boot(p) ==
  /\ p \notin up \cup gone
  /\ up' = up \cup {p}
  /\ UNCHANGED <<gone, lease, writers>>

Stop(p) ==
  /\ p \in up
  /\ up' = up \ {p}
  /\ gone' = gone \cup {p}
  /\ writers' = writers \ {p}
  /\ UNCHANGED lease

\* A running process may take a lease that is free or whose owner is gone, and
\* may write at once or later.
Claim(p) ==
  /\ p \in up
  /\ lease \notin up
  /\ lease' = p
  /\ writers' \in {writers, writers \cup {p}}
  /\ UNCHANGED <<up, gone>>

\* A takeover that gets no further than the removal.
Clear ==
  /\ lease \notin up
  /\ lease' = NoOwner
  /\ UNCHANGED <<up, gone, writers>>

Open(p) ==
  /\ lease = p /\ p \in up
  /\ writers' = writers \cup {p}
  /\ UNCHANGED <<up, gone, lease>>

Close(p) ==
  /\ p \in writers
  /\ writers' = writers \ {p}
  /\ UNCHANGED <<up, gone, lease>>

Yield(p) ==
  /\ lease = p /\ p \in up \ writers
  /\ lease' = NoOwner
  /\ UNCHANGED <<up, gone, writers>>

Next ==
  \/ Clear
  \/ \E p \in Proc : Boot(p) \/ Stop(p) \/ Claim(p) \/ Open(p) \/ Close(p) \/ Yield(p)

Spec == Init /\ [][Next]_vars
---------------------------------------------------------------------------
\* At most one process writes the store, and it is the running owner of the lease.
OneWriter == \A p \in writers : lease = p /\ p \in up
=============================================================================
