---------------------------- MODULE MCStoreLock ----------------------------
(***************************************************************************)
(* Small instances of StoreLock.  Incarnations a and c share a pid, so each *)
(* can be the process that reuses the other's; b and d are their rivals.    *)
(***************************************************************************)
EXTENDS StoreLock

CONSTANTS a, b, c, d, noId, mid, host, far

TwoProcs   == {a, b}
ThreeProcs == {a, b, c}
FourProcs  == {a, b, c, d}

PidReuse   == [p \in FourProcs |-> CASE p = b -> 2 [] p = d -> 3 [] OTHER -> 1]
OneMachine == [p \in FourProcs |-> host]
SameId     == [p \in FourProcs |-> mid]

\* An upgrade: a has left a record without a machine id under the former name of the
\* host, and under the pid that b has now; c is a release without sidecar.lock.
UpgradePid  == [p \in FourProcs |-> CASE p = c -> 3 [] p = d -> 4 [] OTHER -> 2]
UpgradeHost == [p \in FourProcs |-> IF p = a THEN far ELSE host]
UpgradeId   == [p \in FourProcs |-> IF p \in {a, c} THEN noId ELSE mid]
=============================================================================
