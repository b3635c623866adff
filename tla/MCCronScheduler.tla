--------------------------- MODULE MCCronScheduler ---------------------------
(***************************************************************************)
(* CronScheduler for TLC.                                                  *)
(***************************************************************************)
EXTENDS CronScheduler

\* A oneshot of now or later, and a moment for everything else.
MCAts == [t \in Tasks |-> IF t \in OneShots THEN {0, 1} ELSE {1}]

\* The file starts empty or with the oneshot.
MCLeft == {{}, OneShots}
=============================================================================
