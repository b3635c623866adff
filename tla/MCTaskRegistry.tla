--------------------------- MODULE MCTaskRegistry ---------------------------
(***************************************************************************)
(* TaskRegistry for TLC.  The runs differ in their bounds: see the cfgs.   *)
(***************************************************************************)
EXTENDS TaskRegistry, TLC

\* Ids are only compared with one another, so the safety runs may identify the
\* states that differ by their names.
Symmetry == Permutations(Tasks)
=============================================================================
