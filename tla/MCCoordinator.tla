--------------------------- MODULE MCCoordinator ---------------------------
(***************************************************************************)
(* Small instances of Coordinator: calls a and b of the main agent, and    *)
(* nest of the worker of r1, a planner.                                    *)
(***************************************************************************)
EXTENDS Coordinator

CONSTANTS a, b, nest, r1, r2, r3, w1, w2, n1, f, g, t1, t2, t3, t4

\* a: readers r1 and r3, of which one is enough, and a writer that needs r1 or else r3;
\* b: a reader r2, a writer w2; nest: a writer.  The writers have the same task, and all
\* but the planner work on f.
Calls   == [o \in Order |-> CASE o \in {r2, w2} -> b [] o = n1 -> nest [] OTHER -> a]
Callers == [c \in Call |-> IF c = nest THEN r1 ELSE Main]
Tasks   == [o \in Order |-> CASE o \in Writers -> t1 [] o = r1 -> t2 [] o = r2 -> t3
                              [] OTHER -> t4]
Files   == [o \in Order |-> IF o = r1 THEN {g} ELSE {f}]
Deps    == [o \in Order |-> IF o = w1 THEN {r1} ELSE {}]
Instead == [o \in Order |-> [d \in Order |-> IF o = w1 THEN {r3} \cap Order ELSE {}]]
Quorums == [c \in Call |-> IF c = a THEN 1 ELSE 0]

Pools   == [r \in Role |-> IF r = "explore" THEN 2 ELSE 1]
Single  == [r \in Role |-> 1]
=============================================================================
