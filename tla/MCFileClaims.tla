---------------------------- MODULE MCFileClaims ----------------------------
(***************************************************************************)
(* FileClaims for TLC.  A cfg chooses the deployments and the sizes.       *)
(***************************************************************************)
EXTENDS FileClaims

CONSTANTS f1, f2

Each == {{f} : f \in File}

\* One file, or a patch of two.
OneOrBoth == {{f1}, {f1, f2}}

Both == BOOLEAN

SidecarOnly == {TRUE}
=============================================================================
