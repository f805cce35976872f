--------------------------- MODULE MCRuntimeStore ---------------------------
(***************************************************************************)
(* TLC instance of RuntimeStore.  Sessions, objects and processes are      *)
(* model values; transaction ids are numbers because they are ordered.     *)
(***************************************************************************)
EXTENDS RuntimeStore, TLC

CONSTANTS p1, p2, s1, s2

\* Processes differ in nothing but their name.
Symmetry == Permutations(Procs)
=============================================================================
