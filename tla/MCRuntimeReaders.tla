-------------------------- MODULE MCRuntimeReaders --------------------------
(***************************************************************************)
(* TLC instance of RuntimeReaders: one reader beside a writer (a reader    *)
(* changes nothing a writer or another reader looks at).                   *)
(***************************************************************************)
EXTENDS RuntimeReaders, TLC

CONSTANTS p1, p2, s1, s2, r1

Symmetry == Permutations(Procs)
=============================================================================
