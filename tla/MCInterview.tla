---------------------------- MODULE MCInterview ----------------------------
(***************************************************************************)
(* Small instances of Interview: one session with a user and, in all but   *)
(* the smallest, another one; all decisions and work items have one title. *)
(***************************************************************************)
EXTENDS Interview, TLC

CONSTANTS s1, s2, d1, d2, p1, p2, e1, OneTitle

SameTitle == [d \in Decisions |-> OneTitle]
SameWorkTitle == [s \in Sessions |-> OneTitle]

Symmetry == Permutations(Proposals)
=============================================================================
