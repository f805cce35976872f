-------------------------- MODULE MCRequirementIds --------------------------
(***************************************************************************)
(* Small instances of RequirementIds: branches and decision ids are        *)
(* interchangeable.                                                        *)
(***************************************************************************)
EXTENDS RequirementIds, TLC

CONSTANTS b1, b2, b3, d1, d2, d3

Symmetry == Permutations(Worktrees) \cup Permutations(Decisions)
=============================================================================
