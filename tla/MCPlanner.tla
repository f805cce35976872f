----------------------------- MODULE MCPlanner -----------------------------
(***************************************************************************)
(* Small instances of Planner: two decisions with one title, of two        *)
(* domains.                                                                *)
(***************************************************************************)
EXTENDS Planner, TLC

CONSTANTS s1, s2, d1, d2, p1, p2, e1

MCTitle == [d \in Decisions |-> "title"]

MCDomain == [d \in Decisions |-> IF d = d1 THEN "technical" ELSE "ops"]

Symmetry == Permutations(Sessions) \cup Permutations(Proposals)
=============================================================================
