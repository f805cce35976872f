---------------------------- MODULE MCSourceStore ----------------------------
(* Instances of SourceStore: versions of one source.  Two strategies       *)
(* decompose the first; one of them drops a unit.                          *)
EXTENDS SourceStore, TLC

CONSTANTS v1, v2, v3, xml, text, u1, u2

MCUnitsOf ==
    [d \in Docs |-> [s \in Strategies |->
        CASE d # v1 -> {}
          [] s = xml -> {u1, u2}
          [] OTHER -> {u1}]]

(* A first version that is decomposed and cited, and a second one; three   *)
(* versions, which can replace each other in any order; two, and two stops;*)
(* and whoever searches rebuilding the index at any time.                  *)
MCLoads ==
    {[ops |-> {"import", "decompose", "link"}, docs |-> {v1, v2}, fails |-> TRUE, stops |-> 1],
     [ops |-> {"import"}, docs |-> {v1, v2, v3}, fails |-> TRUE, stops |-> 1],
     [ops |-> {"import", "decompose"}, docs |-> {v1, v2}, fails |-> TRUE, stops |-> 2],
     [ops |-> {"import", "decompose", "rebuild"}, docs |-> {v1, v2}, fails |-> FALSE, stops |-> 0]}

Symmetry == Permutations(Procs)
=============================================================================
