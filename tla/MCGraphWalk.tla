----------------------------- MODULE MCGraphWalk -----------------------------
(* Walks from one object over all sets of up to MaxLinks links of one      *)
(* relation between four objects, and up to three links of two relations, *)
(* one of them reversed.                                                   *)
EXTENDS GraphWalk

CONSTANTS a, b, c, d, MaxLinks

MCNodes == {a, b, c, d}

MCLinks(relations) == [from : MCNodes, relation : relations, to : MCNodes]

MCPlain == {l \in MCLinks({"supports"}) : l.from # l.to}

MCMixed == {l \in MCLinks({"requires", "supports"}) : l.from # l.to}

Upto(n, S) == {{x[i] : i \in 1 .. n} : x \in [1 .. n -> S]}

MCGraphs == {{}} \cup Upto(MaxLinks, MCPlain) \cup Upto(3, MCMixed)

MCDepths == {NoLimit, 0, 1, 2}

(* Every object plays the root in some graph: one root is enough.          *)
MCInit == Init /\ root = a

MCSpec == MCInit /\ [][Next]_vars
=============================================================================
