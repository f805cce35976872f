-------------------------- MODULE MCDraftPromotion --------------------------
(* Instances of DraftPromotion: drafts x and y may be promoted in bulk.    *)
EXTENDS DraftPromotion, TLC

CONSTANTS x, y

Low == {x, y}
LowInOrder == << x, y >>

\* A new draft set, or one copied with y promoted.
FreshOrCopied == {{}, {y}}

Symmetry == Permutations(Procs) \cup Permutations(Sessions)
=============================================================================
