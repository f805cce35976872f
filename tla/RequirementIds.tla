--------------------------- MODULE RequirementIds ---------------------------
(***************************************************************************)
(* decide_me/requirement_ids.py over branches of a runtime: each decision  *)
(* gets the next requirement number when it is discovered, from what the   *)
(* projections of its branch show, and keeps it in its event.  Merging     *)
(* brings the events and the rejections of the other branch                *)
(* (MergeConflicts) and leaves the projections as they are; a command that *)
(* dies after its transaction file leaves them behind too.  The "R-" of an *)
(* id and its zeros are left out: the number stands for the id.  That a    *)
(* log must validate to be rebuilt is left out: it can always be.          *)
(***************************************************************************)
EXTENDS Naturals, FiniteSets

CONSTANTS
    Worktrees,  \* one for each branch of the repository
    Decisions   \* decision ids

ASSUME RequirementIdsAssumption == IsFiniteSet(Decisions)

VARIABLES
    has,        \* the decisions whose transaction each branch has
    rejected,   \* those whose transaction a control of the branch rejects
    basis,      \* those its projections were computed from, rejected or not
    shown,      \* those its projections show
    number,     \* requirement number of each decision, 0 before it has one
    had         \* history: "basis" of the branch that discovered the decision

nvars == << has, rejected, basis, shown, number, had >>

NInit ==
    /\ has = [b \in Worktrees |-> {}]
    /\ rejected = [b \in Worktrees |-> {}]
    /\ basis = [b \in Worktrees |-> {}]
    /\ shown = [b \in Worktrees |-> {}]
    /\ number = [d \in Decisions |-> 0]
    /\ had = [d \in Decisions |-> {}]

\* What the projections of branch b show once they are rebuilt.
EffectiveDecisions(b) == has[b] \ rejected[b]

\* next_requirement_id: one more than the largest number of D, or 1.
IsNextRequirementId(n, D) ==
    /\ \A d \in D : number[d] < n
    /\ n = 1 \/ \E d \in D : number[d] = n - 1

\* The command writes its projections, or it has died before.  A command adds
\* its own decision to the projections it has loaded.
AppliesToProjections(b, d) ==
    \/ /\ basis' = [basis EXCEPT ![b] = @ \cup {d}]
       /\ shown' = [shown EXCEPT ![b] = @ \cup {d}]
    \/ UNCHANGED << basis, shown >>

\* (No number exceeds the number of decisions.)
DiscoverDecision(b, d) ==
    /\ number[d] = 0
    /\ \E n \in 1..Cardinality(Decisions) :
          /\ IsNextRequirementId(n, shown[b])
          /\ number' = [number EXCEPT ![d] = n]
    /\ had' = [had EXCEPT ![d] = basis[b]]
    /\ has' = [has EXCEPT ![b] = @ \cup {d}]
    /\ AppliesToProjections(b, d)
    /\ UNCHANGED rejected

WritesProjections(b) ==
    /\ basis' = [basis EXCEPT ![b] = has[b]]
    /\ shown' = [shown EXCEPT ![b] = has[b] \ rejected'[b]]

\* rebuild_and_persist
RebuildDecisions(b) ==
    /\ UNCHANGED << has, rejected, number, had >>
    /\ WritesProjections(b)

\* resolve_merge_conflict, when the transaction with the decision loses.
RejectDecision(b, d) ==
    /\ d \in EffectiveDecisions(b)
    /\ rejected' = [rejected EXCEPT ![b] = @ \cup {d}]
    /\ WritesProjections(b) \/ UNCHANGED << basis, shown >>
    /\ UNCHANGED << has, number, had >>

MergeDecisions_EventsOnly(b, c) ==
    /\ has' = [has EXCEPT ![b] = @ \cup has[c]]
    /\ UNCHANGED << rejected, basis, shown, number, had >>

\* Branch c is merged into branch b: all its transaction files, the controls too.
MergeDecisions(b, c) ==
    /\ has' = [has EXCEPT ![b] = @ \cup has[c]]
    /\ rejected' = [rejected EXCEPT ![b] = @ \cup rejected[c]]
    /\ UNCHANGED << basis, shown, number, had >>

NNext ==
    \E b \in Worktrees :
        \/ \E d \in Decisions : DiscoverDecision(b, d) \/ RejectDecision(b, d)
        \/ \E c \in Worktrees \ {b} : MergeDecisions(b, c)
        \/ RebuildDecisions(b)

NSpec == NInit /\ [][NNext]_nvars

-----------------------------------------------------------------------------
\* Two decisions a branch shows under one requirement number were numbered in
\* parallel: where the one got its number, the projections were not computed
\* from the other, not even as rejected.  A merge or a dead command that no
\* rebuild has followed counts as parallel: the branch has the decision, and
\* the next one gets its number again.  Rejections, whose number is free
\* again, add no case, however they travel.
SharedMeansParallel ==
    \A b \in Worktrees : \A d, e \in EffectiveDecisions(b) :
        d # e /\ number[d] = number[e] => d \notin had[e] /\ e \notin had[d]

\* references/output-contract.md: "`Requirement ID` is a decision-scoped
\* persistent `R-###` value": no two decisions of a branch share one.
RequirementIdsAreUnique ==
    \A b \in Worktrees : \A d, e \in EffectiveDecisions(b) :
        number[d] = number[e] => d = e
=============================================================================
