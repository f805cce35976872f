------------------------- MODULE DecisionLifecycle -------------------------
(***************************************************************************)
(* What the decision protocol promises about each decision, whichever      *)
(* sessions, proposals and evidence it goes through: a decision is open    *)
(* until one transaction decides it, it is decided once, and from then on  *)
(* it can only be replaced by another decision that is itself final.  It   *)
(* begins open, as a draft that is promoted already with a proposal.       *)
(***************************************************************************)
CONSTANT Decisions

VARIABLE status     \* the status of each decision

DiscoverableStatuses == {"unresolved", "blocked"}
OpenStatuses         == {"unresolved", "blocked", "proposed"}
FinalStatuses        == {"accepted", "resolved-by-evidence"}

LifecycleInit == status = [d \in Decisions |-> "absent"]

\* Decision d goes from one of the statuses "from" to status "to".
Move(d, from, to) ==
    /\ status[d] \in from
    /\ status' = [status EXCEPT ![d] = to]

Discover(d) == \E st \in DiscoverableStatuses : Move(d, {"absent"}, st)
Promote(d)  == Move(d, {"absent"}, "proposed")
Propose(d)  == Move(d, DiscoverableStatuses, "proposed")
Withdraw(d) == Move(d, {"proposed"}, "unresolved")
Accept(d)   == Move(d, {"proposed"}, "accepted")
Defer(d)    == Move(d, OpenStatuses, "deferred")
Resolve(d)  == Move(d, OpenStatuses, "resolved-by-evidence")

Replace(d) ==
    \E e \in Decisions \ {d} :
        /\ status[e] \in FinalStatuses
        /\ Move(d, OpenStatuses \cup FinalStatuses \cup {"deferred"}, "invalidated")

LifecycleNext ==
    \E d \in Decisions :
        \/ Discover(d) \/ Promote(d) \/ Propose(d) \/ Withdraw(d)
        \/ Accept(d) \/ Defer(d) \/ Resolve(d) \/ Replace(d)

LifecycleSpec == LifecycleInit /\ [][LifecycleNext]_status
=============================================================================
