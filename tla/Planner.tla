------------------------------ MODULE Planner ------------------------------
(***************************************************************************)
(* decide_me/planner.py, decide_me/exporters/traceability.py and the part  *)
(* of close_session that DecisionProtocol leaves out: the actions, risks,  *)
(* links and readiness of a close summary.                                 *)
(*                                                                         *)
(* generate_plan reads the runtime without the lock, computes the plan,    *)
(* writes it to a file and only then takes the lock to record it; nothing  *)
(* is looked at again.  Other sessions go on in between.  It may die after *)
(* any of these steps.                                                     *)
(*                                                                         *)
(* Left out: texts, evidence and the order of the lists of a plan, and the *)
(* resolved conflicts of the project, which no event writes.  The safety   *)
(* gate of an action is an input, fixed when the plan is computed.         *)
(***************************************************************************)
EXTENDS DecisionProtocol

CONSTANTS
    Title,          \* title of each decision
    Domain,         \* domain of each decision, responsible for its actions
    Risky,          \* decisions of kind "risk"
    Scaffolded,     \* decisions promoted from a draft together with a risk object
    Repository      \* decisions resolvable by codebase, docs or tests

ASSUME PlannerAssumption ==
    /\ DOMAIN Title = Decisions /\ DOMAIN Domain = Decisions
    /\ Risky \subseteq Decisions /\ Scaffolded \subseteq Decisions
    /\ Repository \subseteq Decisions

VARIABLES
    report,     \* actions, risks, links and readiness of each close summary
    step,       \* how far generate_plan has come
    plan,       \* the plan it has computed last
    export      \* what became of the last traceability export

pvars == << vars, report, step, plan, export >>

GateStatuses == {"passed", "needs_approval", "blocked"}

\* An action; its title and its responsibility are its decision's.
Action == [session : Sessions, decision : Decisions, declared : BOOLEAN]

\* The risk object of d has no name of its own: it is the risk of d.
Risk == [kind : {"decision", "object"}, decision : Decisions]

EmptyReport == [actions |-> {}, risks |-> {}, links |-> {}, readiness |-> "ready"]

PInit ==
    /\ Init
    /\ report = [s \in Sessions |-> EmptyReport]
    /\ step = "idle" /\ plan = None /\ export = "none"

-----------------------------------------------------------------------------
(***************************************************************************)
(* Closing a session.                                                      *)
(***************************************************************************)

\* _session_action_decision_ids: what the session's own or related proposals
\* settled, and what evidence it is related to settled for it.
ActionDecisions(s) ==
    { d \in Decisions :
        \/ /\ status[d] = "accepted"
           /\ \E p \in Proposals : /\ Link("accepts", d, p) \in links
                                   /\ origin[p] = s \/ p \in related[s]
        \/ /\ status[d] = "resolved-by-evidence" /\ d \in related[s]
           /\ \E e \in Evidence \cap related[s] : Link("supports", e, d) \in links }

\* _implementation_ready.  An accepted decision has a summary.
Declared(d) == status[d] = "resolved-by-evidence" \/ d \in Repository

\* _close_session_action_events
GeneratedActions(s) ==
    { [session |-> s, decision |-> d, declared |-> Declared(d)] :
        d \in ActionDecisions(s) }

SummaryRisks(s) ==
    { [kind |-> "decision", decision |-> d] :
        d \in { x \in SummaryDecisions(s) \cap Risky :
                  status[x] \in OPEN_MUTATION_STATUSES } }
    \cup { [kind |-> "object", decision |-> d] : d \in GraphSubset(s) \cap Scaffolded }

SummaryLinks(s) ==
    { l \in links : /\ l.relation # "supersedes"
                    /\ l.source \in GraphSubset(s) }

Worse_Better(r, t) ==
    IF "ready" \in {r, t} THEN "ready"
    ELSE IF "conditional" \in {r, t} THEN "conditional" ELSE "blocked"

\* _merge_readiness
Worse(r, t) ==
    IF "blocked" \in {r, t} THEN "blocked"
    ELSE IF "conditional" \in {r, t} THEN "conditional" ELSE "ready"

SummaryReadiness(s, risks) ==
    IF summary'[s].blockers # {} THEN "blocked"
    ELSE IF risks # {} THEN "conditional" ELSE "ready"

\* close_session, with the whole of build_close_summary.
PCloseSession(s) ==
    /\ CloseSession(s)
    /\ report' = [report EXCEPT ![s] =
          [actions   |-> GeneratedActions(s),
           risks     |-> SummaryRisks(s),
           links     |-> SummaryLinks(s),
           readiness |-> SummaryReadiness(s, SummaryRisks(s))]]
    /\ UNCHANGED << step, plan, export >>

-----------------------------------------------------------------------------
(***************************************************************************)
(* The plan of a set of closed sessions.                                   *)
(***************************************************************************)
Listed(S) == UNION { summary[s].decisions : s \in S }

PlannedActions(S) == UNION { report[s].actions : s \in S }

Final(d) == status[d] \in FINAL_INVALIDATING_STATUSES

\* _accepted_proposal_ids_for_summary, over the summaries that list d.
AcceptedProposals(S, d) ==
    { p \in Proposals : \E s \in S : /\ d \in summary[s].decisions /\ Final(d)
                                     /\ Link("accepts", d, p) \in report[s].links }

\* detect_conflicts: one decision with two accepted proposals, one action title
\* with two responsibilities.
Conflicts(S) ==
    { << "proposals", d >> : d \in { x \in Listed(S) :
                                       Cardinality(AcceptedProposals(S, x)) >= 2 } }
    \cup { << "responsibility", Title[a.decision] >> :
             a \in { x \in PlannedActions(S) :
                       \E b \in PlannedActions(S) :
                          /\ Title[b.decision] = Title[x.decision]
                          /\ Domain[b.decision] # Domain[x.decision] } }

\* The status of the action's gate counts for readiness when it is declared.
GateReadiness(a, gate) ==
    IF ~a.declared \/ gate = "passed" THEN "ready"
    ELSE IF gate = "blocked" THEN "blocked" ELSE "conditional"

\* _merge_readiness over the sessions, then _readiness_with_action_gates.
Worst(found) == CHOOSE r \in found : \A t \in found : Worse(r, t) = r

PlanReadiness(S, gates) ==
    Worst({ report[s].readiness : s \in S }
          \cup { GateReadiness(a, gates[a]) : a \in PlannedActions(S) })

\* _action_item
ImplementationReady(a, gates) == a.declared /\ gates[a] = "passed"

\* _decision_item, of a blocker: its status counts only as open or not.
Blocker(d) == [decision |-> d, open |-> status[d] \in OPEN_MUTATION_STATUSES]

\* What is fixed by the close summaries and what their validation pins.
\* (With conflicts the code computes no more than them.)
Plan(S, gates) ==
    [sessions  |-> S,
     conflicts |-> Conflicts(S),
     readiness |-> PlanReadiness(S, gates),
     actions   |-> PlannedActions(S),
     ready     |-> { a \in PlannedActions(S) : ImplementationReady(a, gates) },
     blockers  |-> { Blocker(d) : d \in UNION { summary[s].blockers : s \in S } },
     risks     |-> UNION { report[s].risks : s \in S },
     gates     |-> gates]

\* The accepted decisions that the workstreams of a plan count.
Counted(S) == { d \in Listed(S) : Final(d) }

-----------------------------------------------------------------------------
(***************************************************************************)
(* generate_plan.                                                          *)
(***************************************************************************)
ComputePlan_AnySession(S) ==
    /\ step = "idle" /\ S # {}
    /\ \A s \in S : phase[s] # "absent"
    /\ \E gates \in [PlannedActions(S) -> GateStatuses] :
          plan' = [content |-> Plan(S, gates), counted |-> Counted(S)]
    /\ step' = "computed"
    /\ UNCHANGED << vars, report, export >>

ComputePlan(S) ==
    /\ step = "idle" /\ S # {}
    /\ \A s \in S : phase[s] = "closed"
    /\ \E gates \in [PlannedActions(S) -> GateStatuses] :
          plan' = [content |-> Plan(S, gates), counted |-> Counted(S)]
    /\ step' = "computed"
    /\ UNCHANGED << vars, report, export >>

ExportPlan ==
    /\ step = "computed" /\ step' = "exported"
    /\ UNCHANGED << vars, report, plan, export >>

\* _record_plan_generated; the validator wants the sessions closed.
RecordPlan ==
    /\ step = "exported" /\ step' = "recorded"
    /\ \A s \in plan.content.sessions : phase[s] = "closed"
    /\ MoveHead
    /\ UNCHANGED << phase, related, asked, summary, status, origin, via, links,
                    shown, report, plan, export >>

\* The command ends, or dies between two steps: the plan stays with the user.
Leave ==
    /\ step # "idle" /\ step' = "idle"
    /\ UNCHANGED << vars, report, plan, export >>

\* _requirement_id_for_row, of a risk row: a risk object is not a decision.
HasRequirementId(r) == r.kind = "decision"

\* export_traceability: the rows of actions, blockers and risks, each with the
\* requirement id of its decision.
ExportTraceability(S) ==
    /\ S # {} /\ \A s \in S : phase[s] = "closed"
    /\ Conflicts(S) = {}
    /\ export' = IF \A s \in S : \A r \in report[s].risks : HasRequirementId(r)
                 THEN "written" ELSE "failed"
    /\ UNCHANGED << vars, report, step, plan >>

\* What goes on meanwhile; closing a session is PCloseSession.
SessionStep ==
    /\ Next
    /\ \A s \in Sessions : phase'[s] = "closed" => phase[s] = "closed"
    /\ UNCHANGED << report, step, plan, export >>

PNext ==
    \/ SessionStep
    \/ \E s \in Sessions : PCloseSession(s)
    \/ \E S \in SUBSET Sessions : ComputePlan(S) \/ ExportTraceability(S)
    \/ ExportPlan \/ RecordPlan \/ Leave

PSpec == PInit /\ [][PNext]_pvars

-----------------------------------------------------------------------------
\* The variables hold what their comments say.
PTypeOK ==
    /\ TypeOK
    /\ report \in [Sessions -> [actions : SUBSET Action, risks : SUBSET Risk,
                                links : SUBSET Links,
                                readiness : {"ready", "conditional", "blocked"}]]
    /\ step \in {"idle", "computed", "exported", "recorded"}
    /\ step # "idle" => plan # None
    /\ plan # None => plan.content.sessions \subseteq Sessions
    /\ export \in {"none", "written", "failed"}

\* A plan computed without the lock is never out of date, neither when it is
\* exported and recorded nor ever after: computed again from the runtime as it
\* is now, under the same gates, it has the same conflicts, readiness, actions,
\* blockers and risks.  Only the count of accepted decisions may have grown.
PlanStaysTrue ==
    plan # None =>
        /\ Plan(plan.content.sessions, plan.content.gates) = plan.content
        /\ plan.counted \subseteq Counted(plan.content.sessions)

\* An action generated by closing a session is for a decision its summary lists,
\* and that decision stays decided, whatever other sessions do: the validator's
\* rule about the actions of a summary, which the model leaves out, never
\* refuses a transaction.
ActionsStayGrounded ==
    \A s \in Sessions : \A a \in report[s].actions :
        a.decision \in summary[s].decisions /\ Final(a.decision)

\* A plan that claims to be ready is: every P0 decision for now that the summary
\* of one of its sessions lists has been decided or deferred.
ReadyMeansDecided ==
    plan # None /\ plan.content.conflicts = {} /\ plan.content.readiness = "ready" =>
        \A d \in Listed(plan.content.sessions) \cap Blocking :
            Final(d) \/ status[d] = "deferred"

\* references/plan-generation.md: "Decision replacements are resolved with
\* `resolve-decision-supersession`, which ... removes the superseded decision
\* from normal plan inputs": a decision that is a plan input can be replaced by
\* one that an open session has decided.
PlannedIsReplaceable ==
    \A s \in Sessions, old \in Decisions, new \in Decisions :
        /\ Mutable(s) /\ old # new /\ Bound(s, new) /\ Final(new)
        /\ \E t \in Sessions : old \in { a.decision : a \in report[t].actions }
        => ENABLED SupersedeDecision(s, old, new)

\* references/plan-generation.md: "export-traceability ... renders action and
\* unresolved blocker/risk rows": without conflicts the export is written.
TraceabilityIsWritten == export # "failed"
=============================================================================
