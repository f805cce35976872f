-------------------------- MODULE DecisionProtocol --------------------------
(***************************************************************************)
(* decide_me/protocol.py and decide_me/lifecycle.py: sessions that         *)
(* discover decisions, propose answers to them and record what the user    *)
(* replies, until they are closed with a summary.                          *)
(*                                                                         *)
(* An operation is one transaction: its builder reads the loaded bundle    *)
(* and its guards raise before any event exists; the events are applied in *)
(* order; and transact refuses the result, with nothing written, unless    *)
(* validate_projection_bundle accepts the whole bundle of every session    *)
(* (BundleIsValid').  RuntimeStore models how a transaction is made        *)
(* durable; here it is atomic.                                             *)
(*                                                                         *)
(* Left out: the text of questions and answers, the options proposals      *)
(* recommend, the actions and risks of a close summary, and the safety     *)
(* gate, which may refuse any acceptance and is an input here.  Reply      *)
(* artifacts, safety approvals and classifications change nothing here but *)
(* the project head, as EnrichDecision does.  A draft may name any object  *)
(* as its support, here it names evidence: then no decision influences     *)
(* another over the links of this module, and                              *)
(* apply_invalidation_candidate has no decision to offer (SafetyGuard      *)
(* models it, over links that do).                                         *)
(***************************************************************************)
EXTENDS Integers, FiniteSets

CONSTANTS
    Sessions,   \* session ids
    Decisions,  \* decision ids
    Proposals,  \* proposal ids that new_entity_id can draw
    Evidence,   \* evidence object ids, derived from the reference they cite
    Blocking,   \* decisions recorded with priority P0 and frontier "now"
    None        \* no proposal, no session, no snapshot

Objects == Decisions \cup Proposals \cup Evidence

ASSUME ProtocolAssumption ==
    /\ Decisions \cap Proposals = {}
    /\ Evidence \cap (Decisions \cup Proposals) = {}
    /\ Blocking \subseteq Decisions
    /\ None \notin Objects \cup Sessions \cup {"ok", "explicit"}
    /\ IsFiniteSet(Objects)

VARIABLES
    phase,      \* lifecycle status of each session
    related,    \* related_object_ids of each session
    asked,      \* proposal whose question each session has open
    summary,    \* close_summary of each session
    status,     \* status of each object
    origin,     \* origin_session_id of each proposal
    via,        \* accepted_via of each proposal
    links,      \* links between objects
    current,    \* proposals whose based_on_project_head is the project head
    shown       \* history: decision statuses when the open question was asked

vars == << phase, related, asked, summary, status, origin, via, links,
           current, shown >>

DecisionStatuses ==
    {"absent", "unresolved", "blocked", "proposed", "accepted",
     "resolved-by-evidence", "deferred", "invalidated"}

ProposalStatuses == {"absent", "active", "accepted", "rejected", "inactive"}

DISCOVERABLE_DECISION_STATUSES == {"unresolved", "blocked"}
PROPOSABLE_STATUSES            == {"unresolved", "blocked"}
OPEN_MUTATION_STATUSES         == {"unresolved", "proposed", "blocked"}
FINAL_INVALIDATING_STATUSES    == {"accepted", "resolved-by-evidence"}

EmptySummary == [decisions |-> {}, blockers |-> {}]

Init ==
    /\ phase = [s \in Sessions |-> "absent"]
    /\ related = [s \in Sessions |-> {}]
    /\ asked = [s \in Sessions |-> None]
    /\ summary = [s \in Sessions |-> EmptySummary]
    /\ status = [x \in Objects |-> "absent"]
    /\ origin = [p \in Proposals |-> None]
    /\ via = [p \in Proposals |-> None]
    /\ links = {}
    /\ current = {}
    /\ shown = [s \in Sessions |-> None]

-----------------------------------------------------------------------------
(***************************************************************************)
(* Links.                                                                  *)
(***************************************************************************)
Link(r, x, y) == [relation |-> r, source |-> x, target |-> y]

Links ==
    { Link("addresses", p, d) : p \in Proposals, d \in Decisions }
    \cup { Link("accepts", d, p) : p \in Proposals, d \in Decisions }
    \cup { Link("supports", e, d) : e \in Evidence, d \in Decisions }
    \cup { Link("supersedes", d, e) : d \in Decisions, e \in Decisions }

Addresses(p, d) == Link("addresses", p, d) \in links

\* The objects connected to those of X by a path of edges, in any direction.
\* (Quantifying over {reach[n - 1]} makes TLC evaluate it once.)
Connected(X, edges) ==
    LET Adjacent(Y) == { l.target : l \in { k \in edges : k.source \in Y } }
                       \cup { l.source : l \in { k \in edges : k.target \in Y } }
        reach[n \in Nat] ==
            IF n = 0 THEN X
            ELSE UNION { Y \cup Adjacent(Y) : Y \in {reach[n - 1]} }
    IN  reach[Cardinality(Objects)]

\* _session_graph_subset: a close summary does not follow "supersedes" links.
GraphSubset(s) ==
    Connected(related[s], { l \in links : l.relation # "supersedes" })

\* related_decision_ids follows every link.
IsSessionDecision(s, d) ==
    d \in related[s] \/ d \in Connected(related[s], links)

\* Who superseded d, who superseded that one, and so on.
Superseders(d, edges) ==
    LET chain[n \in Nat] ==
            IF n = 0 THEN {d}
            ELSE UNION { C \cup { l.source : l \in { k \in edges :
                                     k.relation = "supersedes" /\ k.target \in C } } :
                         C \in {chain[n - 1]} }
    IN  chain[Cardinality(Decisions)]

\* _has_final_invalidating_chain: that chain reaches a final decision.
HasFinalChain(d) ==
    \E e \in Superseders(d, links) \ {d} : status[e] \in FINAL_INVALIDATING_STATUSES

-----------------------------------------------------------------------------
(***************************************************************************)
(* validate_projection_bundle, the rules about decisions and sessions.     *)
(***************************************************************************)

\* _validate_active_proposal
QuestionIsValid(s) ==
    asked[s] # None =>
        /\ phase[s] # "closed"
        /\ origin[asked[s]] = s /\ status[asked[s]] = "active"
        /\ \E d \in Decisions :
              /\ Addresses(asked[s], d) /\ status[d] = "proposed"
              /\ IsSessionDecision(s, d)

SummaryIsValid_BlockersOnly(s) ==
    \A d \in summary[s].blockers : status[d] \in OPEN_MUTATION_STATUSES

\* _validate_close_summary
SummaryIsValid(s) ==
    /\ \A d \in summary[s].decisions \cup summary[s].blockers :
          status[d] # "invalidated" /\ IsSessionDecision(s, d)
    /\ \A d \in summary[s].blockers : status[d] \in OPEN_MUTATION_STATUSES

\* _validate_decision_references and _validate_object_link_contracts
DecisionIsValid(d) ==
    /\ status[d] = "proposed" =>
          \E p \in Proposals :
             { q \in Proposals : status[q] = "active" /\ Addresses(q, d) } = {p}
    /\ status[d] = "accepted" => \E p \in Proposals : Link("accepts", d, p) \in links
    /\ status[d] = "resolved-by-evidence" =>
          \E e \in Evidence : Link("supports", e, d) \in links
    /\ status[d] = "invalidated" => HasFinalChain(d)

\* _validate_visible_decision_bindings
IsBound(d) ==
    status[d] \notin {"absent", "invalidated"} =>
        \E s \in Sessions : IsSessionDecision(s, d)

BundleIsValid ==
    /\ \A s \in Sessions : QuestionIsValid(s) /\ SummaryIsValid(s)
    /\ \A d \in Decisions : DecisionIsValid(d) /\ IsBound(d)

-----------------------------------------------------------------------------
(***************************************************************************)
(* Effects the events have in common.                                      *)
(***************************************************************************)

\* Every event of a session relates it to the objects it is about.
Touch(s, things) == related' = [related EXCEPT ![s] = @ \cup things]

\* _clear_question_state
ClearQuestion(s) ==
    /\ asked' = [asked EXCEPT ![s] = None]
    /\ shown' = [shown EXCEPT ![s] = None]

\* object_status_changed on d clears the question of session s that asks it.
ClearQuestionAbout(s, d) ==
    IF asked[s] # None /\ Addresses(asked[s], d)
    THEN ClearQuestion(s)
    ELSE UNCHANGED << asked, shown >>

\* The project head moves: no proposal is based on it any more.
MoveHead == current' = {}

Mutable(s) == phase[s] = "active"

Bound(s, d) == d \in related[s]

\* _require_no_other_active_proposal
NoOtherActiveProposal(s, d) ==
    asked[s] # None /\ status[asked[s]] = "active" => Addresses(asked[s], d)

ReplyTarget_AnyProposal(s, d, p) ==
    /\ Mutable(s)
    /\ origin[p] = s
    /\ Addresses(p, d) /\ Bound(s, d)
    /\ status[d] = "proposed"

\* _resolve_proposal_target, with the status check that follows it: without a
\* proposal id the target is the session's open question and must be fresh.
ReplyTarget(s, d, p) ==
    /\ Mutable(s)
    /\ origin[p] = s /\ status[p] = "active"
    /\ Addresses(p, d) /\ Bound(s, d)
    /\ status[d] = "proposed"

Fresh(s, p) == p = asked[s] /\ p \in current

-----------------------------------------------------------------------------
(***************************************************************************)
(* Operations of a session.                                                *)
(***************************************************************************)
CreateSession(s) ==
    /\ phase[s] = "absent"
    /\ phase' = [phase EXCEPT ![s] = "active"]
    /\ MoveHead
    /\ UNCHANGED << related, asked, summary, status, origin, via, links, shown >>
    /\ BundleIsValid'

DiscoverDecision(s, d) ==
    /\ Mutable(s) /\ status[d] = "absent"
    /\ \E st \in DISCOVERABLE_DECISION_STATUSES :
          status' = [status EXCEPT ![d] = st]
    /\ Touch(s, {d})
    /\ MoveHead
    /\ UNCHANGED << phase, asked, summary, origin, via, links, shown >>
    /\ BundleIsValid'

\* enrich_decision: notes, context and revisit triggers of a bound decision.
EnrichDecision(s, d) ==
    /\ Mutable(s) /\ Bound(s, d)
    /\ MoveHead
    /\ UNCHANGED << phase, related, asked, summary, status, origin, via, links,
                    shown >>
    /\ BundleIsValid'

\* The proposal is based on the head its own question makes.
IssueProposal(s, d, p) ==
    /\ Mutable(s) /\ Bound(s, d) /\ NoOtherActiveProposal(s, d)
    /\ status[d] \in PROPOSABLE_STATUSES
    /\ status[p] = "absent"
    /\ status' = [status EXCEPT ![d] = "proposed", ![p] = "active"]
    /\ origin' = [origin EXCEPT ![p] = s]
    /\ links' = links \cup { Link("addresses", p, d) }
    /\ asked' = [asked EXCEPT ![s] = p]
    /\ shown' = [shown EXCEPT ![s] = [x \in Decisions |-> status'[x]]]
    /\ current' = {p}
    /\ Touch(s, {d, p})
    /\ UNCHANGED << phase, summary, via >>
    /\ BundleIsValid'

\* materialize_decision_with_proposal: a draft that is promoted is discovered,
\* supported by what it cites, and asked about in one transaction.
MaterializeDecision(s, d, p, supports) ==
    /\ Mutable(s) /\ NoOtherActiveProposal(s, d)
    /\ status[d] = "absent" /\ status[p] = "absent"
    /\ \A e \in supports : status[e] # "absent"
    /\ status' = [status EXCEPT ![d] = "proposed", ![p] = "active"]
    /\ origin' = [origin EXCEPT ![p] = s]
    /\ links' = links \cup { Link("addresses", p, d) }
                     \cup { Link("supports", e, d) : e \in supports }
    /\ asked' = [asked EXCEPT ![s] = p]
    /\ shown' = [shown EXCEPT ![s] = [x \in Decisions |-> status'[x]]]
    /\ current' = {p}
    /\ Touch(s, {d, p} \cup supports)
    /\ UNCHANGED << phase, summary, via >>
    /\ BundleIsValid'

\* accept_proposal, and answer_proposal when the answer is the recommendation.
\* A plain OK is for the open question of the session and must be fresh; an
\* acceptance that names the proposal need not be.
AcceptProposal(s, d, p, mode) ==
    /\ ReplyTarget(s, d, p)
    /\ mode = "ok" => Fresh(s, p)
    /\ status' = [status EXCEPT ![d] = "accepted", ![p] = "accepted"]
    /\ via' = [via EXCEPT ![p] = mode]
    /\ links' = links \cup { Link("accepts", d, p) }
    /\ ClearQuestion(s)
    /\ Touch(s, {d, p})
    /\ MoveHead
    /\ UNCHANGED << phase, summary, origin >>
    /\ BundleIsValid'

RejectProposal_DecisionOnly(s, d, p) ==
    /\ ReplyTarget(s, d, p)
    /\ status' = [status EXCEPT ![d] = "unresolved"]
    /\ ClearQuestion(s)
    /\ Touch(s, {d, p})
    /\ MoveHead
    /\ UNCHANGED << phase, summary, origin, via, links >>
    /\ BundleIsValid'

RejectProposal(s, d, p) ==
    /\ ReplyTarget(s, d, p)
    /\ status' = [status EXCEPT ![d] = "unresolved", ![p] = "rejected"]
    /\ ClearQuestion(s)
    /\ Touch(s, {d, p})
    /\ MoveHead
    /\ UNCHANGED << phase, summary, origin, via, links >>
    /\ BundleIsValid'

\* answer_proposal when the answer is another one: proposal p is rejected, and
\* the answer becomes a proposal q of the user, accepted at once.
AnswerProposal(s, d, p, q) ==
    /\ ReplyTarget(s, d, p)
    /\ status[q] = "absent"
    /\ status' = [status EXCEPT ![p] = "rejected", ![d] = "accepted",
                                ![q] = "accepted"]
    /\ origin' = [origin EXCEPT ![q] = s]
    /\ via' = [via EXCEPT ![q] = "explicit"]
    /\ links' = links \cup { Link("addresses", q, d), Link("accepts", d, q) }
    /\ ClearQuestion(s)
    /\ Touch(s, {d, p, q})
    /\ MoveHead
    /\ UNCHANGED << phase, summary >>
    /\ BundleIsValid'

DeferDecision_AnyStatus(s, d) ==
    /\ Mutable(s) /\ Bound(s, d) /\ NoOtherActiveProposal(s, d)
    /\ status' = [x \in Objects |->
                    IF x = d THEN "deferred"
                    ELSE IF x = asked[s] THEN "inactive" ELSE status[x]]
    /\ ClearQuestion(s)
    /\ Touch(s, {d} \cup ({asked[s]} \ {None}))
    /\ MoveHead
    /\ UNCHANGED << phase, summary, origin, via, links >>
    /\ BundleIsValid'

\* The answer clears whatever question the session has open; the guard lets it
\* have one about d only, whose proposal becomes inactive.
DeferDecision(s, d) ==
    /\ Mutable(s) /\ Bound(s, d) /\ NoOtherActiveProposal(s, d)
    /\ status[d] \in OPEN_MUTATION_STATUSES
    /\ status' = [x \in Objects |->
                    IF x = d THEN "deferred"
                    ELSE IF x = asked[s] THEN "inactive" ELSE status[x]]
    /\ ClearQuestion(s)
    /\ Touch(s, {d} \cup ({asked[s]} \ {None}))
    /\ MoveHead
    /\ UNCHANGED << phase, summary, origin, via, links >>
    /\ BundleIsValid'

\* resolve_by_evidence when the safety gate passes.  The proposal of an open
\* question about d is left as it is.
ResolveByEvidence(s, d, e) ==
    /\ Mutable(s) /\ Bound(s, d) /\ NoOtherActiveProposal(s, d)
    /\ status[d] \in OPEN_MUTATION_STATUSES
    /\ status' = [status EXCEPT ![d] = "resolved-by-evidence", ![e] = "active"]
    /\ links' = links \cup { Link("supports", e, d) }
    /\ ClearQuestionAbout(s, d)
    /\ Touch(s, IF Link("supports", e, d) \in links THEN {d} ELSE {d, e})
    /\ MoveHead
    /\ UNCHANGED << phase, summary, origin, via >>
    /\ BundleIsValid'

\* resolve_by_evidence when the gate asks for an approval: the evidence is
\* recorded and the decision stays open.
RecordEvidence(s, d, e) ==
    /\ Mutable(s) /\ Bound(s, d) /\ NoOtherActiveProposal(s, d)
    /\ status[d] \in OPEN_MUTATION_STATUSES
    /\ Link("supports", e, d) \notin links
    /\ status' = [status EXCEPT ![e] = "active"]
    /\ links' = links \cup { Link("supports", e, d) }
    /\ Touch(s, {d, e})
    /\ MoveHead
    /\ UNCHANGED << phase, asked, summary, origin, via, shown >>
    /\ BundleIsValid'

\* link_evidence_to_object (sources/runtime.py): a session need not be bound to
\* the decision; the link binds it.
LinkEvidence(s, d, e) ==
    /\ Mutable(s) /\ status[d] # "absent"
    /\ Link("supports", e, d) \notin links
    /\ status' = [status EXCEPT ![e] = "active"]
    /\ links' = links \cup { Link("supports", e, d) }
    /\ Touch(s, {d, e})
    /\ MoveHead
    /\ UNCHANGED << phase, asked, summary, origin, via, shown >>
    /\ BundleIsValid'

\* resolve_decision_supersession; that the session is not closed is checked by
\* _validate_incremental_session_scope.
SupersedeDecision(s, old, new) ==
    /\ Mutable(s) /\ old # new /\ Bound(s, new)
    /\ status[old] \notin {"absent", "invalidated"}
    /\ status[new] \in FINAL_INVALIDATING_STATUSES
    /\ status' = [status EXCEPT ![old] = "invalidated"]
    /\ links' = links \cup { Link("supersedes", new, old) }
    /\ ClearQuestionAbout(s, old)
    /\ Touch(s, {old, new})
    /\ MoveHead
    /\ UNCHANGED << phase, summary, origin, via >>
    /\ BundleIsValid'

-----------------------------------------------------------------------------
(***************************************************************************)
(* Session boundaries.                                                     *)
(***************************************************************************)

StatusAfterBoundary_Kept(s) == status

\* _proposal_boundary_status_events: the open question is withdrawn, and its
\* decision is unresolved again.
StatusAfterBoundary(s) ==
    IF asked[s] = None THEN status
    ELSE [x \in Objects |->
            IF x = asked[s] THEN "inactive"
            ELSE IF x \in Decisions /\ Addresses(asked[s], x) /\ status[x] = "proposed"
                 THEN "unresolved"
            ELSE status[x]]

ResumeSession(s) ==
    /\ Mutable(s)
    /\ status' = StatusAfterBoundary(s)
    /\ ClearQuestion(s)
    /\ MoveHead
    /\ UNCHANGED << phase, related, summary, origin, via, links >>
    /\ BundleIsValid'

\* _session_summary_decision_ids: an open or deferred decision the session's
\* links lead to, and a final one that a related proposal or evidence is about.
SummaryDecisions(s) ==
    { d \in GraphSubset(s) \cap Decisions :
        /\ status[d] \notin {"absent", "invalidated"}
        /\ status[d] \in FINAL_INVALIDATING_STATUSES =>
             \E l \in links : \/ l.source = d /\ l.target \in related[s] \ Decisions
                              \/ l.target = d /\ l.source \in related[s] \ Decisions }

\* The summary is computed from the bundle as it was before the boundary.
CloseSession(s) ==
    /\ Mutable(s)
    /\ summary' = [summary EXCEPT ![s] =
          [decisions |-> SummaryDecisions(s),
           blockers  |-> { d \in SummaryDecisions(s) \cap Blocking :
                             status[d] \in OPEN_MUTATION_STATUSES }]]
    /\ status' = StatusAfterBoundary(s)
    /\ phase' = [phase EXCEPT ![s] = "closed"]
    /\ ClearQuestion(s)
    /\ MoveHead
    /\ UNCHANGED << related, origin, via, links >>
    /\ BundleIsValid'

\* generate_plan: a plan_generated event of the SYSTEM session, from closed
\* sessions.
GeneratePlan(s) ==
    /\ phase[s] = "closed"
    /\ MoveHead
    /\ UNCHANGED << phase, related, asked, summary, status, origin, via, links,
                    shown >>
    /\ BundleIsValid'

Next ==
    \E s \in Sessions :
        \/ CreateSession(s) \/ ResumeSession(s) \/ CloseSession(s)
        \/ GeneratePlan(s)
        \/ \E d \in Decisions :
              \/ DiscoverDecision(s, d) \/ EnrichDecision(s, d)
              \/ DeferDecision(s, d)
              \/ \E p \in Proposals :
                    \/ IssueProposal(s, d, p) \/ RejectProposal(s, d, p)
                    \/ \E supports \in SUBSET Evidence : MaterializeDecision(s, d, p, supports)
                    \/ \E mode \in {"ok", "explicit"} : AcceptProposal(s, d, p, mode)
                    \/ \E q \in Proposals : AnswerProposal(s, d, p, q)
              \/ \E e \in Evidence :
                    \/ ResolveByEvidence(s, d, e) \/ RecordEvidence(s, d, e)
                    \/ LinkEvidence(s, d, e)
              \/ \E new \in Decisions : SupersedeDecision(s, d, new)

Spec == Init /\ [][Next]_vars

-----------------------------------------------------------------------------
\* The variables hold what their comments say, and a session is related to, and
\* summarises, recorded objects only.
TypeOK ==
    /\ phase \in [Sessions -> {"absent", "active", "closed"}]
    /\ related \in [Sessions -> SUBSET Objects]
    /\ asked \in [Sessions -> Proposals \cup {None}]
    /\ summary \in [Sessions -> [decisions : SUBSET Decisions,
                                 blockers : SUBSET Decisions]]
    /\ status \in [Objects -> DecisionStatuses \cup ProposalStatuses]
    /\ \A d \in Decisions : status[d] \in DecisionStatuses
    /\ \A p \in Proposals : status[p] \in ProposalStatuses
    /\ origin \in [Proposals -> Sessions \cup {None}]
    /\ via \in [Proposals -> {"ok", "explicit", None}]
    /\ links \in SUBSET Links
    /\ current \in SUBSET Proposals
    /\ shown \in [Sessions -> [Decisions -> DecisionStatuses] \cup {None}]
    /\ \A s \in Sessions, x \in Objects : x \in related[s] => status[x] # "absent"

\* A decision that waits for a reply can get one: whatever other sessions did,
\* some session that is not closed still asks its question.  (The validator
\* only wants exactly one active proposal object.)
ProposedIsAnswerable ==
    \A d \in Decisions :
        status[d] = "proposed" =>
            \E s \in Sessions : /\ Mutable(s) /\ asked[s] # None
                                /\ Addresses(asked[s], d)

\* A proposal that stays active after its question is gone (the decision was
\* resolved by evidence or superseded meanwhile) is about a decided decision,
\* so that no reply can take it up again.
OrphanIsMoot ==
    \A p \in Proposals, d \in Decisions :
        status[p] = "active" /\ Addresses(p, d) =>
            \/ \E s \in Sessions : asked[s] = p
            \/ status[d] \in {"resolved-by-evidence", "invalidated"}

\* An accepted decision accepts exactly one of its proposals, and no proposal
\* counts as accepted before its decision is.
AcceptedByOneProposal ==
    \A d \in Decisions :
        LET accepted == { p \in Proposals : status[p] = "accepted" /\ Addresses(p, d) }
        IN  /\ status[d] = "accepted" =>
                  \E p \in accepted : accepted = {p} /\ Link("accepts", d, p) \in links
            /\ status[d] \notin {"accepted", "invalidated"} => accepted = {}

\* The reply to a proposal is final: what was accepted, rejected or withdrawn
\* is never replied to again.
RepliesAreFinal ==
    [][\A p \in Proposals :
          status[p] \in {"accepted", "rejected", "inactive"} =>
              status'[p] = status[p]]_vars

\* A plain OK never accepts a proposal on other premises than the ones it was
\* shown with: no decision of the project, of any session, has changed since.
OkActsOnWhatWasShown ==
    [][\A p \in Proposals :
          via[p] = None /\ via'[p] = "ok" =>
              \E s \in Sessions :
                  /\ asked[s] = p
                  /\ shown[s] = [d \in Decisions |-> status[d]]]_vars

\* A closed session is frozen: no operation of any session changes what it is
\* related to, asks or concluded.
ClosedIsFrozen ==
    [][\A s \in Sessions :
          phase[s] = "closed" =>
              /\ phase'[s] = "closed"
              /\ related'[s] = related[s] /\ asked'[s] = asked[s]
              /\ summary'[s] = summary[s]]_vars

decisionStatus == [d \in Decisions |-> status[d]]

Lifecycle == INSTANCE DecisionLifecycle WITH status <- decisionStatus

\* The protocol implements the life cycle it promises for each decision.
ImplementsLifecycle == Lifecycle!LifecycleSpec

\* references/session-lifecycle.md: "Resolving a decision supersession
\* deactivates any active proposal that still points at the superseded
\* decision".
SupersessionDeactivates ==
    [][\A d \in Decisions, p \in Proposals :
          /\ status[d] # "invalidated" /\ status'[d] = "invalidated"
          /\ Addresses(p, d)
          => status'[p] # "active"]_vars
=============================================================================
