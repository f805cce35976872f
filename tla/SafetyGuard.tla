------------------------------ MODULE SafetyGuard ------------------------------
(***************************************************************************)
(* What passes the safety gate: decisions accepted or resolved by          *)
(* evidence (protocol.py), and invalidation candidates applied             *)
(* (invalidation_candidates.py), with the approvals people record          *)
(* (safety_approval.py) while evidence and risks keep arriving             *)
(* (sources/runtime.py, protocol.py); and, past the gate, decisions        *)
(* replaced by others (resolve_decision_supersession).                     *)
(*                                                                         *)
(* An operation is one transaction.  Some take their time before the lock  *)
(* and others after it, so the time a gate is evaluated at may lie behind  *)
(* the clock.  Sessions, proposals and questions are those of              *)
(* DecisionProtocol: here the session is open and the proposal fresh.      *)
(***************************************************************************)
EXTENDS SafetyGate

CONSTANTS
    Projects,       \* of each project, what it starts from and what can arrive
    Depths,         \* values of max_depth
    Expiries,       \* values of expires_at, Never for none
    MaxApprovals,   \* bound of the approvals there are at a time
    MaxTime         \* bound of the clock

(***************************************************************************)
(* Projects maps the name of a project to a record of                      *)
(*   status, links  the objects and links it starts with                   *)
(*   objects        the objects there can be                               *)
(*   linkable       [from, relation, to] the sources give reason to record *)
(*   resolving      evidence that resolve_by_evidence can cite             *)
(*   changes        change kinds: "changed", "invalidated", "superseded"   *)
(*   approvable     bound: the objects people are asked to approve         *)
(*   maxObjects     bound of the objects recorded                          *)
(***************************************************************************)

Open == {"unresolved", "proposed", "blocked"}
Adopted == {"accepted", "resolved-by-evidence"}
Statuses == Open \cup Adopted \cup {"invalidated", "active", "open", "planned", "completed"}

(* A project starts with no decision that an earlier one has invalidated,  *)
(* and its links join objects it has.                                      *)
ASSUME ProjectsAssumption ==
    /\ \A n \in DOMAIN Projects :
          LET start == Projects[n]
              recorded == DOMAIN start.status
          IN  /\ start.status \in [recorded -> Statuses]
              /\ recorded \cap DOMAIN Meta # {}
              /\ \A l \in start.links : {l.from, l.to} \subseteq recorded
              /\ \A o \in recorded : TypeOf(o) = "decision" => start.status[o] # "invalidated"
    /\ Depths \subseteq Nat /\ Expiries \subseteq Nat /\ MaxTime \in Nat

Impact == INSTANCE InfluenceGraph

VARIABLES
    project,    \* the name of this one, never changed
    p,          \* its state: [status, links, approvals, updatedAt]
    clock,      \* utc_now
    invalidatedBy,  \* invalidated_by of decisions, as <<decision, root>>
    seen        \* history: what bore on the target when an approval was given

vars == << project, p, clock, invalidatedBy, seen >>

Graph == [links |-> p.links,
          type |-> [o \in DOMAIN p.status |-> TypeOf(o)],
          status |-> p.status]

(* The transitive closure of invalidated_by.                               *)
Chain(edges) ==
    LET nodes == {e[1] : e \in edges} \cup {e[2] : e \in edges}
        reach[n \in 0 .. Cardinality(nodes)] ==
            IF n = 0 THEN edges
            ELSE reach[n - 1] \cup {e \in nodes \X nodes :
                     \E y \in nodes : << e[1], y >> \in reach[n - 1] /\ << y, e[2] >> \in edges}
    IN  reach[Cardinality(nodes)]

Init ==
    /\ project \in DOMAIN Projects
    /\ p = [status |-> Projects[project].status, links |-> Projects[project].links,
            approvals |-> {}, updatedAt |-> 0]
    /\ clock = 0
    /\ invalidatedBy = {}
    /\ seen = {}

(* The facts a person judges: which live objects bear on o, and how.       *)
Facts(q, o) ==
    {i.link : i \in EvidenceItems(q, o, 0) \cup AssumptionItems(q, o, 0) \cup RiskItems(q, o)}

Tick ==
    /\ clock < MaxTime
    /\ clock' = clock + 1
    /\ UNCHANGED << project, p, invalidatedBy, seen >>

(* The time read before the lock is taken: now, or a moment ago.           *)
TimesBeforeLock == {clock - 1, clock} \cap Nat

(* A transaction: its events carry the time of the clock.                  *)
Record(q) ==
    /\ Cardinality(DOMAIN q.status) <= Projects[project].maxObjects
    /\ p' = [q EXCEPT !.updatedAt = clock]

-----------------------------------------------------------------------------
(* What arrives.                                                           *)

(* A new object, in its first status.                                      *)
WithObject(status, o, first) == [x \in DOMAIN status \cup {o} |-> IF x = o THEN first ELSE status[x]]

WithEvidence(e, l) ==
    [p EXCEPT !.status = IF e \in DOMAIN @ THEN @ ELSE WithObject(@, e, "active"),
              !.links = @ \cup {l}]

(* link_evidence_to_object                                                 *)
LinkEvidence(l) ==
    /\ l \notin p.links /\ l.to \in DOMAIN p.status
    /\ Record(WithEvidence(l.from, l))
    /\ UNCHANGED << project, clock, invalidatedBy, seen >>

(* The risk that comes with a promoted draft decision: recorded with the   *)
(* decision, challenging it.                                               *)
MaterializeDecision(d, r) ==
    /\ TypeOf(d) = "decision" /\ TypeOf(r) = "risk" /\ Meta[r].source = "draft"
    /\ {d, r} \cap DOMAIN p.status = {}
    /\ Record([p EXCEPT !.status = WithObject(WithObject(@, r, "open"), d, "proposed"),
                        !.links = @ \cup {[from |-> r, relation |-> "challenges", to |-> d]}])
    /\ UNCHANGED << project, clock, invalidatedBy, seen >>

(* record_reply_artifacts: a risk the user named, of a fixed medium tier.  *)
RecordReplyRisk(r, d) ==
    /\ TypeOf(d) = "decision" /\ TypeOf(r) = "risk" /\ Meta[r].source = "user-reply"
    /\ d \in DOMAIN p.status /\ r \notin DOMAIN p.status
    /\ Record([p EXCEPT !.status = WithObject(@, r, "open"),
                        !.links = @ \cup {[from |-> r, relation |-> "addresses", to |-> d]}])
    /\ UNCHANGED << project, clock, invalidatedBy, seen >>

-----------------------------------------------------------------------------
(* Approvals.                                                              *)

(* build_safety_approval_event_specs: the artifact of this target and      *)
(* digest is recorded, or the one there is refreshed.                      *)
Approved(q, inputs, level, expires) ==
    [q EXCEPT !.approvals =
        {a \in @ : ~ (a.target = inputs.object /\ a.digest = Digest(inputs))}
        \cup {[target |-> inputs.object, digest |-> Digest(inputs), level |-> level, expires |-> expires]}]

Witnessed(q, inputs) ==
    {w \in seen : ~ (w.target = inputs.object /\ w.digest = Digest(inputs))}
    \cup {[target |-> inputs.object, digest |-> Digest(inputs), facts |-> Facts(q, inputs.object)]}

(* approve_safety_gate: refused when the gate is blocked, nothing to do    *)
(* when it is satisfied.  That the gate asks for an approval is no guard:  *)
(* candidate_apply_approval lets one be given all the same.                *)
ApproveSafetyGate(o) ==
    /\ Cardinality(p.approvals) < MaxApprovals
    /\ LET gate == Gate(p, o, clock) IN
       /\ gate.status # "blocked" /\ ~ gate.satisfied
       /\ \E expires \in {x \in Expiries : x > clock} :
             Record(Approved(p, gate.inputs, MaxRank({1, gate.inputs.threshold}), expires))
       /\ seen' = Witnessed(p, gate.inputs)
    /\ UNCHANGED << project, clock, invalidatedBy >>

-----------------------------------------------------------------------------
(* Adoption.                                                               *)

Adopt(q, o, status) == [q EXCEPT !.status[o] = status]

AcceptPassed(d, t) ==
    /\ TypeOf(d) = "decision" /\ d \in DOMAIN p.status /\ p.status[d] = "proposed"
    /\ Gate(p, d, t).status = "passed"
    /\ Record(Adopt(p, d, "accepted"))
    /\ UNCHANGED << project, clock, invalidatedBy, seen >>

(* _explicit_acceptance_can_inline_approval                                *)
InlineReasons(inputs) == inputs.approval = {"explicit_acceptance_required"}

(* An explicit acceptance is itself the approval when that is all that is  *)
(* asked for.                                                              *)
AcceptWithInlineApproval(d, t) ==
    LET gate == Gate(p, d, t) IN
    /\ TypeOf(d) = "decision" /\ d \in DOMAIN p.status /\ p.status[d] = "proposed"
    /\ gate.status = "needs_approval" /\ InlineReasons(gate.inputs)
    /\ Cardinality(p.approvals) < MaxApprovals
    /\ Record(Adopt(Approved(p, gate.inputs, 1, Never), d, "accepted"))
    /\ seen' = Witnessed(p, gate.inputs)
    /\ UNCHANGED << project, clock, invalidatedBy >>

(* resolve_by_evidence: the gate is that of the project with the evidence; *)
(* what still needs approval keeps the evidence and stays open.            *)
ResolveByEvidence(d, e, t) ==
    LET q == WithEvidence(e, [from |-> e, relation |-> "supports", to |-> d])
        gate == Gate(q, d, t)
    IN  /\ TypeOf(d) = "decision" /\ d \in DOMAIN p.status /\ p.status[d] \in Open
        /\ gate.status # "blocked"
        /\ q # p \/ gate.status = "passed"
        /\ Record(IF gate.status = "passed" THEN Adopt(q, d, "resolved-by-evidence") ELSE q)
        /\ UNCHANGED << project, clock, invalidatedBy, seen >>

-----------------------------------------------------------------------------
(* Invalidation candidates.                                                *)

Candidates(root, change, depth) == Impact!InvalidationCandidates(Graph, root, change, depth, TRUE)

VerificationOf(c) == [verifies |-> c.target, candidate |-> c.id]

(* The proposed events of a candidate.  A second add_verification under    *)
(* the same id is refused: the object exists.                              *)
Effect(c) ==
    CASE c.kind = "add_verification" ->
            [p EXCEPT !.status = WithObject(@, VerificationOf(c), "planned"),
                      !.links = @ \cup {[from |-> VerificationOf(c), relation |-> "verifies", to |-> c.target]}]
      [] c.kind = "supersede" ->
            [p EXCEPT !.status[c.target] = "invalidated",
                      !.links = @ \cup {[from |-> c.id.root, relation |-> "supersedes", to |-> c.target]}]
      [] OTHER -> [p EXCEPT !.status[c.target] = "invalidated"]

MayApply_OldApproval(c, gate) ==
    /\ c.materialized
    /\ gate.status # "blocked"
    /\ c.severity = 3 \/ gate.status = "needs_approval" => \E a \in p.approvals : a.target = c.target

(* _validate_candidate_application, with a reason and with an approval of  *)
(* the gate when there is one.                                             *)
MayApply(c, gate) ==
    /\ c.materialized
    /\ gate.status # "blocked"
    /\ c.severity = 3 \/ gate.status = "needs_approval" => gate.approvals # {}

ApplyCandidate(c) ==
    /\ MayApply(c, GateAsOfLog(p, c.target))
    /\ c.kind = "add_verification" => VerificationOf(c) \notin DOMAIN p.status
    /\ Record(Effect(c))
    /\ invalidatedBy' = invalidatedBy \cup
          (IF TypeOf(c.target) = "decision" /\ c.kind # "add_verification"
           THEN {<< c.target, c.id.root >>} ELSE {})
    /\ UNCHANGED << project, clock, seen >>

(* resolve_decision_supersession: a decision of any status falls to one    *)
(* that is final.  No gate is asked, and no approval.                      *)
ResolveDecisionSupersession(old, new) ==
    /\ old # new /\ TypeOf(old) = "decision" /\ TypeOf(new) = "decision"
    /\ p.status[old] # "invalidated" /\ p.status[new] \in Adopted
    /\ Record([p EXCEPT !.status[old] = "invalidated",
                        !.links = @ \cup {[from |-> new, relation |-> "supersedes", to |-> old]}])
    /\ invalidatedBy' = invalidatedBy \cup {<< old, new >>}
    /\ UNCHANGED << project, clock, seen >>

-----------------------------------------------------------------------------
Approve == \E o \in Projects[project].approvable \cap DOMAIN p.status : ApproveSafetyGate(o)

Accept == \E d \in DOMAIN p.status, t \in TimesBeforeLock :
              AcceptPassed(d, t) \/ AcceptWithInlineApproval(d, t)

Resolve == \E d \in DOMAIN p.status, e \in Projects[project].resolving, t \in TimesBeforeLock : ResolveByEvidence(d, e, t)

Apply == \E root \in DOMAIN p.status, change \in Projects[project].changes, depth \in Depths :
             \E c \in Candidates(root, change, depth) : ApplyCandidate(c)

Supersede == \E old, new \in DOMAIN p.status : ResolveDecisionSupersession(old, new)

Next ==
    \/ Tick
    \/ \E l \in Projects[project].linkable : LinkEvidence(l)
    \/ \E d, r \in Projects[project].objects : MaterializeDecision(d, r) \/ RecordReplyRisk(r, d)
    \/ Approve
    \/ Accept
    \/ Resolve
    \/ Apply
    \/ Supersede

Spec == Init /\ [][Next]_vars

-----------------------------------------------------------------------------
(* Properties.                                                             *)

Recorded == DOMAIN p.status

TypeOK ==
    /\ DOMAIN Meta \cap Recorded # {} /\ p.status \in [Recorded -> Statuses]
    /\ \A l \in p.links : {l.from, l.to} \subseteq Recorded
    /\ \A a \in p.approvals : a.target \in Recorded /\ a.level \in 1 .. 3 /\ a.expires \in Expiries \cup {Never}
    /\ p.updatedAt \in 0 .. clock /\ clock \in 0 .. MaxTime
    /\ \A i \in invalidatedBy : p.status[i[1]] = "invalidated" /\ i[2] \in Recorded

(* What the risks and the evidence that bear on o in project q say of it,  *)
(* without the gate.                                                       *)
BearingRisks(q, o) == {i.object : i \in RiskItems(q, o)}

Contested(q, o) ==
    \/ \E r \in BearingRisks(q, o) : Meta[r].tier = 4
    \/ \E l \in q.links : /\ l.to = o /\ l.relation = "challenges"
                          /\ TypeOf(l.from) = "evidence" /\ IsLive(q, l.from)

NeedsApproval(q, o) ==
    \/ Meta[o].reversibility = 3
    \/ \E r \in BearingRisks(q, o) : Meta[r].tier = 3 \/ Meta[r].threshold > 0 \/ Meta[r].reversibility = 3

(* Somebody approved o knowing exactly the live evidence, assumptions and  *)
(* risks that bear on it in q, at the level the risks ask for.             *)
ApprovedAsIs(q, o, witnesses) ==
    \E w \in witnesses :
        /\ w.target = o /\ w.facts = Facts(q, o)
        /\ \E a \in q.approvals : /\ a.target = o /\ a.digest = w.digest
                                 /\ \A r \in BearingRisks(q, o) : a.level >= Meta[r].threshold

(* A decision is never accepted or resolved while a critical risk or       *)
(* evidence against it is live, and never without an approval by somebody  *)
(* who knew everything that bears on it now, when one is needed: evidence, *)
(* risks and approvals arrive in any order, and what arrives after the     *)
(* approval voids it.                                                      *)
AdoptedAsJudged ==
    [][\A d \in Recorded :
         (p.status[d] \notin Adopted /\ p'.status[d] \in Adopted) =>
             /\ ~ Contested(p', d)
             /\ NeedsApproval(p', d) => ApprovedAsIs(p', d, seen')]_vars

(* A candidate that is applied invalidates an accepted decision only after *)
(* somebody approved that, knowing what bears on it now, however the       *)
(* report that offered the candidate, the approval and the changes of the  *)
(* project interleave.  (A supersession invalidates it all the same.)      *)
FallsAsJudged ==
    [][\A d \in Recorded :
         /\ TypeOf(d) = "decision" /\ p.status[d] = "accepted" /\ p'.status[d] # "accepted"
         /\ Apply
         => ApprovedAsIs(p, d, seen)]_vars

(* Following invalidated_by from an invalidated decision leads to one that *)
(* is accepted or resolved, also when the decision that invalidated it is  *)
(* invalidated in its turn: validate_projection_bundle, which is not a     *)
(* guard here, never refuses what applying a candidate or superseding a    *)
(* decision produces.                                                      *)
InvalidationIsGrounded ==
    \A d \in Recorded : TypeOf(d) = "decision" /\ p.status[d] = "invalidated" =>
        \E r \in Recorded :
            p.status[r] \in Adopted /\ << d, r >> \in Chain(invalidatedBy)

(* When approve_safety_gate answers that nothing is to be done, at the     *)
(* time of the clock, the candidate that asked for the approval finds one, *)
(* at the time of the last event: nobody is sent back and forth between    *)
(* the two.                                                                *)
AlreadyApprovedIsApplicable ==
    \A o \in Recorded : Gate(p, o, clock).satisfied => GateAsOfLog(p, o).approvals # {}

(* references/safety-approvals.md: "Matching approval requires the target  *)
(* id, gate digest, non-expired approval metadata, and the `addresses`     *)
(* link."  What apply-invalidation-candidate relies on may have expired    *)
(* since the last event.                                                   *)
FallsUnderLiveApproval ==
    [][\A d \in Recorded :
         (p.status[d] = "accepted" /\ p'.status[d] # "accepted" /\ Apply) =>
             \E a \in p.approvals : a.target = d /\ a.expires >= clock]_vars

(* Recording an approval does not void it: the artifact and the link it    *)
(* adds to the project, and the time that passes with its event, leave the *)
(* digest of the gate as it was, and the gate passes.                      *)
ApprovalTakesEffect ==
    [][\A a \in p'.approvals \ p.approvals :
         p'.status = p.status => Gate(p', a.target, clock').status = "passed"]_vars
=============================================================================
