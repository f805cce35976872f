------------------------------ MODULE SafetyGate ------------------------------
(***************************************************************************)
(* The safety gate of an object (decide_me/safety_gate.py), as operators   *)
(* over a project                                                          *)
(*                                                                         *)
(*   p == [status, links, approvals, updatedAt]                            *)
(*                                                                         *)
(* where status maps every recorded object to its status, a link is        *)
(* [from, relation, to], an approval is an active artifact with its        *)
(* "addresses" link, [target, digest, level, expires], and Meta[o] holds   *)
(* what the gate reads of an object's metadata, which no operation         *)
(* changes.                                                                *)
(*                                                                         *)
(* Tiers, thresholds, reversibilities and confidences are the ranks of the *)
(* code: tier 0 none .. 3 high, 4 critical; threshold 0 none, 1            *)
(* explicit_acceptance, 2 human_review, 3 external_review; reversibility 0 *)
(* unknown .. 3 irreversible; confidence 1 low .. 3 high.  Times are       *)
(* numbers; Never is a time past all of them.                              *)
(*                                                                         *)
(* The digest hashes its inputs; here it is the inputs.  Statements,       *)
(* titles and the wording of the policy are left out, and so are the       *)
(* required actions and the approval style of the risk policy, which are   *)
(* functions of the tier and the reasons.                                  *)
(***************************************************************************)
EXTENDS Integers, FiniteSets, FiniteSetsExt

CONSTANTS
    Meta,           \* what the gate reads of each object
    DomainRules     \* safety rules of the domain pack, [kinds, threshold]

(* The ranks of metadata are those of the code.                            *)
ASSUME MetaAssumption ==
    /\ \A o \in DOMAIN Meta :
          /\ Meta[o].type = "risk" => /\ Meta[o].tier \in 0 .. 4 /\ Meta[o].threshold \in 0 .. 3
                                     /\ Meta[o].reversibility \in 0 .. 3
          /\ Meta[o].type \in {"action", "decision"} => Meta[o].reversibility \in 0 .. 3
    /\ \A rule \in DomainRules : rule.threshold \in 0 .. 3

Never == 1000

MaxRank(S) == Max(S \cup {0})

IsLive(p, o) == o \in DOMAIN p.status /\ p.status[o] # "invalidated"

(* A verification recorded for a candidate has no metadata the gate reads. *)
TypeOf(o) == IF o \in DOMAIN Meta THEN Meta[o].type ELSE "verification"

-----------------------------------------------------------------------------
(* What bears on an object: live evidence linked to it, live assumptions   *)
(* and live risks.                                                         *)

IsStale(e, t) == Meta[e].freshness = "stale" \/ Meta[e].validUntil < t

EvidenceItems(p, o, t) ==
    {[link |-> l, stale |-> IsStale(l.from, t)] :
        l \in {k \in p.links : /\ k.to = o /\ k.relation \in {"supports", "verifies", "challenges"}
                               /\ TypeOf(k.from) = "evidence" /\ IsLive(p, k.from)}}

AssumptionItems(p, o, t) ==
    LET bearing == {[object |-> k.from, link |-> k] :
                        k \in {l \in p.links : l.to = o /\ l.relation \in {"constrains", "invalidates"}}}
                   \cup {[object |-> k.to, link |-> k] :
                        k \in {l \in p.links : l.from = o /\ l.relation \in {"requires", "derived_from"}}}
    IN  {[object |-> b.object, link |-> b.link, expired |-> Meta[b.object].expires < t] :
            b \in {c \in bearing : TypeOf(c.object) = "assumption" /\ IsLive(p, c.object)}}

(* A risk also bears on the objects its metadata names as mitigations.     *)
RiskItems(p, o) ==
    LET linked == {[object |-> k.from, link |-> k] :
                      k \in {l \in p.links : l.to = o /\ l.relation \in {"challenges", "constrains", "invalidates"}}}
                  \cup {[object |-> k.to, link |-> k] :
                      k \in {l \in p.links : l.from = o /\ l.relation \in {"blocked_by", "addresses", "mitigates"}}}
        mitigated == {[object |-> r, link |-> [from |-> o, relation |-> "mitigation_metadata", to |-> r]] :
                         r \in {x \in DOMAIN p.status : TypeOf(x) = "risk" /\ o \in Meta[x].mitigations}}
    IN  {b \in linked \cup mitigated : TypeOf(b.object) = "risk" /\ IsLive(p, b.object)}

-----------------------------------------------------------------------------
(* The domain pack: evidence it requires for a decision, and rules that    *)
(* raise the threshold for kinds of risks.                                 *)

Meets(item, requirement) ==
    LET e == Meta[item.link.from] IN
    /\ item.link.relation \in {"supports", "verifies"}
    /\ e.kind = requirement.kind
    /\ e.confidence >= requirement.confidence
    /\ \/ requirement.freshness = "unknown"
       \/ /\ e.freshness = requirement.freshness
          /\ requirement.freshness = "current" => ~ item.stale

MissingRequirements(o, evidence) ==
    IF TypeOf(o) # "decision" THEN {}
    ELSE {q \in Meta[o].required : ~ \E item \in evidence : Meets(item, q)}

MatchingRules(o, risks) ==
    IF TypeOf(o) # "decision" \/ ~ Meta[o].pack THEN {}
    ELSE {rule \in DomainRules : \E r \in risks : Meta[r.object].kind \in rule.kinds}

-----------------------------------------------------------------------------
(* Verdicts.                                                               *)

EvidenceCoverage(evidence) ==
    IF \E i \in evidence : i.link.relation = "challenges" THEN "challenged"
    ELSE IF \E i \in evidence : /\ Meta[i.link.from].confidence >= 2
                                /\ Meta[i.link.from].freshness = "current" /\ ~ i.stale
         THEN "sufficient"
    ELSE "insufficient"

(* An action that no live evidence or verification supports or verifies.   *)
VerificationGap(p, o) ==
    IF TypeOf(o) # "action"
       \/ \E l \in p.links : /\ l.to = o /\ l.relation \in {"supports", "verifies"}
                             /\ TypeOf(l.from) \in {"evidence", "verification"} /\ IsLive(p, l.from)
    THEN "none"
    ELSE IF p.status[o] = "completed" THEN "high" ELSE "medium"

BlockingReasons(p, o, tier, coverage, gap) ==
    {r \in {"target_invalidated", "critical_risk_tier", "insufficient_evidence",
            "challenged_evidence", "completed_action_verification_gap"} :
        CASE r = "target_invalidated"    -> p.status[o] = "invalidated"
          [] r = "critical_risk_tier"    -> tier = 4
          [] r = "insufficient_evidence" -> coverage = "insufficient" /\ tier = 4
          [] r = "challenged_evidence"   -> coverage = "challenged"
          [] OTHER                       -> gap = "high"}

ApprovalReasons(tier, reversibility, threshold, coverage, gap, assumptions, missing) ==
    {r \in {"high_risk_tier", "irreversible_change", "insufficient_evidence_requires_approval",
            "action_verification_gap", "expired_assumption_review_required", "external_review_required",
            "human_review_required", "explicit_acceptance_required", "domain_required_evidence_missing"} :
        CASE r = "high_risk_tier"      -> tier = 3
          [] r = "irreversible_change" -> reversibility = 3
          [] r = "insufficient_evidence_requires_approval" -> coverage = "insufficient" /\ tier \in {2, 3}
          [] r = "action_verification_gap" -> gap = "medium"
          [] r = "expired_assumption_review_required" ->
                tier >= 3 /\ \E a \in assumptions : a.expired
          [] r = "external_review_required"     -> threshold = 3
          [] r = "human_review_required"        -> threshold = 2
          [] r = "explicit_acceptance_required" -> threshold = 1
          [] OTHER                              -> missing # {}}

WarningReasons(tier, reversibility, coverage, evidence, assumptions) ==
    {r \in {"medium_risk_tier", "partially_reversible_change", "low_confidence_assumption",
            "expired_assumption", "stale_supporting_evidence", "insufficient_evidence"} :
        CASE r = "medium_risk_tier"            -> tier = 2
          [] r = "partially_reversible_change" -> reversibility = 2
          [] r = "low_confidence_assumption"   -> \E a \in assumptions : Meta[a.object].confidence = 1
          [] r = "expired_assumption"          -> \E a \in assumptions : a.expired
          [] r = "stale_supporting_evidence"   ->
                \E i \in evidence : i.stale /\ i.link.relation \in {"supports", "verifies"}
          [] OTHER -> coverage = "insufficient" /\ tier < 2}

RiskTier(risks) == MaxRank({Meta[r.object].tier : r \in risks})

ApprovalThreshold(o, risks) ==
    MaxRank({Meta[r.object].threshold : r \in risks} \cup {rule.threshold : rule \in MatchingRules(o, risks)})

Reversibility(o, risks) ==
    MaxRank({Meta[r.object].reversibility : r \in risks}
            \cup (IF TypeOf(o) \in {"action", "decision"} THEN {Meta[o].reversibility} ELSE {}))

-----------------------------------------------------------------------------
(* The gate of o at time t.                                                *)

Judged(p, o, evidence, assumptions, risks, tier, coverage, threshold, reversibility, gap, missing) ==
    [object |-> o, evidence |-> evidence, assumptions |-> assumptions, risks |-> risks,
     tier |-> tier, coverage |-> coverage, threshold |-> threshold,
     reversibility |-> reversibility, gap |-> gap, missing |-> missing,
     blocking |-> BlockingReasons(p, o, tier, coverage, gap),
     approval |-> ApprovalReasons(tier, reversibility, threshold, coverage, gap, assumptions, missing),
     warning |-> WarningReasons(tier, reversibility, coverage, evidence, assumptions)]

Weighed(p, o, evidence, assumptions, risks) ==
    Judged(p, o, evidence, assumptions, risks,
           RiskTier(risks), EvidenceCoverage(evidence), ApprovalThreshold(o, risks),
           Reversibility(o, risks), VerificationGap(p, o), MissingRequirements(o, evidence))

Inputs(p, o, t) ==
    Weighed(p, o, EvidenceItems(p, o, t), AssumptionItems(p, o, t), RiskItems(p, o))

Digest_WithoutEvidence(inputs) == [inputs EXCEPT !.evidence = {}]

(* The status and the title of the target are not part of it.              *)
Digest(inputs) == inputs

MatchingApprovals(p, inputs, t) ==
    {a \in p.approvals : /\ a.target = inputs.object /\ a.digest = Digest(inputs)
                         /\ a.level >= inputs.threshold
                         /\ ~ (a.expires < t)}

(* The result of evaluate_safety_gate.                                     *)
Verdict(inputs, matching) ==
    LET required == inputs.approval # {}
        satisfied == required /\ matching # {}
    IN  [inputs |-> inputs, approvals |-> matching, required |-> required, satisfied |-> satisfied,
         status |-> IF inputs.blocking # {} THEN "blocked"
                    ELSE IF required /\ ~ satisfied THEN "needs_approval" ELSE "passed"]

VerdictAt(p, inputs, t) == Verdict(inputs, MatchingApprovals(p, inputs, t))

(* evaluate_safety_gate                                                    *)
Gate(p, o, t) == VerdictAt(p, Inputs(p, o, t), t)

(* Without a time the gate is that of the last event of the log.           *)
GateAsOfLog(p, o) == Gate(p, o, p.updatedAt)
=============================================================================
