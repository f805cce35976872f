--------------------------- MODULE DraftProjection ---------------------------
(***************************************************************************)
(* The diagnostics of one draft set (draft_projection.py): its coverage    *)
(* matrix, gaps, frontier queue and convergence, as operators on           *)
(*   - ds, a draft set: its decisions, actions, verifications, conflicts,  *)
(*     promoted ids, head at generation and coverage targets;              *)
(*   - head, the current project head, and canon, the canonical objects,   *)
(*     accepted decisions and drafts that a canonical decision names.      *)
(*                                                                         *)
(* Ids and axis ids are tuples of strings.  A draft decision's "has" are   *)
(* the texts it gives; absent human_review and promotion_recipe have       *)
(* present = FALSE.  Priorities are their ranks, 0 for P0 to 3 for P3.     *)
(***************************************************************************)
EXTENDS Integers, Sequences, FiniteSets, SequencesExt

(* DECISION_STACK_LAYER_ORDER                                              *)
LayerOrder == << "purpose", "principle", "constraint", "strategy",
                 "design", "execution", "verification", "review" >>

AxisTypeOrder == << "decision_stack_layer", "evidence_coverage",
                    "human_review_safety", "promotion_safety" >>

SeverityRank(s) == CASE s = "critical" -> 0 [] s = "high" -> 1 [] s = "medium" -> 2 [] s = "low" -> 3

PositionIn(order, x) ==
    IF x \in Range(order) THEN CHOOSE i \in DOMAIN order : order[i] = x ELSE 99

Urgent(priority) == priority <= 1

InsufficientEvidence == {"none", "challenged", "unknown"}

EvidenceRank == [challenged |-> 0, none |-> 1, unknown |-> 2, partial |-> 3, sufficient |-> 4]

WorstEvidence(statuses) ==
    CHOOSE s \in statuses \cup {"sufficient"} :
        \A r \in statuses \cup {"sufficient"} : EvidenceRank[s] <= EvidenceRank[r]

-----------------------------------------------------------------------------
(* Draft objects                                                           *)

DraftIds(ds) == {d.id : d \in ds.decisions \cup ds.actions \cup ds.verifications}

DuplicateIds(ds) ==
    {i \in DraftIds(ds) :
        Cardinality({d \in ds.decisions : d.id = i}) + Cardinality({a \in ds.actions : a.id = i})
            + Cardinality({v \in ds.verifications : v.id = i}) > 1}

CoversLayer(d) == {"question", "recommendation", "rationale"} \subseteq d.has

LacksEvidence(d) ==
    \/ d.evidence \in InsufficientEvidence
    \/ d.evidence = "partial" /\ d.missing

BulkRequested(d) == d.review.mode = "bulk" \/ d.review.bulk

HasEvidenceAction(ds, id) == \E a \in ds.actions : a.evidence /\ id \in a.targets

IsStale(ds, head) == ds.generated # head

-----------------------------------------------------------------------------
(* The coverage matrix: one row for each target of the contract, and the   *)
(* safety rows the contract does not name.                                 *)

Row(t, observed, status) ==
    [axis |-> t.axis, type |-> t.type, value |-> t.value, priority |-> t.priority,
     required |-> t.required, source |-> t.source, policy |-> t.policy,
     observed |-> observed, status |-> status,
     blocks |-> t.required /\ Urgent(t.priority) /\ status # "covered"]

Escalated(t, priority, required) == [t EXCEPT !.priority = priority, !.required = required]

LayerRow(ds, t) ==
    LET matching == {d \in ds.decisions : d.layer = t.value}
        complete == {d \in matching : CoversLayer(d)}
        bound == {d \in complete : t.axis \in d.binds}
        covered == \/ t.policy = "layer_complete" /\ complete # {}
                   \/ t.policy = "explicit_target_or_domain_axis" /\ bound # {}
    IN  Row(t, "layer", IF covered THEN "covered" ELSE IF matching # {} THEN "partial" ELSE "missing")

EvidenceTargetStatus(value, observed) ==
    CASE value = "sufficient" -> (CASE observed = "sufficient" -> "covered"
                                    [] observed = "partial" -> "partial" [] OTHER -> "missing")
      [] value = "partial" -> IF observed \in {"partial", "sufficient"} THEN "covered" ELSE "missing"
      [] OTHER -> IF observed = value THEN "covered" ELSE "partial"

HighestPriority(drafts) == CHOOSE p \in {d.priority : d \in drafts} : \A d \in drafts : p <= d.priority

(* The priority and the requirement of the target give way to those of the *)
(* drafts that lack evidence, whichever is the stricter.                   *)
EvidenceRow(ds, t) ==
    LET worst == WorstEvidence({d.evidence : d \in ds.decisions})
        lacking == {d \in ds.decisions : LacksEvidence(d)}
        status == EvidenceTargetStatus(t.value, worst)
        target == IF status = "covered" \/ lacking = {} THEN t
                  ELSE Escalated(t, HighestPriority(lacking), Urgent(HighestPriority(lacking)))
    IN  Row(target, worst, status)

ReviewTargetStatus(value, observed) ==
    IF value = observed THEN "covered" ELSE IF value = "bulk_allowed" THEN "partial" ELSE "missing"

UnsafeBulk(ds) == {d \in ds.decisions : d.risk \in {"high", "critical"} /\ BulkRequested(d)}

IndividualNeeded(ds) ==
    {d \in ds.decisions \ UnsafeBulk(ds) : Urgent(d.priority) /\ BulkRequested(d) /\ ~d.review.required}

HumanReviewRow(ds, t) ==
    LET row(target, observed) == Row(target, observed, ReviewTargetStatus(t.value, observed))
    IN  CASE UnsafeBulk(ds) # {} -> row(Escalated(t, 0, TRUE), "blocked")
          [] UnsafeBulk(ds) = {} /\ IndividualNeeded(ds) # {} ->
                 row(Escalated(t, HighestPriority(IndividualNeeded(ds)), TRUE), "bulk_allowed")
          [] OTHER -> row(t, IF \E d \in ds.decisions : d.review.required
                             THEN "individual_required" ELSE "bulk_allowed")

PromotionRow(ds, head, t) ==
    LET row(problem, priority, status) ==
            IF problem THEN Row(Escalated(t, priority, TRUE), "problem", status)
            ELSE Row(t, "fine", "covered")
    IN  CASE t.value = "accepted_forbidden" ->
                 row(\E d \in ds.decisions : d.status = "accepted" \/ d.recipe.accepted, 0, "missing")
          [] t.value = "stale_warning" -> row(IsStale(ds, head), 1, "partial")
          [] OTHER -> row(\E d \in ds.decisions : ~d.recipe.proposal, 0, "missing")

(* A target without a match policy is never covered.                       *)
RowFor(ds, head, t) ==
    CASE t.type = "decision_stack_layer" -> LayerRow(ds, t)
      [] t.type # "decision_stack_layer" /\ t.policy = "missing_fail_closed" -> Row(t, "no policy", "missing")
      [] t.type = "evidence_coverage" /\ t.policy # "missing_fail_closed" -> EvidenceRow(ds, t)
      [] t.type = "human_review_safety" /\ t.policy # "missing_fail_closed" -> HumanReviewRow(ds, t)
      [] t.type = "promotion_safety" /\ t.policy # "missing_fail_closed" -> PromotionRow(ds, head, t)

SafetyTarget(type, value) ==
    [axis |-> << "core", type, value >>, type |-> type, value |-> value, priority |-> 2,
     required |-> FALSE, source |-> "core", policy |-> "layer_complete"]

DerivedTargets ==
    {SafetyTarget("evidence_coverage", "sufficient"),
     SafetyTarget("human_review_safety", "individual_required")}
    \cup {SafetyTarget("promotion_safety", v) : v \in {"proposal_required", "accepted_forbidden", "stale_warning"}}

CoverageMatrix(ds, head) ==
    LET named == {t.axis : t \in ds.targets}
    IN  {RowFor(ds, head, t) : t \in ds.targets \cup {u \in DerivedTargets : u.axis \notin named}}

-----------------------------------------------------------------------------
(* Gap diagnostics                                                         *)

Gap(type, kind, target, severity, blocks) ==
    [type |-> type, kind |-> kind, target |-> target, severity |-> severity, blocks |-> blocks]

When(condition, gap) == IF condition THEN {gap} ELSE {}

EvidenceGaps(ds, d) ==
    LET urgent == Urgent(d.priority)
        gap(type, severity) == Gap(type, "draft_decision", d.id, severity, urgent)
        unsupported == d.evidence = "partial" /\ (d.missing \/ (d.supports = {} /\ ~d.units))
    IN  When(d.evidence = "challenged", gap("challenged_evidence", "high"))
        \cup When(d.evidence \in InsufficientEvidence \ {"challenged"}
                  /\ (urgent \/ ~HasEvidenceAction(ds, d.id)), gap("insufficient_evidence", "high"))
        \cup When(unsupported /\ ~HasEvidenceAction(ds, d.id),
                  gap("unsupported_recommendation", IF urgent THEN "high" ELSE "medium"))

DecisionGaps(ds, canon, d) ==
    LET urgent == Urgent(d.priority)
        blocking(type, severity) == Gap(type, "draft_decision", d.id, severity, TRUE)
    IN  EvidenceGaps(ds, d)
        \cup When("question" \notin d.has, blocking("missing_question", "high"))
        \cup When(urgent /\ "recommendation" \notin d.has, blocking("missing_recommendation", "high"))
        \cup When("alternatives" \notin d.has,
                  Gap("missing_alternatives", "draft_decision", d.id,
                      IF urgent THEN "high" ELSE "medium", urgent))
        \cup When(~d.recipe.present, blocking("missing_promotion_recipe", "high"))
        \cup When(~(d.supports \subseteq canon.objects), blocking("dangling_supporting_object", "high"))
        \cup When(~d.review.present, blocking("missing_human_review", "high"))
        \cup When(d.risk \in {"high", "critical"} /\ d.review.mode = "bulk",
                  blocking("unsafe_bulk_review", "critical"))
        \cup When(d.review.bulk /\ d.recipe.blocked, blocking("bulk_promotion_blocked", "high"))

Unobserved == "verification_without_observable_command"

ActionGaps(ds) ==
    {Gap(Unobserved, "draft_action", a.id, "medium", FALSE) :
        a \in {b \in ds.actions : \A v \in ds.verifications : b.id \notin v.targets}}
    \cup {Gap(Unobserved, "draft_verification", v.id, "medium", TRUE) :
        v \in {w \in ds.verifications : w.targets = {}}}

(* A conflict's gaps go to one of the draft objects it names, if any.      *)
ConflictTarget(ds, c) ==
    IF c.drafts \cap DraftIds(ds) # {} THEN CHOOSE i \in c.drafts : i \in DraftIds(ds) ELSE << "conflict" >>

ReferenceGaps(ds, canon) ==
    {Gap("accepted_decision_conflict_possible", "draft_conflict", ConflictTarget(ds, c), "critical", TRUE) :
        c \in {k \in ds.conflicts : k.canonical \cap canon.accepted # {}}}
    \cup {Gap("dangling_draft_reference", "draft_reference", i, "high", TRUE) :
        i \in (UNION {c.drafts : c \in ds.conflicts}) \ DraftIds(ds)}
    \cup {Gap("dangling_draft_reference", "draft_action", a.id, "high", TRUE) :
        a \in {b \in ds.actions : ~(b.targets \subseteq DraftIds(ds))}}
    \cup {Gap("dangling_draft_reference", "draft_verification", v.id, "high", TRUE) :
        v \in {w \in ds.verifications : ~(w.targets \subseteq DraftIds(ds))}}

PromotionGaps(ds, canon) ==
    {Gap("promoted_but_missing_canonical", "draft_decision", i, "high", TRUE) :
        i \in ds.promoted \ canon.origins}

CoverageGapType(row) ==
    CASE row.type = "decision_stack_layer" -> "missing_required_layer"
      [] row.type = "evidence_coverage" ->
            IF row.observed = "challenged" THEN "challenged_evidence" ELSE "insufficient_evidence"
      [] row.type = "human_review_safety" -> "unsafe_bulk_review"
      [] row.type = "promotion_safety" /\ row.value = "accepted_forbidden" -> "accepted_decision_conflict_possible"
      [] row.type = "promotion_safety" /\ row.value = "stale_warning" -> "stale_draft_set"
      [] OTHER -> "unsupported_recommendation"

CoverageGaps(rows) ==
    {Gap(CoverageGapType(r), "coverage_gap", r.axis, "high", TRUE) : r \in {q \in rows : q.blocks}}

GapDiagnostics(ds, canon, rows) ==
    When(ds.decisions = {}, Gap("no_draft_decisions", "draft_set", << "draft set" >>, "high", TRUE))
    \cup {Gap("duplicate_draft_id", "draft_object", i, "high", TRUE) : i \in DuplicateIds(ds)}
    \cup (UNION {DecisionGaps(ds, canon, d) : d \in ds.decisions})
    \cup ActionGaps(ds) \cup ReferenceGaps(ds, canon) \cup PromotionGaps(ds, canon) \cup CoverageGaps(rows)

(* The blocking rows in the order to work on them.                         *)
FrontierKey(r) == << r.priority, PositionIn(AxisTypeOrder, r.type), PositionIn(LayerOrder, r.value) >>

Before(r, s) ==
    LET a == FrontierKey(r)  b == FrontierKey(s)
    IN  \/ a[1] < b[1]
        \/ a[1] = b[1] /\ a[2] < b[2]
        \/ a[1] = b[1] /\ a[2] = b[2] /\ a[3] < b[3]

FrontierPosition(rows, r) == Cardinality({q \in rows : q.blocks /\ Before(q, r)})

-----------------------------------------------------------------------------
(* Convergence                                                             *)

BlockingTypes(gaps) == {g.type : g \in {h \in gaps : h.blocks}}

NoReason == "none of these"

(* The tests that classifications of projection and autopilot begin with.  *)
GapStopReason(gaps) ==
    LET types == {g.type : g \in gaps}
        risky == {"unsafe_bulk_review", "bulk_promotion_blocked"}
        onDecision == {g.type : g \in {h \in gaps : h.kind = "draft_decision" /\ h.blocks}}
    IN  IF "accepted_decision_conflict_possible" \in types THEN "conflict_blocked"
        ELSE IF onDecision \cap risky # {} THEN "risk_gate_triggered"
        ELSE IF BlockingTypes(gaps) \cap {"insufficient_evidence", "challenged_evidence"} # {}
             THEN "evidence_gap_blocked"
        ELSE IF types \cap risky # {} THEN "risk_gate_triggered"
        ELSE NoReason

ProjectionStopReason(gaps) ==
    IF GapStopReason(gaps) # NoReason THEN GapStopReason(gaps)
    ELSE IF \E g \in gaps : g.blocks THEN "user_review_required"
    ELSE IF gaps # {} THEN "stopped" ELSE "converged"

StatusOf(reason) ==
    IF reason \in {"converged", "budget_exhausted", "stopped"} THEN reason ELSE "blocked"

(* Mutant: the reason of the autopilot is taken as it is.                  *)
ConvergenceReason_OverrideAlways(gaps, override) ==
    IF override # NoReason THEN override ELSE ProjectionStopReason(gaps)

(* The reason another run of the diagnostics stopped with (override) counts*)
(* only where nothing blocks.                                              *)
ConvergenceReason(gaps, override) ==
    IF override # NoReason /\ \A g \in gaps : ~g.blocks THEN override ELSE ProjectionStopReason(gaps)

=============================================================================
