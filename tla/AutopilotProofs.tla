--------------------------- MODULE AutopilotProofs ---------------------------
(***************************************************************************)
(* The autopilot fails closed, for every seed, every option and any number *)
(* of other commands: a current projection that does not say "blocked" is  *)
(* of a clean draft set, a current queue offers nothing risky in bulk, and *)
(* max_draft_decisions is kept.                                            *)
(*                                                                         *)
(* First what gaps and rows that do not block say of a draft set, then how *)
(* many decisions an iteration adds, then the runs.                        *)
(***************************************************************************)
EXTENDS Autopilot, RecursionProofs, FiniteSetTheorems

-----------------------------------------------------------------------------
(* What does not block                                                     *)

NoGapBlocks(gaps) == \A g \in gaps : ~g.blocks

NoRowBlocks(rows) == \A r \in rows : ~r.blocks

ReservedAxesKept(ds) == \A t \in ds.targets, u \in DerivedTargets : t.axis = u.axis => t = u

\* Which gaps build_gap_diagnostics lists.
LEMMA GapsListed ==
    ASSUME NEW ds, NEW k, NEW rows
    PROVE  /\ ds.decisions = {} =>
                \E g \in GapDiagnostics(ds, k, rows) : g.blocks
           /\ \A i \in DuplicateIds(ds) :
                Gap("duplicate_draft_id", "draft_object", i, "high", TRUE) \in GapDiagnostics(ds, k, rows)
           /\ \A d \in ds.decisions : DecisionGaps(ds, k, d) \subseteq GapDiagnostics(ds, k, rows)
           /\ ReferenceGaps(ds, k) \subseteq GapDiagnostics(ds, k, rows)
           /\ PromotionGaps(ds, k) \subseteq GapDiagnostics(ds, k, rows)
           /\ CoverageGaps(rows) \subseteq GapDiagnostics(ds, k, rows)
<1> DEFINE gaps == GapDiagnostics(ds, k, rows)
           empty == When(ds.decisions = {},
                         Gap("no_draft_decisions", "draft_set", << "draft set" >>, "high", TRUE))
           duplicate == {Gap("duplicate_draft_id", "draft_object", i, "high", TRUE) : i \in DuplicateIds(ds)}
           ofDecisions == UNION {DecisionGaps(ds, k, d) : d \in ds.decisions}
<1>1. gaps = empty \cup duplicate \cup ofDecisions
             \cup ActionGaps(ds) \cup ReferenceGaps(ds, k) \cup PromotionGaps(ds, k) \cup CoverageGaps(rows)
    BY DEF GapDiagnostics
<1>2. ds.decisions = {} => \E g \in empty : g.blocks
    BY DEF When, Gap
<1>3. \A i \in DuplicateIds(ds) : Gap("duplicate_draft_id", "draft_object", i, "high", TRUE) \in duplicate
    OBVIOUS
<1>4. \A d \in ds.decisions : DecisionGaps(ds, k, d) \subseteq ofDecisions
    OBVIOUS
<1> HIDE DEF gaps, empty, duplicate, ofDecisions
<1>5. QED
    BY <1>1, <1>2, <1>3, <1>4 DEF gaps

\* A projection that does not say "blocked" has no blocking gap, whatever
\* reason the autopilot gave it.
LEMMA UnblockedHasNoBlockingGap ==
    ASSUME NEW gaps, NEW override, StatusOf(ConvergenceReason(gaps, override)) # "blocked"
    PROVE  NoGapBlocks(gaps)
<1>1. CASE override # NoReason /\ \A g \in gaps : ~g.blocks
    BY <1>1 DEF NoGapBlocks
<1>2. CASE ConvergenceReason(gaps, override) = ProjectionStopReason(gaps)
    <2>1. GapStopReason(gaps) \in {"conflict_blocked", "risk_gate_triggered", "evidence_gap_blocked", NoReason}
        BY DEF GapStopReason
    <2>2. ProjectionStopReason(gaps) \in {"converged", "budget_exhausted", "stopped"}
        BY <1>2 DEF StatusOf
    <2>3. GapStopReason(gaps) = NoReason
        BY <2>1, <2>2 DEF ProjectionStopReason
    <2>4. QED
        BY <2>2, <2>3 DEF ProjectionStopReason, NoGapBlocks
<1>3. QED
    BY <1>1, <1>2 DEF ConvergenceReason

\* What a draft decision without a blocking gap is.
LEMMA UnblockedDecision ==
    ASSUME NEW ds, NEW k, NEW rows, NoGapBlocks(GapDiagnostics(ds, k, rows)),
           NEW d \in ds.decisions
    PROVE  /\ Urgent(d.priority) => "alternatives" \in d.has /\ d.evidence \notin InsufficientEvidence
           /\ d.risk \in {"high", "critical"} => d.review.mode # "bulk"
           /\ d.supports \subseteq k.objects
<1>1. \A g \in DecisionGaps(ds, k, d) : ~g.blocks
    BY GapsListed DEF NoGapBlocks
<1>2. \A a, b, c, e : Gap(a, b, c, e, TRUE).blocks
    BY DEF Gap
<1>3. Urgent(d.priority) => "alternatives" \in d.has
    <2>1. Urgent(d.priority) /\ "alternatives" \notin d.has =>
            Gap("missing_alternatives", "draft_decision", d.id,
                IF Urgent(d.priority) THEN "high" ELSE "medium", Urgent(d.priority))
                \in DecisionGaps(ds, k, d)
        BY Zenon DEF DecisionGaps, When
    <2>2. Urgent(d.priority) => Urgent(d.priority) = TRUE
        BY DEF Urgent
    <2>3. QED
        BY <1>1, <1>2, <2>1, <2>2
<1>4. d.risk \in {"high", "critical"} => d.review.mode # "bulk"
    <2>1. d.risk \in {"high", "critical"} /\ d.review.mode = "bulk" =>
            Gap("unsafe_bulk_review", "draft_decision", d.id, "critical", TRUE) \in DecisionGaps(ds, k, d)
        BY Zenon DEF DecisionGaps, When
    <2>2. QED
        BY <1>1, <1>2, <2>1
<1>5. d.supports \subseteq k.objects
    <2>1. ~(d.supports \subseteq k.objects) =>
            Gap("dangling_supporting_object", "draft_decision", d.id, "high", TRUE) \in DecisionGaps(ds, k, d)
        BY Zenon DEF DecisionGaps, When
    <2>2. QED
        BY <1>1, <1>2, <2>1
<1>6. ASSUME Urgent(d.priority) PROVE d.evidence \notin InsufficientEvidence
    <2>1. \A g \in EvidenceGaps(ds, d) : ~g.blocks
        BY <1>1 DEF DecisionGaps
    <2>2. d.evidence # "challenged"
        BY <1>2, <1>6, <2>1 DEF EvidenceGaps, When
    <2>3. d.evidence \notin InsufficientEvidence \ {"challenged"}
        BY <1>2, <1>6, <2>1 DEF EvidenceGaps, When
    <2>4. QED
        BY <2>2, <2>3
<1>7. QED
    BY <1>3, <1>4, <1>5, <1>6

\* A blocking row is a blocking gap.
LEMMA UnblockedRows ==
    ASSUME NEW ds, NEW k, NEW rows, NoGapBlocks(GapDiagnostics(ds, k, rows))
    PROVE  NoRowBlocks(rows)
<1>1. SUFFICES ASSUME NEW r \in rows, r.blocks PROVE FALSE
    BY DEF NoRowBlocks
<1>2. Gap(CoverageGapType(r), "coverage_gap", r.axis, "high", TRUE) \in CoverageGaps(rows)
    BY <1>1 DEF CoverageGaps
<1>3. Gap(CoverageGapType(r), "coverage_gap", r.axis, "high", TRUE).blocks
    BY DEF Gap
<1>4. QED
    BY <1>2, <1>3, GapsListed DEF NoGapBlocks

-----------------------------------------------------------------------------
(* The rows of the coverage matrix                                         *)

\* Every axis of the safety rows has the row that would be derived for it.
LEMMA SafetyRowsListed ==
    ASSUME NEW ds, NEW h, ReservedAxesKept(ds), NEW u \in DerivedTargets
    PROVE  RowFor(ds, h, u) \in CoverageMatrix(ds, h)
<1>1. u \in ds.targets \cup {v \in DerivedTargets : v.axis \notin {t.axis : t \in ds.targets}}
    BY DEF ReservedAxesKept
<1>2. QED
    BY <1>1 DEF CoverageMatrix

StaleTarget == SafetyTarget("promotion_safety", "stale_warning")
ReviewTarget == SafetyTarget("human_review_safety", "individual_required")
EvidenceTarget == SafetyTarget("evidence_coverage", "sufficient")

LEMMA SafetyTargets ==
    /\ StaleTarget \in DerivedTargets /\ ReviewTarget \in DerivedTargets /\ EvidenceTarget \in DerivedTargets
    /\ StaleTarget.type = "promotion_safety" /\ StaleTarget.value = "stale_warning"
    /\ ReviewTarget.type = "human_review_safety" /\ ReviewTarget.value = "individual_required"
    /\ EvidenceTarget.type = "evidence_coverage" /\ EvidenceTarget.value = "sufficient"
    /\ \A t \in DerivedTargets : t.policy = "layer_complete"
    /\ \A t \in DerivedTargets : \A p, q :
          Escalated(t, p, q).priority = p /\ Escalated(t, p, q).required = q
<1>1. \A type, value : SafetyTarget(type, value).policy = "layer_complete"
    BY DEF SafetyTarget
<1>2. \A type, value, p, q :
        /\ Escalated(SafetyTarget(type, value), p, q).priority = p
        /\ Escalated(SafetyTarget(type, value), p, q).required = q
    BY DEF SafetyTarget, Escalated
<1>3. \A t \in DerivedTargets : \E type, value : t = SafetyTarget(type, value)
    BY DEF DerivedTargets
<1>4. QED
    BY <1>1, <1>2, <1>3 DEF StaleTarget, ReviewTarget, EvidenceTarget, DerivedTargets, SafetyTarget

LEMMA UrgentRanks == Urgent(0) /\ Urgent(1)
BY DEF Urgent

LEMMA RowBlocks ==
    ASSUME NEW t, NEW observed, NEW status
    PROVE  Row(t, observed, status).blocks <=> t.required /\ Urgent(t.priority) /\ status # "covered"
BY DEF Row

\* Drafts with ranks as priorities have a highest one.
LEMMA HighestPriorityIsLeast ==
    ASSUME NEW drafts, drafts # {}, \A d \in drafts : d.priority \in Nat
    PROVE  /\ HighestPriority(drafts) \in Nat
           /\ \A d \in drafts : HighestPriority(drafts) <= d.priority
<1> DEFINE S == {d.priority : d \in drafts}
<1>1. S \in SUBSET Nat /\ S # {}
    OBVIOUS
<1>2. PICK p \in S : \A q \in S : p <= q
    <2> HIDE DEF S
    <2>1. QED
        BY <1>1, NaturalsHaveLeast
<1>3. \A d \in drafts : p <= d.priority
    BY <1>2
<1>4. QED
    BY <1>1, <1>2, <1>3 DEF HighestPriority

\* Without blocking rows the draft set is of the current head.
LEMMA UnblockedIsFresh ==
    ASSUME NEW ds, NEW h, ReservedAxesKept(ds), NoRowBlocks(CoverageMatrix(ds, h))
    PROVE  ~IsStale(ds, h)
<1>1. ~RowFor(ds, h, StaleTarget).blocks
    BY SafetyTargets, SafetyRowsListed DEF NoRowBlocks
<1>2. RowFor(ds, h, StaleTarget) = PromotionRow(ds, h, StaleTarget)
    BY SafetyTargets DEF RowFor
<1>3. ASSUME IsStale(ds, h) PROVE FALSE
    <2>1. PromotionRow(ds, h, StaleTarget) = Row(Escalated(StaleTarget, 1, TRUE), "problem", "partial")
        BY <1>3, SafetyTargets DEF PromotionRow
    <2>2. Row(Escalated(StaleTarget, 1, TRUE), "problem", "partial").blocks
        <3>1. Escalated(StaleTarget, 1, TRUE).priority = 1
            BY DEF Escalated, StaleTarget, SafetyTarget
        <3>2. Escalated(StaleTarget, 1, TRUE).required
            BY DEF Escalated, StaleTarget, SafetyTarget
        <3>3. Urgent(Escalated(StaleTarget, 1, TRUE).priority)
            BY <3>1, UrgentRanks, Zenon
        <3>4. QED
            BY <3>2, <3>3, RowBlocks
    <2>3. QED
        BY <1>1, <1>2, <2>1, <2>2
<1>4. QED
    BY <1>3

\* Without blocking rows nothing of high risk asks for bulk review.
LEMMA UnblockedIsReviewed ==
    ASSUME NEW ds, NEW h, ReservedAxesKept(ds), NoRowBlocks(CoverageMatrix(ds, h)),
           NEW d \in ds.decisions, d.risk \in {"high", "critical"}
    PROVE  ~BulkRequested(d)
<1>1. ~RowFor(ds, h, ReviewTarget).blocks
    BY SafetyTargets, SafetyRowsListed DEF NoRowBlocks
<1>2. RowFor(ds, h, ReviewTarget) = HumanReviewRow(ds, ReviewTarget)
    BY SafetyTargets DEF RowFor
<1>3. ASSUME BulkRequested(d) PROVE FALSE
    <2>1. UnsafeBulk(ds) # {}
        BY <1>3 DEF UnsafeBulk
    <2>2. ReviewTargetStatus(ReviewTarget.value, "blocked") = "missing"
        BY SafetyTargets DEF ReviewTargetStatus
    <2>3. HumanReviewRow(ds, ReviewTarget) = Row(Escalated(ReviewTarget, 0, TRUE), "blocked", "missing")
        BY <2>1, <2>2 DEF HumanReviewRow
    <2>4. Row(Escalated(ReviewTarget, 0, TRUE), "blocked", "missing").blocks
        <3>1. Escalated(ReviewTarget, 0, TRUE).priority = 0
            BY DEF Escalated, ReviewTarget, SafetyTarget
        <3>2. Escalated(ReviewTarget, 0, TRUE).required
            BY DEF Escalated, ReviewTarget, SafetyTarget
        <3>3. Urgent(Escalated(ReviewTarget, 0, TRUE).priority)
            BY <3>1, UrgentRanks, Zenon
        <3>4. QED
            BY <3>2, <3>3, RowBlocks
    <2>5. QED
        BY <1>1, <1>2, <2>3, <2>4
<1>4. QED
    BY <1>3

\* The worst evidence status is no better than that of any draft.
LEMMA WorstIsWorst ==
    ASSUME NEW S \in SUBSET DOMAIN EvidenceRank, NEW s \in S
    PROVE  /\ WorstEvidence(S) \in DOMAIN EvidenceRank
           /\ EvidenceRank[WorstEvidence(S)] <= EvidenceRank[s]
<1> DEFINE T == S \cup {"sufficient"}
           N == {EvidenceRank[r] : r \in T}
<1>1. T \subseteq DOMAIN EvidenceRank /\ \A r \in DOMAIN EvidenceRank : EvidenceRank[r] \in Nat
    BY DEF EvidenceRank
<1>2. N \in SUBSET Nat /\ N # {}
    BY <1>1
<1>3. PICK n \in N : \A m \in N : n <= m
    <2> HIDE DEF N
    <2>1. QED
        BY <1>2, NaturalsHaveLeast
<1>4. PICK w \in T : EvidenceRank[w] = n
    BY <1>3
<1>5. \A r \in T : EvidenceRank[w] <= EvidenceRank[r]
    BY <1>3, <1>4
<1>6. WorstEvidence(S) \in T /\ \A r \in T : EvidenceRank[WorstEvidence(S)] <= EvidenceRank[r]
    BY <1>4, <1>5 DEF WorstEvidence
<1>7. QED
    BY <1>1, <1>6

\* Without blocking rows every urgent decision is supported.
LEMMA UnblockedIsSupported ==
    ASSUME NEW ds, NEW h, IsDraftSet(ds), ReservedAxesKept(ds), NoRowBlocks(CoverageMatrix(ds, h)),
           NEW d \in ds.decisions, Urgent(d.priority)
    PROVE  ~LacksEvidence(d)
<1> DEFINE lacking == {e \in ds.decisions : LacksEvidence(e)}
           S == {e.evidence : e \in ds.decisions}
           worst == WorstEvidence(S)
           status == EvidenceTargetStatus("sufficient", worst)
           top == HighestPriority(lacking)
<1>1. ~RowFor(ds, h, EvidenceTarget).blocks
    BY SafetyTargets, SafetyRowsListed DEF NoRowBlocks
<1>2. RowFor(ds, h, EvidenceTarget) = EvidenceRow(ds, EvidenceTarget)
    BY SafetyTargets DEF RowFor
<1>3. ASSUME LacksEvidence(d) PROVE FALSE
    <2>1. d \in lacking /\ \A e \in lacking : e.priority \in Nat
        BY <1>3 DEF IsDraftSet
    <2>2. top \in Nat /\ top <= d.priority /\ d.priority \in Nat
        <3> HIDE DEF lacking
        <3>1. QED
            BY <2>1, HighestPriorityIsLeast
    <2>3. Urgent(top)
        BY <2>2 DEF Urgent
    <2>4. worst # "sufficient"
        <3>1. S \in SUBSET DOMAIN EvidenceRank /\ d.evidence \in S
            BY DEF IsDraftSet
        <3>2. EvidenceRank[worst] <= EvidenceRank[d.evidence]
            <4> HIDE DEF S
            <4>1. QED
                BY <3>1, WorstIsWorst
        <3>3. d.evidence \in {"challenged", "none", "unknown", "partial"}
            BY <1>3 DEF LacksEvidence, InsufficientEvidence
        <3>4. EvidenceRank[d.evidence] < EvidenceRank["sufficient"]
            BY <3>3 DEF EvidenceRank
        <3>5. EvidenceRank[d.evidence] \in Nat /\ EvidenceRank["sufficient"] \in Nat
            BY <3>3 DEF EvidenceRank
        <3>6. EvidenceRank[worst] = EvidenceRank["sufficient"] => FALSE
            BY <3>2, <3>4, <3>5
        <3>7. QED
            BY <3>6
    <2>5. status # "covered"
        BY <2>4 DEF EvidenceTargetStatus
    <2>6. EvidenceRow(ds, EvidenceTarget) = Row(Escalated(EvidenceTarget, top, Urgent(top)), worst, status)
        <3>1. EvidenceTarget.value = "sufficient"
            BY SafetyTargets
        <3>2. lacking # {}
            BY <2>1
        <3>3. QED
            BY <2>5, <3>1, <3>2 DEF EvidenceRow
    <2>7. /\ Escalated(EvidenceTarget, top, Urgent(top)).priority = top
          /\ Escalated(EvidenceTarget, top, Urgent(top)).required = Urgent(top)
        BY SafetyTargets
    <2> HIDE DEF status, worst, top
    <2>8. Row(Escalated(EvidenceTarget, top, Urgent(top)), worst, status).blocks
        BY <2>3, <2>5, <2>7, RowBlocks
    <2>9. QED
        BY <1>1, <1>2, <2>6, <2>8
<1>4. QED
    BY <1>3

\* Without blocking rows every required layer is met.
LEMMA UnblockedLayersAreMet ==
    ASSUME NEW ds, NEW h, NoRowBlocks(CoverageMatrix(ds, h)),
           NEW t \in ds.targets, t.type = "decision_stack_layer", t.required, Urgent(t.priority)
    PROVE  \E d \in ds.decisions :
              d.layer = t.value /\ CoversLayer(d) /\ (t.policy # "layer_complete" => t.axis \in d.binds)
<1>1. RowFor(ds, h, t) = LayerRow(ds, t)
    BY DEF RowFor
<1>2. RowFor(ds, h, t) \in CoverageMatrix(ds, h)
    BY DEF CoverageMatrix
<1> DEFINE complete == {d \in {e \in ds.decisions : e.layer = t.value} : CoversLayer(d)}
           bound == {d \in complete : t.axis \in d.binds}
           covered == \/ t.policy = "layer_complete" /\ complete # {}
                      \/ t.policy = "explicit_target_or_domain_axis" /\ bound # {}
<1>3. covered
    <2>1. ~covered => LayerRow(ds, t).blocks
        BY RowBlocks DEF LayerRow
    <2>2. QED
        BY <1>1, <1>2, <2>1 DEF NoRowBlocks
<1>4. QED
    BY <1>3

\* A draft set without a blocking gap has decisions, agrees with what was
\* accepted, and what it calls promoted was.
LEMMA UnblockedReferences ==
    ASSUME NEW ds, NEW k, NEW rows, NoGapBlocks(GapDiagnostics(ds, k, rows))
    PROVE  /\ ds.decisions # {}
           /\ \A c \in ds.conflicts : c.canonical \cap k.accepted = {}
           /\ ds.promoted \subseteq k.origins
<1>1. \A a, b, c, e : Gap(a, b, c, e, TRUE).blocks
    BY DEF Gap
<1>2. \A g \in ReferenceGaps(ds, k) \cup PromotionGaps(ds, k) : ~g.blocks
    BY GapsListed DEF NoGapBlocks
<1>3. ds.decisions # {}
    BY GapsListed DEF NoGapBlocks
<1>4. ASSUME NEW c \in ds.conflicts PROVE c.canonical \cap k.accepted = {}
    <2>1. c.canonical \cap k.accepted # {} =>
            Gap("accepted_decision_conflict_possible", "draft_conflict", ConflictTarget(ds, c), "critical", TRUE)
                \in ReferenceGaps(ds, k)
        BY DEF ReferenceGaps
    <2>2. QED
        BY <1>1, <1>2, <2>1
<1>5. ASSUME NEW i \in ds.promoted PROVE i \in k.origins
    <2>1. i \notin k.origins =>
            Gap("promoted_but_missing_canonical", "draft_decision", i, "high", TRUE) \in PromotionGaps(ds, k)
        BY DEF PromotionGaps
    <2>2. QED
        BY <1>1, <1>2, <2>1
<1>6. QED
    BY <1>3, <1>4, <1>5

-----------------------------------------------------------------------------
(* Bulk candidates of the review queue                                     *)

LEMMA PairIsTwo ==
    ASSUME NEW S, IsFiniteSet(S), NEW d \in S, NEW e \in S, d # e
    PROVE  Cardinality(S) \in Nat /\ Cardinality(S) >= 2
<1>1. IsFiniteSet({d}) /\ Cardinality({d}) = 1
    BY FS_Singleton
<1>2. IsFiniteSet({d} \cup {e}) /\ Cardinality({d} \cup {e}) = 2
    <2>1. e \notin {d}
        OBVIOUS
    <2> DEFINE D == {d}
    <2>2. IsFiniteSet(D) /\ Cardinality(D) = 1 /\ e \notin D
        BY <1>1, <2>1
    <2> HIDE DEF D
    <2>3. IsFiniteSet(D \cup {e}) /\ Cardinality(D \cup {e}) = Cardinality(D) + 1
        BY <2>2, FS_AddElement
    <2>4. QED
        BY <2>2, <2>3 DEF D
<1>3. {d} \cup {e} \in SUBSET S
    OBVIOUS
<1>4. QED
    BY <1>2, <1>3, FS_Subset, FS_CardinalityType

\* An id that two decisions share is reported.
LEMMA SharedIdIsDuplicate ==
    ASSUME NEW ds, IsDraftSet(ds), NEW d \in ds.decisions, NEW e \in ds.decisions, d # e, d.id = e.id
    PROVE  d.id \in DuplicateIds(ds)
<1> DEFINE D == {x \in ds.decisions : x.id = d.id}
           A == {a \in ds.actions : a.id = d.id}
           V == {v \in ds.verifications : v.id = d.id}
<1>1. IsFiniteSet(D) /\ IsFiniteSet(A) /\ IsFiniteSet(V)
    <2>1. IsFiniteSet(ds.decisions) /\ IsFiniteSet(ds.actions) /\ IsFiniteSet(ds.verifications)
        BY DEF IsDraftSet
    <2>2. D \in SUBSET ds.decisions /\ A \in SUBSET ds.actions /\ V \in SUBSET ds.verifications
        OBVIOUS
    <2> HIDE DEF D, A, V
    <2>3. QED
        BY <2>1, <2>2, FS_Subset
<1>2. d \in D /\ e \in D
    OBVIOUS
<1>3. d.id \in DraftIds(ds)
    BY DEF DraftIds
<1>4. DuplicateIds(ds) = {i \in DraftIds(ds) :
        Cardinality({x \in ds.decisions : x.id = i}) + Cardinality({a \in ds.actions : a.id = i})
            + Cardinality({v \in ds.verifications : v.id = i}) > 1}
    BY DEF DuplicateIds
<1>5. Cardinality(D) + Cardinality(A) + Cardinality(V) > 1
    <2> HIDE DEF D, A, V
    <2>1. Cardinality(D) \in Nat /\ Cardinality(A) \in Nat /\ Cardinality(V) \in Nat
        BY <1>1, FS_CardinalityType
    <2>2. Cardinality(D) >= 2
        BY <1>1, <1>2, PairIsTwo
    <2>3. QED
        BY <2>1, <2>2
<1>6. QED
    BY <1>3, <1>4, <1>5

\* What the mode "bulk" asks of a decision.
LEMMA BulkMode ==
    ASSUME NEW ds, NEW gaps, NEW rows, NEW d, ReviewMode(ds, gaps, rows, d) = "bulk"
    PROVE  /\ IsLowRiskBulkCandidate(ds, d) /\ ~NeedsIndividualReview(ds, rows, d)
           /\ \A g \in GapsOf(gaps, d) : g.type \notin ResolveFirst
BY DEF ReviewMode

\* A decision the queue offers for bulk promotion is in that mode itself: an
\* id that names two decisions is not offered.
LEMMA OfferedIsBulk ==
    ASSUME NEW ds, NEW k, NEW rows, IsDraftSet(ds), NEW d \in ds.decisions,
           d.id \in InMode(ds, GapDiagnostics(ds, k, rows), rows, "bulk")
    PROVE  ReviewMode(ds, GapDiagnostics(ds, k, rows), rows, d) = "bulk"
<1> DEFINE gaps == GapDiagnostics(ds, k, rows)
<1>1. PICK e \in ds.decisions : ReviewMode(ds, gaps, rows, e) = "bulk" /\ e.id = d.id
    BY DEF InMode
<1>2. ASSUME d # e PROVE FALSE
    <2> DEFINE gap == Gap("duplicate_draft_id", "draft_object", d.id, "high", TRUE)
    <2>1. gap \in gaps
        BY <1>1, <1>2, SharedIdIsDuplicate, GapsListed
    <2>2. gap.blocks /\ gap.kind # "coverage_gap" /\ gap.target = e.id /\ gap.type \in ResolveFirst
        BY <1>1 DEF Gap, ResolveFirst
    <2>3. gap \in GapsOf(gaps, e)
        BY <2>1, <2>2 DEF GapsOf
    <2>4. QED
        BY <1>1, <2>2, <2>3, BulkMode
<1>3. QED
    BY <1>1, <1>2

-----------------------------------------------------------------------------
(* How many decisions an iteration adds                                    *)

\* At most m members of a finite set have fewer than m before them.
LEMMA FirstFew ==
    ASSUME NEW S, IsFiniteSet(S), NEW pos \in [S -> Nat],
           \A k, l \in S : pos[k] = pos[l] => k = l, NEW m \in Nat
    PROVE  LET T == {l \in S : Cardinality({k \in S : pos[k] < pos[l]}) < m}
           IN  IsFiniteSet(T) /\ Cardinality(T) <= m
<1> DEFINE before(l) == {k \in S : pos[k] < pos[l]}
           T == {l \in S : Cardinality(before(l)) < m}
           f == [l \in T |-> Cardinality(before(l))]
<1>1. ASSUME NEW l \in S
      PROVE  IsFiniteSet(before(l)) /\ Cardinality(before(l)) \in Nat /\ l \notin before(l)
    <2>1. before(l) \in SUBSET S /\ l \notin before(l)
        OBVIOUS
    <2> HIDE DEF before
    <2>2. QED
        BY <2>1, FS_Subset, FS_CardinalityType
<1>2. ASSUME NEW k \in S, NEW l \in S, pos[k] < pos[l]
      PROVE  Cardinality(before(k)) < Cardinality(before(l))
    <2>1. before(k) \cup {k} \in SUBSET before(l)
        BY <1>2
    <2>2. /\ IsFiniteSet(before(k)) /\ k \notin before(k) /\ Cardinality(before(k)) \in Nat
          /\ IsFiniteSet(before(l)) /\ Cardinality(before(l)) \in Nat
        BY <1>1
    <2> HIDE DEF before
    <2>3. Cardinality(before(k) \cup {k}) = Cardinality(before(k)) + 1
        BY <2>2, FS_AddElement
    <2>4. Cardinality(before(k) \cup {k}) <= Cardinality(before(l))
        BY <2>1, <2>2, FS_Subset
    <2>5. QED
        BY <2>2, <2>3, <2>4
<1> HIDE DEF before
<1>3. f \in [T -> 0..(m - 1)]
    BY <1>1
<1>4. \A k, l \in T : f[k] = f[l] => k = l
    <2>1. SUFFICES ASSUME NEW k \in T, NEW l \in T, k # l PROVE f[k] # f[l]
        OBVIOUS
    <2>2. pos[k] < pos[l] \/ pos[l] < pos[k]
        BY <2>1
    <2>3. Cardinality(before(k)) \in Nat /\ Cardinality(before(l)) \in Nat
        BY <1>1
    <2>4. QED
        BY <1>2, <2>2, <2>3
<1>5. f \in Injection(T, 0..(m - 1))
    BY <1>3, <1>4 DEF Injection, IsInjective
<1>6. IsFiniteSet(0..(m - 1)) /\ Cardinality(0..(m - 1)) = m
    <2>1. IsFiniteSet(0..(m - 1))
          /\ Cardinality(0..(m - 1)) = IF 0 > m - 1 THEN 0 ELSE (m - 1) - 0 + 1
        BY FS_Interval
    <2>2. QED
        BY <2>1
<1> HIDE DEF T, f
<1>7. IsFiniteSet(T) /\ Cardinality(T) <= m
    BY <1>5, <1>6, FS_Injection
<1>8. QED
    BY <1>7 DEF T, before

\* Layers and axis types are found at different places of their lists.
LEMMA LayersArePlaced ==
    /\ IsFiniteSet(Range(LayerOrder))
    /\ \A x : PositionIn(LayerOrder, x) \in Nat /\ PositionIn(AxisTypeOrder, x) \in Nat
    /\ \A x \in Range(LayerOrder) :
          LayerOrder[PositionIn(LayerOrder, x)] = x /\ PositionIn(LayerOrder, x) >= 1
<1>1. DOMAIN LayerOrder = 1..8 /\ DOMAIN AxisTypeOrder = 1..4
    BY DEF LayerOrder, AxisTypeOrder
<1>2. ASSUME NEW order, NEW n \in Nat, DOMAIN order = 1..n, NEW x
      PROVE  /\ PositionIn(order, x) \in Nat
             /\ x \in Range(order) => order[PositionIn(order, x)] = x /\ PositionIn(order, x) >= 1
    <2>1. CASE x \in Range(order)
        <3>1. PICK i \in DOMAIN order : order[i] = x
            BY <2>1 DEF Range
        <3>2. PositionIn(order, x) \in DOMAIN order /\ order[PositionIn(order, x)] = x
            BY <2>1, <3>1 DEF PositionIn
        <3>3. QED
            BY <1>2, <3>2
    <2>2. CASE x \notin Range(order)
        BY <2>2 DEF PositionIn
    <2>3. QED
        BY <2>1, <2>2
<1>3. IsFiniteSet(Range(LayerOrder))
    <2>1. IsFiniteSet(1..8)
        <3>1. 1 \in Int /\ 8 \in Int
            OBVIOUS
        <3>2. QED
            BY <3>1, FS_Interval
    <2>2. LayerOrder \in Surjection(1..8, Range(LayerOrder))
        <3>1. LayerOrder = [i \in 1..8 |-> LayerOrder[i]]
            BY DEF LayerOrder
        <3>2. QED
            BY <1>1, <3>1 DEF Surjection, Range
    <2>3. QED
        BY <2>1, <2>2, FS_Surjection
<1>4. QED
    BY <1>1, <1>2, <1>3

-----------------------------------------------------------------------------
(* The frontier orders the rows.                                           *)

\* Rows have ranks as priorities.
LEMMA RowsAreRanked ==
    ASSUME NEW ds, NEW h, IsDraftSet(ds), NEW r \in CoverageMatrix(ds, h)
    PROVE  r.priority \in Nat
<1>1. PICK t \in ds.targets \cup DerivedTargets : r = RowFor(ds, h, t)
    BY DEF CoverageMatrix
<1>2. /\ t = [f \in TargetFields |-> t[f]]
      /\ t.type \in Range(AxisTypeOrder) /\ t.priority \in Nat
    <2>1. \A type, value : SafetyTarget(type, value) = [f \in TargetFields |-> SafetyTarget(type, value)[f]]
        BY DEF SafetyTarget, TargetFields
    <2>2. \A type, value : SafetyTarget(type, value).type = type /\ SafetyTarget(type, value).priority = 2
        BY DEF SafetyTarget
    <2>3. {"evidence_coverage", "human_review_safety", "promotion_safety"} \subseteq Range(AxisTypeOrder)
        <3>1. AxisTypeOrder[2] = "evidence_coverage" /\ AxisTypeOrder[3] = "human_review_safety"
              /\ AxisTypeOrder[4] = "promotion_safety" /\ {2, 3, 4} \subseteq DOMAIN AxisTypeOrder
            BY DEF AxisTypeOrder
        <3>2. QED
            BY <3>1 DEF Range
    <2>4. CASE t \in ds.targets
        BY <2>4 DEF IsDraftSet
    <2>5. CASE t \in DerivedTargets
        BY <2>1, <2>2, <2>3, <2>5 DEF DerivedTargets
    <2>6. QED
        BY <2>4, <2>5
<1>3. /\ \A p, q : Escalated(t, p, q).priority = p
      /\ \A p, observed, status : Row(Escalated(t, p, TRUE), observed, status).priority = p
    BY <1>2 DEF Row, Escalated, TargetFields
<1>4. \A u, o, s : Row(u, o, s).priority = u.priority
    BY DEF Row
<1>5. \A d \in ds.decisions : d.priority \in Nat
    BY DEF IsDraftSet
<1>6. LayerRow(ds, t).priority \in Nat
    BY <1>2, <1>4 DEF LayerRow
<1>7. EvidenceRow(ds, t).priority \in Nat
    <2> DEFINE lacking == {d \in ds.decisions : LacksEvidence(d)}
    <2>1. lacking # {} => HighestPriority(lacking) \in Nat
        <3>1. \A d \in lacking : d.priority \in Nat
            BY <1>5
        <3> HIDE DEF lacking
        <3>2. QED
            BY <3>1, HighestPriorityIsLeast
    <2>2. \/ EvidenceRow(ds, t).priority = t.priority
          \/ lacking # {} /\ EvidenceRow(ds, t).priority = HighestPriority(lacking)
        BY <1>3, <1>4 DEF EvidenceRow
    <2>3. QED
        BY <1>2, <2>1, <2>2
<1>8. HumanReviewRow(ds, t).priority \in Nat
    <2>1. IndividualNeeded(ds) # {} => HighestPriority(IndividualNeeded(ds)) \in Nat
        <3>1. \A d \in IndividualNeeded(ds) : d.priority \in Nat
            BY <1>5 DEF IndividualNeeded
        <3>2. QED
            BY <3>1, HighestPriorityIsLeast
    <2>2. \/ HumanReviewRow(ds, t).priority = t.priority
          \/ HumanReviewRow(ds, t).priority = 0
          \/ IndividualNeeded(ds) # {} /\ HumanReviewRow(ds, t).priority = HighestPriority(IndividualNeeded(ds))
        <3> DEFINE top == HighestPriority(IndividualNeeded(ds))
                   met(observed) == ReviewTargetStatus(t.value, observed)
        <3>1. CASE UnsafeBulk(ds) # {}
            <4>1. HumanReviewRow(ds, t) = Row(Escalated(t, 0, TRUE), "blocked", met("blocked"))
                BY <3>1 DEF HumanReviewRow
            <4>2. Row(Escalated(t, 0, TRUE), "blocked", met("blocked")).priority = 0
                BY <1>3, Zenon
            <4>3. QED
                BY <4>1, <4>2, Zenon
        <3>2. CASE UnsafeBulk(ds) = {} /\ IndividualNeeded(ds) # {}
            <4>1. HumanReviewRow(ds, t) = Row(Escalated(t, top, TRUE), "bulk_allowed", met("bulk_allowed"))
                BY <3>2 DEF HumanReviewRow
            <4>2. Row(Escalated(t, top, TRUE), "bulk_allowed", met("bulk_allowed")).priority = top
                BY <1>3, Zenon
            <4>3. QED
                BY <3>2, <4>1, <4>2, Zenon
        <3>3. CASE UnsafeBulk(ds) = {} /\ IndividualNeeded(ds) = {}
            BY <1>4, <3>3 DEF HumanReviewRow
        <3>4. QED
            BY <3>1, <3>2, <3>3
    <2>3. QED
        BY <1>2, <2>1, <2>2
<1>9. PromotionRow(ds, h, t).priority \in Nat
    <2> DEFINE either(p) == {Row(Escalated(t, p, TRUE), "problem", "missing"),
                             Row(Escalated(t, p, TRUE), "problem", "partial"), Row(t, "fine", "covered")}
    <2>1. \A p : \A row \in either(p) : row.priority \in {p, t.priority}
        <3>1. TAKE p
        <3>2. Row(Escalated(t, p, TRUE), "problem", "missing").priority = p
            BY <1>3, Zenon
        <3>3. Row(Escalated(t, p, TRUE), "problem", "partial").priority = p
            BY <1>3, Zenon
        <3>4. Row(t, "fine", "covered").priority = t.priority
            BY <1>4, Zenon
        <3>5. QED
            BY <3>2, <3>3, <3>4, Zenon
    <2>2. PromotionRow(ds, h, t) \in either(0) \cup either(1)
        <3>1. CASE t.value = "accepted_forbidden"
            BY <3>1, Zenon DEF PromotionRow
        <3>2. CASE t.value = "stale_warning"
            BY <3>2, Zenon DEF PromotionRow
        <3>3. CASE t.value \notin {"accepted_forbidden", "stale_warning"}
            BY <3>3, Zenon DEF PromotionRow
        <3>4. QED
            BY <3>1, <3>2, <3>3
    <2> HIDE DEF either
    <2>3. QED
        BY <1>2, <2>1, <2>2
<1>10. \/ r = LayerRow(ds, t) \/ r = EvidenceRow(ds, t) \/ r = HumanReviewRow(ds, t)
       \/ r = PromotionRow(ds, h, t) \/ r = Row(t, "no policy", "missing")
    <2>1. Range(AxisTypeOrder) =
            {"decision_stack_layer", "evidence_coverage", "human_review_safety", "promotion_safety"}
        BY DEF AxisTypeOrder, Range
    <2>2. QED
        BY <1>1, <1>2, <2>1 DEF RowFor
<1>11. Row(t, "no policy", "missing").priority = t.priority
    BY <1>4
<1>12. QED
    BY <1>2, <1>6, <1>7, <1>8, <1>9, <1>10, <1>11

LEMMA FrontierOrder ==
    ASSUME NEW q, NEW r, NEW s, q.priority \in Nat, r.priority \in Nat, s.priority \in Nat
    PROVE  /\ ~Before(r, r)
           /\ Before(q, r) /\ Before(r, s) => Before(q, s)
           /\ r.type = s.type /\ r.value # s.value
                /\ r.value \in Range(LayerOrder) /\ s.value \in Range(LayerOrder)
                => Before(r, s) \/ Before(s, r)
<1>1. \A x : /\ FrontierKey(x)[1] = x.priority
             /\ FrontierKey(x)[2] = PositionIn(AxisTypeOrder, x.type)
             /\ FrontierKey(x)[3] = PositionIn(LayerOrder, x.value)
    BY DEF FrontierKey
<1>2. \A x : PositionIn(LayerOrder, x) \in Nat /\ PositionIn(AxisTypeOrder, x) \in Nat
    BY LayersArePlaced
<1>3. \A x, y : Before(x, y) <=>
        \/ x.priority < y.priority
        \/ x.priority = y.priority /\ PositionIn(AxisTypeOrder, x.type) < PositionIn(AxisTypeOrder, y.type)
        \/ x.priority = y.priority /\ PositionIn(AxisTypeOrder, x.type) = PositionIn(AxisTypeOrder, y.type)
           /\ PositionIn(LayerOrder, x.value) < PositionIn(LayerOrder, y.value)
    BY <1>1 DEF Before
<1>4. r.value # s.value /\ r.value \in Range(LayerOrder) /\ s.value \in Range(LayerOrder)
        => PositionIn(LayerOrder, r.value) # PositionIn(LayerOrder, s.value)
    BY LayersArePlaced
<1> DEFINE a(x) == PositionIn(AxisTypeOrder, x.type)
           l(x) == PositionIn(LayerOrder, x.value)
<1>5. \A x : a(x) \in Nat /\ l(x) \in Nat
    BY <1>2
<1>6. \A x, y : Before(x, y) <=>
        \/ x.priority < y.priority
        \/ x.priority = y.priority /\ a(x) < a(y)
        \/ x.priority = y.priority /\ a(x) = a(y) /\ l(x) < l(y)
    BY <1>3
<1>7. r.type = s.type => a(r) = a(s)
    OBVIOUS
<1>8. r.value # s.value /\ r.value \in Range(LayerOrder) /\ s.value \in Range(LayerOrder) => l(r) # l(s)
    BY <1>4
<1> HIDE DEF a, l
<1>9. QED
    BY <1>5, <1>6, <1>7, <1>8

LEMMA MatrixIsFinite ==
    ASSUME NEW ds, NEW h, IsDraftSet(ds)
    PROVE  IsFiniteSet(CoverageMatrix(ds, h))
<1> DEFINE derived == {u \in DerivedTargets : u.axis \notin {t.axis : t \in ds.targets}}
           targets == ds.targets \cup derived
           rows == {RowFor(ds, h, t) : t \in targets}
           f == [t \in targets |-> RowFor(ds, h, t)]
<1>1. IsFiniteSet(DerivedTargets)
    <2> DEFINE a == SafetyTarget("evidence_coverage", "sufficient")
               b == SafetyTarget("human_review_safety", "individual_required")
               c == SafetyTarget("promotion_safety", "proposal_required")
               d == SafetyTarget("promotion_safety", "accepted_forbidden")
               e == SafetyTarget("promotion_safety", "stale_warning")
    <2>1. DerivedTargets = (((({a} \cup {b}) \cup {c}) \cup {d}) \cup {e})
        BY DEF DerivedTargets
    <2> HIDE DEF a, b, c, d, e
    <2>2. IsFiniteSet({a})
        BY FS_Singleton
    <2>3. IsFiniteSet({a} \cup {b})
        BY <2>2, FS_AddElement
    <2>4. IsFiniteSet(({a} \cup {b}) \cup {c})
        BY <2>3, FS_AddElement
    <2>5. IsFiniteSet((({a} \cup {b}) \cup {c}) \cup {d})
        BY <2>4, FS_AddElement
    <2>6. IsFiniteSet(((({a} \cup {b}) \cup {c}) \cup {d}) \cup {e})
        BY <2>5, FS_AddElement
    <2>7. QED
        BY <2>1, <2>6
<1>2. IsFiniteSet(targets)
    <2>1. derived \in SUBSET DerivedTargets
        OBVIOUS
    <2> HIDE DEF derived
    <2>2. IsFiniteSet(ds.targets) /\ IsFiniteSet(derived)
        BY <1>1, <2>1, FS_Subset DEF IsDraftSet
    <2>3. QED
        BY <2>2, FS_Union
<1>3. f \in Surjection(targets, rows)
    <2> HIDE DEF targets
    <2>1. QED
        BY DEF Surjection
<1>4. IsFiniteSet(rows)
    <2> HIDE DEF targets, rows, f
    <2>1. QED
        BY <1>2, <1>3, FS_Surjection
<1>5. QED
    BY <1>4 DEF CoverageMatrix

\* A blocking row stands before what it precedes.
LEMMA FrontierPositions ==
    ASSUME NEW rows, IsFiniteSet(rows), \A r \in rows : r.priority \in Nat, NEW s \in rows
    PROVE  /\ FrontierPosition(rows, s) \in Nat
           /\ Cardinality(rows) \in Nat
           /\ FrontierPosition(rows, s) <= Cardinality(rows)
           /\ \A r \in rows : r.blocks /\ Before(r, s) => FrontierPosition(rows, r) < FrontierPosition(rows, s)
<1> DEFINE ahead(r) == {q \in rows : q.blocks /\ Before(q, r)}
<1>1. ASSUME NEW r \in rows
      PROVE  /\ IsFiniteSet(ahead(r)) /\ Cardinality(ahead(r)) \in Nat
             /\ Cardinality(rows) \in Nat /\ Cardinality(ahead(r)) <= Cardinality(rows)
    <2>1. ahead(r) \in SUBSET rows
        OBVIOUS
    <2> HIDE DEF ahead
    <2>2. QED
        BY <2>1, FS_Subset, FS_CardinalityType
<1>2. ASSUME NEW r \in rows, r.blocks, Before(r, s)
      PROVE  Cardinality(ahead(r)) < Cardinality(ahead(s))
    <2>1. r \notin ahead(r)
        BY FrontierOrder
    <2>2. ahead(r) \cup {r} \in SUBSET ahead(s)
        <3>1. \A q \in rows : Before(q, r) => Before(q, s)
            BY <1>2, FrontierOrder
        <3>2. QED
            BY <1>2, <3>1
    <2>3. /\ IsFiniteSet(ahead(r)) /\ Cardinality(ahead(r)) \in Nat
          /\ IsFiniteSet(ahead(s)) /\ Cardinality(ahead(s)) \in Nat
        BY <1>1
    <2> HIDE DEF ahead
    <2>4. Cardinality(ahead(r) \cup {r}) = Cardinality(ahead(r)) + 1
        BY <2>1, <2>3, FS_AddElement
    <2>5. Cardinality(ahead(r) \cup {r}) <= Cardinality(ahead(s))
        BY <2>2, <2>3, FS_Subset
    <2>6. QED
        BY <2>3, <2>4, <2>5
<1>3. \A r \in rows : FrontierPosition(rows, r) = Cardinality(ahead(r))
    BY DEF FrontierPosition
<1> HIDE DEF ahead
<1>4. QED
    BY <1>1, <1>2, <1>3

\* Layers are added in an order: no two of them have one place.
LEMMA LayerPositions ==
    ASSUME NEW rows, IsFiniteSet(rows), \A r \in rows : r.priority \in Nat
    PROVE  /\ \A k \in Range(LayerOrder) : LayerPosition(rows, k) \in Nat
           /\ \A k, l \in Range(LayerOrder) : LayerPosition(rows, k) = LayerPosition(rows, l) => k = l
<1> DEFINE auto(k) == {q \in rows : IsAutoRow(q) /\ q.value = k}
           last(k) == Cardinality(rows) + PositionIn(LayerOrder, k)
           places(k) == {FrontierPosition(rows, r) : r \in auto(k)} \cup {last(k)}
<1>1. Cardinality(rows) \in Nat
    BY FS_CardinalityType
<1>2. ASSUME NEW k \in Range(LayerOrder)
      PROVE  LayerPosition(rows, k) \in places(k)
    <2>1. last(k) \in Nat
        BY <1>1, LayersArePlaced
    <2>2. places(k) \in SUBSET Nat /\ places(k) # {}
        <3>1. \A r \in auto(k) : FrontierPosition(rows, r) \in Nat
            BY FrontierPositions
        <3> HIDE DEF auto, last
        <3>2. QED
            BY <2>1, <3>1
    <2>3. LayerPosition(rows, k) = Min(places(k))
        BY DEF LayerPosition
    <2> HIDE DEF places
    <2>4. \E p \in places(k) : \A q \in places(k) : p <= q
        BY <2>2, NaturalsHaveLeast
    <2>5. QED
        BY <2>3, <2>4 DEF Min
<1>3. ASSUME NEW k \in Range(LayerOrder)
      PROVE  LayerPosition(rows, k) = last(k) \/ \E r \in auto(k) : LayerPosition(rows, k) = FrontierPosition(rows, r)
    <2> HIDE DEF auto, last
    <2>1. QED
        BY <1>2
<1>4. \A k : \A r \in auto(k) :
        /\ r \in rows /\ r.blocks /\ r.type = "decision_stack_layer" /\ r.value = k
        /\ FrontierPosition(rows, r) \in Nat /\ FrontierPosition(rows, r) <= Cardinality(rows)
    BY FrontierPositions DEF IsAutoRow
<1>5. \A k \in Range(LayerOrder) : last(k) \in Nat /\ last(k) > Cardinality(rows)
    BY <1>1, LayersArePlaced
<1>6. \A k, l \in Range(LayerOrder) : last(k) = last(l) => k = l
    <2>1. \A k, l \in Range(LayerOrder) : PositionIn(LayerOrder, k) = PositionIn(LayerOrder, l) => k = l
        BY LayersArePlaced
    <2>2. \A k : PositionIn(LayerOrder, k) \in Nat
        BY LayersArePlaced
    <2>3. QED
        BY <1>1, <2>1, <2>2
<1> HIDE DEF auto, last
<1>7. ASSUME NEW k \in Range(LayerOrder), NEW l \in Range(LayerOrder), k # l,
             NEW r \in auto(k), NEW s \in auto(l)
      PROVE  FrontierPosition(rows, r) # FrontierPosition(rows, s)
    <2>1. Before(r, s) \/ Before(s, r)
        BY <1>4, <1>7, FrontierOrder
    <2>2. FrontierPosition(rows, r) < FrontierPosition(rows, s) \/ FrontierPosition(rows, s) < FrontierPosition(rows, r)
        BY <1>4, <2>1, FrontierPositions
    <2>3. QED
        BY <1>4, <2>2
<1>8. QED
    <2>1. ASSUME NEW k \in Range(LayerOrder) PROVE LayerPosition(rows, k) \in Nat
        BY <1>3, <1>4, <1>5
    <2>2. ASSUME NEW k \in Range(LayerOrder), NEW l \in Range(LayerOrder), k # l
          PROVE  LayerPosition(rows, k) # LayerPosition(rows, l)
        <3>1. CASE LayerPosition(rows, k) = last(k) /\ LayerPosition(rows, l) = last(l)
            BY <1>6, <2>2, <3>1
        <3>2. CASE LayerPosition(rows, k) = last(k) /\ \E s \in auto(l) : LayerPosition(rows, l) = FrontierPosition(rows, s)
            BY <1>1, <1>4, <1>5, <3>2
        <3>3. CASE LayerPosition(rows, l) = last(l) /\ \E r \in auto(k) : LayerPosition(rows, k) = FrontierPosition(rows, r)
            BY <1>1, <1>4, <1>5, <3>3
        <3>4. CASE /\ \E r \in auto(k) : LayerPosition(rows, k) = FrontierPosition(rows, r)
                   /\ \E s \in auto(l) : LayerPosition(rows, l) = FrontierPosition(rows, s)
            BY <1>7, <2>2, <3>4
        <3>5. QED
            BY <1>3, <3>1, <3>2, <3>3, <3>4
    <2>3. QED
        BY <2>1, <2>2

-----------------------------------------------------------------------------
(* What an iteration adds to a draft set                                   *)

LEMMA SupplementsDiffer ==
    /\ \A k, l : Supplement(k).id = Supplement(l).id => k = l
    /\ \A k : Supplement(k).id = << "DD-GAP", k >>
    /\ \A d \in Supplements : d.priority \in Nat /\ d.evidence \in DOMAIN EvidenceRank
<1>1. \A k : Supplement(k).id = << "DD-GAP", k >>
    BY DEF Supplement, CoverageDecision
<1>2. \A k, l : << "DD-GAP", k >> = << "DD-GAP", l >> => k = l
    OBVIOUS
<1>3. \A k : Supplement(k).priority = 1 /\ Supplement(k).evidence = "partial"
    BY DEF Supplement, CoverageDecision
<1>4. "partial" \in DOMAIN EvidenceRank
    BY DEF EvidenceRank
<1>5. \A d \in Supplements : d.priority \in Nat /\ d.evidence \in DOMAIN EvidenceRank
    BY <1>3, <1>4 DEF Supplements
<1>6. \A k, l : Supplement(k).id = Supplement(l).id => k = l
    BY <1>1, <1>2
<1>7. QED
    BY <1>1, <1>5, <1>6

\* The decisions added are at most as many as there is room for, and each
\* has an id that neither the draft set nor another of them has.
LEMMA NewDecisionsFit ==
    ASSUME NEW ds, NEW rows, IsFiniteSet(rows), \A r \in rows : r.priority \in Nat, NEW m \in Nat
    PROVE  LET new == NewDecisions(ds, rows, m)
           IN  /\ IsFiniteSet(new) /\ Cardinality(new) <= m
               /\ new \subseteq Supplements
               /\ \A d \in new : d.id \notin DraftIds(ds)
               /\ \A d, e \in new : d.id = e.id => d = e
<1> DEFINE S == {layer \in LayersToAdd(ds, rows) : Supplement(layer).id \notin DraftIds(ds)}
           pos == [l \in S |-> LayerPosition(rows, l)]
           T == {l \in S : Cardinality({k \in S : pos[k] < pos[l]}) < m}
           new == {Supplement(l) : l \in T}
           f == [l \in T |-> Supplement(l)]
<1>1. S \in SUBSET Range(LayerOrder)
    BY DEF LayersToAdd, IsAutoRow
<1>2. IsFiniteSet(S)
    <2> HIDE DEF S
    <2>1. QED
        BY <1>1, FS_Subset, LayersArePlaced
<1>3. NewDecisions(ds, rows, m) = new
    <2> DEFINE before(layer) == {l \in S : LayerPosition(rows, l) < LayerPosition(rows, layer)}
               U == {l \in S : Cardinality(before(l)) < m}
    <2>1. NewDecisions(ds, rows, m) = {Supplement(l) : l \in U}
        BY DEF NewDecisions
    <2> HIDE DEF S
    <2>2. \A l \in S : before(l) = {k \in S : pos[k] < pos[l]}
        OBVIOUS
    <2> HIDE DEF before
    <2>3. U = T
        BY <2>2
    <2>4. QED
        BY <2>1, <2>3
<1>4. IsFiniteSet(T) /\ Cardinality(T) <= m
    <2>1. pos \in [S -> Nat] /\ \A k, l \in S : pos[k] = pos[l] => k = l
        <3> HIDE DEF S
        <3>1. QED
            BY <1>1, LayerPositions
    <2> HIDE DEF S, pos
    <2>2. QED
        BY <1>2, <2>1, FirstFew
<1>5. \A l \in T : Supplement(l).id \notin DraftIds(ds) /\ l \in Range(LayerOrder)
    BY <1>1
<1> HIDE DEF T
<1>6. IsFiniteSet(new) /\ Cardinality(new) <= m
    <2>1. f \in Surjection(T, new)
        BY DEF Surjection
    <2>2. Cardinality(T) \in Nat
        BY <1>4, FS_CardinalityType
    <2> HIDE DEF f, new
    <2>3. IsFiniteSet(new) /\ Cardinality(new) <= Cardinality(T)
        BY <1>4, <2>1, FS_Surjection
    <2>4. Cardinality(new) \in Nat
        BY <2>3, FS_CardinalityType
    <2>5. QED
        BY <1>4, <2>2, <2>3, <2>4
<1>7. new \subseteq Supplements /\ \A d \in new : d.id \notin DraftIds(ds)
    BY <1>5 DEF Supplements
<1>8. \A d, e \in new : d.id = e.id => d = e
    BY SupplementsDiffer
<1>9. QED
    BY <1>3, <1>6, <1>7, <1>8

\* Verifications and actions are added for gaps of what is there.
LEMMA AddedFor ==
    ASSUME NEW ds, NEW k, NEW rows, NEW g \in GapDiagnostics(ds, k, rows)
    PROVE  /\ g.type = Unobserved =>
                g.target \in {a.id : a \in ds.actions} \cup {v.id : v \in ds.verifications}
           /\ g.type = "unsupported_recommendation" =>
                g.target \in {d.id : d \in ds.decisions} \cup {r.axis : r \in rows}
<1>2. Unobserved = "verification_without_observable_command"
    BY DEF Unobserved
<1>3. ASSUME g \in When(ds.decisions = {}, Gap("no_draft_decisions", "draft_set", << "draft set" >>, "high", TRUE))
      PROVE  g.type = "no_draft_decisions"
    <2>1. g = Gap("no_draft_decisions", "draft_set", << "draft set" >>, "high", TRUE)
        BY <1>3 DEF When
    <2>2. QED
        BY <2>1 DEF Gap
<1>4. ASSUME g \in {Gap("duplicate_draft_id", "draft_object", i, "high", TRUE) : i \in DuplicateIds(ds)}
      PROVE  g.type = "duplicate_draft_id"
    BY <1>4 DEF Gap
<1>5. ASSUME NEW d \in ds.decisions, g \in DecisionGaps(ds, k, d)
      PROVE  g.type # Unobserved /\ g.target = d.id
    <2>1. ASSUME g \in EvidenceGaps(ds, d)
          PROVE  g.type # Unobserved /\ g.target = d.id
        BY <1>2, <2>1 DEF EvidenceGaps, When, Gap
    <2> DEFINE urgent == Urgent(d.priority)
               blocking(type, severity) == Gap(type, "draft_decision", d.id, severity, TRUE)
               alternatives == Gap("missing_alternatives", "draft_decision", d.id,
                                   IF urgent THEN "high" ELSE "medium", urgent)
               other == {alternatives, blocking("missing_question", "high"),
                         blocking("missing_recommendation", "high"),
                         blocking("missing_promotion_recipe", "high"),
                         blocking("dangling_supporting_object", "high"),
                         blocking("missing_human_review", "high"),
                         blocking("unsafe_bulk_review", "critical"),
                         blocking("bulk_promotion_blocked", "high")}
    <2>2. /\ When("question" \notin d.has, blocking("missing_question", "high")) \subseteq other
          /\ When(urgent /\ "recommendation" \notin d.has, blocking("missing_recommendation", "high"))
                \subseteq other
          /\ When("alternatives" \notin d.has, alternatives) \subseteq other
          /\ When(~d.recipe.present, blocking("missing_promotion_recipe", "high")) \subseteq other
          /\ When(~(d.supports \subseteq k.objects), blocking("dangling_supporting_object", "high"))
                \subseteq other
          /\ When(~d.review.present, blocking("missing_human_review", "high")) \subseteq other
          /\ When(d.risk \in {"high", "critical"} /\ d.review.mode = "bulk",
                  blocking("unsafe_bulk_review", "critical")) \subseteq other
          /\ When(d.review.bulk /\ d.recipe.blocked, blocking("bulk_promotion_blocked", "high"))
                \subseteq other
        BY DEF When
    <2>3. g \in EvidenceGaps(ds, d) \/ g \in other
        <3> HIDE DEF other
        <3>1. QED
            BY <1>5, <2>2, Zenon DEF DecisionGaps
    <2>4. \A gap \in other : gap.type # Unobserved /\ gap.target = d.id
        BY <1>2 DEF Gap
    <2> HIDE DEF other
    <2>5. QED
        BY <2>1, <2>3, <2>4
<1>6. ASSUME g \in ActionGaps(ds)
      PROVE  g.type = Unobserved /\ g.target \in {a.id : a \in ds.actions} \cup {v.id : v \in ds.verifications}
    BY <1>6 DEF ActionGaps, Gap
<1>7. ASSUME g \in ReferenceGaps(ds, k)
      PROVE  g.type \in {"accepted_decision_conflict_possible", "dangling_draft_reference"}
    BY <1>7 DEF ReferenceGaps, Gap
<1>8. ASSUME g \in PromotionGaps(ds, k)
      PROVE  g.type = "promoted_but_missing_canonical"
    BY <1>8 DEF PromotionGaps, Gap
<1>9. ASSUME g \in CoverageGaps(rows)
      PROVE  g.type # Unobserved /\ g.target \in {r.axis : r \in rows}
    <2>1. PICK r \in rows : g = Gap(CoverageGapType(r), "coverage_gap", r.axis, "high", TRUE)
        BY <1>9 DEF CoverageGaps
    <2>2. CoverageGapType(r) # Unobserved
        BY DEF CoverageGapType, Unobserved
    <2>3. g.type = CoverageGapType(r) /\ g.target = r.axis
        BY <2>1 DEF Gap
    <2>4. QED
        BY <2>2, <2>3
<1>10. \/ g \in When(ds.decisions = {}, Gap("no_draft_decisions", "draft_set", << "draft set" >>, "high", TRUE))
       \/ g \in {Gap("duplicate_draft_id", "draft_object", i, "high", TRUE) : i \in DuplicateIds(ds)}
       \/ \E d \in ds.decisions : g \in DecisionGaps(ds, k, d)
       \/ g \in ActionGaps(ds) \/ g \in ReferenceGaps(ds, k) \/ g \in PromotionGaps(ds, k)
       \/ g \in CoverageGaps(rows)
    BY Zenon DEF GapDiagnostics
<1>11. \A d \in ds.decisions : d.id \in {e.id : e \in ds.decisions}
    OBVIOUS
<1>12. /\ {"no_draft_decisions", "duplicate_draft_id", "accepted_decision_conflict_possible",
           "dangling_draft_reference", "promoted_but_missing_canonical"}
              \cap {Unobserved, "unsupported_recommendation"} = {}
       /\ Unobserved # "unsupported_recommendation"
    BY <1>2
<1> HIDE DEF Unobserved
<1>13. QED
    BY <1>3, <1>4, <1>5, <1>6, <1>7, <1>8, <1>9, <1>10, <1>11, <1>12

LEMMA AdditionsAreFinite ==
    ASSUME NEW ds, IsDraftSet(ds), NEW k, NEW rows, IsFiniteSet(rows)
    PROVE  /\ IsFiniteSet(NewVerifications(ds, GapDiagnostics(ds, k, rows)))
           /\ IsFiniteSet(NewActions(ds, GapDiagnostics(ds, k, rows)))
<1> DEFINE gaps == GapDiagnostics(ds, k, rows)
           verification(i) == [id |-> << "DV-GAP" >> \o i, targets |-> {i}]
           action(i) == [id |-> << "DACTION-GAP" >> \o i, targets |-> {i}, evidence |-> TRUE]
           A == {a.id : a \in ds.actions}
           V == {v.id : v \in ds.verifications}
           D == {d.id : d \in ds.decisions}
           R == {r.axis : r \in rows}
<1>1. IsFiniteSet(A) /\ IsFiniteSet(V) /\ IsFiniteSet(D) /\ IsFiniteSet(R)
    <2>1. IsFiniteSet(ds.actions) /\ IsFiniteSet(ds.verifications) /\ IsFiniteSet(ds.decisions)
        BY DEF IsDraftSet
    <2>2. /\ [a \in ds.actions |-> a.id] \in Surjection(ds.actions, A)
          /\ [a \in ds.verifications |-> a.id] \in Surjection(ds.verifications, V)
          /\ [a \in ds.decisions |-> a.id] \in Surjection(ds.decisions, D)
          /\ [a \in rows |-> a.axis] \in Surjection(rows, R)
        BY DEF Surjection
    <2> HIDE DEF A, V, D, R
    <2>3. QED
        BY <2>1, <2>2, FS_Surjection
<1> DEFINE unobserved == {g.target : g \in {h \in gaps : h.type = Unobserved}}
           unsupported == {g.target : g \in {h \in gaps : h.type = "unsupported_recommendation"}}
<1>2. unobserved \in SUBSET (A \cup V) /\ unsupported \in SUBSET (D \cup R)
    BY AddedFor
<1>3. IsFiniteSet(unobserved) /\ IsFiniteSet(unsupported)
    <2> HIDE DEF A, V, D, R, unobserved, unsupported
    <2>1. IsFiniteSet(A \cup V) /\ IsFiniteSet(D \cup R)
        BY <1>1, FS_Union
    <2>2. QED
        BY <1>2, <2>1, FS_Subset
<1> DEFINE allV == {verification(i) : i \in unobserved}
           allA == {action(i) : i \in unsupported}
<1>4. NewVerifications(ds, gaps) \in SUBSET allV /\ NewActions(ds, gaps) \in SUBSET allA
    BY DEF NewVerifications, NewActions
<1>5. IsFiniteSet(allV) /\ IsFiniteSet(allA)
    <2> HIDE DEF unobserved, unsupported, verification, action
    <2>1. /\ [i \in unobserved |-> verification(i)] \in Surjection(unobserved, allV)
          /\ [i \in unsupported |-> action(i)] \in Surjection(unsupported, allA)
        BY DEF Surjection
    <2> HIDE DEF allV, allA
    <2>2. QED
        BY <1>3, <2>1, FS_Surjection
<1> HIDE DEF gaps, allV, allA
<1>6. IsFiniteSet(NewVerifications(ds, gaps)) /\ IsFiniteSet(NewActions(ds, gaps))
    BY <1>4, <1>5, FS_Subset
<1>7. QED
    BY <1>6 DEF gaps

LEMMA AdditionsAreADraftSet ==
    ASSUME NEW ds, IsDraftSet(ds), NEW k, NEW h, NEW m \in Nat
    PROVE  LET rows == CoverageMatrix(ds, h)
           IN  IsDraftSet(WithAdditions(ds, GapDiagnostics(ds, k, rows), rows, m))
<1> DEFINE rows == CoverageMatrix(ds, h)
           gaps == GapDiagnostics(ds, k, rows)
           decisions == NewDecisions(ds, rows, m)
           actions == NewActions(ds, gaps)
           verifications == NewVerifications(ds, gaps)
           next == WithAdditions(ds, gaps, rows, m)
<1>1. IsFiniteSet(rows) /\ \A r \in rows : r.priority \in Nat
    BY MatrixIsFinite, RowsAreRanked
<1>2. /\ IsFiniteSet(decisions) /\ IsFiniteSet(actions) /\ IsFiniteSet(verifications)
      /\ \A d \in decisions : d.priority \in Nat /\ d.evidence \in DOMAIN EvidenceRank
    <2> HIDE DEF rows
    <2>1. QED
        BY <1>1, NewDecisionsFit, AdditionsAreFinite, SupplementsDiffer
<1>3. next = [ds EXCEPT !.decisions = @ \cup decisions, !.actions = @ \cup actions,
                        !.verifications = @ \cup verifications]
    BY DEF WithAdditions
<1> HIDE DEF rows, gaps, decisions, actions, verifications, next
<1>4. /\ next.decisions = ds.decisions \cup decisions
      /\ next.actions = ds.actions \cup actions
      /\ next.verifications = ds.verifications \cup verifications
      /\ next.targets = ds.targets
      /\ next = [f \in DraftSetFields |-> next[f]]
    BY <1>3 DEF IsDraftSet, DraftSetFields
<1>5. IsFiniteSet(next.decisions) /\ IsFiniteSet(next.actions) /\ IsFiniteSet(next.verifications)
    <2>1. IsFiniteSet(ds.decisions) /\ IsFiniteSet(ds.actions) /\ IsFiniteSet(ds.verifications)
        BY DEF IsDraftSet
    <2>2. /\ IsFiniteSet(ds.decisions \cup decisions)
          /\ IsFiniteSet(ds.actions \cup actions)
          /\ IsFiniteSet(ds.verifications \cup verifications)
        BY <1>2, <2>1, FS_Union
    <2>3. QED
        BY <1>4, <2>2
<1>6. \A d \in next.decisions : d.priority \in Nat /\ d.evidence \in DOMAIN EvidenceRank
    BY <1>2, <1>4 DEF IsDraftSet
<1>7. IsDraftSet(next)
    BY <1>4, <1>5, <1>6 DEF IsDraftSet
<1>8. QED
    BY <1>7 DEF next, gaps, rows

-----------------------------------------------------------------------------
(* max_draft_decisions                                                     *)

WithinBudget(decisions, seed, max) ==
    /\ IsFiniteSet(decisions) /\ IsFiniteSet(seed)
    /\ seed \subseteq decisions /\ decisions \ seed \subseteq Supplements
    /\ Cardinality(decisions) = Cardinality({d.id : d \in decisions})
                                + Cardinality(seed) - Cardinality({d.id : d \in seed})
    /\ decisions = seed \/ Cardinality(decisions) <= max

LEMMA IdsAreCounted ==
    ASSUME NEW D, IsFiniteSet(D)
    PROVE  /\ IsFiniteSet({d.id : d \in D})
           /\ Cardinality({d.id : d \in D}) \in Nat /\ Cardinality(D) \in Nat
           /\ (\A d, e \in D : d.id = e.id => d = e) => Cardinality({d.id : d \in D}) = Cardinality(D)
<1> DEFINE ids == {d.id : d \in D}
           f == [d \in D |-> d.id]
<1>1. f \in Surjection(D, ids)
    BY DEF Surjection
<1>2. (\A d, e \in D : d.id = e.id => d = e) => f \in Injection(D, ids)
    BY DEF Injection, IsInjective
<1> HIDE DEF ids, f
<1>3. IsFiniteSet(ids) /\ Cardinality(ids) <= Cardinality(D)
    BY <1>1, FS_Surjection
<1>4. Cardinality(ids) \in Nat /\ Cardinality(D) \in Nat
    BY <1>3, FS_CardinalityType
<1>5. f \in Injection(D, ids) => Cardinality(D) <= Cardinality(ids)
    BY <1>3, FS_Injection
<1>6. QED
    BY <1>2, <1>3, <1>4, <1>5 DEF ids

\* Decisions with ids of their own add as many ids as decisions.
LEMMA FreshAreCounted ==
    ASSUME NEW D, IsFiniteSet(D), NEW N, IsFiniteSet(N),
           \A d \in N, e \in D : d.id # e.id, \A d, e \in N : d.id = e.id => d = e
    PROVE  /\ IsFiniteSet(D \cup N)
           /\ Cardinality(D \cup N) = Cardinality(D) + Cardinality(N)
           /\ Cardinality({d.id : d \in D \cup N}) = Cardinality({d.id : d \in D}) + Cardinality(N)
<1> DEFINE ids == {d.id : d \in D}
           new == {d.id : d \in N}
<1>1. /\ IsFiniteSet(ids) /\ IsFiniteSet(new)
      /\ Cardinality(ids) \in Nat /\ Cardinality(D) \in Nat /\ Cardinality(N) \in Nat
      /\ Cardinality(new) = Cardinality(N)
    BY IdsAreCounted
<1>2. D \cap N = {} /\ ids \cap new = {}
    OBVIOUS
<1>3. {d.id : d \in D \cup N} = ids \cup new
    OBVIOUS
<1> HIDE DEF ids, new
<1>4. Cardinality(D \cap N) = 0 /\ Cardinality(ids \cap new) = 0
    <2>1. Cardinality({}) = 0
        BY FS_EmptySet
    <2>2. QED
        BY <1>2, <2>1, Zenon
<1>5. /\ IsFiniteSet(D \cup N)
      /\ Cardinality(D \cup N) = Cardinality(D) + Cardinality(N) - Cardinality(D \cap N)
    BY FS_Union
<1>6. Cardinality(ids \cup new) = Cardinality(ids) + Cardinality(new) - Cardinality(ids \cap new)
    BY <1>1, FS_Union
<1>7. Cardinality(D \cup N) = Cardinality(D) + Cardinality(N)
    BY <1>1, <1>4, <1>5
<1>8. Cardinality(ids \cup new) = Cardinality(ids) + Cardinality(N)
    BY <1>1, <1>4, <1>6
<1>9. QED
    BY <1>3, <1>5, <1>7, <1>8 DEF ids

LEMMA AdditionsKeepBudget ==
    ASSUME NEW ds, IsDraftSet(ds), NEW k, NEW h, NEW seed, NEW max \in Nat,
           WithinBudget(ds.decisions, seed, max), max - Cardinality(ds.decisions) > 0
    PROVE  LET rows == CoverageMatrix(ds, h)
               room == max - Cardinality(ds.decisions)
           IN  WithinBudget(WithAdditions(ds, GapDiagnostics(ds, k, rows), rows, room).decisions, seed, max)
<1> DEFINE rows == CoverageMatrix(ds, h)
           D == ds.decisions
           room == max - Cardinality(D)
           N == NewDecisions(ds, rows, room)
           gaps == GapDiagnostics(ds, k, rows)
<1>1. IsFiniteSet(rows) /\ \A r \in rows : r.priority \in Nat
    BY MatrixIsFinite, RowsAreRanked
<1>2. IsFiniteSet(D) /\ IsFiniteSet(seed) /\ Cardinality(D) \in Nat
      /\ Cardinality(seed) \in Nat /\ Cardinality({d.id : d \in D}) \in Nat
      /\ Cardinality({d.id : d \in seed}) \in Nat
    <2>1. IsFiniteSet(D) /\ IsFiniteSet(seed)
        BY DEF WithinBudget
    <2> HIDE DEF D
    <2>2. QED
        BY <2>1, IdsAreCounted
<1>3. room \in Nat
    BY <1>2
<1>4. /\ IsFiniteSet(N) /\ Cardinality(N) <= room /\ N \subseteq Supplements
      /\ \A d \in N : d.id \notin DraftIds(ds)
      /\ \A d, e \in N : d.id = e.id => d = e
    <2> HIDE DEF rows, room
    <2>1. QED
        BY <1>1, <1>3, NewDecisionsFit
<1>5. \A d \in N, e \in D : d.id # e.id
    <2>1. \A e \in D : e.id \in DraftIds(ds)
        BY DEF DraftIds
    <2> HIDE DEF N
    <2>2. QED
        BY <1>4, <2>1
<1>6. WithAdditions(ds, gaps, rows, room).decisions = D \cup N
    <2> HIDE DEF rows, room, gaps
    <2>1. QED
        BY DEF WithAdditions, IsDraftSet, DraftSetFields
<1>7. WithinBudget(D, seed, max)
    OBVIOUS
<1> HIDE DEF N, D
<1>8. /\ IsFiniteSet(D \cup N)
      /\ Cardinality(D \cup N) = Cardinality(D) + Cardinality(N)
      /\ Cardinality({d.id : d \in D \cup N}) = Cardinality({d.id : d \in D}) + Cardinality(N)
    BY <1>2, <1>4, <1>5, FreshAreCounted
<1>9. Cardinality(N) \in Nat
    BY <1>4, FS_CardinalityType
<1>10. Cardinality(D \cup N) <= max
    BY <1>2, <1>4, <1>8, <1>9
<1>11. seed \subseteq D \cup N /\ (D \cup N) \ seed \subseteq Supplements
    BY <1>4, <1>7 DEF WithinBudget
<1>12. Cardinality(D \cup N) = Cardinality({d.id : d \in D \cup N})
                               + Cardinality(seed) - Cardinality({d.id : d \in seed})
    BY <1>2, <1>7, <1>8, <1>9 DEF WithinBudget
<1>13. WithinBudget(D \cup N, seed, max)
    BY <1>2, <1>8, <1>10, <1>11, <1>12 DEF WithinBudget
<1>14. QED
    BY <1>6, <1>13 DEF D

-----------------------------------------------------------------------------
(* The invariant.  A sidecar of the current head is what its command would *)
(* give now: whatever changes the draft set or what was accepted moves the *)
(* head on.                                                                *)

CanonFields == {"objects", "accepted", "origins"}

RunFields == {"pc", "work", "seed", "head", "canon", "options", "i", "reason"}

Written == {"created", "projected", "done"}

StateInv ==
    /\ head \in 0..MaxHead
    /\ canon = [f \in CanonFields |-> canon[f]]
    /\ canon.objects = Objects /\ canon.accepted \subseteq Decisions

RunInv ==
    /\ run = [f \in RunFields |-> run[f]]
    /\ run.pc \in {"idle", "iterating", "iterated"} \cup Written
    /\ run.pc # "idle" =>
         /\ run.options.maxDecisions \in 1..100
         /\ run.i \in 1..run.options.maxIterations /\ run.options.maxIterations \in 1..10
    /\ run.pc \in {"iterated"} \cup Written => run.reason \in Reasons
    /\ run.pc \in {"iterating", "iterated", "created", "projected"} =>
         /\ IsDraftSet(run.work)
         /\ WithinBudget(run.work.decisions, run.seed.decisions, run.options.maxDecisions)
    /\ run.pc = "done" => run.work = NoSet

DraftSetInv ==
    IF run.pc \in Written
    THEN /\ IsDraftSet(draftSet) /\ IsValidDraftSet(draftSet)
         /\ WithinBudget(draftSet.decisions, run.seed.decisions, run.options.maxDecisions)
    ELSE draftSet = NoSet /\ projection = NoSet /\ queue = NoSet

ProjectionReasons == Reasons \cup {"stopped"}

ProjectionInv ==
    projection # NoSet =>
        /\ projection.head \in Int /\ projection.head <= head
        /\ projection.head = head => \E override \in Reasons \cup {NoReason} : projection = Projected(override)
        /\ projection.reason \in ProjectionReasons
        /\ projection.status \in {"converged", "budget_exhausted", "stopped", "blocked"}

QueueInv ==
    queue # NoSet =>
        /\ queue.head \in Int /\ queue.head <= head
        /\ queue.head = head => queue = Reviewed
        /\ queue.bulk \subseteq DraftIds(draftSet)

AutopilotInv == StateInv /\ RunInv /\ DraftSetInv /\ ProjectionInv /\ QueueInv

-----------------------------------------------------------------------------
(* What the invariant gives                                                *)

LEMMA GapStopReasons ==
    ASSUME NEW gaps
    PROVE  GapStopReason(gaps) \in {"conflict_blocked", "risk_gate_triggered", "evidence_gap_blocked", NoReason}
BY DEF GapStopReason

LEMMA StopReasons ==
    ASSUME NEW ds, NEW gaps, NEW rows, NEW options
    PROVE  StopReason(ds, gaps, rows, options) \in Reasons \cup {"continue"}
BY GapStopReasons DEF StopReason, Reasons

\* What a projection can say.
LEMMA ConvergenceReasons ==
    ASSUME NEW gaps, NEW override \in Reasons \cup {NoReason}
    PROVE  /\ ConvergenceReason(gaps, override) \in ProjectionReasons
           /\ StatusOf(ConvergenceReason(gaps, override))
                \in {"converged", "budget_exhausted", "stopped", "blocked"}
<1>1. ProjectionStopReason(gaps) \in ProjectionReasons
    BY GapStopReasons DEF ProjectionStopReason, ProjectionReasons, Reasons
<1>2. ConvergenceReason(gaps, override) \in ProjectionReasons
    BY <1>1 DEF ConvergenceReason, ProjectionReasons, Reasons, NoReason
<1>3. QED
    BY <1>2 DEF StatusOf

LEMMA ProjectedIsTyped ==
    ASSUME NEW override \in Reasons \cup {NoReason}
    PROVE  /\ Projected(override).reason \in ProjectionReasons
           /\ Projected(override).status \in {"converged", "budget_exhausted", "stopped", "blocked"}
           /\ Projected(override).head = head
<1> DEFINE gaps == GapDiagnostics(draftSet, canon, CoverageMatrix(draftSet, head))
<1>1. Projected(override) = [reason |-> ConvergenceReason(gaps, override),
                             status |-> StatusOf(ConvergenceReason(gaps, override)), head |-> head]
    BY DEF Projected
<1> HIDE DEF gaps
<1>2. QED
    BY <1>1, ConvergenceReasons

LEMMA ReviewedIsTyped ==
    Reviewed.head = head /\ Reviewed.bulk \subseteq DraftIds(draftSet)
<1> DEFINE rows == CoverageMatrix(draftSet, head)
           gaps == GapDiagnostics(draftSet, canon, rows)
<1>1. Reviewed = [bulk |-> InMode(draftSet, gaps, rows, "bulk"), head |-> head]
    BY DEF Reviewed
<1> HIDE DEF gaps, rows
<1>2. InMode(draftSet, gaps, rows, "bulk") \subseteq DraftIds(draftSet)
    BY DEF InMode, DraftIds
<1>3. QED
    BY <1>1, <1>2

LEMMA InvariantIsClean == AutopilotInv => UnblockedIsClean
<1> SUFFICES ASSUME AutopilotInv, IsCurrent(projection), projection.status # "blocked"
             PROVE  /\ draftSet.decisions # {} /\ draftSet.generated = head
                    /\ \A t \in draftSet.targets :
                          t.type = "decision_stack_layer" /\ t.required /\ Urgent(t.priority) => IsMet(t)
                    /\ \A d \in draftSet.decisions :
                          /\ Urgent(d.priority) => "alternatives" \in d.has /\ ~LacksEvidence(d)
                          /\ d.risk \in {"high", "critical"} => d.review.mode # "bulk" /\ ~d.review.bulk
                          /\ d.supports \subseteq Objects
                    /\ \A c \in draftSet.conflicts : c.canonical \cap canon.accepted = {}
                    /\ draftSet.promoted \subseteq canon.origins
    BY DEF UnblockedIsClean
<1> DEFINE rows == CoverageMatrix(draftSet, head)
           gaps == GapDiagnostics(draftSet, canon, rows)
<1>1. projection # NoSet /\ projection.head = head
    BY DEF IsCurrent
<1>2. PICK override \in Reasons \cup {NoReason} : projection = Projected(override)
    BY <1>1 DEF AutopilotInv, ProjectionInv
<1>3. projection.status = StatusOf(ConvergenceReason(gaps, override))
    BY <1>2 DEF Projected
<1>4. IsDraftSet(draftSet) /\ ReservedAxesKept(draftSet) /\ canon.objects = Objects
    BY <1>1 DEF AutopilotInv, StateInv, DraftSetInv, IsValidDraftSet, ReservedAxesKept
<1> HIDE DEF gaps, rows
<1>5. NoGapBlocks(gaps)
    BY <1>3, UnblockedHasNoBlockingGap
<1>6. NoRowBlocks(rows)
    BY <1>5, UnblockedRows DEF gaps
<1>7. draftSet.generated = head
    BY <1>4, <1>6, UnblockedIsFresh DEF rows, IsStale
<1>8. ASSUME NEW t \in draftSet.targets, t.type = "decision_stack_layer", t.required, Urgent(t.priority)
      PROVE  IsMet(t)
    BY <1>6, <1>8, UnblockedLayersAreMet DEF rows, IsMet
<1>9. ASSUME NEW d \in draftSet.decisions
      PROVE  /\ Urgent(d.priority) => "alternatives" \in d.has /\ ~LacksEvidence(d)
             /\ d.risk \in {"high", "critical"} => d.review.mode # "bulk" /\ ~d.review.bulk
             /\ d.supports \subseteq Objects
    <2>1. /\ Urgent(d.priority) => "alternatives" \in d.has
          /\ d.supports \subseteq canon.objects
        BY <1>5, UnblockedDecision DEF gaps
    <2>2. Urgent(d.priority) => ~LacksEvidence(d)
        BY <1>4, <1>6, UnblockedIsSupported DEF rows
    <2>3. d.risk \in {"high", "critical"} => ~BulkRequested(d)
        BY <1>4, <1>6, UnblockedIsReviewed DEF rows
    <2>4. QED
        BY <1>4, <2>1, <2>2, <2>3 DEF BulkRequested
<1>10. /\ draftSet.decisions # {}
       /\ \A c \in draftSet.conflicts : c.canonical \cap canon.accepted = {}
       /\ draftSet.promoted \subseteq canon.origins
    BY <1>5, UnblockedReferences DEF gaps
<1>11. QED
    BY <1>7, <1>8, <1>9, <1>10

LEMMA InvariantQueuesSafely == AutopilotInv => QueuedBulkIsSafe
<1> SUFFICES ASSUME AutopilotInv, IsCurrent(queue), NEW d \in draftSet.decisions, d.id \in queue.bulk
             PROVE  /\ d.risk = "low" /\ d.priority >= 2 /\ ~LacksEvidence(d)
                    /\ ~HasConflict(draftSet, d) /\ d.id \notin draftSet.individualRequested
                    /\ ~IsStale(draftSet, head)
                    /\ \A t \in draftSet.targets :
                          t.type = "decision_stack_layer" /\ t.required /\ Urgent(t.priority) => IsMet(t)
    BY DEF QueuedBulkIsSafe
<1> DEFINE rows == CoverageMatrix(draftSet, head)
           gaps == GapDiagnostics(draftSet, canon, rows)
<1>1. queue # NoSet /\ queue = Reviewed
    BY DEF IsCurrent, AutopilotInv, QueueInv
<1>2. queue.bulk = InMode(draftSet, gaps, rows, "bulk")
    BY <1>1 DEF Reviewed
<1>3. IsDraftSet(draftSet) /\ ReservedAxesKept(draftSet)
    BY <1>1 DEF AutopilotInv, DraftSetInv, IsValidDraftSet, ReservedAxesKept
<1>4. ReviewMode(draftSet, gaps, rows, d) = "bulk"
    <2> HIDE DEF rows
    <2>1. QED
        BY <1>2, <1>3, OfferedIsBulk
<1> HIDE DEF gaps, rows
<1>5. IsLowRiskBulkCandidate(draftSet, d) /\ ~NeedsIndividualReview(draftSet, rows, d)
    BY <1>4, BulkMode
<1>6. NoRowBlocks(rows)
    BY <1>5 DEF IsLowRiskBulkCandidate, NeedsIndividualReview, NoRowBlocks
<1>7. ~IsStale(draftSet, head)
    BY <1>3, <1>6, UnblockedIsFresh DEF rows
<1>8. ASSUME NEW t \in draftSet.targets, t.type = "decision_stack_layer", t.required, Urgent(t.priority)
      PROVE  IsMet(t)
    BY <1>6, <1>8, UnblockedLayersAreMet DEF rows, IsMet
<1>9. d.priority \in Nat
    BY <1>3 DEF IsDraftSet
<1>10. QED
    BY <1>5, <1>7, <1>8, <1>9 DEF IsLowRiskBulkCandidate, NeedsIndividualReview, Urgent

LEMMA InvariantKeepsBudget == AutopilotInv => BudgetKept
<1> SUFFICES ASSUME AutopilotInv, run.pc # "idle"
             PROVE  LET ds == IF draftSet = NoSet THEN run.work ELSE draftSet
                        seed == run.seed.decisions
                    IN  /\ seed \subseteq ds.decisions /\ ds.decisions \ seed \subseteq Supplements
                        /\ Cardinality(ds.decisions) = Cardinality({d.id : d \in ds.decisions})
                                                       + Cardinality(seed) - Cardinality({d.id : d \in seed})
                        /\ ds.decisions = seed \/ Cardinality(ds.decisions) <= run.options.maxDecisions
    BY DEF BudgetKept
<1> DEFINE ds == IF draftSet = NoSet THEN run.work ELSE draftSet
<1>1. WithinBudget(ds.decisions, run.seed.decisions, run.options.maxDecisions)
    <2>1. CASE run.pc \in {"iterating", "iterated"}
        BY <2>1 DEF AutopilotInv, RunInv, DraftSetInv, Written
    <2>2. CASE run.pc \in {"created", "projected"}
        BY <2>2 DEF AutopilotInv, RunInv, DraftSetInv, Written
    <2>3. CASE run.pc = "done"
        BY <2>3 DEF AutopilotInv, RunInv, DraftSetInv, Written
    <2>4. QED
        BY <2>1, <2>2, <2>3 DEF AutopilotInv, RunInv, Written
<1> HIDE DEF ds
<1>2. QED
    BY <1>1 DEF WithinBudget, ds

LEMMA InvariantIsTyped == AutopilotInv => TypeOK
BY DEF AutopilotInv, StateInv, RunInv, DraftSetInv, ProjectionInv, QueueInv, ProjectionReasons, Written, TypeOK

-----------------------------------------------------------------------------
(* The invariant is kept                                                   *)

LEMMA SidecarsStay ==
    ASSUME UNCHANGED << head, canon, draftSet >>
    PROVE  Reviewed' = Reviewed /\ \A override : Projected(override)' = Projected(override)
BY DEF Reviewed, Projected

\* What a step that moves the head on leaves of the sidecars.
LEMMA SidecarsAge ==
    ASSUME AutopilotInv, head' = head + 1, UNCHANGED << projection, queue >>,
           DraftIds(draftSet)' = DraftIds(draftSet)
    PROVE  ProjectionInv' /\ QueueInv'
<1>1. ProjectionInv'
    <2>1. SUFFICES ASSUME projection # NoSet
                   PROVE  /\ projection.head \in Int /\ projection.head < head + 1
                          /\ projection.reason \in ProjectionReasons
                          /\ projection.status \in {"converged", "budget_exhausted", "stopped", "blocked"}
        BY DEF ProjectionInv, ProjectionReasons, Reasons
    <2>2. QED
        BY <2>1 DEF AutopilotInv, StateInv, ProjectionInv
<1>2. QueueInv'
    <2>1. SUFFICES ASSUME queue # NoSet
                   PROVE  /\ queue.head \in Int /\ queue.head < head + 1
                          /\ queue.bulk \subseteq DraftIds(draftSet)
        BY DEF QueueInv
    <2>2. QED
        BY <2>1 DEF AutopilotInv, StateInv, QueueInv
<1>3. QED
    BY <1>1, <1>2

LEMMA SidecarsKeep ==
    ASSUME AutopilotInv, UNCHANGED << head, canon, draftSet, projection, queue >>
    PROVE  ProjectionInv' /\ QueueInv'
BY SidecarsStay DEF AutopilotInv, ProjectionInv, QueueInv, ProjectionReasons, Reasons, DraftIds

LEMMA SeedsAreWithinBudget ==
    ASSUME NEW D, IsFiniteSet(D), NEW max
    PROVE  WithinBudget(D, D, max)
<1>1. Cardinality(D) \in Nat /\ Cardinality({d.id : d \in D}) \in Nat
    BY IdsAreCounted
<1>2. Cardinality(D) = Cardinality({d.id : d \in D}) + Cardinality(D) - Cardinality({d.id : d \in D})
    BY <1>1
<1>3. QED
    BY <1>2 DEF WithinBudget

LEMMA LoadStep ==
    ASSUME AutopilotInv, NEW input \in Inputs, Load(input.seed, input.options)
    PROVE  AutopilotInv'
<1> DEFINE seed == input.seed
           work == IF seed.generated = NoHead THEN [seed EXCEPT !.generated = head] ELSE seed
<1>1. IsDraftSet(seed) /\ input.options.maxIterations \in 1..10 /\ input.options.maxDecisions \in 1..100
    BY InputsAssumption
<1>2. run' = [pc |-> "iterating", work |-> work, seed |-> work, head |-> head, canon |-> canon,
              options |-> input.options, i |-> 1, reason |-> NoReason]
    BY DEF Load
<1>3. IsDraftSet(work)
    <2> HIDE DEF seed
    <2>1. /\ work.decisions = seed.decisions /\ work.actions = seed.actions
          /\ work.verifications = seed.verifications /\ work.targets = seed.targets
          /\ work = [f \in DraftSetFields |-> work[f]]
        BY <1>1 DEF IsDraftSet, DraftSetFields
    <2> HIDE DEF work
    <2>2. QED
        BY <1>1, <2>1 DEF IsDraftSet
<1>4. WithinBudget(work.decisions, work.decisions, input.options.maxDecisions)
    BY <1>3, SeedsAreWithinBudget DEF IsDraftSet
<1> HIDE DEF seed, work
<1>5. UNCHANGED << head, canon, draftSet, projection, queue >> /\ run.pc = "idle"
    BY DEF Load
<1>6. RunInv'
    BY <1>1, <1>2, <1>3, <1>4 DEF RunInv, RunFields, Written
<1>7. DraftSetInv'
    BY <1>2, <1>5 DEF AutopilotInv, DraftSetInv, Written
<1>8. StateInv'
    BY <1>5 DEF AutopilotInv, StateInv
<1>9. QED
    BY <1>5, <1>6, <1>7, <1>8, SidecarsKeep DEF AutopilotInv

LEMMA IterateStep ==
    ASSUME AutopilotInv, Iterate
    PROVE  AutopilotInv'
<1> DEFINE ds == run.work
           rows == CoverageMatrix(ds, run.head)
           gaps == GapDiagnostics(ds, run.canon, rows)
           reason == StopReason(ds, gaps, rows, run.options)
           max == run.options.maxDecisions
           room == max - Cardinality(ds.decisions)
           next == WithAdditions(ds, gaps, rows, room)
<1>1. /\ run.pc = "iterating" /\ IsDraftSet(ds) /\ max \in 1..100
      /\ WithinBudget(ds.decisions, run.seed.decisions, max)
      /\ run = [f \in RunFields |-> run[f]]
      /\ run.options.maxIterations \in 1..10 /\ run.i \in 1..run.options.maxIterations
    BY DEF AutopilotInv, RunInv, Iterate
<1>2. reason \in Reasons \cup {"continue"}
    <2> HIDE DEF gaps, rows
    <2>1. QED
        BY StopReasons
<1>3. \/ \E r \in Reasons : Stop(r)
      \/ /\ run.i < run.options.maxIterations /\ room > 0
         /\ run' = [run EXCEPT !.work = next, !.i = @ + 1]
    <2> HIDE DEF next, reason, gaps, rows
    <2>1. Iterate <=> /\ run.pc = "iterating"
                      /\ IF reason # "continue" THEN Stop(reason)
                         ELSE IF run.i >= run.options.maxIterations \/ room <= 0 THEN Stop("budget_exhausted")
                         ELSE IF next = ds THEN Stop("user_review_required")
                         ELSE run' = [run EXCEPT !.work = next, !.i = @ + 1]
                      /\ UNCHANGED << head, canon, draftSet, projection, queue, bulk >>
        BY DEF Iterate, next, reason, gaps, rows
    <2>2. Cardinality(ds.decisions) \in Nat
        BY <1>1, FS_CardinalityType DEF IsDraftSet
    <2>3. "budget_exhausted" \in Reasons /\ "user_review_required" \in Reasons
        BY DEF Reasons
    <2>4. CASE reason # "continue"
        BY <1>2, <2>1, <2>4
    <2>5. CASE reason = "continue" /\ (run.i >= run.options.maxIterations \/ room <= 0)
        BY <2>1, <2>3, <2>5
    <2>6. CASE reason = "continue" /\ ~(run.i >= run.options.maxIterations \/ room <= 0)
        <3>1. run.i < run.options.maxIterations /\ room > 0
            BY <1>1, <2>2, <2>6
        <3>2. QED
            BY <2>1, <2>3, <2>6, <3>1
    <2>7. QED
        BY <2>4, <2>5, <2>6
<1>4. RunInv'
    <2>1. ASSUME NEW r \in Reasons, Stop(r) PROVE RunInv'
        <3>1. run' = [run EXCEPT !.pc = "iterated", !.reason = r]
            BY <2>1 DEF Stop
        <3>2. /\ run'.pc = "iterated" /\ run'.reason = r /\ run'.work = run.work /\ run'.seed = run.seed
              /\ run'.options = run.options /\ run'.i = run.i /\ run' = [f \in RunFields |-> run'[f]]
            BY <1>1, <3>1 DEF RunFields
        <3>3. QED
            BY <1>1, <2>1, <3>2 DEF RunInv, Written
    <2>2. ASSUME run.i < run.options.maxIterations, room > 0,
                 run' = [run EXCEPT !.work = next, !.i = @ + 1]
          PROVE  RunInv'
        <3>1. room \in Nat
            <4>1. Cardinality(ds.decisions) \in Nat
                BY <1>1, FS_CardinalityType DEF IsDraftSet
            <4>2. QED
                BY <1>1, <2>2, <4>1
        <3>2. IsDraftSet(next)
            <4> HIDE DEF room
            <4>1. QED
                BY <1>1, <3>1, AdditionsAreADraftSet
        <3>3. WithinBudget(next.decisions, run.seed.decisions, max)
            <4>1. max \in Nat
                BY <1>1
            <4>2. QED
                BY <1>1, <2>2, <4>1, AdditionsKeepBudget
        <3> HIDE DEF next
        <3>4. /\ run'.pc = "iterating" /\ run'.work = next /\ run'.seed = run.seed
              /\ run'.options = run.options /\ run'.i = run.i + 1 /\ run' = [f \in RunFields |-> run'[f]]
            BY <1>1, <2>2 DEF RunFields
        <3>5. run'.i \in 1..run'.options.maxIterations
            <4> DEFINE i == run.i
                       top == run.options.maxIterations
            <4>1. i \in 1..top /\ top \in 1..10 /\ i < top
                BY <1>1, <2>2
            <4>2. run'.i = i + 1 /\ run'.options.maxIterations = top
                BY <3>4
            <4> HIDE DEF i, top
            <4>3. i + 1 \in 1..top
                BY <4>1
            <4>4. QED
                BY <4>2, <4>3, Zenon
        <3>6. QED
            BY <1>1, <3>2, <3>3, <3>4, <3>5 DEF RunInv, Written
    <2>3. QED
        BY <1>3, <2>1, <2>2
<1>5. run'.pc \in {"iterating", "iterated"}
    BY <1>1, <1>3 DEF Stop, RunFields
<1>6. UNCHANGED << head, canon, draftSet, projection, queue >>
    BY DEF Iterate
<1>7. DraftSetInv' /\ StateInv'
    BY <1>1, <1>5, <1>6 DEF AutopilotInv, DraftSetInv, StateInv, Written
<1>8. QED
    BY <1>4, <1>6, <1>7, SidecarsKeep DEF AutopilotInv

LEMMA CreateStep ==
    ASSUME AutopilotInv, Create
    PROVE  AutopilotInv'
<1>1. /\ run.pc = "iterated" /\ IsDraftSet(run.work) /\ IsValidDraftSet(run.work)
      /\ WithinBudget(run.work.decisions, run.seed.decisions, run.options.maxDecisions)
      /\ run = [f \in RunFields |-> run[f]]
      /\ projection = NoSet /\ queue = NoSet
    BY DEF AutopilotInv, RunInv, DraftSetInv, Create, Written
<1>2. draftSet' = run.work /\ run' = [run EXCEPT !.pc = "created"]
      /\ UNCHANGED << head, canon, projection, queue >>
    BY DEF Create
<1>3. /\ run'.pc = "created" /\ run'.reason = run.reason /\ run'.work = run.work /\ run'.seed = run.seed
      /\ run'.options = run.options /\ run'.i = run.i /\ run' = [f \in RunFields |-> run'[f]]
    BY <1>1, <1>2 DEF RunFields
<1>4. RunInv'
    BY <1>1, <1>3 DEF AutopilotInv, RunInv, Written
<1>5. DraftSetInv'
    BY <1>1, <1>2, <1>3 DEF DraftSetInv, Written
<1>6. StateInv' /\ ProjectionInv' /\ QueueInv'
    BY <1>1, <1>2 DEF AutopilotInv, StateInv, ProjectionInv, QueueInv
<1>7. QED
    BY <1>4, <1>5, <1>6 DEF AutopilotInv

LEMMA CreateFailsStep ==
    ASSUME AutopilotInv, CreateFails
    PROVE  AutopilotInv'
<1>1. run.pc = "iterated" /\ run' = NoRun /\ UNCHANGED << head, canon, draftSet, projection, queue >>
    BY DEF CreateFails
<1>2. NoRun.pc = "idle" /\ NoRun = [f \in RunFields |-> NoRun[f]]
    BY DEF NoRun, RunFields
<1>3. RunInv'
    BY <1>1, <1>2 DEF RunInv, Written
<1>4. DraftSetInv' /\ StateInv'
    BY <1>1, <1>2 DEF AutopilotInv, DraftSetInv, StateInv, Written
<1>5. QED
    BY <1>1, <1>3, <1>4, SidecarsKeep DEF AutopilotInv

\* draft-projection.json and review-queue.json are written whole.
LEMMA ProjectionWritten ==
    ASSUME AutopilotInv, NEW override \in Reasons \cup {NoReason}, projection' = Projected(override),
           UNCHANGED << head, canon, draftSet >>
    PROVE  ProjectionInv'
<1>1. /\ projection'.reason \in ProjectionReasons
      /\ projection'.status \in {"converged", "budget_exhausted", "stopped", "blocked"}
      /\ projection'.head = head
    BY ProjectedIsTyped
<1>2. \E o \in Reasons \cup {NoReason} : projection' = Projected(o)'
    BY SidecarsStay
<1>3. head' = head /\ head \in Int
    BY DEF AutopilotInv, StateInv
<1>4. QED
    BY <1>1, <1>2, <1>3 DEF ProjectionInv, ProjectionReasons, Reasons

LEMMA QueueWritten ==
    ASSUME AutopilotInv, queue' = Reviewed, UNCHANGED << head, canon, draftSet >>
    PROVE  QueueInv'
<1>1. queue' = Reviewed' /\ queue'.head = head /\ queue'.bulk \subseteq DraftIds(draftSet)
    BY SidecarsStay, ReviewedIsTyped
<1>2. head' = head /\ head \in Int /\ DraftIds(draftSet)' = DraftIds(draftSet)
    BY DEF AutopilotInv, StateInv, DraftIds
<1>3. QED
    BY <1>1, <1>2 DEF QueueInv

LEMMA ProjectStep ==
    ASSUME AutopilotInv, Project
    PROVE  AutopilotInv'
<1>1. /\ run.pc = "created" /\ run.reason \in Reasons /\ run = [f \in RunFields |-> run[f]]
      /\ projection' = Projected(run.reason) /\ run' = [run EXCEPT !.pc = "projected"]
      /\ UNCHANGED << head, canon, draftSet, queue >>
    BY DEF AutopilotInv, RunInv, Project, Written
<1>2. /\ run'.pc = "projected" /\ run'.reason = run.reason /\ run'.work = run.work /\ run'.seed = run.seed
      /\ run'.options = run.options /\ run'.i = run.i /\ run' = [f \in RunFields |-> run'[f]]
    BY <1>1 DEF RunFields
<1>3. RunInv'
    BY <1>1, <1>2 DEF AutopilotInv, RunInv, Written
<1>4. DraftSetInv' /\ StateInv'
    BY <1>1, <1>2 DEF AutopilotInv, DraftSetInv, StateInv, Written
<1>5. ProjectionInv'
    BY <1>1, ProjectionWritten
<1>6. QueueInv'
    BY <1>1, SidecarsStay DEF AutopilotInv, QueueInv, DraftIds
<1>7. QED
    BY <1>3, <1>4, <1>5, <1>6 DEF AutopilotInv

LEMMA ExportStep ==
    ASSUME AutopilotInv, Export
    PROVE  AutopilotInv'
<1>1. /\ run.pc = "projected" /\ run.reason \in Reasons
      /\ queue' = Reviewed
      /\ run' = [NoRun EXCEPT !.pc = "done", !.seed = run.seed, !.options = run.options,
                              !.i = run.i, !.reason = run.reason]
      /\ UNCHANGED << head, canon, draftSet, projection >>
    BY DEF AutopilotInv, RunInv, Export, Written
<1>2. /\ run'.pc = "done" /\ run'.reason = run.reason /\ run'.work = NoSet /\ run'.seed = run.seed
      /\ run'.options = run.options /\ run'.i = run.i /\ run' = [f \in RunFields |-> run'[f]]
    BY <1>1 DEF RunFields, NoRun
<1>3. RunInv'
    BY <1>1, <1>2 DEF AutopilotInv, RunInv, Written
<1>4. DraftSetInv' /\ StateInv'
    BY <1>1, <1>2 DEF AutopilotInv, DraftSetInv, StateInv, Written
<1>5. QueueInv'
    BY <1>1, QueueWritten
<1>6. ProjectionInv'
    BY <1>1, SidecarsStay DEF AutopilotInv, ProjectionInv, ProjectionReasons, Reasons
<1>7. QED
    BY <1>3, <1>4, <1>5, <1>6 DEF AutopilotInv

\* The other commands leave the run alone.
LEMMA SidecarCommandStep ==
    ASSUME AutopilotInv, ProjectDraftSet \/ ReviewDraftSet
    PROVE  AutopilotInv'
<1>1. UNCHANGED << head, canon, run, draftSet >> /\ draftSet # NoSet
    BY DEF ProjectDraftSet, ReviewDraftSet
<1>2. run.pc \in Written
    BY <1>1 DEF AutopilotInv, DraftSetInv
<1>3. StateInv' /\ RunInv' /\ DraftSetInv'
    BY <1>1, <1>2 DEF AutopilotInv, StateInv, RunInv, DraftSetInv, Written
<1>4. ProjectionInv'
    <2>1. CASE ProjectDraftSet
        BY <1>1, <2>1, ProjectionWritten DEF ProjectDraftSet
    <2>2. CASE ReviewDraftSet
        BY <1>1, <2>2, SidecarsStay DEF ReviewDraftSet, AutopilotInv, ProjectionInv, ProjectionReasons, Reasons
    <2>3. QED
        BY <2>1, <2>2
<1>5. QueueInv'
    <2>1. CASE ReviewDraftSet
        BY <1>1, <2>1, QueueWritten DEF ReviewDraftSet
    <2>2. CASE ProjectDraftSet
        BY <1>1, <2>2, SidecarsStay DEF ProjectDraftSet, AutopilotInv, QueueInv, DraftIds
    <2>3. QED
        BY <2>1, <2>2
<1>6. QED
    BY <1>3, <1>4, <1>5 DEF AutopilotInv

LEMMA OtherCommitStep ==
    ASSUME AutopilotInv, OtherCommit
    PROVE  AutopilotInv'
<1>1. /\ head < MaxHead /\ head' = head + 1 /\ UNCHANGED << run, draftSet, projection, queue >>
      /\ \E a \in SUBSET Decisions : canon' = [canon EXCEPT !.accepted = a]
    BY DEF OtherCommit
<1>2. StateInv'
    <2>1. head' \in 0..MaxHead
        BY <1>1, MaxHeadAssumption DEF AutopilotInv, StateInv
    <2>2. /\ canon' = [f \in CanonFields |-> canon'[f]]
          /\ canon'.objects = Objects /\ canon'.accepted \subseteq Decisions
        BY <1>1 DEF AutopilotInv, StateInv, CanonFields
    <2>3. QED
        BY <2>1, <2>2 DEF StateInv
<1>3. RunInv' /\ DraftSetInv'
    BY <1>1 DEF AutopilotInv, RunInv, DraftSetInv, Written
<1>4. DraftIds(draftSet)' = DraftIds(draftSet)
    BY <1>1 DEF DraftIds
<1>5. ProjectionInv' /\ QueueInv'
    BY <1>1, <1>4, SidecarsAge
<1>6. QED
    BY <1>2, <1>3, <1>5 DEF AutopilotInv

LEMMA PromoteInBulkStep ==
    ASSUME AutopilotInv, PromoteInBulk
    PROVE  AutopilotInv'
<1> DEFINE promoted == draftSet.promoted \cup {d.id : d \in BulkCandidates(draftSet)}
           origins == canon.origins \cup {d.id : d \in BulkCandidates(draftSet)}
<1>1. /\ draftSet # NoSet /\ head < MaxHead /\ head' = head + 1
      /\ draftSet' = [draftSet EXCEPT !.promoted = promoted]
      /\ canon' = [canon EXCEPT !.origins = origins]
      /\ UNCHANGED << run, projection, queue >>
    BY DEF PromoteInBulk
<1>2. run.pc \in Written /\ IsDraftSet(draftSet) /\ IsValidDraftSet(draftSet)
    BY <1>1 DEF AutopilotInv, DraftSetInv
<1> HIDE DEF promoted, origins
<1>3. /\ draftSet'.decisions = draftSet.decisions /\ draftSet'.actions = draftSet.actions
      /\ draftSet'.verifications = draftSet.verifications /\ draftSet'.targets = draftSet.targets
      /\ draftSet' = [f \in DraftSetFields |-> draftSet'[f]]
    BY <1>1, <1>2 DEF IsDraftSet, DraftSetFields
<1>4. IsDraftSet(draftSet')
    BY <1>2, <1>3 DEF IsDraftSet
<1>5. IsValidDraftSet(draftSet')
    BY <1>2, <1>3 DEF IsValidDraftSet
<1>6. RunInv' /\ DraftSetInv'
    BY <1>1, <1>2, <1>3, <1>4, <1>5 DEF AutopilotInv, RunInv, DraftSetInv, Written
<1>7. StateInv'
    <2>1. head' \in 0..MaxHead
        BY <1>1, MaxHeadAssumption DEF AutopilotInv, StateInv
    <2>2. /\ canon' = [f \in CanonFields |-> canon'[f]]
          /\ canon'.objects = Objects /\ canon'.accepted \subseteq Decisions
        BY <1>1 DEF AutopilotInv, StateInv, CanonFields
    <2>3. QED
        BY <2>1, <2>2 DEF StateInv
<1>8. DraftIds(draftSet)' = DraftIds(draftSet)
    BY <1>3 DEF DraftIds
<1>9. ProjectionInv' /\ QueueInv'
    BY <1>1, <1>8, SidecarsAge
<1>10. QED
    BY <1>6, <1>7, <1>9 DEF AutopilotInv

LEMMA InvariantHolds ==
    /\ Init => AutopilotInv
    /\ AutopilotInv /\ [Next]_vars => AutopilotInv'
<1>1. Init => AutopilotInv
    <2>1. SUFFICES ASSUME Init PROVE AutopilotInv
        OBVIOUS
    <2>2. NoRun.pc = "idle" /\ NoRun = [f \in RunFields |-> NoRun[f]]
        BY DEF NoRun, RunFields
    <2>3. StateInv
        BY <2>1, MaxHeadAssumption DEF Init, StateInv, CanonFields
    <2>4. RunInv /\ DraftSetInv /\ ProjectionInv /\ QueueInv
        BY <2>1, <2>2 DEF Init, RunInv, DraftSetInv, ProjectionInv, QueueInv, Written
    <2>5. QED
        BY <2>3, <2>4 DEF AutopilotInv
<1>2. AutopilotInv /\ [Next]_vars => AutopilotInv'
    <2>1. SUFFICES ASSUME AutopilotInv, [Next]_vars PROVE AutopilotInv'
        OBVIOUS
    <2>2. CASE \E input \in Inputs : Load(input.seed, input.options)
        BY <2>1, <2>2, LoadStep
    <2>3. CASE Iterate
        BY <2>1, <2>3, IterateStep
    <2>4. CASE Create
        BY <2>1, <2>4, CreateStep
    <2>5. CASE CreateFails
        BY <2>1, <2>5, CreateFailsStep
    <2>6. CASE Project
        BY <2>1, <2>6, ProjectStep
    <2>7. CASE Export
        BY <2>1, <2>7, ExportStep
    <2>8. CASE ProjectDraftSet \/ ReviewDraftSet
        BY <2>1, <2>8, SidecarCommandStep
    <2>9. CASE OtherCommit
        BY <2>1, <2>9, OtherCommitStep
    <2>10. CASE PromoteInBulk
        BY <2>1, <2>10, PromoteInBulkStep
    <2>11. CASE UNCHANGED vars
        <3>1. UNCHANGED << head, canon, run, draftSet, projection, queue >>
            BY <2>11 DEF vars
        <3>2. StateInv' /\ RunInv' /\ DraftSetInv'
            BY <2>1, <3>1 DEF AutopilotInv, StateInv, RunInv, DraftSetInv, Written
        <3>3. QED
            BY <2>1, <3>1, <3>2, SidecarsKeep DEF AutopilotInv
    <2>12. QED
        BY <2>1, <2>2, <2>3, <2>4, <2>5, <2>6, <2>7, <2>8, <2>9, <2>10, <2>11 DEF Next
<1>3. QED
    BY <1>1, <1>2

-----------------------------------------------------------------------------
(* Theorems                                                                *)

\* The states of an autopilot run, the draft set it wrote and the sidecars
\* have their types, and a draft set that was written is valid.
THEOREM AutopilotTyped == Spec => []TypeOK
<1>1. Init => AutopilotInv
    BY InvariantHolds
<1>2. AutopilotInv /\ [Next]_vars => AutopilotInv'
    BY InvariantHolds
<1>3. QED
    BY <1>1, <1>2, InvariantIsTyped, PTL DEF Spec

\* "Projection convergence must fail closed": a current projection that does
\* not say "blocked" is of a clean draft set, for every seed and every
\* contract, and whatever reason the autopilot handed over.
THEOREM ConvergenceFailsClosed == Spec => []UnblockedIsClean
<1>1. Init => AutopilotInv
    BY InvariantHolds
<1>2. AutopilotInv /\ [Next]_vars => AutopilotInv'
    BY InvariantHolds
<1>3. QED
    BY <1>1, <1>2, InvariantIsClean, PTL DEF Spec

\* A current review queue offers nothing for bulk promotion that is risky,
\* urgent, unsupported or in conflict, and nothing of a stale or incomplete
\* draft set.
THEOREM QueuesAreSafe == Spec => []QueuedBulkIsSafe
<1>1. Init => AutopilotInv
    BY InvariantHolds
<1>2. AutopilotInv /\ [Next]_vars => AutopilotInv'
    BY InvariantHolds
<1>3. QED
    BY <1>1, <1>2, InvariantQueuesSafely, PTL DEF Spec

\* The autopilot keeps the decisions of its seed, adds only its own, never
\* one id twice, and keeps max_draft_decisions.
THEOREM BudgetIsKept == Spec => []BudgetKept
<1>1. Init => AutopilotInv
    BY InvariantHolds
<1>2. AutopilotInv /\ [Next]_vars => AutopilotInv'
    BY InvariantHolds
<1>3. QED
    BY <1>1, <1>2, InvariantKeepsBudget, PTL DEF Spec
=============================================================================
