----------------------------- MODULE ReviewQueue -----------------------------
(***************************************************************************)
(* How a draft decision is to be reviewed: the modes of review-queue.json  *)
(* (build_review_queue of draft_export.py), and what a promotion asks of a *)
(* draft (draft_promote.py).  Items for coverage rows and gaps, which the  *)
(* queue lists beside the decisions, are blocked or individual, never bulk.*)
(***************************************************************************)
EXTENDS DraftProjection

(* _blocking_reasons                                                       *)
Malformed(d) ==
    \/ d.status = "accepted"
    \/ ~({"question", "recommendation", "alternatives"} \subseteq d.has)
    \/ ~d.review.present
    \/ ~d.recipe.present \/ ~d.recipe.decision

ResolveFirst ==
    {"accepted_decision_conflict_possible", "bulk_promotion_blocked", "dangling_draft_reference",
     "dangling_supporting_object", "duplicate_draft_id", "missing_human_review",
     "missing_recommendation", "missing_promotion_recipe", "missing_question",
     "promoted_but_missing_canonical"}

HasConflict(ds, d) == \E c \in ds.conflicts : d.id \in c.drafts

GapsOf(gaps, d) == {g \in gaps : g.blocks /\ g.kind # "coverage_gap" /\ g.target = d.id}

(* Mutant: a bulk request is granted whatever blocks the draft set.        *)
NeedsIndividualReview_CoverageForgotten(ds, rows, d) ==
    \/ HasConflict(ds, d)
    \/ d.risk \in {"high", "critical"}
    \/ Urgent(d.priority)
    \/ d.id \in ds.individualRequested
    \/ d.review.required \/ d.review.mode = "individual"
    \/ LacksEvidence(d)

NeedsIndividualReview(ds, rows, d) ==
    \/ HasConflict(ds, d)
    \/ d.risk \in {"high", "critical"}
    \/ Urgent(d.priority)
    \/ d.id \in ds.individualRequested
    \/ d.review.required \/ d.review.mode = "individual"
    \/ LacksEvidence(d)
    \/ d.review.bulk /\ \E r \in rows : r.blocks

IsLowRiskBulkCandidate(ds, d) ==
    /\ d.risk = "low" /\ ~Urgent(d.priority)
    /\ d.review.bulk /\ ~d.recipe.blocked
    /\ ~LacksEvidence(d) /\ ~HasConflict(ds, d)

ReviewMode(ds, gaps, rows, d) ==
    LET mine == GapsOf(gaps, d)
    IN  IF Malformed(d) \/ \E g \in mine : g.type \in ResolveFirst THEN "blocked"
        ELSE IF mine # {} \/ NeedsIndividualReview(ds, rows, d) THEN "individual"
        ELSE IF IsLowRiskBulkCandidate(ds, d) THEN "bulk" ELSE "individual"

InMode(ds, gaps, rows, mode) ==
    {d.id : d \in {e \in ds.decisions : ReviewMode(ds, gaps, rows, e) = mode}}

(* _validate_promotion_recipe                                              *)
HasValidRecipe(d) ==
    /\ d.status = "recommended"
    /\ CoversLayer(d)
    /\ d.recipe.present /\ d.recipe.decision /\ d.recipe.proposal /\ ~d.recipe.accepted

IsBulkPromotable(d) ==
    /\ d.risk = "low"
    /\ d.review.bulk /\ d.review.mode = "bulk"
    /\ ~d.recipe.blocked /\ d.recipe.decision /\ d.recipe.proposal

(* promote_draft_set refuses the whole set for one id it may not promote.  *)
BulkCandidates(ds) ==
    LET requested == {d \in ds.decisions : d.id \in ds.bulkRequested}
    IN  IF ds.bulkRequested \subseteq {d.id : d \in requested} /\ \A d \in requested : IsBulkPromotable(d)
        THEN requested ELSE {}
=============================================================================
