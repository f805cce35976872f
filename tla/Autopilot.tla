------------------------------ MODULE Autopilot ------------------------------
(***************************************************************************)
(* One autopilot-draft (autopilot.py) from a seed, and the commands around *)
(* it: project-draft-set, review-draft-set, bulk promotion and whatever    *)
(* else moves the project head.                                            *)
(*                                                                         *)
(* autopilot-draft works on a bundle read without the lock; it takes the   *)
(* lock three times, to create the draft set, to project it and to export  *)
(* it, and other commands run in between.  A project head is a count.      *)
(***************************************************************************)
EXTENDS ReviewQueue

CONSTANTS
    Inputs,         \* [seed, options] an autopilot can be given: a draft set
                    \* (generated = NoHead: at the head then) and a record
                    \* of maxIterations, maxDecisions and threshold
    Objects,        \* ids of the canonical objects
    Decisions,      \* canonical decisions, accepted at first
    MaxHead,        \* bound of the transactions
    NoSet

DraftSetFields ==
    {"decisions", "actions", "verifications", "conflicts", "promoted", "generated", "targets",
     "bulkRequested", "individualRequested"}

TargetFields == {"axis", "type", "value", "priority", "required", "source", "policy"}

(* A finite document; priorities are ranks, and an evidence status that is *)
(* none of the five is read as "unknown".                                  *)
IsDraftSet(ds) ==
    /\ ds = [f \in DraftSetFields |-> ds[f]]
    /\ \A f \in {"decisions", "actions", "verifications", "targets"} : IsFiniteSet(ds[f])
    /\ \A d \in ds.decisions : d.priority \in Nat /\ d.evidence \in DOMAIN EvidenceRank
    /\ \A t \in ds.targets :
          /\ t = [f \in TargetFields |-> t[f]]
          /\ t.type \in Range(AxisTypeOrder) /\ t.priority \in Nat

ASSUME InputsAssumption ==
    \A input \in Inputs :
        /\ IsDraftSet(input.seed)
        /\ input.options.maxIterations \in 1..10
        /\ input.options.maxDecisions \in 1..100

ASSUME MaxHeadAssumption == MaxHead \in Nat

NoHead == -1

VARIABLES
    head,           \* project_head
    canon,          \* objects, accepted decisions, drafts promoted
    run,            \* the autopilot-draft that is running
    draftSet,       \* draft-set.json
    projection,     \* the convergence in draft-projection.json, and its head
    queue,          \* the bulk candidates in review-queue.json, and its head
    bulk            \* history: drafts promoted in bulk, with their review mode then

vars == << head, canon, run, draftSet, projection, queue, bulk >>

NoRun == [pc |-> "idle", work |-> NoSet, seed |-> NoSet, head |-> NoHead, canon |-> NoSet,
          options |-> NoSet, i |-> 0, reason |-> NoReason]

Init ==
    /\ head = 0
    /\ canon = [objects |-> Objects, accepted |-> Decisions, origins |-> {}]
    /\ run = NoRun
    /\ draftSet = NoSet /\ projection = NoSet /\ queue = NoSet
    /\ bulk = {}

-----------------------------------------------------------------------------
(* What the autopilot adds                                                 *)

(* _coverage_decision                                                      *)
CoverageDecision(id, layer, priority) ==
    [id |-> id, status |-> "recommended", layer |-> layer, priority |-> priority,
     has |-> {"question", "recommendation", "rationale", "alternatives"}, risk |-> "medium",
     evidence |-> "partial", missing |-> TRUE, supports |-> {}, units |-> FALSE,
     review |-> [present |-> TRUE, required |-> TRUE, mode |-> "individual", bulk |-> FALSE],
     recipe |-> [present |-> TRUE, decision |-> TRUE, proposal |-> TRUE, accepted |-> FALSE,
                 blocked |-> TRUE],
     binds |-> {}]

Supplement(layer) == CoverageDecision(<< "DD-GAP", layer >>, layer, 1)

(* LAYER_COVERAGE_SPECS has every layer, in the order of the layers.       *)
Supplements == {Supplement(layer) : layer \in Range(LayerOrder)}

(* _goal_only_skeleton, the seed made of a goal alone                      *)
GoalOnlyDecisions ==
    {CoverageDecision(<< "DD-GOAL", "purpose" >>, "purpose", 0),
     CoverageDecision(<< "DD-GOAL", "constraint" >>, "constraint", 0),
     CoverageDecision(<< "DD-GOAL", "evidence" >>, "verification", 1),
     CoverageDecision(<< "DD-GOAL", "review" >>, "review", 1)}

(* _core_layer_coverage_targets                                            *)
CoreTargets ==
    {[axis |-> << "core", "layer", layer >>, type |-> "decision_stack_layer", value |-> layer,
      priority |-> 1, required |-> TRUE, source |-> "core", policy |-> "layer_complete"] :
        layer \in Range(LayerOrder)}

IsAutoRow(r) ==
    /\ r.type = "decision_stack_layer" /\ r.policy = "layer_complete" /\ r.source # "domain_pack"
    /\ r.blocks /\ r.value \in Range(LayerOrder)

AutoTypes == {Unobserved, "no_draft_decisions", "unsupported_recommendation"}

IsAutoGap(g, rows) ==
    \/ g.type \in AutoTypes
    \/ g.type = "missing_required_layer" /\ \E r \in rows : r.axis = g.target /\ IsAutoRow(r)

(* The layers to add, by their place in the frontier queue: the code goes  *)
(* through the queue, the matrix and the gaps, which hold the same rows,   *)
(* and then, for an empty draft set, through all layers.                   *)
LayersToAdd(ds, rows) ==
    {r.value : r \in {q \in rows : IsAutoRow(q)}}
    \cup (IF ds.decisions = {} THEN Range(LayerOrder) ELSE {})

LayerPosition(rows, layer) ==
    Min({FrontierPosition(rows, r) : r \in {q \in rows : IsAutoRow(q) /\ q.value = layer}}
        \cup {Cardinality(rows) + PositionIn(LayerOrder, layer)})

(* Mutant: one more than there is room for.                                *)
NewDecisions_OneTooMany(ds, rows, max) ==
    LET new == {layer \in LayersToAdd(ds, rows) : Supplement(layer).id \notin DraftIds(ds)}
        before(layer) == {l \in new : LayerPosition(rows, l) < LayerPosition(rows, layer)}
    IN  {Supplement(layer) : layer \in {l \in new : Cardinality(before(l)) <= max}}

(* The first max of them that the draft set has not.                       *)
NewDecisions(ds, rows, max) ==
    LET new == {layer \in LayersToAdd(ds, rows) : Supplement(layer).id \notin DraftIds(ds)}
        before(layer) == {l \in new : LayerPosition(rows, l) < LayerPosition(rows, layer)}
    IN  {Supplement(layer) : layer \in {l \in new : Cardinality(before(l)) < max}}

NewVerifications(ds, gaps) ==
    {v \in {[id |-> << "DV-GAP" >> \o g.target, targets |-> {g.target}] :
                g \in {h \in gaps : h.type = Unobserved}} : v.id \notin DraftIds(ds)}

NewActions(ds, gaps) ==
    {a \in {[id |-> << "DACTION-GAP" >> \o g.target, targets |-> {g.target}, evidence |-> TRUE] :
                g \in {h \in gaps : h.type = "unsupported_recommendation"}} : a.id \notin DraftIds(ds)}

WithAdditions(ds, gaps, rows, max) ==
    [ds EXCEPT !.decisions = @ \cup NewDecisions(ds, rows, max),
               !.actions = @ \cup NewActions(ds, gaps),
               !.verifications = @ \cup NewVerifications(ds, gaps)]

AtOrAbove(g, threshold) == SeverityRank(g.severity) <= SeverityRank(threshold)

(* _classify_stop_reason                                                   *)
StopReason(ds, gaps, rows, options) ==
    LET auto == {g \in gaps : IsAutoGap(g, rows)}
        full == Cardinality(ds.decisions) >= options.maxDecisions
        userOnly == \/ \E g \in gaps \ auto : g.blocks /\ g.kind # "coverage_gap"
                    \/ \E r \in rows : r.blocks /\ ~IsAutoRow(r)
    IN  IF GapStopReason(gaps) # NoReason THEN GapStopReason(gaps)
        ELSE IF full /\ auto # {} THEN "budget_exhausted"
        ELSE IF userOnly THEN "user_review_required"
        ELSE IF auto # {} THEN "continue"
        ELSE IF \E g \in gaps : AtOrAbove(g, options.threshold) THEN "user_review_required"
        ELSE "converged"

-----------------------------------------------------------------------------
(* autopilot-draft                                                         *)

(* The bundle and the seed are read without the lock.                      *)
Load(seed, options) ==
    /\ run.pc = "idle" /\ draftSet = NoSet
    /\ LET work == IF seed.generated = NoHead THEN [seed EXCEPT !.generated = head] ELSE seed
       IN  run' = [pc |-> "iterating", work |-> work, seed |-> work, head |-> head, canon |-> canon,
                   options |-> options, i |-> 1, reason |-> NoReason]
    /\ UNCHANGED << head, canon, draftSet, projection, queue, bulk >>

Stop(reason) == run' = [run EXCEPT !.pc = "iterated", !.reason = reason]

(* One turn of the loop of iterate_draft_set.                              *)
Iterate ==
    /\ run.pc = "iterating"
    /\ LET ds == run.work
           rows == CoverageMatrix(ds, run.head)
           gaps == GapDiagnostics(ds, run.canon, rows)
           reason == StopReason(ds, gaps, rows, run.options)
           room == run.options.maxDecisions - Cardinality(ds.decisions)
           next == WithAdditions(ds, gaps, rows, room)
       IN  IF reason # "continue" THEN Stop(reason)
           ELSE IF run.i >= run.options.maxIterations \/ room <= 0 THEN Stop("budget_exhausted")
           ELSE IF next = ds THEN Stop("user_review_required")
           ELSE run' = [run EXCEPT !.work = next, !.i = @ + 1]
    /\ UNCHANGED << head, canon, draftSet, projection, queue, bulk >>

(* What the schema of a draft set says of its decisions, and of targets on *)
(* the axes of the safety rows: they are what would be derived.            *)
IsValidDraftSet(ds) ==
    /\ \A t \in ds.targets, u \in DerivedTargets : t.axis = u.axis => t = u
    /\ \A d \in ds.decisions :
        /\ d.status # "accepted"
        /\ {"question", "recommendation", "rationale"} \subseteq d.has
        /\ d.review.present /\ d.recipe.present
        /\ d.recipe.decision => d.recipe.proposal /\ ~d.recipe.accepted

Create ==
    /\ run.pc = "iterated"
    /\ IsValidDraftSet(run.work)
    /\ run.work.generated = head
    /\ draftSet' = run.work
    /\ run' = [run EXCEPT !.pc = "created"]
    /\ UNCHANGED << head, canon, projection, queue, bulk >>

(* The draft set is invalid or of another head: nothing is written.        *)
CreateFails ==
    /\ run.pc = "iterated"
    /\ ~IsValidDraftSet(run.work) \/ run.work.generated # head
    /\ run' = NoRun
    /\ UNCHANGED << head, canon, draftSet, projection, queue, bulk >>

(* build_draft_projection                                                  *)
Projected(override) ==
    LET rows == CoverageMatrix(draftSet, head)
        reason == ConvergenceReason(GapDiagnostics(draftSet, canon, rows), override)
    IN  [reason |-> reason, status |-> StatusOf(reason), head |-> head]

Project ==
    /\ run.pc = "created"
    /\ projection' = Projected(run.reason)
    /\ run' = [run EXCEPT !.pc = "projected"]
    /\ UNCHANGED << head, canon, draftSet, queue, bulk >>

(* The bulk candidates of a queue built now.                               *)
Reviewed ==
    LET rows == CoverageMatrix(draftSet, head)
        gaps == GapDiagnostics(draftSet, canon, rows)
    IN  [bulk |-> InMode(draftSet, gaps, rows, "bulk"), head |-> head]

(* export_draft_set projects again; it does not read the projection.       *)
Export ==
    /\ run.pc = "projected"
    /\ queue' = Reviewed
    /\ run' = [NoRun EXCEPT !.pc = "done", !.seed = run.seed, !.options = run.options,
                            !.i = run.i, !.reason = run.reason]
    /\ UNCHANGED << head, canon, draftSet, projection, bulk >>

-----------------------------------------------------------------------------
(* Other commands                                                          *)

ProjectDraftSet ==
    /\ draftSet # NoSet
    /\ projection' = Projected(NoReason)
    /\ UNCHANGED << head, canon, run, draftSet, queue, bulk >>

ReviewDraftSet ==
    /\ draftSet # NoSet
    /\ queue' = Reviewed
    /\ UNCHANGED << head, canon, run, draftSet, projection, bulk >>

(* Any other command that commits may accept decisions or undo them.       *)
OtherCommit ==
    /\ head < MaxHead
    /\ head' = head + 1
    /\ \E a \in SUBSET Decisions : canon' = [canon EXCEPT !.accepted = a]
    /\ UNCHANGED << run, draftSet, projection, queue, bulk >>

(* promote_draft_set as one step (DraftPromotion has its steps).           *)
PromoteInBulk ==
    /\ draftSet # NoSet /\ ~IsStale(draftSet, head) /\ head < MaxHead
    /\ LET rows == CoverageMatrix(draftSet, head)
           gaps == GapDiagnostics(draftSet, canon, rows)
           chosen == BulkCandidates(draftSet)
       IN  /\ chosen # {} /\ \A d \in chosen : HasValidRecipe(d) /\ d.supports \subseteq canon.objects
           /\ bulk' = bulk \cup {[id |-> d.id, mode |-> ReviewMode(draftSet, gaps, rows, d)] : d \in chosen}
           /\ draftSet' = [draftSet EXCEPT !.promoted = @ \cup {d.id : d \in chosen}]
           /\ canon' = [canon EXCEPT !.origins = @ \cup {d.id : d \in chosen}]
    /\ head' = head + 1
    /\ UNCHANGED << run, projection, queue >>

Next ==
    \/ \E input \in Inputs : Load(input.seed, input.options)
    \/ Iterate \/ Create \/ CreateFails \/ Project \/ Export
    \/ ProjectDraftSet \/ ReviewDraftSet \/ OtherCommit \/ PromoteInBulk

Spec == Init /\ [][Next]_vars

-----------------------------------------------------------------------------
(* Properties                                                              *)

Reasons == {"converged", "budget_exhausted", "risk_gate_triggered", "evidence_gap_blocked",
            "conflict_blocked", "user_review_required"}

(* Types.                                                                  *)
TypeOK ==
    /\ head \in 0..MaxHead
    /\ canon.objects = Objects /\ canon.accepted \subseteq Decisions
    /\ run.pc \in {"idle", "iterating", "iterated", "created", "projected", "done"}
    /\ run.pc \in {"iterated", "created", "projected", "done"} => run.reason \in Reasons
    /\ run.pc # "idle" => run.i \in 1..run.options.maxIterations
    /\ draftSet # NoSet => IsValidDraftSet(draftSet)
    /\ projection # NoSet =>
         /\ projection.reason \in Reasons \cup {"stopped"}
         /\ projection.status \in {"converged", "budget_exhausted", "stopped", "blocked"}
    /\ queue # NoSet => queue.bulk \subseteq DraftIds(draftSet)

(* The projection is of the current head: nothing has changed since.       *)
IsCurrent(sidecar) == sidecar # NoSet /\ sidecar.head = head

IsMet(t) ==
    \E d \in draftSet.decisions :
        d.layer = t.value /\ CoversLayer(d) /\ (t.policy # "layer_complete" => t.axis \in d.binds)

(* A projection that does not say "blocked", whatever reason the autopilot *)
(* gave it, is of a fresh draft set with its required layers covered, its  *)
(* P0 and P1 decisions complete and supported, no high risk in bulk, and   *)
(* no conflict with an accepted decision: "Projection convergence must     *)
(* fail closed" (output-contract.md).  Decisions the autopilot adds are P1 *)
(* with missing evidence, so a set it completed itself stays blocked.      *)
UnblockedIsClean ==
    IsCurrent(projection) /\ projection.status # "blocked" =>
        /\ draftSet.decisions # {} /\ draftSet.generated = head
        /\ \A t \in draftSet.targets :
              t.type = "decision_stack_layer" /\ t.required /\ Urgent(t.priority) => IsMet(t)
        /\ \A d \in draftSet.decisions :
              /\ Urgent(d.priority) => "alternatives" \in d.has /\ ~LacksEvidence(d)
              /\ d.risk \in {"high", "critical"} => d.review.mode # "bulk" /\ ~d.review.bulk
              /\ d.supports \subseteq Objects
        /\ \A c \in draftSet.conflicts : c.canonical \cap canon.accepted = {}
        /\ draftSet.promoted \subseteq canon.origins

(* The autopilot changes no decision of the seed, adds only decisions of   *)
(* its own, and does not go over max_draft_decisions unless the seed did.  *)
BudgetKept ==
    run.pc # "idle" =>
        LET ds == IF draftSet = NoSet THEN run.work ELSE draftSet
            seed == run.seed.decisions
        IN  /\ seed \subseteq ds.decisions /\ ds.decisions \ seed \subseteq Supplements
            /\ Cardinality(ds.decisions) = Cardinality({d.id : d \in ds.decisions})
                                           + Cardinality(seed) - Cardinality({d.id : d \in seed})
            /\ ds.decisions = seed \/ Cardinality(ds.decisions) <= run.options.maxDecisions

(* What a current review queue offers for bulk promotion is low risk, P2   *)
(* or P3, supported, without conflict or a wish for individual review, of  *)
(* a draft set that is fresh and has its required layers.                  *)
QueuedBulkIsSafe ==
    IsCurrent(queue) =>
        \A d \in {e \in draftSet.decisions : e.id \in queue.bulk} :
            /\ d.risk = "low" /\ d.priority >= 2 /\ ~LacksEvidence(d)
            /\ ~HasConflict(draftSet, d) /\ d.id \notin draftSet.individualRequested
            /\ ~IsStale(draftSet, head)
            /\ \A t \in draftSet.targets :
                  t.type = "decision_stack_layer" /\ t.required /\ Urgent(t.priority) => IsMet(t)

(* "any blocking gap or required P0/P1 coverage row with status=partial or *)
(* status=missing" is reported as blocked (output-contract.md): what the   *)
(* contract requires is met when the projection says "converged".          *)
RequiredTargetsAreMet ==
    IsCurrent(projection) /\ projection.reason = "converged" =>
        \A r \in CoverageMatrix(draftSet, head) :
            (\E t \in draftSet.targets : t.axis = r.axis /\ t.required /\ Urgent(t.priority))
                => r.status = "covered"

(* "High or critical risk, medium risk, P0/P1, missing evidence,           *)
(* challenged evidence, conflicts, individual review, and stale draft sets *)
(* must not be bulk promoted" (decision-preflight.md): what is promoted in *)
(* bulk is a bulk candidate of the review queue.                           *)
BulkPromotionIsReviewed == \A b \in bulk : b.mode = "bulk"
=============================================================================
