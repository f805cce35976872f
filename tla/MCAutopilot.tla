----------------------------- MODULE MCAutopilot -----------------------------
(* Instances of Autopilot.  A seed is a draft set with one or two          *)
(* decisions, each sound except for at most one thing.                     *)
EXTENDS Autopilot

O == << "O", "known" >>
D == << "D", "one" >>
A == << "DD", "a" >>
B == << "DD", "b" >>
Act == << "DACTION", "act" >>
Ver == << "DV", "ver" >>
DomainAxis == << "domain_pack", "software", "safety", "purpose" >>

Sound(id, layer) ==
    [id |-> id, status |-> "recommended", layer |-> layer, priority |-> 2,
     has |-> {"question", "recommendation", "rationale", "alternatives"}, risk |-> "low",
     evidence |-> "sufficient", missing |-> FALSE, supports |-> {}, units |-> FALSE,
     review |-> [present |-> TRUE, required |-> FALSE, mode |-> "bulk", bulk |-> TRUE],
     recipe |-> [present |-> TRUE, decision |-> TRUE, proposal |-> TRUE, accepted |-> FALSE,
                 blocked |-> FALSE],
     binds |-> {}]

NoReview == [present |-> FALSE, required |-> FALSE, mode |-> "none", bulk |-> FALSE]
NoRecipe == [present |-> FALSE, decision |-> FALSE, proposal |-> FALSE, accepted |-> FALSE, blocked |-> FALSE]

(* Sound drafts, as they are and of priority P1, and faults of each.       *)
Shapes(id, layer) ==
    UNION {{d,
            [d EXCEPT !.has = @ \ {"alternatives"}],
            [d EXCEPT !.has = @ \ {"recommendation"}],
            [d EXCEPT !.evidence = "none", !.missing = TRUE],
            [d EXCEPT !.evidence = "challenged"],
            [d EXCEPT !.evidence = "partial"],
            [d EXCEPT !.evidence = "partial", !.missing = TRUE],
            [d EXCEPT !.evidence = "partial", !.supports = {O}],
            [d EXCEPT !.supports = {<< "O", "unknown" >>}],
            [d EXCEPT !.risk = "high"],
            [d EXCEPT !.risk = "medium", !.review.mode = "individual"],
            [d EXCEPT !.review.required = TRUE, !.review.bulk = FALSE],
            [d EXCEPT !.review = NoReview],
            [d EXCEPT !.recipe = NoRecipe],
            [d EXCEPT !.recipe.decision = FALSE, !.recipe.proposal = FALSE],
            [d EXCEPT !.recipe.blocked = TRUE],
            [d EXCEPT !.status = "accepted"],
            [d EXCEPT !.binds = {DomainAxis}]} :
        d \in {Sound(id, layer), [Sound(id, layer) EXCEPT !.priority = 1]}}

Target(axis, type, value, priority, required, source, policy) ==
    [axis |-> axis, type |-> type, value |-> value, priority |-> priority, required |-> required,
     source |-> source, policy |-> policy]

Core(layer) == Target(<< "core", "layer", layer >>, "decision_stack_layer", layer, 1, TRUE, "core", "layer_complete")
Domain == Target(DomainAxis, "decision_stack_layer", "purpose", 0, TRUE, "domain_pack", "explicit_target_or_domain_axis")
WithoutPolicy == Target(<< "x", "review" >>, "human_review_safety", "individual_required", 2, FALSE, "explicit",
                        "missing_fail_closed")
Evidence(value) == Target(<< "x", "evidence" >>, "evidence_coverage", value, 1, TRUE, "explicit", "layer_complete")
Wants(type, value) == Target(<< "x", value >>, type, value, 1, TRUE, "explicit", "layer_complete")

Seed(decisions, targets) ==
    [decisions |-> decisions, actions |-> {}, verifications |-> {}, conflicts |-> {}, promoted |-> {},
     generated |-> NoHead, targets |-> targets, bulkRequested |-> {}, individualRequested |-> {}]

Opt(i, d, t) == [maxIterations |-> i, maxDecisions |-> d, threshold |-> t]

(* One decision of any shape; contracts of two layers and what else one    *)
(* may ask for; actions, verifications, conflicts and requests.            *)
Contracts ==
    {{Core("purpose")}, {Core("purpose"), Core("review")}, {Core("purpose"), Domain},
     {Core("purpose"), WithoutPolicy}, {Core("purpose"), Evidence("partial")},
     {Wants("human_review_safety", "individual_required"), Wants("promotion_safety", "stale_warning")},
     {Core("purpose"), [SafetyTarget("promotion_safety", "stale_warning") EXCEPT !.policy = "missing_fail_closed"]}}

Loose(s) ==
    {s,
     [s EXCEPT !.actions = {[id |-> Act, targets |-> {A}, evidence |-> FALSE]}],
     [s EXCEPT !.actions = {[id |-> Act, targets |-> {A}, evidence |-> TRUE]},
               !.verifications = {[id |-> Ver, targets |-> {Act}]}],
     [s EXCEPT !.verifications = {[id |-> Ver, targets |-> {}]}],
     [s EXCEPT !.actions = {[id |-> Act, targets |-> {B}, evidence |-> FALSE]}],
     [s EXCEPT !.conflicts = {[drafts |-> {A}, canonical |-> {D}]}],
     [s EXCEPT !.promoted = {A}],
     [s EXCEPT !.generated = 0],
     [s EXCEPT !.bulkRequested = {A}],
     [s EXCEPT !.individualRequested = {A}]}

(* Every shape of one decision in every surrounding, every shape under     *)
(* every contract, and every shape of one beside every shape of another.   *)
OneSeeds == UNION {Loose(Seed({d}, {Core("purpose")})) : d \in Shapes(A, "purpose")}
ContractSeeds == {Seed({d}, c) : d \in Shapes(A, "purpose"), c \in Contracts}
PairSeeds == {Seed({d, e}, {Core("purpose"), Core("review")}) : d \in Shapes(A, "purpose"), e \in Shapes(B, "review")}
AllSeeds == OneSeeds \cup ContractSeeds \cup PairSeeds

(* What the autopilot completes: a goal alone, nothing, one or two layers, *)
(* a verification it cannot remedy, and one id used twice.                 *)
GoalSeeds ==
    {Seed(GoalOnlyDecisions, CoreTargets), Seed({}, CoreTargets), Seed({Sound(A, "purpose")}, CoreTargets),
     Seed({Sound(A, "purpose"), [Sound(A, "review") EXCEPT !.evidence = "partial"]}, CoreTargets),
     [Seed({Sound(A, "purpose")}, {Core("purpose")}) EXCEPT !.verifications = {[id |-> Ver, targets |-> {}]}]}

(* A decision of any shape, for which evidence is being collected, under a *)
(* contract that requires sufficient evidence.                             *)
EvidenceSeeds ==
    {[Seed({d}, {Core("purpose"), Evidence("sufficient")}) EXCEPT
        !.actions = {[id |-> Act, targets |-> {A}, evidence |-> TRUE]},
        !.verifications = {[id |-> Ver, targets |-> {Act}]}] : d \in Shapes(A, "purpose")}

MCObjects == {O}
MCDecisions == {D}

FewOptions == {Opt(4, 30, "medium"), Opt(2, 30, "critical")}
ManyOptions == {Opt(i, d, "critical") : i \in {1, 4}, d \in {1, 3, 30}}

MCInputs ==
    [seed : AllSeeds \cup EvidenceSeeds, options : FewOptions]
    \cup [seed : GoalSeeds, options : ManyOptions]
=============================================================================
