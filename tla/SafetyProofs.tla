----------------------------- MODULE SafetyProofs -----------------------------
(***************************************************************************)
(* Theorems of SafetyGuard.  The digest of a gate determines what bears on *)
(* its object: an approval that still matches was given by somebody who    *)
(* knew just that.  So whoever adopts a decision, or lets one fall, was    *)
(* judged on what is there (AdoptionsAreJudged, FallsAreJudged).           *)
(*                                                                         *)
(* An invalidated decision leads to a standing one along a path no longer  *)
(* than the decisions that have fallen (FallsAreGrounded): that bound is   *)
(* what the closure of invalidated_by, computed in as many rounds as it    *)
(* has nodes, needs to find it (InvalidationStaysGrounded).                *)
(***************************************************************************)
EXTENDS SafetyGuard, RecursionProofs, FiniteSetTheorems

-----------------------------------------------------------------------------
(***************************************************************************)
(* The ranks.                                                              *)
(***************************************************************************)

\* The highest of some ranks is one of them, or 0, and none is higher.
LEMMA MaxRankIsHighest ==
    ASSUME NEW n \in {3, 4}, NEW S \in SUBSET (0..n)
    PROVE  /\ MaxRank(S) \in S \cup {0} /\ MaxRank(S) \in 0..n
           /\ \A x \in S : x \in 0..MaxRank(S)
<1> DEFINE T == S \cup {0}
<1>1. \E x \in T : \A y \in T : x >= y
    <2>1. CASE 4 \in T
        BY <2>1
    <2>2. CASE 4 \notin T /\ 3 \in T
        BY <2>2
    <2>3. CASE 4 \notin T /\ 3 \notin T /\ 2 \in T
        BY <2>3
    <2>4. CASE 4 \notin T /\ 3 \notin T /\ 2 \notin T
        BY <2>4
    <2>5. QED
        BY <2>1, <2>2, <2>3, <2>4
<1>2. MaxRank(S) \in T /\ \A y \in T : MaxRank(S) >= y
    <2>1. MaxRank(S) = CHOOSE x \in T : \A y \in T : x >= y
        BY DEF MaxRank, Max
    <2> HIDE DEF T
    <2>2. QED
        BY <1>1, <2>1, Zenon
<1>3. \A x \in T : x \in 0..n
    OBVIOUS
<1>4. MaxRank(S) \in 0..n
    BY <1>2, <1>3
<1>5. ASSUME NEW x \in S PROVE x \in 0..MaxRank(S)
    BY <1>2, <1>4
<1>6. QED
    BY <1>2, <1>4, <1>5

LEMMA RisksAreRisks ==
    ASSUME NEW q, NEW o, NEW b \in RiskItems(q, o)
    PROVE  /\ TypeOf(b.object) = "risk" /\ b.object \in DOMAIN Meta
           /\ Meta[b.object].type = "risk"
<1>1. TypeOf(b.object) = "risk"
    BY DEF RiskItems
<1>2. QED
    BY <1>1 DEF TypeOf

\* The tier, the threshold and the reversibility of a gate are those of the
\* highest of the risks, or higher.
LEMMA VerdictCoversRisks ==
    ASSUME NEW q, NEW o
    PROVE  /\ RiskTier(RiskItems(q, o)) \in 0..4
           /\ ApprovalThreshold(o, RiskItems(q, o)) \in 0..3
           /\ Reversibility(o, RiskItems(q, o)) \in 0..3
           /\ \A b \in RiskItems(q, o) :
                 /\ Meta[b.object].tier \in 0..RiskTier(RiskItems(q, o))
                 /\ Meta[b.object].threshold \in 0..ApprovalThreshold(o, RiskItems(q, o))
                 /\ Meta[b.object].reversibility \in 0..Reversibility(o, RiskItems(q, o))
           /\ TypeOf(o) = "decision" =>
                 Meta[o].reversibility \in 0..Reversibility(o, RiskItems(q, o))
<1> DEFINE R == RiskItems(q, o)
           tiers == {Meta[r.object].tier : r \in R}
           thresholds == {Meta[r.object].threshold : r \in R}
                         \cup {rule.threshold : rule \in MatchingRules(o, R)}
           own == IF TypeOf(o) \in {"action", "decision"} THEN {Meta[o].reversibility} ELSE {}
           reversibilities == {Meta[r.object].reversibility : r \in R} \cup own
<1>1. \A b \in R : /\ Meta[b.object].tier \in 0..4 /\ Meta[b.object].threshold \in 0..3
                   /\ Meta[b.object].reversibility \in 0..3
    BY RisksAreRisks, MetaAssumption
<1>2. MatchingRules(o, R) \subseteq DomainRules
    BY DEF MatchingRules
<1>3. own \subseteq 0..3
    <2>1. ASSUME TypeOf(o) \in {"action", "decision"} PROVE Meta[o].reversibility \in 0..3
        BY <2>1, MetaAssumption DEF TypeOf
    <2>2. QED
        BY <2>1
<1>4. tiers \subseteq 0..4 /\ thresholds \subseteq 0..3 /\ reversibilities \subseteq 0..3
    <2>1. \A rule \in MatchingRules(o, R) : rule.threshold \in 0..3
        BY <1>2, MetaAssumption
    <2> HIDE DEF R, own
    <2>2. QED
        BY <1>1, <1>3, <2>1
<1>5. /\ RiskTier(R) = MaxRank(tiers) /\ ApprovalThreshold(o, R) = MaxRank(thresholds)
      /\ Reversibility(o, R) = MaxRank(reversibilities)
    BY DEF RiskTier, ApprovalThreshold, Reversibility
<1>6. /\ \A b \in R : /\ Meta[b.object].tier \in tiers /\ Meta[b.object].threshold \in thresholds
                      /\ Meta[b.object].reversibility \in reversibilities
      /\ TypeOf(o) = "decision" => Meta[o].reversibility \in reversibilities
    OBVIOUS
<1> HIDE DEF R, tiers, thresholds, own, reversibilities
<1>7. /\ MaxRank(tiers) \in 0..4 /\ \A x \in tiers : x \in 0..MaxRank(tiers)
      /\ MaxRank(thresholds) \in 0..3 /\ \A x \in thresholds : x \in 0..MaxRank(thresholds)
      /\ MaxRank(reversibilities) \in 0..3
      /\ \A x \in reversibilities : x \in 0..MaxRank(reversibilities)
    BY <1>4, MaxRankIsHighest
<1>8. /\ RiskTier(R) \in 0..4 /\ ApprovalThreshold(o, R) \in 0..3 /\ Reversibility(o, R) \in 0..3
      /\ \A b \in R : /\ Meta[b.object].tier \in 0..RiskTier(R)
                      /\ Meta[b.object].threshold \in 0..ApprovalThreshold(o, R)
                      /\ Meta[b.object].reversibility \in 0..Reversibility(o, R)
      /\ TypeOf(o) = "decision" => Meta[o].reversibility \in 0..Reversibility(o, R)
    BY <1>5, <1>6, <1>7
<1>9. QED
    BY <1>8 DEF R

-----------------------------------------------------------------------------
(***************************************************************************)
(* What a gate says.                                                       *)
(***************************************************************************)

LEMMA InputsAreWeighed ==
    ASSUME NEW q, NEW o, NEW t
    PROVE  LET i == Inputs(q, o, t) IN
           /\ i.object = o /\ i.evidence = EvidenceItems(q, o, t)
           /\ i.assumptions = AssumptionItems(q, o, t) /\ i.risks = RiskItems(q, o)
           /\ i.tier = RiskTier(RiskItems(q, o))
           /\ i.coverage = EvidenceCoverage(EvidenceItems(q, o, t))
           /\ i.threshold = ApprovalThreshold(o, RiskItems(q, o))
           /\ i.reversibility = Reversibility(o, RiskItems(q, o))
           /\ i.blocking = BlockingReasons(q, o, i.tier, i.coverage, i.gap)
           /\ i.approval = ApprovalReasons(i.tier, i.reversibility, i.threshold, i.coverage,
                                           i.gap, i.assumptions, i.missing)
BY DEF Inputs, Weighed, Judged

\* A critical risk or evidence against the object blocks it.
LEMMA ContestedIsBlocked ==
    ASSUME NEW q, NEW o, NEW t, Contested(q, o)
    PROVE  Inputs(q, o, t).blocking # {}
<1> DEFINE i == Inputs(q, o, t)
<1>1. i.blocking = BlockingReasons(q, o, i.tier, i.coverage, i.gap)
    BY InputsAreWeighed
<1>2. CASE \E r \in BearingRisks(q, o) : Meta[r].tier = 4
    <2>1. PICK b \in RiskItems(q, o) : Meta[b.object].tier = 4
        BY <1>2 DEF BearingRisks
    <2>2. i.tier = RiskTier(RiskItems(q, o))
        BY InputsAreWeighed
    <2>3. i.tier = 4
        BY <2>1, <2>2, VerdictCoversRisks
    <2> HIDE DEF i
    <2>4. "critical_risk_tier" \in BlockingReasons(q, o, i.tier, i.coverage, i.gap)
        BY <2>3 DEF BlockingReasons
    <2>5. QED
        BY <1>1, <2>4 DEF i
<1>3. CASE \E l \in q.links : /\ l.to = o /\ l.relation = "challenges"
                              /\ TypeOf(l.from) = "evidence" /\ IsLive(q, l.from)
    <2>1. PICK l \in q.links : /\ l.to = o /\ l.relation = "challenges"
                               /\ TypeOf(l.from) = "evidence" /\ IsLive(q, l.from)
        BY <1>3
    <2>2. [link |-> l, stale |-> IsStale(l.from, t)] \in EvidenceItems(q, o, t)
        BY <2>1 DEF EvidenceItems
    <2>3. \E x \in EvidenceItems(q, o, t) : x.link.relation = "challenges"
        BY <2>1, <2>2
    <2>4. i.coverage = EvidenceCoverage(EvidenceItems(q, o, t))
        BY InputsAreWeighed
    <2>5. i.coverage = "challenged"
        BY <2>3, <2>4 DEF EvidenceCoverage
    <2> HIDE DEF i
    <2>6. "challenged_evidence" \in BlockingReasons(q, o, i.tier, i.coverage, i.gap)
        BY <2>5 DEF BlockingReasons
    <2>7. QED
        BY <1>1, <2>6 DEF i
<1>4. QED
    BY <1>2, <1>3 DEF Contested

\* What the risks and the decision itself ask an approval for, the gate does.
LEMMA NeededIsRequired ==
    ASSUME NEW q, NEW o, NEW t, TypeOf(o) = "decision", ~ Contested(q, o), NeedsApproval(q, o)
    PROVE  Inputs(q, o, t).approval # {}
<1> DEFINE i == Inputs(q, o, t)
           reasons == ApprovalReasons(i.tier, i.reversibility, i.threshold, i.coverage,
                                      i.gap, i.assumptions, i.missing)
<1>1. /\ i.approval = reasons /\ i.tier = RiskTier(RiskItems(q, o))
      /\ i.threshold = ApprovalThreshold(o, RiskItems(q, o))
      /\ i.reversibility = Reversibility(o, RiskItems(q, o))
    BY InputsAreWeighed
<1> HIDE DEF i
<1>2. i.tier \in 0..4 /\ i.threshold \in 0..3 /\ i.reversibility \in 0..3
    BY <1>1, VerdictCoversRisks
<1>3. i.reversibility = 3 => "irreversible_change" \in reasons
    BY DEF ApprovalReasons
<1>4. i.tier = 3 => "high_risk_tier" \in reasons
    BY DEF ApprovalReasons
<1>5. i.threshold = 1 => "explicit_acceptance_required" \in reasons
    BY DEF ApprovalReasons
<1>6. i.threshold = 2 => "human_review_required" \in reasons
    BY DEF ApprovalReasons
<1>7. i.threshold = 3 => "external_review_required" \in reasons
    BY DEF ApprovalReasons
<1> HIDE DEF reasons
<1>8. CASE Meta[o].reversibility = 3
    <2>1. i.reversibility = 3
        BY <1>1, <1>2, <1>8, VerdictCoversRisks
    <2>2. QED
        BY <1>1, <1>3, <2>1 DEF i
<1>9. CASE \E r \in BearingRisks(q, o) :
              Meta[r].tier = 3 \/ Meta[r].threshold > 0 \/ Meta[r].reversibility = 3
    <2>1. PICK b \in RiskItems(q, o) :
              \/ Meta[b.object].tier = 3 \/ Meta[b.object].threshold > 0
              \/ Meta[b.object].reversibility = 3
        BY <1>9 DEF BearingRisks
    <2>2. \/ Meta[b.object].tier = 3 /\ Meta[b.object].tier \in 0..i.tier
          \/ Meta[b.object].threshold > 0 /\ Meta[b.object].threshold \in 0..i.threshold
          \/ Meta[b.object].reversibility = 3 /\ Meta[b.object].reversibility \in 0..i.reversibility
        BY <1>1, <2>1, VerdictCoversRisks
    <2>3. CASE Meta[b.object].tier = 3 /\ Meta[b.object].tier \in 0..i.tier
        <3>1. i.tier = 3 \/ i.tier = 4
            BY <1>2, <2>3
        <3>2. i.tier # 4
            <4>1. i.tier = MaxRank({Meta[r.object].tier : r \in RiskItems(q, o)}) /\ \A x \in RiskItems(q, o) : x.object \in BearingRisks(q, o)
                BY <1>1 DEF BearingRisks, RiskTier
            <4>2. ASSUME i.tier = 4 PROVE \E x \in RiskItems(q, o) : Meta[x.object].tier = 4
                <5>1. {Meta[r.object].tier : r \in RiskItems(q, o)} \subseteq 0..4
                    BY RisksAreRisks, MetaAssumption
                <5>2. 4 \in {Meta[r.object].tier : r \in RiskItems(q, o)} \cup {0}
                    BY <4>1, <4>2, <5>1, MaxRankIsHighest
                <5>3. QED
                    BY <5>2
            <4>3. QED
                BY <4>1, <4>2 DEF Contested
        <3>3. QED
            BY <1>1, <1>4, <3>1, <3>2 DEF i
    <2>4. CASE Meta[b.object].threshold > 0 /\ Meta[b.object].threshold \in 0..i.threshold
        <3>1. i.threshold = 1 \/ i.threshold = 2 \/ i.threshold = 3
            BY <1>2, <2>4
        <3>2. QED
            BY <1>1, <1>5, <1>6, <1>7, <3>1 DEF i
    <2>5. CASE Meta[b.object].reversibility = 3 /\ Meta[b.object].reversibility \in 0..i.reversibility
        <3>1. i.reversibility = 3
            BY <1>2, <2>5
        <3>2. QED
            BY <1>1, <1>3, <3>1 DEF i
    <2>6. QED
        BY <2>2, <2>3, <2>4, <2>5
<1>10. QED
    BY <1>8, <1>9 DEF NeedsApproval

\* A gate that passes finds nothing against the object, and an approval when
\* one is needed.
LEMMA PassedIsJudged ==
    ASSUME NEW q, NEW o, NEW t, TypeOf(o) = "decision", Gate(q, o, t).status = "passed"
    PROVE  /\ ~ Contested(q, o)
           /\ NeedsApproval(q, o) => MatchingApprovals(q, Inputs(q, o, t), t) # {}
<1> DEFINE i == Inputs(q, o, t)
           matching == MatchingApprovals(q, i, t)
<1>1. Gate(q, o, t) = Verdict(i, matching)
    BY DEF Gate, VerdictAt
<1> HIDE DEF i, matching
<1>2. i.blocking = {} /\ (i.approval # {} => matching # {})
    BY <1>1 DEF Verdict
<1>3. ~ Contested(q, o)
    BY <1>2, ContestedIsBlocked DEF i
<1>4. QED
    BY <1>2, <1>3, NeededIsRequired DEF i, matching

\* A gate that asks for an explicit acceptance and nothing else finds nothing
\* against the object, and no risk that asks for more.
LEMMA InlineIsJudged ==
    ASSUME NEW q, NEW o, NEW t, Gate(q, o, t).status = "needs_approval",
           InlineReasons(Gate(q, o, t).inputs)
    PROVE  /\ ~ Contested(q, o)
           /\ \A r \in BearingRisks(q, o) : 1 >= Meta[r].threshold
<1> DEFINE i == Inputs(q, o, t)
           reasons == ApprovalReasons(i.tier, i.reversibility, i.threshold, i.coverage,
                                      i.gap, i.assumptions, i.missing)
<1>1. Gate(q, o, t) = Verdict(i, MatchingApprovals(q, i, t))
    BY DEF Gate, VerdictAt
<1>2. i.approval = reasons /\ i.threshold = ApprovalThreshold(o, RiskItems(q, o))
    BY InputsAreWeighed
<1> HIDE DEF i
<1>3. i.blocking = {}
    BY <1>1 DEF Verdict
<1>4. ~ Contested(q, o)
    BY <1>3, ContestedIsBlocked DEF i
<1>5. reasons = {"explicit_acceptance_required"}
    BY <1>1, <1>2 DEF Verdict, InlineReasons
<1>6. "explicit_acceptance_required" \in reasons => i.threshold = 1
    BY DEF ApprovalReasons
<1>7. i.threshold = 1
    BY <1>5, <1>6
<1>8. \A b \in RiskItems(q, o) : Meta[b.object].threshold \in 0..1
    BY <1>2, <1>7, VerdictCoversRisks
<1>9. QED
    BY <1>4, <1>8 DEF BearingRisks

-----------------------------------------------------------------------------
(***************************************************************************)
(* What bears on an object.                                                *)
(***************************************************************************)

\* The links of the inputs of a gate.
Listed(inputs) == {i.link : i \in inputs.evidence \cup inputs.assumptions \cup inputs.risks}

\* The inputs of a gate determine what bears on its object, at any time.
LEMMA DigestDeterminesFacts ==
    ASSUME NEW q, NEW o, NEW t
    PROVE  Facts(q, o) = Listed(Inputs(q, o, t))
<1> DEFINE links(S) == {i.link : i \in S}
<1>1. links(EvidenceItems(q, o, t)) = links(EvidenceItems(q, o, 0))
    <2> DEFINE K == {k \in q.links : /\ k.to = o /\ k.relation \in {"supports", "verifies", "challenges"}
                                     /\ TypeOf(k.from) = "evidence" /\ IsLive(q, k.from)}
    <2>1. \A u : EvidenceItems(q, o, u) = {[link |-> l, stale |-> IsStale(l.from, u)] : l \in K}
        BY DEF EvidenceItems
    <2> HIDE DEF K
    <2>2. \A u : links(EvidenceItems(q, o, u)) = K
        <3> SUFFICES ASSUME NEW u PROVE links(EvidenceItems(q, o, u)) = K
            OBVIOUS
        <3> DEFINE item(l) == [link |-> l, stale |-> IsStale(l.from, u)]
        <3>1. EvidenceItems(q, o, u) = {item(l) : l \in K} /\ \A l : item(l).link = l
            BY <2>1
        <3> HIDE DEF item
        <3>2. QED
            BY <3>1
    <2>3. QED
        BY <2>2
<1>2. links(AssumptionItems(q, o, t)) = links(AssumptionItems(q, o, 0))
    <2> DEFINE bearing == {[object |-> k.from, link |-> k] :
                              k \in {l \in q.links : l.to = o /\ l.relation \in {"constrains", "invalidates"}}}
                          \cup {[object |-> k.to, link |-> k] :
                              k \in {l \in q.links : l.from = o /\ l.relation \in {"requires", "derived_from"}}}
               K == {c \in bearing : TypeOf(c.object) = "assumption" /\ IsLive(q, c.object)}
    <2>1. \A u : AssumptionItems(q, o, u)
                 = {[object |-> b.object, link |-> b.link, expired |-> Meta[b.object].expires < u] : b \in K}
        BY DEF AssumptionItems
    <2> HIDE DEF K
    <2>2. \A u : links(AssumptionItems(q, o, u)) = {b.link : b \in K}
        <3> SUFFICES ASSUME NEW u PROVE links(AssumptionItems(q, o, u)) = {b.link : b \in K}
            OBVIOUS
        <3> DEFINE item(b) == [object |-> b.object, link |-> b.link, expired |-> Meta[b.object].expires < u]
        <3>1. AssumptionItems(q, o, u) = {item(b) : b \in K} /\ \A b : item(b).link = b.link
            BY <2>1
        <3> HIDE DEF item
        <3>2. QED
            BY <3>1
    <2>3. QED
        BY <2>2
<1>3. \A u : links(EvidenceItems(q, o, u) \cup AssumptionItems(q, o, u) \cup RiskItems(q, o))
                = links(EvidenceItems(q, o, u)) \cup links(AssumptionItems(q, o, u)) \cup links(RiskItems(q, o))
    OBVIOUS
<1>4. /\ Facts(q, o) = links(EvidenceItems(q, o, 0) \cup AssumptionItems(q, o, 0) \cup RiskItems(q, o))
      /\ Listed(Inputs(q, o, t))
         = links(EvidenceItems(q, o, t) \cup AssumptionItems(q, o, t) \cup RiskItems(q, o))
    BY InputsAreWeighed DEF Facts, Listed
<1> HIDE DEF links
<1>5. QED
    BY <1>1, <1>2, <1>3, <1>4

\* Two projects of which the same objects and links are live.
SameBearing(q, r) ==
    /\ q.links = r.links /\ DOMAIN q.status = DOMAIN r.status
    /\ \A o : IsLive(q, o) <=> IsLive(r, o)

LEMMA SameBearingSameFacts ==
    ASSUME NEW q, NEW r, SameBearing(q, r), NEW o
    PROVE  /\ \A t : EvidenceItems(q, o, t) = EvidenceItems(r, o, t)
           /\ \A t : AssumptionItems(q, o, t) = AssumptionItems(r, o, t)
           /\ RiskItems(q, o) = RiskItems(r, o)
           /\ Facts(q, o) = Facts(r, o)
           /\ BearingRisks(q, o) = BearingRisks(r, o)
           /\ Contested(q, o) <=> Contested(r, o)
           /\ NeedsApproval(q, o) <=> NeedsApproval(r, o)
           /\ q.approvals = r.approvals =>
                 \A W : ApprovedAsIs(q, o, W) <=> ApprovedAsIs(r, o, W)
<1>1. ASSUME NEW t PROVE EvidenceItems(q, o, t) = EvidenceItems(r, o, t)
    BY DEF SameBearing, EvidenceItems
<1>2. ASSUME NEW t PROVE AssumptionItems(q, o, t) = AssumptionItems(r, o, t)
    BY DEF SameBearing, AssumptionItems
<1>3. RiskItems(q, o) = RiskItems(r, o)
    BY DEF SameBearing, RiskItems
<1>4. Facts(q, o) = Facts(r, o)
    BY <1>1, <1>2, <1>3 DEF Facts
<1>5. BearingRisks(q, o) = BearingRisks(r, o)
    BY <1>3 DEF BearingRisks
<1>6. Contested(q, o) <=> Contested(r, o)
    BY <1>5 DEF Contested, SameBearing
<1>7. NeedsApproval(q, o) <=> NeedsApproval(r, o)
    BY <1>5 DEF NeedsApproval
<1>8. ASSUME q.approvals = r.approvals
      PROVE  \A W : ApprovedAsIs(q, o, W) <=> ApprovedAsIs(r, o, W)
    BY <1>4, <1>5, <1>8 DEF ApprovedAsIs
<1>9. QED
    BY <1>1, <1>2, <1>3, <1>4, <1>5, <1>6, <1>7, <1>8

-----------------------------------------------------------------------------
(***************************************************************************)
(* The inductive invariant.                                                *)
(***************************************************************************)

\* A project is a record, and its objects have statuses.
Shaped(q) ==
    /\ q = [status |-> q.status, links |-> q.links, approvals |-> q.approvals,
            updatedAt |-> q.updatedAt]
    /\ q.status \in [DOMAIN q.status -> Statuses]

\* Every approval was given by somebody who knew what its digest stands for.
ApprovalsAreWitnessed ==
    /\ \A a \in p.approvals : \E w \in seen : w.target = a.target /\ w.digest = a.digest
    /\ \A w \in seen : w.digest.object = w.target /\ w.facts = Listed(w.digest)

\* The decisions that a candidate has invalidated.
Fallen == {i[1] : i \in invalidatedBy}

RecordedDecisions == {o \in Recorded : TypeOf(o) = "decision"}

\* From d to r along invalidated_by, in k steps.
IsPath(path, k, edges) == \A i \in 0..k - 1 : << path[i], path[i + 1] >> \in edges

\* An invalidated decision leads to one that stands, along a path no longer
\* than the decisions that have fallen.
LeadsToStanding(d) ==
    \E k \in 1..Cardinality(Fallen) : \E path \in [0..k -> RecordedDecisions] :
        path[0] = d /\ p.status[path[k]] \in Adopted /\ IsPath(path, k, invalidatedBy)

FallsAreGrounded ==
    /\ IsFiniteSet(invalidatedBy) /\ invalidatedBy \subseteq RecordedDecisions \X RecordedDecisions
    /\ \A d \in RecordedDecisions : p.status[d] = "invalidated" => LeadsToStanding(d)

SInv == TypeOK /\ project \in DOMAIN Projects /\ Shaped(p) /\ ApprovalsAreWitnessed /\ FallsAreGrounded

\* Somebody who approved the inputs of the gate knew what bears on its object.
LEMMA MatchingIsKnown ==
    ASSUME TypeOK, ApprovalsAreWitnessed, NEW q, q.approvals = p.approvals, NEW o, NEW t, NEW t2,
           NEW a \in MatchingApprovals(q, Inputs(q, o, t), t2)
    PROVE  ApprovedAsIs(q, o, seen)
<1> DEFINE inputs == Inputs(q, o, t)
<1>1. /\ a \in p.approvals /\ a.target = o /\ a.digest = inputs
      /\ a.level >= ApprovalThreshold(o, RiskItems(q, o))
    BY InputsAreWeighed DEF MatchingApprovals, Digest
<1>2. PICK w \in seen : w.target = a.target /\ w.digest = a.digest
    BY <1>1 DEF ApprovalsAreWitnessed
<1>3. w.facts = Facts(q, o)
    BY <1>1, <1>2, DigestDeterminesFacts DEF ApprovalsAreWitnessed
<1>4. ASSUME NEW r \in BearingRisks(q, o) PROVE a.level >= Meta[r].threshold
    <2>1. PICK b \in RiskItems(q, o) : r = b.object
        BY DEF BearingRisks
    <2>2. Meta[r].threshold \in 0..ApprovalThreshold(o, RiskItems(q, o))
        BY <2>1, VerdictCoversRisks
    <2>3. a.level \in 1..3
        BY <1>1 DEF TypeOK
    <2>4. ApprovalThreshold(o, RiskItems(q, o)) \in 0..3
        BY VerdictCoversRisks
    <2>5. QED
        BY <1>1, <2>2, <2>3, <2>4
<1> HIDE DEF inputs
<1>5. QED
    BY <1>1, <1>2, <1>3, <1>4 DEF ApprovedAsIs

-----------------------------------------------------------------------------
(***************************************************************************)
(* What the operations make of the project.                                *)
(***************************************************************************)

\* Updating fields of a project.
LEMMA UpdatedProject ==
    ASSUME NEW q, Shaped(q), NEW s, NEW l
    PROVE  /\ [q EXCEPT !.status = s, !.links = l]
              = [status |-> s, links |-> l, approvals |-> q.approvals, updatedAt |-> q.updatedAt]
           /\ [q EXCEPT !.approvals = l]
              = [status |-> q.status, links |-> q.links, approvals |-> l, updatedAt |-> q.updatedAt]
           /\ [q EXCEPT !.status = s]
              = [status |-> s, links |-> q.links, approvals |-> q.approvals, updatedAt |-> q.updatedAt]
<1>1. [q EXCEPT !.status = s, !.links = l]
              = [status |-> s, links |-> l, approvals |-> q.approvals, updatedAt |-> q.updatedAt]
    <2> DEFINE r == [status |-> s, links |-> q.links, approvals |-> q.approvals, updatedAt |-> q.updatedAt]
    <2>1. [q EXCEPT !.status = s, !.links = l] = [[q EXCEPT !.status = s] EXCEPT !.links = l]
        OBVIOUS
    <2>2. [q EXCEPT !.status = s] = r
        BY DEF Shaped
    <2>3. [r EXCEPT !.links = l]
          = [status |-> s, links |-> l, approvals |-> q.approvals, updatedAt |-> q.updatedAt]
        OBVIOUS
    <2> HIDE DEF r
    <2>4. QED
        BY <2>1, <2>2, <2>3
<1>2. [q EXCEPT !.approvals = l]
              = [status |-> q.status, links |-> q.links, approvals |-> l, updatedAt |-> q.updatedAt]
    BY DEF Shaped
<1>3. [q EXCEPT !.status = s]
              = [status |-> s, links |-> q.links, approvals |-> q.approvals, updatedAt |-> q.updatedAt]
    BY DEF Shaped
<1>4. QED
    BY <1>1, <1>2, <1>3

LEMMA WithEvidenceShape ==
    ASSUME Shaped(p), NEW e, NEW l
    PROVE  LET q == WithEvidence(e, l) IN
           /\ Shaped(q) /\ q.links = p.links \cup {l} /\ q.approvals = p.approvals
           /\ q.updatedAt = p.updatedAt
           /\ DOMAIN q.status = Recorded \cup {e}
           /\ \A o \in Recorded : q.status[o] = p.status[o]
           /\ e \notin Recorded => q.status[e] = "active"
<1> DEFINE after == IF e \in DOMAIN p.status THEN p.status ELSE WithObject(p.status, e, "active")
           q == WithEvidence(e, l)
<1>1. q = [status |-> after, links |-> p.links \cup {l}, approvals |-> p.approvals, updatedAt |-> p.updatedAt]
    <2>1. q = [p EXCEPT !.status = after, !.links = p.links \cup {l}]
        BY DEF WithEvidence
    <2> HIDE DEF after, q
    <2>2. QED
        BY <2>1, UpdatedProject
<1>2. /\ after \in [DOMAIN after -> Statuses] /\ DOMAIN after = Recorded \cup {e}
      /\ \A o \in Recorded : after[o] = p.status[o]
      /\ e \notin Recorded => after[e] = "active"
    <2>1. p.status \in [DOMAIN p.status -> Statuses] /\ "active" \in Statuses
        BY DEF Statuses, Shaped
    <2>2. CASE e \in DOMAIN p.status
        BY <2>1, <2>2 DEF Recorded
    <2>3. CASE e \notin DOMAIN p.status
        <3>1. after = WithObject(p.status, e, "active")
            BY <2>3
        <3> HIDE DEF after
        <3>2. QED
            BY <2>1, <2>3, <3>1 DEF WithObject, Recorded
    <2>4. QED
        BY <2>2, <2>3
<1> HIDE DEF after, q
<1>3. QED
    BY <1>1, <1>2 DEF Shaped, q

LEMMA RecordedIs ==
    ASSUME NEW q, Shaped(q), Record(q)
    PROVE  /\ Shaped(p)' /\ p'.status = q.status /\ p'.links = q.links
           /\ p'.approvals = q.approvals /\ p'.updatedAt = clock
<1>1. p' = [status |-> q.status, links |-> q.links, approvals |-> q.approvals, updatedAt |-> clock]
    BY DEF Record, Shaped
<1>2. QED
    BY <1>1 DEF Shaped

LEMMA AdoptShape ==
    ASSUME NEW q, Shaped(q), NEW d \in DOMAIN q.status, NEW s \in Statuses
    PROVE  LET r == Adopt(q, d, s) IN
           /\ Shaped(r) /\ r.links = q.links /\ r.approvals = q.approvals
           /\ r.status = [q.status EXCEPT ![d] = s]
<1>1. Adopt(q, d, s) = [status |-> [q.status EXCEPT ![d] = s], links |-> q.links,
                        approvals |-> q.approvals, updatedAt |-> q.updatedAt]
    BY DEF Adopt, Shaped
<1>2. QED
    BY <1>1 DEF Shaped

LEMMA ApprovedShape ==
    ASSUME NEW q, Shaped(q), NEW inputs, NEW level, NEW expires
    PROVE  LET r == Approved(q, inputs, level, expires) IN
           /\ Shaped(r) /\ r.links = q.links /\ r.status = q.status
           /\ r.approvals = {a \in q.approvals : ~ (a.target = inputs.object /\ a.digest = Digest(inputs))}
                 \cup {[target |-> inputs.object, digest |-> Digest(inputs), level |-> level, expires |-> expires]}
<1> DEFINE left == {a \in q.approvals : ~ (a.target = inputs.object /\ a.digest = Digest(inputs))}
                   \cup {[target |-> inputs.object, digest |-> Digest(inputs), level |-> level, expires |-> expires]}
<1>1. Approved(q, inputs, level, expires)
      = [status |-> q.status, links |-> q.links, approvals |-> left, updatedAt |-> q.updatedAt]
    <2>1. Approved(q, inputs, level, expires) = [q EXCEPT !.approvals = left]
        BY DEF Approved
    <2> HIDE DEF left
    <2>2. QED
        BY <2>1, UpdatedProject
<1> HIDE DEF left
<1>2. Approved(q, inputs, level, expires).approvals = left
    BY <1>1
<1>3. QED
    BY <1>1, <1>2 DEF Shaped, left

\* A step that invalidates nothing, and takes nothing away.
Quiet ==
    /\ Shaped(p)' /\ project' = project /\ invalidatedBy' = invalidatedBy
    /\ Recorded \subseteq Recorded'
    /\ \A o \in Recorded : p.status[o] \in Adopted \cup {"invalidated"} => p'.status[o] = p.status[o]
    /\ \A o \in Recorded' : p'.status[o] = "invalidated" => o \in Recorded /\ p.status[o] = "invalidated"
    /\ \A l \in p'.links : {l.from, l.to} \subseteq Recorded'
    /\ p'.updatedAt \in 0..clock' /\ clock' \in 0..MaxTime

Unapproving == p'.approvals = p.approvals /\ seen' = seen

Keeping == \A o \in Recorded : p'.status[o] = p.status[o]

LEMMA TickIsQuiet ==
    ASSUME SInv, Tick
    PROVE  Quiet /\ Unapproving /\ Keeping
<1>1. p' = p /\ clock' \in 0..MaxTime /\ p.updatedAt \in 0..clock' /\ seen' = seen
    BY ProjectsAssumption DEF SInv, TypeOK, Tick
<1>2. Shaped(p)' /\ Recorded' = Recorded
    BY <1>1 DEF SInv, Shaped, Recorded
<1>3. QED
    BY <1>1, <1>2 DEF SInv, TypeOK, Tick, Keeping, Quiet, Unapproving

LEMMA LinkEvidenceIsQuiet ==
    ASSUME SInv, NEW l, LinkEvidence(l)
    PROVE  Quiet /\ Unapproving /\ Keeping
<1> DEFINE q == WithEvidence(l.from, l)
<1>1. /\ Shaped(q) /\ q.links = p.links \cup {l} /\ q.approvals = p.approvals
      /\ DOMAIN q.status = Recorded \cup {l.from}
      /\ \A o \in Recorded : q.status[o] = p.status[o]
      /\ l.from \notin Recorded => q.status[l.from] = "active"
    BY WithEvidenceShape DEF SInv
<1>2. Record(q) /\ UNCHANGED << project, clock, invalidatedBy, seen >> /\ l.to \in Recorded
    BY DEF LinkEvidence, Recorded
<1> HIDE DEF q
<1>3. /\ Shaped(p)' /\ p'.status = q.status /\ p'.links = q.links
      /\ p'.approvals = q.approvals /\ p'.updatedAt = clock
    BY <1>1, <1>2, RecordedIs
<1>4. Recorded' = Recorded \cup {l.from}
    BY <1>1, <1>3 DEF Recorded
<1>5. \A k \in p'.links : {k.from, k.to} \subseteq Recorded'
    BY <1>1, <1>2, <1>3, <1>4 DEF SInv, TypeOK
<1>6. QED
    BY <1>1, <1>2, <1>3, <1>4, <1>5 DEF SInv, TypeOK, Keeping, Quiet, Unapproving

LEMMA MaterializeDecisionIsQuiet ==
    ASSUME SInv, NEW d, NEW r, MaterializeDecision(d, r)
    PROVE  Quiet /\ Unapproving /\ Keeping
<1> DEFINE l == [from |-> r, relation |-> "challenges", to |-> d]
           s1 == WithObject(p.status, r, "open")
           s2 == WithObject(s1, d, "proposed")
           q == [status |-> s2, links |-> p.links \cup {l}, approvals |-> p.approvals, updatedAt |-> p.updatedAt]
<1>1. /\ r \notin Recorded /\ d \notin Recorded /\ r # d
      /\ UNCHANGED << project, clock, invalidatedBy, seen >>
    BY DEF MaterializeDecision, Recorded
<1>2. Record(q)
    <2>1. Record([p EXCEPT !.status = s2, !.links = p.links \cup {l}])
        BY DEF MaterializeDecision
    <2> HIDE DEF s1, s2, l
    <2>2. QED
        <3> DEFINE u == [p EXCEPT !.status = s2, !.links = p.links \cup {l}]
        <3>1. u = [p EXCEPT !.status = s2, !.links = p.links \cup {l}] /\ Record(u)
            BY <2>1
        <3>2. Shaped(p)
            BY DEF SInv
        <3> HIDE DEF u
        <3>3. u = q
            BY <3>1, <3>2, UpdatedProject
        <3> HIDE DEF q
        <3>4. QED
            BY <3>1, <3>3
<1>3. /\ s1 \in [DOMAIN s1 -> Statuses] /\ DOMAIN s1 = Recorded \cup {r} /\ s1[r] = "open"
      /\ \A x \in Recorded : s1[x] = p.status[x]
    <2>1. p.status \in [DOMAIN p.status -> Statuses] /\ "open" \in Statuses
        BY DEF Statuses, SInv, Shaped
    <2>2. Recorded = DOMAIN p.status
        BY DEF Recorded
    <2>3. QED
        BY <1>1, <2>1, <2>2 DEF WithObject
<1> HIDE DEF s1
<1>4. /\ s2 \in [DOMAIN s2 -> Statuses] /\ DOMAIN s2 = Recorded \cup {r, d} /\ s2[r] = "open"
      /\ s2[d] = "proposed" /\ \A x \in Recorded : s2[x] = p.status[x]
    <2>1. "proposed" \in Statuses
        BY DEF Statuses, Open
    <2>2. QED
        BY <1>1, <1>3, <2>1 DEF WithObject
<1> HIDE DEF s2
<1>5. Shaped(q)
    BY <1>4 DEF Shaped
<1>6. /\ Shaped(p)' /\ p'.status = s2 /\ p'.links = p.links \cup {l}
      /\ p'.approvals = p.approvals /\ p'.updatedAt = clock
    BY <1>2, <1>5, RecordedIs
<1>7. Recorded' = Recorded \cup {r, d}
    BY <1>4, <1>6 DEF Recorded
<1>8. \A k \in p'.links : {k.from, k.to} \subseteq Recorded'
    BY <1>6, <1>7 DEF SInv, TypeOK
<1>9. QED
    BY <1>1, <1>4, <1>6, <1>7, <1>8 DEF SInv, TypeOK, Keeping, Quiet, Unapproving, Adopted

LEMMA RecordReplyRiskIsQuiet ==
    ASSUME SInv, NEW r, NEW d, RecordReplyRisk(r, d)
    PROVE  Quiet /\ Unapproving /\ Keeping
<1> DEFINE l == [from |-> r, relation |-> "addresses", to |-> d]
           s1 == WithObject(p.status, r, "open")
           q == [status |-> s1, links |-> p.links \cup {l}, approvals |-> p.approvals, updatedAt |-> p.updatedAt]
<1>1. /\ r \notin Recorded /\ d \in Recorded
      /\ UNCHANGED << project, clock, invalidatedBy, seen >>
    BY DEF RecordReplyRisk, Recorded
<1>2. Record(q)
    <2>1. Record([p EXCEPT !.status = s1, !.links = p.links \cup {l}])
        BY DEF RecordReplyRisk
    <2> HIDE DEF s1, l
    <2>2. QED
        <3> DEFINE u == [p EXCEPT !.status = s1, !.links = p.links \cup {l}]
        <3>1. u = [p EXCEPT !.status = s1, !.links = p.links \cup {l}] /\ Record(u)
            BY <2>1
        <3>2. Shaped(p)
            BY DEF SInv
        <3> HIDE DEF u
        <3>3. u = q
            BY <3>1, <3>2, UpdatedProject
        <3> HIDE DEF q
        <3>4. QED
            BY <3>1, <3>3
<1>3. /\ s1 \in [DOMAIN s1 -> Statuses] /\ DOMAIN s1 = Recorded \cup {r} /\ s1[r] = "open"
      /\ \A x \in Recorded : s1[x] = p.status[x]
    <2>1. p.status \in [DOMAIN p.status -> Statuses] /\ "open" \in Statuses
        BY DEF Statuses, SInv, Shaped
    <2>2. Recorded = DOMAIN p.status
        BY DEF Recorded
    <2>3. QED
        BY <1>1, <2>1, <2>2 DEF WithObject
<1> HIDE DEF s1
<1>4. Shaped(q)
    BY <1>3 DEF Shaped
<1>5. /\ Shaped(p)' /\ p'.status = s1 /\ p'.links = p.links \cup {l}
      /\ p'.approvals = p.approvals /\ p'.updatedAt = clock
    BY <1>2, <1>4, RecordedIs
<1>6. Recorded' = Recorded \cup {r}
    BY <1>3, <1>5 DEF Recorded
<1>7. \A k \in p'.links : {k.from, k.to} \subseteq Recorded'
    BY <1>1, <1>5, <1>6 DEF SInv, TypeOK
<1>8. QED
    BY <1>1, <1>3, <1>5, <1>6, <1>7 DEF SInv, TypeOK, Keeping, Quiet, Unapproving, Adopted

\* A step that records an approval of o as it is judged at time t.
Approving(o, t, level, expires) ==
    LET inputs == Inputs(p, o, t) IN
    /\ o \in Recorded /\ level \in 1..3 /\ expires \in Expiries \cup {Never}
    /\ p'.approvals = {a \in p.approvals : ~ (a.target = o /\ a.digest = inputs)}
          \cup {[target |-> o, digest |-> inputs, level |-> level, expires |-> expires]}
    /\ seen' = {w \in seen : ~ (w.target = o /\ w.digest = inputs)}
          \cup {[target |-> o, digest |-> inputs, facts |-> Facts(p, o)]}

LEMMA ApproveIsQuiet ==
    ASSUME SInv, NEW o \in Recorded, ApproveSafetyGate(o)
    PROVE  /\ Quiet /\ Keeping
           /\ \E level, expires : Approving(o, clock, level, expires)
<1> DEFINE inputs == Inputs(p, o, clock)
           level == MaxRank({1, inputs.threshold})
<1>1. Gate(p, o, clock).inputs = inputs
    BY DEF Gate, VerdictAt, Verdict
<1>2. PICK expires \in Expiries : Record(Approved(p, inputs, level, expires))
    BY <1>1 DEF ApproveSafetyGate
<1>3. seen' = Witnessed(p, inputs) /\ UNCHANGED << project, clock, invalidatedBy >>
    BY <1>1 DEF ApproveSafetyGate
<1>4. inputs.object = o /\ inputs.threshold = ApprovalThreshold(o, RiskItems(p, o))
    BY InputsAreWeighed
<1> HIDE DEF inputs
<1>5. inputs.threshold \in 0..3
    BY <1>4, VerdictCoversRisks
<1>6. level \in 1..3
    <2>1. {1, inputs.threshold} \in SUBSET (0..3)
        BY <1>5
    <2>2. level \in 0..3 /\ \A x \in {1, inputs.threshold} : x \in 0..level
        BY <2>1, MaxRankIsHighest
    <2> HIDE DEF level
    <2>3. QED
        BY <2>2
<1> HIDE DEF level
<1>7. Shaped(p)
    BY DEF SInv
<1> DEFINE r == Approved(p, inputs, level, expires)
<1>8. /\ Shaped(r) /\ r.links = p.links /\ r.status = p.status
      /\ r.approvals = {a \in p.approvals : ~ (a.target = o /\ a.digest = inputs)}
            \cup {[target |-> o, digest |-> inputs, level |-> level, expires |-> expires]}
    BY <1>4, <1>7, ApprovedShape DEF Digest
<1> HIDE DEF r
<1>9. /\ Shaped(p)' /\ p'.status = r.status /\ p'.links = r.links
      /\ p'.approvals = r.approvals /\ p'.updatedAt = clock
    BY <1>2, <1>8, RecordedIs DEF r
<1>10. Recorded' = Recorded
    BY <1>8, <1>9 DEF Recorded
<1>11. Quiet /\ Keeping
    BY <1>3, <1>8, <1>9, <1>10 DEF SInv, TypeOK, Quiet, Keeping
<1>12. seen' = {w \in seen : ~ (w.target = o /\ w.digest = inputs)}
          \cup {[target |-> o, digest |-> inputs, facts |-> Facts(p, o)]}
    BY <1>3, <1>4 DEF Witnessed, Digest
<1>13. Approving(o, clock, level, expires)
    BY <1>6, <1>8, <1>9, <1>12 DEF Approving, inputs
<1>14. QED
    BY <1>11, <1>13

\* A decision is adopted as it is judged.
Adopting(d) ==
    /\ \A o \in Recorded : o # d => p'.status[o] = p.status[o]
    /\ ~ Contested(p', d)
    /\ NeedsApproval(p', d) => ApprovedAsIs(p', d, seen')

\* Adopting an open decision, in a project that holds what p does, leaves
\* what bears on it as it was.
LEMMA AdoptingBearsTheSame ==
    ASSUME NEW q, Shaped(q), NEW d \in DOMAIN q.status, q.status[d] \in Open,
           NEW r, Shaped(r), NEW s \in Adopted, r.status = [q.status EXCEPT ![d] = s], r.links = q.links
    PROVE  SameBearing(q, r)
<1>1. DOMAIN q.status = DOMAIN r.status
    OBVIOUS
<1>2. ASSUME NEW o PROVE IsLive(q, o) <=> IsLive(r, o)
    BY DEF IsLive, Open, Adopted, Shaped
<1>3. QED
    BY <1>1, <1>2 DEF SameBearing

LEMMA AcceptPassedIsQuiet ==
    ASSUME SInv, NEW d \in Recorded, NEW t, AcceptPassed(d, t)
    PROVE  Quiet /\ Unapproving /\ Adopting(d)
<1> DEFINE r == Adopt(p, d, "accepted")
<1>1. /\ TypeOf(d) = "decision" /\ p.status[d] = "proposed" /\ Gate(p, d, t).status = "passed"
      /\ Record(r) /\ UNCHANGED << project, clock, invalidatedBy, seen >>
    BY DEF AcceptPassed
<1>2. Shaped(p) /\ "accepted" \in Statuses /\ d \in DOMAIN p.status
    BY DEF SInv, Statuses, Adopted, Recorded
<1>3. /\ Shaped(r) /\ r.links = p.links /\ r.approvals = p.approvals
      /\ r.status = [p.status EXCEPT ![d] = "accepted"]
    BY <1>2, AdoptShape
<1> HIDE DEF r
<1>4. /\ Shaped(p)' /\ p'.status = [p.status EXCEPT ![d] = "accepted"] /\ p'.links = p.links
      /\ p'.approvals = p.approvals /\ p'.updatedAt = clock
    BY <1>1, <1>3, RecordedIs
<1>5. Recorded' = Recorded /\ \A o \in Recorded : o # d => p'.status[o] = p.status[o]
    BY <1>4 DEF Recorded
<1>6. p'.status[d] = "accepted"
    BY <1>2, <1>4
<1>7. Quiet /\ Unapproving
    BY <1>1, <1>4, <1>5, <1>6 DEF SInv, TypeOK, Quiet, Unapproving, Adopted
<1>8. SameBearing(p, p')
    <2>1. Shaped(p') /\ "accepted" \in Adopted /\ p.status[d] \in Open
        BY <1>1, <1>4 DEF Shaped, Adopted, Open
    <2>2. QED
        BY <1>2, <1>4, <2>1, AdoptingBearsTheSame
<1>9. ~ Contested(p, d) /\ (NeedsApproval(p, d) => ApprovedAsIs(p, d, seen))
    BY <1>1, PassedIsJudged, MatchingIsKnown DEF SInv
<1>10. QED
    BY <1>1, <1>4, <1>5, <1>7, <1>8, <1>9, SameBearingSameFacts DEF Adopting

LEMMA ResolveByEvidenceIsQuiet ==
    ASSUME SInv, NEW d \in Recorded, NEW e, NEW t, ResolveByEvidence(d, e, t)
    PROVE  Quiet /\ Unapproving /\ (Keeping \/ Adopting(d))
<1> DEFINE l == [from |-> e, relation |-> "supports", to |-> d]
           q == WithEvidence(e, l)
<1>1. /\ TypeOf(d) = "decision" /\ p.status[d] \in Open /\ UNCHANGED << project, clock, invalidatedBy, seen >>
      /\ Record(IF Gate(q, d, t).status = "passed" THEN Adopt(q, d, "resolved-by-evidence") ELSE q)
    BY DEF ResolveByEvidence
<1>2. /\ Shaped(q) /\ q.links = p.links \cup {l} /\ q.approvals = p.approvals
      /\ DOMAIN q.status = Recorded \cup {e}
      /\ \A o \in Recorded : q.status[o] = p.status[o]
      /\ e \notin Recorded => q.status[e] = "active"
    BY WithEvidenceShape DEF SInv
<1> HIDE DEF q
<1>3. \A k \in q.links : {k.from, k.to} \subseteq Recorded \cup {e}
    BY <1>2 DEF SInv, TypeOK
<1>4. CASE Gate(q, d, t).status # "passed"
    <2>1. /\ Shaped(p)' /\ p'.status = q.status /\ p'.links = q.links
          /\ p'.approvals = q.approvals /\ p'.updatedAt = clock
        BY <1>1, <1>2, <1>4, RecordedIs
    <2>2. Recorded' = Recorded \cup {e}
        BY <1>2, <2>1 DEF Recorded
    <2>3. QED
        BY <1>1, <1>2, <1>3, <2>1, <2>2 DEF SInv, TypeOK, Quiet, Unapproving, Keeping
<1>5. CASE Gate(q, d, t).status = "passed"
    <2> DEFINE r == Adopt(q, d, "resolved-by-evidence")
    <2>1. d \in DOMAIN q.status /\ "resolved-by-evidence" \in Statuses /\ "resolved-by-evidence" \in Adopted
        BY <1>2 DEF Statuses, Adopted
    <2>2. /\ Shaped(r) /\ r.links = q.links /\ r.approvals = q.approvals
          /\ r.status = [q.status EXCEPT ![d] = "resolved-by-evidence"]
        BY <1>2, <2>1, AdoptShape
    <2>3. Record(r)
        BY <1>1, <1>5
    <2> HIDE DEF r
    <2>4. /\ Shaped(p)' /\ p'.status = [q.status EXCEPT ![d] = "resolved-by-evidence"] /\ p'.links = q.links
          /\ p'.approvals = q.approvals /\ p'.updatedAt = clock
        BY <2>2, <2>3, RecordedIs
    <2>5. Recorded' = Recorded \cup {e} /\ \A o \in Recorded : o # d => p'.status[o] = p.status[o]
        BY <1>2, <2>4 DEF Recorded
    <2>6. /\ p'.status[d] = "resolved-by-evidence" /\ p.status[d] # "invalidated" /\ p.status[d] \notin Adopted
          /\ e \notin Recorded => p'.status[e] = "active"
        BY <1>1, <1>2, <2>1, <2>4 DEF Open, Adopted
    <2>7. Quiet /\ Unapproving
        BY <1>1, <1>2, <1>3, <2>4, <2>5, <2>6 DEF SInv, TypeOK, Quiet, Unapproving
    <2>8. SameBearing(q, p')
        <3>1. Shaped(p') /\ q.status[d] \in Open
            BY <1>1, <1>2, <2>4 DEF Shaped
        <3>2. /\ Shaped(q) /\ d \in DOMAIN q.status /\ "resolved-by-evidence" \in Adopted
              /\ p'.status = [q.status EXCEPT ![d] = "resolved-by-evidence"]
              /\ p'.links = q.links
            BY <1>2, <2>1, <2>4
        <3>3. QED
            BY <3>1, <3>2, AdoptingBearsTheSame
    <2>9. ~ Contested(q, d) /\ (NeedsApproval(q, d) => ApprovedAsIs(q, d, seen))
        BY <1>1, <1>2, <1>5, PassedIsJudged, MatchingIsKnown DEF SInv
    <2>10. QED
        BY <1>1, <2>4, <2>5, <2>7, <2>8, <2>9, SameBearingSameFacts DEF Adopting
<1>6. QED
    BY <1>4, <1>5

LEMMA InlineApprovalIsQuiet ==
    ASSUME SInv, NEW d \in Recorded, NEW t, AcceptWithInlineApproval(d, t)
    PROVE  Quiet /\ Approving(d, t, 1, Never) /\ Adopting(d)
<1> DEFINE inputs == Inputs(p, d, t)
           q == Approved(p, inputs, 1, Never)
           r == Adopt(q, d, "accepted")
<1>1. Gate(p, d, t).inputs = inputs
    BY DEF Gate, VerdictAt, Verdict
<1>2. /\ TypeOf(d) = "decision" /\ p.status[d] = "proposed"
      /\ Gate(p, d, t).status = "needs_approval" /\ InlineReasons(Gate(p, d, t).inputs)
      /\ Record(r) /\ seen' = Witnessed(p, inputs) /\ UNCHANGED << project, clock, invalidatedBy >>
    BY <1>1 DEF AcceptWithInlineApproval
<1>3. inputs.object = d
    BY InputsAreWeighed
<1> HIDE DEF inputs
<1>4. Shaped(p) /\ "accepted" \in Statuses /\ d \in DOMAIN p.status
    BY DEF SInv, Statuses, Adopted, Recorded
<1>5. /\ Shaped(q) /\ q.links = p.links /\ q.status = p.status
      /\ q.approvals = {a \in p.approvals : ~ (a.target = d /\ a.digest = inputs)}
            \cup {[target |-> d, digest |-> inputs, level |-> 1, expires |-> Never]}
    BY <1>3, <1>4, ApprovedShape DEF Digest
<1> HIDE DEF q
<1>6. /\ Shaped(r) /\ r.links = p.links /\ r.approvals = q.approvals
      /\ r.status = [p.status EXCEPT ![d] = "accepted"]
    <2>1. d \in DOMAIN q.status
        BY <1>4, <1>5
    <2>2. QED
        BY <1>4, <1>5, <2>1, AdoptShape
<1> HIDE DEF r
<1>7. /\ Shaped(p)' /\ p'.status = [p.status EXCEPT ![d] = "accepted"] /\ p'.links = p.links
      /\ p'.approvals = q.approvals /\ p'.updatedAt = clock
    BY <1>2, <1>6, RecordedIs
<1>8. Recorded' = Recorded /\ \A o \in Recorded : o # d => p'.status[o] = p.status[o]
    BY <1>7 DEF Recorded
<1>9. p'.status[d] = "accepted"
    BY <1>4, <1>7
<1>10. Quiet
    BY <1>2, <1>7, <1>8, <1>9 DEF SInv, TypeOK, Quiet, Adopted
<1>11. seen' = {w \in seen : ~ (w.target = d /\ w.digest = inputs)}
          \cup {[target |-> d, digest |-> inputs, facts |-> Facts(p, d)]}
    BY <1>2, <1>3 DEF Witnessed, Digest
<1>12. Approving(d, t, 1, Never)
    BY <1>5, <1>7, <1>11 DEF Approving, inputs
<1>13. SameBearing(p, p')
    <2>1. Shaped(p') /\ "accepted" \in Adopted /\ p.status[d] \in Open
        BY <1>2, <1>7 DEF Shaped, Adopted, Open
    <2>2. QED
        BY <1>4, <1>7, <2>1, AdoptingBearsTheSame
<1>14. ~ Contested(p, d) /\ \A x \in BearingRisks(p, d) : 1 >= Meta[x].threshold
    BY <1>2, InlineIsJudged
<1>15. /\ Facts(p, d) = Facts(p', d) /\ BearingRisks(p, d) = BearingRisks(p', d)
       /\ ~ Contested(p', d)
    BY <1>13, <1>14, SameBearingSameFacts
<1>16. ApprovedAsIs(p', d, seen')
    <2> DEFINE w == [target |-> d, digest |-> inputs, facts |-> Facts(p, d)]
               a == [target |-> d, digest |-> inputs, level |-> 1, expires |-> Never]
    <2>1. w \in seen' /\ w.target = d /\ w.facts = Facts(p', d) /\ w.digest = inputs
        BY <1>11, <1>15
    <2>2. a \in p'.approvals /\ a.target = d /\ a.digest = inputs /\ a.level = 1
        BY <1>5, <1>7
    <2>3. \A x \in BearingRisks(p', d) : a.level >= Meta[x].threshold
        BY <1>14, <1>15, <2>2
    <2> HIDE DEF w, a
    <2>4. QED
        BY <2>1, <2>2, <2>3 DEF ApprovedAsIs
<1>17. QED
    BY <1>8, <1>10, <1>12, <1>15, <1>16 DEF Adopting

-----------------------------------------------------------------------------
(***************************************************************************)
(* Invalidation candidates.                                                *)
(***************************************************************************)

\* A set of numbers up to d that is not empty has a least one.
LEMMA LeastUpTo ==
    ASSUME NEW d \in Nat, NEW S \in SUBSET (0..d), S # {}
    PROVE  \E n \in S : \A m \in 0..n - 1 : m \notin S
<1> DEFINE T == {n \in Nat : \A m \in 0..n : m \notin S}
<1> SUFFICES ASSUME \A n \in S : \E m \in 0..n - 1 : m \in S
             PROVE  FALSE
    OBVIOUS
<1>1. 0 \in T
    BY Z3
<1>2. ASSUME NEW n \in Nat, n \in T PROVE n + 1 \in T
    <2>1. n + 1 \notin S
        <3>1. (n + 1) - 1 = n
            OBVIOUS
        <3>2. QED
            BY <1>2, <3>1
    <2>2. ASSUME NEW m \in 0..n + 1 PROVE m \notin S
        <3>1. m = n + 1 \/ m \in 0..n
            OBVIOUS
        <3>2. QED
            BY <1>2, <2>1, <3>1
    <2>3. QED
        BY <2>2
<1> HIDE DEF T
<1>3. Nat \subseteq T
    BY <1>1, <1>2, SetInduction
<1>4. QED
    BY <1>3 DEF T

\* The distance of an object is a number.
LEMMA DistanceIsNat ==
    ASSUME NEW links, NEW root, NEW d \in Nat, d # 0, NEW o \in Impact!Within(links, root, d - 1)
    PROVE  Impact!Distance(links, root, o, d) \in 0..d
<1> DEFINE S == {n \in 0..d : o \in Impact!Within(links, root, n)}
           Good(n) == /\ o \in Impact!Within(links, root, n)
                      /\ \A m \in 0..n - 1 : o \notin Impact!Within(links, root, m)
<1>1. d - 1 \in S
    OBVIOUS
<1>2. PICK n \in S : \A m \in 0..n - 1 : m \notin S
    BY <1>1, LeastUpTo
<1>3. \A m \in 0..n - 1 : m \in 0..d
    BY <1>2
<1>4. n \in 0..d /\ Good(n)
    BY <1>2, <1>3
<1>5. Impact!Distance(links, root, o, d) = CHOOSE m \in 0..d : Good(m)
    BY DEF Impact!Distance
<1> HIDE DEF Good
<1>6. QED
    BY <1>4, <1>5, Zenon

\* Records of numbered strength and distance, of which one is the strongest.
Ranked(K, sev, dist, b) == K # {} /\ \A r \in K : sev[r] \in 1..3 /\ dist[r] \in 0..b

HasStrongest(K, sev, dist) ==
    \E r \in K : ~ \E s \in K : sev[s] > sev[r] \/ (sev[s] = sev[r] /\ dist[s] < dist[r])

LEMMA StrongestExists ==
    ASSUME NEW K, NEW sev, NEW dist, NEW b \in Nat, Ranked(K, sev, dist, b)
    PROVE  HasStrongest(K, sev, dist)
<1> USE DEF Ranked
<1>1. PICK v \in 1..3 : /\ \E r \in K : sev[r] = v
                        /\ \A r \in K : ~ (sev[r] > v)
    <2>1. CASE \E r \in K : sev[r] = 3
        BY <2>1
    <2>2. CASE ~ (\E r \in K : sev[r] = 3) /\ \E r \in K : sev[r] = 2
        BY <2>2
    <2>3. CASE ~ (\E r \in K : sev[r] = 3) /\ ~ \E r \in K : sev[r] = 2
        BY <2>3
    <2>4. QED
        BY <2>1, <2>2, <2>3
<1> DEFINE D == {n \in 0..b : \E r \in K : sev[r] = v /\ dist[r] = n}
<1>2. PICK n \in D : \A m \in 0..n - 1 : m \notin D
    <2>1. D # {}
        BY <1>1
    <2> HIDE DEF D
    <2>2. D \in SUBSET (0..b)
        BY DEF D
    <2>3. QED
        BY <2>1, <2>2, LeastUpTo
<1>3. PICK r \in K : sev[r] = v /\ dist[r] = n
    BY <1>2
<1>4. ASSUME NEW s \in K, sev[s] > sev[r] \/ (sev[s] = sev[r] /\ dist[s] < dist[r]) PROVE FALSE
    <2>1. sev[s] = v /\ dist[s] < n
        BY <1>1, <1>3, <1>4
    <2>2. dist[s] \in 0..n - 1 /\ dist[s] \in D
        BY <1>2, <2>1
    <2>3. QED
        BY <1>2, <2>2
<1>5. QED
    BY <1>3, <1>4 DEF HasStrongest

\* What the analysis affects is not invalidated, is not the root, is at the
\* end of a link, and weighs as its strongest record does.
LEMMA AffectedIsStanding ==
    ASSUME NEW g, NEW root, NEW d \in Nat, NEW a \in Impact!AffectedObjects(g, root, d)
    PROVE  /\ g.status[a.object] # "invalidated" /\ a.object # root
           /\ \E l \in g.links : a.object = Impact!Target(l)
           /\ g.type[a.object] = "decision" /\ g.status[a.object] = "accepted" => a.severity = 3
<1> DEFINE records == Impact!WalkRecords(g.links, root, d)
           kept == {r \in records : g.status[r.object] # "invalidated"}
           strongest(o) == {r \in kept : /\ r.object = o
                                         /\ ~ \E s \in kept : s.object = o /\ Impact!IsStronger(g, s, r)}
           chosen(o) == CHOOSE r \in strongest(o) : TRUE
           affected(o) == [object |-> o, via |-> chosen(o).link, distance |-> chosen(o).distance,
                           severity |-> Impact!Severity(g, chosen(o))]
<1>1. Impact!AffectedObjects(g, root, d) = {affected(o) : o \in {r.object : r \in kept}}
    BY DEF Impact!AffectedObjects
<1>2. PICK o \in {r.object : r \in kept} : a = affected(o)
    <2> HIDE DEF kept, affected
    <2>1. QED
        BY <1>1
<1>3. d # 0
    BY <1>2 DEF Impact!WalkRecords
<1> DEFINE followed == {k \in g.links : /\ Impact!Source(k) \in Impact!Within(g.links, root, d - 1)
                                        /\ Impact!Target(k) # root}
           record(l) == [object |-> Impact!Target(l), link |-> l,
                         distance |-> Impact!Distance(g.links, root, Impact!Source(l), d) + 1]
<1>4. records = {record(l) : l \in followed}
    BY <1>3 DEF Impact!WalkRecords
<1> HIDE DEF records
<1>5. ASSUME NEW r \in records
      PROVE  /\ \E l \in g.links : r.object = Impact!Target(l)
             /\ r.object # root /\ r.distance \in 0..d + 1
    <2>1. PICK l \in followed : r = record(l)
        BY <1>4
    <2>2. Impact!Distance(g.links, root, Impact!Source(l), d) \in 0..d
        BY <1>3, <2>1, DistanceIsNat
    <2>3. QED
        BY <2>1, <2>2
<1>6. \A r \in kept : Impact!Severity(g, r) \in 1..3
    BY DEF Impact!Severity, Impact!ObjectSeverity, Impact!RelationSeverity
<1> DEFINE K == {r \in kept : r.object = o}
           sev == [r \in K |-> Impact!Severity(g, r)]
           dist == [r \in K |-> r.distance]
<1>7. K # {} /\ d + 1 \in Nat /\ \A r \in K : sev[r] \in 1..3 /\ dist[r] \in 0..d + 1
    <2>1. \A r \in K : r \in records /\ r \in kept
        OBVIOUS
    <2>2. K # {}
        BY <1>2
    <2> HIDE DEF K, kept
    <2>3. QED
        BY <1>5, <1>6, <2>1, <2>2
<1>8. \E r \in K : ~ \E s \in K : sev[s] > sev[r] \/ (sev[s] = sev[r] /\ dist[s] < dist[r])
    <2> HIDE DEF K, sev, dist
    <2>1. Ranked(K, sev, dist, d + 1)
        BY <1>7 DEF Ranked
    <2>2. HasStrongest(K, sev, dist)
        BY <1>7, <2>1, StrongestExists
    <2>3. QED
        BY <2>2 DEF HasStrongest
<1>9. strongest(o) # {}
    <2>1. PICK r \in K : ~ \E s \in K : sev[s] > sev[r] \/ (sev[s] = sev[r] /\ dist[s] < dist[r])
        BY <1>8
    <2>2. \A s \in K : Impact!IsStronger(g, s, r) => sev[s] > sev[r] \/ (sev[s] = sev[r] /\ dist[s] < dist[r])
        BY <2>1 DEF Impact!IsStronger
    <2>3. ~ \E s \in kept : s.object = o /\ Impact!IsStronger(g, s, r)
        BY <2>1, <2>2
    <2>4. r \in strongest(o)
        BY <2>1, <2>3
    <2>5. QED
        BY <2>4
<1>10. chosen(o) \in strongest(o)
    <2> HIDE DEF strongest
    <2>1. QED
        BY <1>9
<1>11. chosen(o) \in kept /\ chosen(o).object = o
    <2> HIDE DEF chosen, kept
    <2>1. QED
        BY <1>10
<1> HIDE DEF chosen, strongest
<1>12. a.object = o /\ a.severity = Impact!Severity(g, chosen(o))
    <2> HIDE DEF kept
    <2>1. QED
        BY <1>2
<1>13. /\ g.status[o] # "invalidated" /\ o # root
       /\ \E l \in g.links : o = Impact!Target(l)
    BY <1>5, <1>11
<1>14. g.type[o] = "decision" /\ g.status[o] = "accepted" => a.severity = 3
    BY <1>11, <1>12 DEF Impact!Severity, Impact!ObjectSeverity, Impact!RelationSeverity
<1>15. QED
    BY <1>12, <1>13, <1>14

LEMMA CandidateIsOffered ==
    ASSUME SInv, NEW root \in Recorded, NEW change, NEW depth \in Depths,
           NEW c \in Candidates(root, change, depth)
    PROVE  /\ c.target \in Recorded /\ p.status[c.target] # "invalidated"
           /\ c.target # root /\ c.id.root = root
           /\ TypeOf(c.target) = "decision" /\ p.status[c.target] = "accepted" => c.severity = 3
           /\ c.materialized /\ TypeOf(c.target) = "decision" /\ c.kind # "add_verification" =>
                 TypeOf(root) = "decision" /\ p.status[root] \in Adopted
<1>1. depth \in Nat
    BY ProjectsAssumption
<1>2. \E a \in Impact!AffectedObjects(Graph, root, depth) : \E kind :
          c = [id |-> Impact!CandidateId(root, change, a, kind), target |-> a.object, kind |-> kind,
               severity |-> a.severity, materialized |-> Impact!IsMaterialized(Graph, root, a.object, kind)]
    BY DEF Candidates, Impact!InvalidationCandidates
<1> PICK a \in Impact!AffectedObjects(Graph, root, depth), kind \in {c.kind} :
          c = [id |-> Impact!CandidateId(root, change, a, kind), target |-> a.object, kind |-> kind,
               severity |-> a.severity, materialized |-> Impact!IsMaterialized(Graph, root, a.object, kind)]
    BY <1>2
<1>3. Graph.links = p.links /\ Graph.status = p.status
    BY DEF Graph
<1>4. \A o \in Recorded : Graph.type[o] = TypeOf(o)
    BY DEF Graph, Recorded
<1>5. /\ p.status[a.object] # "invalidated" /\ a.object # root
      /\ \E l \in p.links : a.object = Impact!Target(l)
      /\ Graph.type[a.object] = "decision" /\ p.status[a.object] = "accepted" => a.severity = 3
    BY <1>1, <1>3, AffectedIsStanding
<1>6. a.object \in Recorded
    <2>1. PICK l \in p.links : a.object = Impact!Target(l)
        BY <1>5
    <2>2. Impact!Target(l) \in {l.from, l.to}
        BY DEF Impact!Target, Impact!Oriented
    <2>3. QED
        BY <2>1, <2>2 DEF SInv, TypeOK
<1>7. c.id.root = root
    BY DEF Impact!CandidateId
<1>8. c.materialized <=> Impact!IsMaterialized(Graph, root, a.object, kind)
    <2>1. Impact!IsMaterialized(Graph, root, a.object, kind) \in BOOLEAN
        BY DEF Impact!IsMaterialized, Impact!CanInvalidateDecision
    <2>2. c.materialized = Impact!IsMaterialized(Graph, root, a.object, kind)
        OBVIOUS
    <2>3. QED
        BY <2>2
<1>9. c.target = a.object /\ c.kind = kind /\ c.severity = a.severity
    OBVIOUS
<1>10. ASSUME c.materialized, TypeOf(c.target) = "decision", c.kind # "add_verification"
       PROVE  TypeOf(root) = "decision" /\ p.status[root] \in Adopted
    <2>1. Graph.type[a.object] = "decision"
        BY <1>4, <1>6, <1>9, <1>10
    <2>2. Impact!IsMaterialized(Graph, root, a.object, kind) /\ kind # "add_verification"
        BY <1>8, <1>9, <1>10
    <2>3. Impact!CanInvalidateDecision(Graph, root)
        BY <2>1, <2>2 DEF Impact!IsMaterialized
    <2>4. QED
        BY <1>3, <1>4, <2>3 DEF Impact!CanInvalidateDecision, Adopted
<1>11. QED
    BY <1>4, <1>5, <1>6, <1>7, <1>9, <1>10

\* A step that applies a candidate of root.
Applying(c, root) ==
    /\ Shaped(p)' /\ project' = project /\ clock' = clock /\ p'.updatedAt = clock /\ Unapproving
    /\ Recorded \subseteq Recorded' /\ \A o \in Recorded' \ Recorded : p'.status[o] = "planned"
    /\ \A o \in Recorded : o # c.target => p'.status[o] = p.status[o]
    /\ p'.status[c.target] = IF c.kind = "add_verification" THEN p.status[c.target] ELSE "invalidated"
    /\ \A l \in p'.links : {l.from, l.to} \subseteq Recorded'
    /\ invalidatedBy' = invalidatedBy \cup
          (IF TypeOf(c.target) = "decision" /\ c.kind # "add_verification"
           THEN {<< c.target, root >>} ELSE {})

LEMMA ApplyIsApplying ==
    ASSUME SInv, NEW root \in Recorded, NEW c, c.target \in Recorded, c.id.root = root, ApplyCandidate(c)
    PROVE  Applying(c, root)
<1>1. /\ c.kind = "add_verification" => VerificationOf(c) \notin Recorded
      /\ Record(Effect(c)) /\ UNCHANGED << project, clock, seen >>
    BY DEF ApplyCandidate, Recorded
<1>2. invalidatedBy' = invalidatedBy \cup
          (IF TypeOf(c.target) = "decision" /\ c.kind # "add_verification"
           THEN {<< c.target, root >>} ELSE {})
    BY DEF ApplyCandidate
<1>3. /\ Shaped(p) /\ Recorded = DOMAIN p.status /\ p.status \in [Recorded -> Statuses]
      /\ \A l \in p.links : {l.from, l.to} \subseteq Recorded
    BY DEF SInv, TypeOK, Shaped, Recorded
<1>4. CASE c.kind = "add_verification"
    <2> DEFINE v == VerificationOf(c)
               l == [from |-> v, relation |-> "verifies", to |-> c.target]
               s == WithObject(p.status, v, "planned")
               q == Effect(c)
    <2>1. q = [p EXCEPT !.status = s, !.links = p.links \cup {l}]
        BY <1>4 DEF Effect
    <2>2. v \notin Recorded /\ Record(q)
        BY <1>1, <1>4
    <2>3. /\ s \in [DOMAIN s -> Statuses] /\ DOMAIN s = Recorded \cup {v} /\ s[v] = "planned"
          /\ \A x \in Recorded : s[x] = p.status[x]
        <3>1. "planned" \in Statuses
            BY DEF Statuses
        <3> HIDE DEF v
        <3>2. QED
            BY <1>3, <2>2, <3>1 DEF WithObject
    <2>4. l.from = v /\ l.to = c.target
        OBVIOUS
    <2> HIDE DEF v, l, s, q
    <2>5. q = [status |-> s, links |-> p.links \cup {l}, approvals |-> p.approvals, updatedAt |-> p.updatedAt]
        BY <1>3, <2>1, UpdatedProject
    <2>6. Shaped(q) /\ q.status = s /\ q.links = p.links \cup {l} /\ q.approvals = p.approvals
        BY <2>3, <2>5 DEF Shaped
    <2>7. /\ Shaped(p)' /\ p'.status = s /\ p'.links = p.links \cup {l}
          /\ p'.approvals = p.approvals /\ p'.updatedAt = clock
        BY <2>2, <2>6, RecordedIs
    <2>8. Recorded' = Recorded \cup {v}
        BY <2>3, <2>7 DEF Recorded
    <2>9. \A k \in p'.links : {k.from, k.to} \subseteq Recorded'
        BY <1>3, <2>4, <2>7, <2>8
    <2>10. QED
        BY <1>1, <1>2, <1>4, <2>3, <2>7, <2>8, <2>9 DEF Applying, Unapproving
<1>5. CASE c.kind # "add_verification"
    <2> DEFINE l == [from |-> root, relation |-> "supersedes", to |-> c.target]
               links == IF c.kind = "supersede" THEN p.links \cup {l} ELSE p.links
               s == [p.status EXCEPT ![c.target] = "invalidated"]
               q == Effect(c)
    <2>1. q = [status |-> s, links |-> links, approvals |-> p.approvals, updatedAt |-> p.updatedAt]
        <3>1. CASE c.kind = "supersede"
            <4>1. q = [p EXCEPT !.status = s, !.links = links]
                BY <3>1 DEF Effect
            <4> HIDE DEF l, links, s, q
            <4>2. QED
                BY <1>3, <4>1, UpdatedProject
        <3>2. CASE c.kind # "supersede"
            <4>1. q = [p EXCEPT !.status = s] /\ links = p.links
                BY <1>5, <3>2 DEF Effect
            <4> HIDE DEF l, links, s, q
            <4>2. QED
                BY <1>3, <4>1, UpdatedProject
        <3>3. QED
            BY <3>1, <3>2
    <2>2. /\ s \in [DOMAIN s -> Statuses] /\ DOMAIN s = Recorded /\ s[c.target] = "invalidated"
          /\ \A x \in Recorded : x # c.target => s[x] = p.status[x]
        BY <1>3 DEF Statuses
    <2>3. \A k \in links : {k.from, k.to} \subseteq Recorded
        BY <1>3
    <2>4. Record(q)
        BY <1>1
    <2> HIDE DEF l, links, s, q
    <2>5. Shaped(q) /\ q.status = s /\ q.links = links /\ q.approvals = p.approvals
        BY <2>1, <2>2 DEF Shaped
    <2>6. /\ Shaped(p)' /\ p'.status = s /\ p'.links = links
          /\ p'.approvals = p.approvals /\ p'.updatedAt = clock
        BY <2>4, <2>5, RecordedIs
    <2>7. Recorded' = Recorded
        BY <2>2, <2>6 DEF Recorded
    <2>8. QED
        BY <1>1, <1>2, <1>5, <2>2, <2>3, <2>6, <2>7 DEF Applying, Unapproving
<1>6. QED
    BY <1>4, <1>5

\* A supersession does to the project what a candidate that supersedes does.
LEMMA SupersessionIsApplying ==
    ASSUME SInv, NEW old \in Recorded, NEW new \in Recorded,
           ResolveDecisionSupersession(old, new)
    PROVE  Applying([target |-> old, kind |-> "supersede"], new)
<1> DEFINE c == [target |-> old, kind |-> "supersede"]
           l == [from |-> new, relation |-> "supersedes", to |-> old]
           links == p.links \cup {l}
           s == [p.status EXCEPT ![old] = "invalidated"]
           q == [p EXCEPT !.status = s, !.links = links]
<1>1. /\ Shaped(p) /\ Recorded = DOMAIN p.status /\ p.status \in [Recorded -> Statuses]
      /\ \A k \in p.links : {k.from, k.to} \subseteq Recorded
    BY DEF SInv, TypeOK, Shaped, Recorded
<1>2. c.target = old /\ c.kind = "supersede" /\ l.from = new /\ l.to = old
    OBVIOUS
<1>3. /\ Record(q) /\ UNCHANGED << project, clock, seen >>
      /\ invalidatedBy' = invalidatedBy \cup {<< old, new >>} /\ TypeOf(old) = "decision"
    BY DEF ResolveDecisionSupersession
<1>4. /\ s \in [DOMAIN s -> Statuses] /\ DOMAIN s = Recorded /\ s[old] = "invalidated"
      /\ \A x \in Recorded : x # old => s[x] = p.status[x]
    BY <1>1 DEF Statuses
<1>5. \A k \in links : {k.from, k.to} \subseteq Recorded
    BY <1>1, <1>2
<1>5a. q = [p EXCEPT !.status = s, !.links = links]
    OBVIOUS
<1> HIDE DEF c, l, links, s, q
<1>6. q = [status |-> s, links |-> links, approvals |-> p.approvals, updatedAt |-> p.updatedAt]
    BY <1>1, <1>5a, UpdatedProject
<1>7. Shaped(q) /\ q.status = s /\ q.links = links /\ q.approvals = p.approvals
    BY <1>4, <1>6 DEF Shaped
<1>8. /\ Shaped(p)' /\ p'.status = s /\ p'.links = links
      /\ p'.approvals = p.approvals /\ p'.updatedAt = clock
    BY <1>3, <1>7, RecordedIs
<1>9. Recorded' = Recorded
    BY <1>4, <1>8 DEF Recorded
<1>10. Applying(c, new)
    BY <1>2, <1>3, <1>4, <1>5, <1>8, <1>9 DEF Applying, Unapproving
<1>11. QED
    BY <1>10 DEF c

\* An accepted decision falls to a candidate that somebody approved, knowing
\* what bears on it.
LEMMA FallenIsApproved ==
    ASSUME SInv, NEW c, ApplyCandidate(c), c.severity = 3
    PROVE  ApprovedAsIs(p, c.target, seen)
<1>1. GateAsOfLog(p, c.target).approvals # {}
    BY DEF ApplyCandidate, MayApply
<1>2. MatchingApprovals(p, Inputs(p, c.target, p.updatedAt), p.updatedAt) # {}
    BY <1>1 DEF GateAsOfLog, Gate, VerdictAt, Verdict
<1>3. QED
    BY <1>2, MatchingIsKnown DEF SInv

-----------------------------------------------------------------------------
(***************************************************************************)
(* The closure of invalidated_by.                                          *)
(***************************************************************************)

\* A path no longer than the closure has rounds is found by it.
LEMMA ChainFindsPaths ==
    ASSUME NEW X, NEW edges \in SUBSET (X \X X), IsFiniteSet(edges), NEW k \in Nat, k # 0,
           k <= Cardinality({e[1] : e \in edges} \cup {e[2] : e \in edges}) + 1,
           NEW path, IsPath(path, k, edges)
    PROVE  << path[0], path[k] >> \in Chain(edges)
<1> DEFINE nodes == {e[1] : e \in edges} \cup {e[2] : e \in edges}
           N == Cardinality(nodes)
           longer(R) == {e \in nodes \X nodes : \E y \in nodes : << e[1], y >> \in R /\ << y, e[2] >> \in edges}
           S == SUBSET (nodes \X nodes)
           step == [R \in S |-> R \cup longer(R)]
           Eq(f) == f = [n \in 0..N |-> IF n = 0 THEN edges ELSE f[n - 1] \cup longer(f[n - 1])]
           reach == CHOOSE f : Eq(f)
<1>1. edges \in S /\ step \in [S -> S]
    <2>1. ASSUME NEW e \in edges PROVE e \in nodes \X nodes
        <3>1. e = << e[1], e[2] >>
            OBVIOUS
        <3>2. QED
            BY <3>1
    <2>2. QED
        BY <2>1
<1>2. N \in Nat
    <2>1. IsFiniteSet({e[1] : e \in edges}) /\ IsFiniteSet({e[2] : e \in edges})
        <3> DEFINE A == {e[1] : e \in edges}
                   B == {e[2] : e \in edges}
        <3>1. [e \in edges |-> e[1]] \in Surjection(edges, A) /\ [e \in edges |-> e[2]] \in Surjection(edges, B)
            BY DEF Surjection
        <3> HIDE DEF A, B
        <3>2. IsFiniteSet(A) /\ IsFiniteSet(B)
            BY <3>1, FS_Surjection
        <3>3. QED
            BY <3>2 DEF A, B
    <2>2. IsFiniteSet(nodes)
        BY <2>1, FS_Union
    <2> HIDE DEF nodes
    <2>3. QED
        BY <2>2, FS_CardinalityType
<1>3. PICK f \in [Nat -> S] : Iterates(f, edges, step)
    <2> HIDE DEF S, step
    <2>1. QED
        BY <1>1, RecursionIsDefined, Zenon
<1>4. f[0] = edges /\ \A n \in Nat : f[n + 1] = f[n] \cup longer(f[n])
    <2>1. f[0] = edges
        BY <1>3 DEF Iterates
    <2>2. ASSUME NEW n \in Nat PROVE f[n + 1] = f[n] \cup longer(f[n])
        <3>1. f[n] \in S
            BY <1>3
        <3>2. f[n + 1] = step[f[n]]
            <4> HIDE DEF step, S
            <4>1. QED
                BY <1>3 DEF Iterates
        <3>3. step[f[n]] = f[n] \cup longer(f[n])
            <4> HIDE DEF longer, S
            <4>1. QED
                BY <3>1
        <3>4. QED
            BY <3>2, <3>3
    <2>3. QED
        BY <2>1, <2>2
<1>5. Eq([n \in 0..N |-> f[n]])
    <2> DEFINE g == [n \in 0..N |-> f[n]]
    <2>1. ASSUME NEW n \in 0..N, n # 0 PROVE g[n] = g[n - 1] \cup longer(g[n - 1])
        <3>1. n - 1 \in Nat /\ n - 1 \in 0..N /\ (n - 1) + 1 = n
            BY <1>2, <2>1
        <3>2. f[n] = f[n - 1] \cup longer(f[n - 1])
            <4> HIDE DEF longer
            <4>1. QED
                BY <1>4, <3>1
        <3>3. QED
            BY <3>1, <3>2
    <2>2. 0 \in 0..N => g[0] = edges
        BY <1>4
    <2>3. g = [n \in 0..N |-> g[n]]
        OBVIOUS
    <2>4. Eq(g)
        <3> HIDE DEF g, longer
        <3>1. QED
            BY <2>1, <2>2, <2>3
    <2> HIDE DEF Eq
    <2>5. QED
        BY <2>4
<1>6. Eq(reach)
    <2> HIDE DEF Eq
    <2>1. QED
        BY <1>5, Zenon
<1>7. Chain(edges) = reach[N]
    BY DEF Chain
<1> HIDE DEF reach
<1>8. reach[0] = edges /\ \A n \in 0..N : n # 0 => reach[n] = reach[n - 1] \cup longer(reach[n - 1])
    <2> HIDE DEF longer
    <2>1. 0 \in 0..N
        BY <1>2
    <2>2. QED
        BY <1>6, <2>1
<1> DEFINE Found == {i \in Nat : i <= N /\ i < k => << path[0], path[i + 1] >> \in reach[i]}
<1>9. 0 \in Found
    <2>1. 0 \in 0..k - 1
        OBVIOUS
    <2>2. << path[0], path[0 + 1] >> \in edges
        BY <2>1 DEF IsPath
    <2>3. QED
        BY <1>8, <2>2
<1>10. ASSUME NEW i \in Nat, i \in Found PROVE i + 1 \in Found
    <2> SUFFICES ASSUME i + 1 <= N, i + 1 < k
                 PROVE  << path[0], path[i + 2] >> \in reach[i + 1]
        OBVIOUS
    <2>1. << path[0], path[i + 1] >> \in reach[i]
        BY <1>2, <1>10
    <2>2. << path[i + 1], path[i + 2] >> \in edges
        <3>1. i + 1 \in 0..k - 1 /\ (i + 1) + 1 = i + 2
            OBVIOUS
        <3>2. QED
            BY <3>1 DEF IsPath
    <2>3. << path[0], path[1] >> \in edges
        <3>1. 0 \in 0..k - 1 /\ 0 + 1 = 1
            OBVIOUS
        <3>2. QED
            BY <3>1 DEF IsPath
    <2>4. path[0] \in nodes /\ path[i + 1] \in nodes /\ path[i + 2] \in nodes
        <3>1. \A e \in edges : e[1] \in nodes /\ e[2] \in nodes
            OBVIOUS
        <3> HIDE DEF nodes
        <3>2. QED
            BY <2>2, <2>3, <3>1
    <2>5. << path[0], path[i + 2] >> \in longer(reach[i])
        <3> HIDE DEF nodes
        <3>1. QED
            BY <2>1, <2>2, <2>4
    <2>6. i + 1 \in 0..N /\ i + 1 # 0 /\ (i + 1) - 1 = i
        BY <1>2
    <2>7. QED
        <3> HIDE DEF longer
        <3>1. QED
            BY <1>8, <2>5, <2>6
<1> DEFINE Kept == {i \in Nat : \A j \in 0..i : i <= N => reach[j] \subseteq reach[i]}
<1>11. 0 \in Kept
    OBVIOUS
<1>12. ASSUME NEW i \in Nat, i \in Kept PROVE i + 1 \in Kept
    <2> SUFFICES ASSUME NEW j \in 0..i + 1, i + 1 <= N PROVE reach[j] \subseteq reach[i + 1]
        OBVIOUS
    <2>1. i + 1 \in 0..N /\ i + 1 # 0 /\ (i + 1) - 1 = i /\ i <= N
        BY <1>2
    <2>2. reach[i] \subseteq reach[i + 1]
        <3> HIDE DEF longer
        <3>1. QED
            BY <1>8, <2>1
    <2>3. j = i + 1 \/ j \in 0..i
        OBVIOUS
    <2>4. j \in 0..i => reach[j] \subseteq reach[i]
        BY <1>12, <2>1
    <2>5. QED
        BY <2>2, <2>3, <2>4
<1>13. Nat \subseteq Found /\ Nat \subseteq Kept
    <2> HIDE DEF Found, Kept
    <2>1. QED
        BY <1>9, <1>10, <1>11, <1>12, SetInduction
<1>14. k - 1 \in Nat /\ k - 1 <= N /\ k - 1 < k /\ (k - 1) + 1 = k /\ k - 1 \in 0..N
    BY <1>2
<1>15. << path[0], path[k] >> \in reach[k - 1]
    <2>1. k - 1 \in Found
        BY <1>13, <1>14
    <2>2. QED
        BY <1>14, <2>1
<1>16. reach[k - 1] \subseteq reach[N]
    <2>1. N \in Kept
        BY <1>2, <1>13
    <2>2. QED
        BY <1>2, <1>14, <2>1
<1>17. QED
    BY <1>7, <1>15, <1>16

-----------------------------------------------------------------------------
(***************************************************************************)
(* Invariance.                                                             *)
(***************************************************************************)

LEMMA InitIsSound ==
    ASSUME Init
    PROVE  SInv
<1> DEFINE start == Projects[project]
<1>1. /\ project \in DOMAIN Projects
      /\ p = [status |-> start.status, links |-> start.links, approvals |-> {}, updatedAt |-> 0]
      /\ clock = 0 /\ invalidatedBy = {} /\ seen = {}
    BY DEF Init
<1> HIDE DEF start
<1>2. /\ start.status \in [DOMAIN start.status -> Statuses] /\ DOMAIN start.status \cap DOMAIN Meta # {}
      /\ \A l \in start.links : {l.from, l.to} \subseteq DOMAIN start.status
      /\ \A o \in DOMAIN start.status : TypeOf(o) = "decision" => start.status[o] # "invalidated"
    BY <1>1, ProjectsAssumption DEF start
<1>3. Shaped(p) /\ Recorded = DOMAIN start.status
    BY <1>1, <1>2 DEF Shaped, Recorded
<1>4. TypeOK
    <2>1. clock \in 0..MaxTime /\ p.updatedAt \in 0..clock
        BY <1>1, ProjectsAssumption
    <2>2. QED
        BY <1>1, <1>2, <1>3, <2>1 DEF TypeOK
<1>5. ApprovalsAreWitnessed
    BY <1>1 DEF ApprovalsAreWitnessed
<1>6. FallsAreGrounded
    BY <1>1, <1>2, <1>3, FS_EmptySet DEF FallsAreGrounded, RecordedDecisions
<1>7. QED
    BY <1>1, <1>3, <1>4, <1>5, <1>6 DEF SInv

\* Whoever stood at the end of a path still does when nothing is invalidated.
LEMMA QuietKeepsGrounds ==
    ASSUME SInv, Quiet
    PROVE  FallsAreGrounded'
<1>1. RecordedDecisions \subseteq RecordedDecisions' /\ Fallen' = Fallen /\ invalidatedBy' = invalidatedBy
    BY DEF Quiet, RecordedDecisions, Fallen
<1>2. ASSUME NEW d \in RecordedDecisions', p'.status[d] = "invalidated"
      PROVE  LeadsToStanding(d)'
    <2>1. d \in RecordedDecisions /\ p.status[d] = "invalidated"
        BY <1>2 DEF Quiet, RecordedDecisions
    <2>2. PICK k \in 1..Cardinality(Fallen) : \E path \in [0..k -> RecordedDecisions] :
              path[0] = d /\ p.status[path[k]] \in Adopted /\ IsPath(path, k, invalidatedBy)
        BY <2>1 DEF SInv, FallsAreGrounded, LeadsToStanding
    <2> PICK path \in [0..k -> RecordedDecisions] :
              path[0] = d /\ p.status[path[k]] \in Adopted /\ IsPath(path, k, invalidatedBy)
        BY <2>2
    <2>3. path[k] \in Recorded
        <3>1. k \in 0..k
            BY <2>2
        <3>2. QED
            BY <3>1 DEF RecordedDecisions
    <2>4. p'.status[path[k]] \in Adopted
        BY <2>3 DEF Quiet
    <2>5. path \in [0..k -> RecordedDecisions'] /\ k \in 1..Cardinality(Fallen')
        BY <1>1
    <2>6. IsPath(path, k, invalidatedBy')
        BY <1>1
    <2>7. QED
        BY <2>4, <2>5, <2>6 DEF LeadsToStanding
<1>3. QED
    BY <1>1, <1>2 DEF SInv, FallsAreGrounded

LEMMA QuietKeepsTypes ==
    ASSUME SInv, Quiet,
           \A a \in p'.approvals : a.target \in Recorded' /\ a.level \in 1..3 /\ a.expires \in Expiries \cup {Never},
           ApprovalsAreWitnessed'
    PROVE  SInv'
<1>1. /\ DOMAIN Meta \cap Recorded' # {} /\ p'.status \in [Recorded' -> Statuses]
      /\ \A l \in p'.links : {l.from, l.to} \subseteq Recorded'
    BY DEF SInv, TypeOK, Quiet, Shaped, Recorded
<1>2. p'.updatedAt \in 0..clock' /\ clock' \in 0..MaxTime
    BY DEF Quiet
<1>3. \A i \in invalidatedBy' : p'.status[i[1]] = "invalidated" /\ i[2] \in Recorded'
    <2> SUFFICES ASSUME NEW i \in invalidatedBy
                 PROVE  p'.status[i[1]] = "invalidated" /\ i[2] \in Recorded'
        BY DEF Quiet
    <2>1. i[1] \in Recorded /\ i[2] \in Recorded /\ p.status[i[1]] = "invalidated"
        BY DEF SInv, TypeOK, FallsAreGrounded, RecordedDecisions
    <2>2. QED
        BY <2>1 DEF Quiet
<1>4. TypeOK'
    BY <1>1, <1>2, <1>3 DEF TypeOK
<1>5. FallsAreGrounded'
    BY QuietKeepsGrounds
<1>6. QED
    BY <1>4, <1>5 DEF SInv, Quiet

LEMMA QuietKeepsInvariant ==
    ASSUME SInv, Quiet, Unapproving
    PROVE  SInv'
<1>1. ApprovalsAreWitnessed'
    BY DEF SInv, ApprovalsAreWitnessed, Unapproving
<1>2. \A a \in p'.approvals : a.target \in Recorded' /\ a.level \in 1..3 /\ a.expires \in Expiries \cup {Never}
    BY DEF SInv, TypeOK, Unapproving, Quiet
<1>3. QED
    BY <1>1, <1>2, QuietKeepsTypes

LEMMA ApprovingKeepsInvariant ==
    ASSUME SInv, Quiet, NEW o, NEW t, NEW level, NEW expires, Approving(o, t, level, expires)
    PROVE  SInv'
<1> DEFINE inputs == Inputs(p, o, t)
           a0 == [target |-> o, digest |-> inputs, level |-> level, expires |-> expires]
           w0 == [target |-> o, digest |-> inputs, facts |-> Facts(p, o)]
<1>1. /\ o \in Recorded /\ level \in 1..3 /\ expires \in Expiries \cup {Never}
      /\ p'.approvals = {a \in p.approvals : ~ (a.target = o /\ a.digest = inputs)} \cup {a0}
      /\ seen' = {w \in seen : ~ (w.target = o /\ w.digest = inputs)} \cup {w0}
    BY DEF Approving
<1>2. w0.target = o /\ w0.digest = inputs /\ w0.facts = Listed(inputs) /\ inputs.object = o
    BY DigestDeterminesFacts, InputsAreWeighed
<1>3. a0.target = o /\ a0.digest = inputs /\ a0.level = level /\ a0.expires = expires
    OBVIOUS
<1> HIDE DEF a0, w0, inputs
<1>4. ApprovalsAreWitnessed'
    <2>1. ASSUME NEW a \in p'.approvals PROVE \E w \in seen' : w.target = a.target /\ w.digest = a.digest
        <3>1. CASE a = a0
            BY <1>1, <1>2, <1>3, <3>1
        <3>2. CASE a # a0
            <4>1. a \in p.approvals /\ ~ (a.target = o /\ a.digest = inputs)
                BY <1>1, <2>1, <3>2
            <4>2. PICK w \in seen : w.target = a.target /\ w.digest = a.digest
                BY <4>1 DEF SInv, ApprovalsAreWitnessed
            <4>3. w \in seen'
                BY <1>1, <4>1, <4>2
            <4>4. QED
                BY <4>2, <4>3
        <3>3. QED
            BY <3>1, <3>2
    <2>2. \A w \in seen' : w.digest.object = w.target /\ w.facts = Listed(w.digest)
        BY <1>1, <1>2 DEF SInv, ApprovalsAreWitnessed
    <2>3. QED
        BY <2>1, <2>2 DEF ApprovalsAreWitnessed
<1>5. ASSUME NEW a \in p'.approvals
      PROVE  a.target \in Recorded' /\ a.level \in 1..3 /\ a.expires \in Expiries \cup {Never}
    <2>1. a \in p.approvals \/ a = a0
        BY <1>1
    <2>2. QED
        BY <1>1, <1>3, <2>1 DEF SInv, TypeOK, Quiet
<1>6. QED
    BY <1>4, <1>5, QuietKeepsTypes

\* A decision that falls to one that stands leads there, and so does whatever
\* led to it, in one step more than before; one more decision has fallen.
LEMMA ApplyingKeepsGrounds ==
    ASSUME SInv, NEW root \in Recorded, NEW c, Applying(c, root),
           c.target \in Recorded, p.status[c.target] # "invalidated", c.target # root,
           TypeOf(c.target) = "decision" /\ c.kind # "add_verification" =>
               TypeOf(root) = "decision" /\ p.status[root] \in Adopted
    PROVE  FallsAreGrounded'
<1> DEFINE t == c.target
           falls == TypeOf(t) = "decision" /\ c.kind # "add_verification"
<1>1. RecordedDecisions \subseteq RecordedDecisions'
    BY DEF Applying, RecordedDecisions
<1>2. invalidatedBy' = invalidatedBy \cup (IF falls THEN {<< t, root >>} ELSE {})
    BY DEF Applying
<1>3. IsFiniteSet(Fallen) /\ Cardinality(Fallen) \in Nat
    <2>1. [i \in invalidatedBy |-> i[1]] \in Surjection(invalidatedBy, Fallen)
        BY DEF Surjection, Fallen
    <2>2. IsFiniteSet(invalidatedBy)
        BY DEF SInv, FallsAreGrounded
    <2>3. QED
        BY <2>1, <2>2, FS_Surjection, FS_CardinalityType
<1>4. falls => Fallen' = Fallen \cup {t} /\ t \notin Fallen /\ Cardinality(Fallen') = Cardinality(Fallen) + 1
    <2> SUFFICES ASSUME falls
                 PROVE  Fallen' = Fallen \cup {t} /\ t \notin Fallen /\ Cardinality(Fallen') = Cardinality(Fallen) + 1
        OBVIOUS
    <2>1. Fallen' = Fallen \cup {t}
        <3>1. invalidatedBy' = invalidatedBy \cup {<< t, root >>} /\ << t, root >>[1] = t
            BY <1>2
        <3> HIDE DEF t
        <3>2. QED
            BY <3>1 DEF Fallen
    <2>2. t \notin Fallen
        BY DEF Fallen, SInv, TypeOK
    <2>3. QED
        BY <1>3, <2>1, <2>2, FS_AddElement
<1>5. ~ falls => Fallen' = Fallen
    BY <1>2 DEF Fallen
<1>6. Cardinality(Fallen') \in Nat /\ Cardinality(Fallen) <= Cardinality(Fallen')
    BY <1>3, <1>4, <1>5
<1>7. ASSUME NEW d \in RecordedDecisions, p.status[d] = "invalidated"
      PROVE  LeadsToStanding(d)'
    <2>1. PICK k \in 1..Cardinality(Fallen) : \E path \in [0..k -> RecordedDecisions] :
              path[0] = d /\ p.status[path[k]] \in Adopted /\ IsPath(path, k, invalidatedBy)
        BY <1>7 DEF SInv, FallsAreGrounded, LeadsToStanding
    <2> PICK path \in [0..k -> RecordedDecisions] :
              path[0] = d /\ p.status[path[k]] \in Adopted /\ IsPath(path, k, invalidatedBy)
        BY <2>1
    <2>2. k \in Nat /\ k \in 0..k /\ path[k] \in RecordedDecisions
        BY <1>3
    <2>3. CASE path[k] # t \/ c.kind = "add_verification"
        <3>1. p'.status[path[k]] = p.status[path[k]]
            BY <2>2, <2>3 DEF Applying, RecordedDecisions
        <3>2. path \in [0..k -> RecordedDecisions'] /\ k \in 1..Cardinality(Fallen')
            BY <1>1, <1>3, <1>6
        <3>3. IsPath(path, k, invalidatedBy')
            BY <1>2 DEF IsPath
        <3>4. QED
            BY <3>1, <3>2, <3>3 DEF LeadsToStanding
    <2>4. CASE path[k] = t /\ c.kind # "add_verification"
        <3> DEFINE longer == [i \in 0..k + 1 |-> IF i = k + 1 THEN root ELSE path[i]]
        <3>1. falls
            BY <2>2, <2>4 DEF RecordedDecisions
        <3>2. root \in RecordedDecisions'
            BY <1>1, <3>1 DEF RecordedDecisions
        <3>3. longer \in [0..k + 1 -> RecordedDecisions']
            <4>1. ASSUME NEW i \in 0..k + 1, i # k + 1 PROVE path[i] \in RecordedDecisions'
                <5>1. i \in 0..k
                    BY <2>2, <4>1
                <5>2. QED
                    BY <1>1, <5>1
            <4>2. QED
                BY <3>2, <4>1
        <3>4. k + 1 \in 1..Cardinality(Fallen')
            BY <1>3, <1>4, <2>2, <3>1
        <3>5. longer[0] = d /\ longer[k + 1] = root
            BY <2>2
        <3>6. ASSUME NEW i \in 0..(k + 1) - 1 PROVE << longer[i], longer[i + 1] >> \in invalidatedBy'
            <4>1. CASE i = k
                <5>1. longer[i] = t /\ longer[i + 1] = root
                    BY <2>2, <2>4, <4>1
                <5>2. QED
                    BY <1>2, <3>1, <5>1
            <4>2. CASE i # k
                <5>1. i \in 0..k - 1 /\ i \in 0..k + 1 /\ i + 1 \in 0..k + 1 /\ i # k + 1 /\ i + 1 # k + 1
                    BY <2>2, <4>2
                <5>2. longer[i] = path[i] /\ longer[i + 1] = path[i + 1]
                    BY <5>1
                <5>3. << path[i], path[i + 1] >> \in invalidatedBy
                    BY <5>1 DEF IsPath
                <5>4. QED
                    BY <1>2, <5>2, <5>3
            <4>3. QED
                BY <4>1, <4>2
        <3>7. p'.status[root] \in Adopted
            BY <3>1 DEF Applying
        <3> HIDE DEF longer
        <3>8. IsPath(longer, k + 1, invalidatedBy')
            BY <3>6 DEF IsPath
        <3>9. QED
            BY <3>3, <3>4, <3>5, <3>7, <3>8 DEF LeadsToStanding
    <2>5. QED
        BY <2>3, <2>4
<1>8. ASSUME falls PROVE LeadsToStanding(t)'
    <2> DEFINE path == [i \in 0..1 |-> IF i = 0 THEN t ELSE root]
    <2>1. t \in RecordedDecisions' /\ root \in RecordedDecisions'
        BY <1>1, <1>8 DEF RecordedDecisions
    <2>2. path \in [0..1 -> RecordedDecisions'] /\ path[0] = t /\ path[1] = root
        BY <2>1
    <2>3. 1 \in 1..Cardinality(Fallen')
        BY <1>3, <1>4, <1>8
    <2>4. p'.status[root] \in Adopted
        BY <1>8 DEF Applying
    <2>5. << t, root >> \in invalidatedBy'
        BY <1>2, <1>8
    <2> HIDE DEF path, t
    <2>6. IsPath(path, 1, invalidatedBy')
        <3>1. \A i \in 0..1 - 1 : i = 0 /\ i + 1 = 1
            OBVIOUS
        <3>2. QED
            BY <2>2, <2>5, <3>1 DEF IsPath
    <2>7. QED
        BY <2>2, <2>3, <2>4, <2>6 DEF LeadsToStanding
<1>9. ASSUME NEW d \in RecordedDecisions', p'.status[d] = "invalidated"
      PROVE  LeadsToStanding(d)'
    <2>1. d \in RecordedDecisions
        BY <1>9 DEF Applying, RecordedDecisions
    <2>2. CASE p.status[d] = "invalidated"
        BY <1>7, <2>1, <2>2
    <2>3. CASE p.status[d] # "invalidated"
        <3>1. d = t /\ falls
            BY <1>9, <2>1, <2>3 DEF Applying, RecordedDecisions
        <3>2. QED
            BY <1>8, <3>1
    <2>4. QED
        BY <2>2, <2>3
<1>10. IsFiniteSet(invalidatedBy') /\ invalidatedBy' \subseteq RecordedDecisions' \X RecordedDecisions'
    <2>1. IsFiniteSet(invalidatedBy) /\ invalidatedBy \subseteq RecordedDecisions \X RecordedDecisions
        BY DEF SInv, FallsAreGrounded
    <2>2. falls => t \in RecordedDecisions /\ root \in RecordedDecisions
        BY DEF RecordedDecisions
    <2>3. IsFiniteSet(invalidatedBy')
        BY <1>2, <2>1, FS_AddElement
    <2> HIDE DEF falls, t
    <2>4. QED
        BY <1>1, <1>2, <2>1, <2>2, <2>3
<1>11. QED
    BY <1>9, <1>10 DEF FallsAreGrounded

LEMMA ApplyingKeepsInvariant ==
    ASSUME SInv, NEW root \in Recorded, NEW c, Applying(c, root),
           c.target \in Recorded, p.status[c.target] # "invalidated", c.target # root,
           TypeOf(c.target) = "decision" /\ c.kind # "add_verification" =>
               TypeOf(root) = "decision" /\ p.status[root] \in Adopted
    PROVE  SInv'
<1>1. FallsAreGrounded'
    BY ApplyingKeepsGrounds
<1>2. ApprovalsAreWitnessed'
    BY DEF SInv, ApprovalsAreWitnessed, Applying, Unapproving
<1>3. /\ DOMAIN Meta \cap Recorded' # {} /\ p'.status \in [Recorded' -> Statuses]
      /\ \A l \in p'.links : {l.from, l.to} \subseteq Recorded'
    BY DEF SInv, TypeOK, Applying, Shaped, Recorded
<1>4. /\ \A a \in p'.approvals : a.target \in Recorded' /\ a.level \in 1..3 /\ a.expires \in Expiries \cup {Never}
      /\ p'.updatedAt \in 0..clock' /\ clock' \in 0..MaxTime
    BY DEF SInv, TypeOK, Applying, Unapproving
<1>5. \A i \in invalidatedBy' : p'.status[i[1]] = "invalidated" /\ i[2] \in Recorded'
    <2>1. ASSUME NEW i \in invalidatedBy PROVE p'.status[i[1]] = "invalidated" /\ i[2] \in Recorded'
        <3>1. i[1] \in Recorded /\ i[2] \in Recorded /\ p.status[i[1]] = "invalidated"
            BY DEF SInv, TypeOK, FallsAreGrounded, RecordedDecisions
        <3>2. QED
            BY <3>1 DEF Applying
    <2>2. ASSUME NEW i \in invalidatedBy', i \notin invalidatedBy
          PROVE  p'.status[i[1]] = "invalidated" /\ i[2] \in Recorded'
        <3>1. i = << c.target, root >> /\ c.kind # "add_verification"
            BY <2>2 DEF Applying
        <3>2. QED
            BY <3>1 DEF Applying
    <2>3. QED
        BY <2>1, <2>2
<1>6. TypeOK'
    BY <1>3, <1>4, <1>5 DEF TypeOK
<1>7. QED
    BY <1>1, <1>2, <1>6 DEF SInv, Applying

\* What AdoptedAsJudged and FallsAsJudged ask of a step.
AdoptsAsJudged ==
    \A d \in Recorded :
        (p.status[d] \notin Adopted /\ p'.status[d] \in Adopted) =>
            /\ ~ Contested(p', d)
            /\ NeedsApproval(p', d) => ApprovedAsIs(p', d, seen')

LetsFallAsJudged ==
    \A d \in Recorded :
        /\ TypeOf(d) = "decision" /\ p.status[d] = "accepted" /\ p'.status[d] # "accepted"
        /\ Apply
        => ApprovedAsIs(p, d, seen)

LEMMA StepsAreJudged ==
    ASSUME SInv, Next
    PROVE  SInv' /\ AdoptsAsJudged /\ LetsFallAsJudged
<1>1. ASSUME Quiet, Keeping PROVE AdoptsAsJudged /\ LetsFallAsJudged
    BY <1>1 DEF Keeping, AdoptsAsJudged, LetsFallAsJudged
<1>2. ASSUME Quiet, NEW d \in Recorded, Adopting(d) PROVE AdoptsAsJudged /\ LetsFallAsJudged
    BY <1>2 DEF Quiet, Adopting, Adopted, AdoptsAsJudged, LetsFallAsJudged
<1>3. CASE Tick
    BY <1>1, <1>3, TickIsQuiet, QuietKeepsInvariant
<1>4. ASSUME NEW l \in Projects[project].linkable, LinkEvidence(l)
      PROVE  SInv' /\ AdoptsAsJudged /\ LetsFallAsJudged
    BY <1>1, <1>4, LinkEvidenceIsQuiet, QuietKeepsInvariant
<1>5. ASSUME NEW d, NEW r, MaterializeDecision(d, r)
      PROVE  SInv' /\ AdoptsAsJudged /\ LetsFallAsJudged
    BY <1>1, <1>5, MaterializeDecisionIsQuiet, QuietKeepsInvariant
<1>6. ASSUME NEW d, NEW r, RecordReplyRisk(r, d)
      PROVE  SInv' /\ AdoptsAsJudged /\ LetsFallAsJudged
    BY <1>1, <1>6, RecordReplyRiskIsQuiet, QuietKeepsInvariant
<1>7. CASE Approve
    <2>1. PICK o \in Recorded : ApproveSafetyGate(o)
        BY <1>7 DEF Approve, Recorded
    <2>2. Quiet /\ Keeping /\ \E level, expires : Approving(o, clock, level, expires)
        BY <2>1, ApproveIsQuiet
    <2>3. QED
        BY <1>1, <2>2, ApprovingKeepsInvariant
<1>8. CASE Accept
    <2>1. PICK d \in Recorded, t \in TimesBeforeLock : AcceptPassed(d, t) \/ AcceptWithInlineApproval(d, t)
        BY <1>8 DEF Accept, Recorded
    <2>2. CASE AcceptPassed(d, t)
        BY <1>2, <2>2, AcceptPassedIsQuiet, QuietKeepsInvariant
    <2>3. CASE AcceptWithInlineApproval(d, t)
        BY <1>2, <2>3, InlineApprovalIsQuiet, ApprovingKeepsInvariant
    <2>4. QED
        BY <2>1, <2>2, <2>3
<1>9. CASE Resolve
    <2>1. PICK d \in Recorded, e \in Projects[project].resolving, t \in TimesBeforeLock : ResolveByEvidence(d, e, t)
        BY <1>9 DEF Resolve, Recorded
    <2>2. Quiet /\ Unapproving /\ (Keeping \/ Adopting(d))
        BY <2>1, ResolveByEvidenceIsQuiet
    <2>3. QED
        BY <1>1, <1>2, <2>2, QuietKeepsInvariant
<1>10. CASE Apply
    <2>1. PICK root \in Recorded, change \in Projects[project].changes, depth \in Depths :
              \E c \in Candidates(root, change, depth) : ApplyCandidate(c)
        BY <1>10 DEF Apply, Recorded
    <2> PICK c \in Candidates(root, change, depth) : ApplyCandidate(c)
        BY <2>1
    <2>2. /\ c.target \in Recorded /\ p.status[c.target] # "invalidated"
          /\ c.target # root /\ c.id.root = root
          /\ TypeOf(c.target) = "decision" /\ p.status[c.target] = "accepted" => c.severity = 3
          /\ c.materialized /\ TypeOf(c.target) = "decision" /\ c.kind # "add_verification" =>
                 TypeOf(root) = "decision" /\ p.status[root] \in Adopted
        BY CandidateIsOffered
    <2>3. c.materialized
        BY DEF ApplyCandidate, MayApply
    <2>4. Applying(c, root)
        BY <2>2, ApplyIsApplying
    <2>5. SInv'
        BY <2>2, <2>3, <2>4, ApplyingKeepsInvariant
    <2>6. AdoptsAsJudged
        BY <2>4 DEF AdoptsAsJudged, Applying, Adopted
    <2>7. ASSUME NEW d \in Recorded, TypeOf(d) = "decision", p.status[d] = "accepted", p'.status[d] # "accepted"
          PROVE  ApprovedAsIs(p, d, seen)
        <3>1. d = c.target
            BY <2>4, <2>7 DEF Applying
        <3>2. c.severity = 3
            BY <2>2, <2>7, <3>1
        <3>3. QED
            BY <3>1, <3>2, FallenIsApproved
    <2>8. QED
        BY <2>5, <2>6, <2>7 DEF LetsFallAsJudged
<1>11. CASE Supersede
    <2>1. PICK old \in Recorded, new \in Recorded : ResolveDecisionSupersession(old, new)
        BY <1>11 DEF Supersede, Recorded
    <2> DEFINE c == [target |-> old, kind |-> "supersede"]
    <2>2. c.target = old /\ c.kind = "supersede"
        OBVIOUS
    <2>3. /\ old # new /\ TypeOf(new) = "decision"
          /\ p.status[old] # "invalidated" /\ p.status[new] \in Adopted
        BY <2>1 DEF ResolveDecisionSupersession
    <2>4. Applying(c, new)
        BY <2>1, SupersessionIsApplying
    <2> HIDE DEF c
    <2>5. SInv'
        BY <2>2, <2>3, <2>4, ApplyingKeepsInvariant
    <2>6. AdoptsAsJudged
        BY <2>2, <2>4 DEF AdoptsAsJudged, Applying, Adopted
    <2>7. LetsFallAsJudged
        BY <1>10 DEF LetsFallAsJudged
    <2>8. QED
        BY <2>5, <2>6, <2>7
<1>12. QED
    BY <1>3, <1>4, <1>5, <1>6, <1>7, <1>8, <1>9, <1>10, <1>11 DEF Next

\* A step that changes nothing changes nothing.
LEMMA StutterIsJudged ==
    ASSUME SInv, UNCHANGED vars
    PROVE  SInv' /\ AdoptsAsJudged /\ LetsFallAsJudged
<1>1. /\ project' = project /\ p' = p /\ clock' = clock
      /\ invalidatedBy' = invalidatedBy /\ seen' = seen
    BY DEF vars
<1>2. Recorded' = Recorded /\ RecordedDecisions' = RecordedDecisions /\ Fallen' = Fallen
    BY <1>1 DEF Recorded, RecordedDecisions, Fallen
<1>3. TypeOK' /\ ApprovalsAreWitnessed'
    BY <1>1, <1>2 DEF SInv, TypeOK, ApprovalsAreWitnessed
<1>4. FallsAreGrounded'
    <2>1. \A d : LeadsToStanding(d)' <=> LeadsToStanding(d)
        BY <1>1, <1>2 DEF LeadsToStanding
    <2>2. QED
        BY <1>1, <1>2, <2>1 DEF SInv, FallsAreGrounded
<1>5. SInv'
    BY <1>1, <1>3, <1>4 DEF SInv, Shaped
<1>6. QED
    BY <1>1, <1>5 DEF AdoptsAsJudged, LetsFallAsJudged

LEMMA SInvariance == Spec => []SInv
<1>1. Init => SInv
    BY InitIsSound
<1>2. SInv /\ [Next]_vars => SInv'
    BY StepsAreJudged, StutterIsJudged
<1>3. QED
    BY <1>1, <1>2, PTL DEF Spec

\* The project, the approvals and the record of what invalidated what are
\* typed: every link, approval and invalidation is of objects there are, and
\* what is recorded as invalidated is.
THEOREM SafetyTypeCorrect == Spec => []TypeOK
<1>1. SInv => TypeOK
    BY DEF SInv
<1>2. QED
    BY <1>1, SInvariance, PTL

\* protocol.py: no decision is accepted or resolved against a critical risk
\* or evidence that challenges it, or without the approval that its risks ask
\* for by somebody who knew all that bears on it at that moment.
THEOREM AdoptionsAreJudged == Spec => AdoptedAsJudged
<1>1. SInv /\ [Next]_vars => AdoptsAsJudged
    BY StepsAreJudged, StutterIsJudged
<1>2. QED
    BY <1>1, SInvariance, PTL DEF Spec, AdoptedAsJudged, AdoptsAsJudged

\* invalidation_candidates.py: a candidate that is applied invalidates an
\* accepted decision only if somebody approved that, knowing all that bears on
\* it at that moment.
THEOREM FallsAreJudged == Spec => FallsAsJudged
<1>1. SInv /\ [Next]_vars => LetsFallAsJudged
    BY StepsAreJudged, StutterIsJudged
<1>2. QED
    BY <1>1, SInvariance, PTL DEF Spec, FallsAsJudged, LetsFallAsJudged

\* validate.py, which follows invalidated_by: from every invalidated decision
\* it leads to one that is accepted or resolved.
THEOREM InvalidationStaysGrounded == Spec => []InvalidationIsGrounded
<1>1. ASSUME SInv PROVE InvalidationIsGrounded
    <2> SUFFICES ASSUME NEW d \in Recorded, TypeOf(d) = "decision", p.status[d] = "invalidated"
                 PROVE  \E r \in Recorded : p.status[r] \in Adopted /\ << d, r >> \in Chain(invalidatedBy)
        BY DEF InvalidationIsGrounded
    <2>1. LeadsToStanding(d)
        BY <1>1 DEF SInv, FallsAreGrounded, RecordedDecisions
    <2>2. PICK k \in 1..Cardinality(Fallen) : \E path \in [0..k -> RecordedDecisions] :
              path[0] = d /\ p.status[path[k]] \in Adopted /\ IsPath(path, k, invalidatedBy)
        BY <2>1 DEF LeadsToStanding
    <2> PICK path \in [0..k -> RecordedDecisions] :
              path[0] = d /\ p.status[path[k]] \in Adopted /\ IsPath(path, k, invalidatedBy)
        BY <2>2
    <2> DEFINE into == {e[2] : e \in invalidatedBy}
               nodes == Fallen \cup into
    <2>3. IsFiniteSet(invalidatedBy) /\ invalidatedBy \in SUBSET (RecordedDecisions \X RecordedDecisions)
        BY <1>1 DEF SInv, FallsAreGrounded
    <2>4. [e \in invalidatedBy |-> e[1]] \in Surjection(invalidatedBy, Fallen)
          /\ [e \in invalidatedBy |-> e[2]] \in Surjection(invalidatedBy, into)
        BY DEF Surjection, Fallen
    <2>5. IsFiniteSet(Fallen) /\ IsFiniteSet(into)
        <3> HIDE DEF into
        <3>1. QED
            BY <2>3, <2>4, FS_Surjection
    <2>6. /\ Cardinality(Fallen) \in Nat /\ Cardinality(nodes) \in Nat
          /\ Cardinality(Fallen) <= Cardinality(nodes)
        <3> HIDE DEF into
        <3>1. IsFiniteSet(nodes) /\ Fallen \subseteq nodes
            BY <2>5, FS_Union
        <3> HIDE DEF nodes
        <3>2. QED
            BY <2>5, <3>1, FS_Subset, FS_CardinalityType
    <2>7. k \in Nat /\ k # 0 /\ k <= Cardinality(nodes) + 1 /\ k \in 0..k
        <3> HIDE DEF nodes
        <3>1. QED
            BY <2>6
    <2>8. << path[0], path[k] >> \in Chain(invalidatedBy)
        <3>1. nodes = {e[1] : e \in invalidatedBy} \cup {e[2] : e \in invalidatedBy}
            BY DEF Fallen
        <3> HIDE DEF nodes
        <3>2. QED
            BY <2>3, <2>7, <3>1, ChainFindsPaths
    <2>9. path[k] \in Recorded
        BY <2>7 DEF RecordedDecisions
    <2>10. QED
        BY <2>8, <2>9
<1>2. QED
    BY <1>1, SInvariance, PTL
=============================================================================
