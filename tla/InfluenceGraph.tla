---------------------------- MODULE InfluenceGraph ----------------------------
(***************************************************************************)
(* The Decision Stack Graph as the impact analysis reads it                *)
(* (decide_me/graph_traversal.py, impact_analysis.py and the candidate     *)
(* rules of invalidation_candidates.py).                                   *)
(*                                                                         *)
(* A link is [from, relation, to]; its id is the link itself.  A node is   *)
(* any object; what the analysis reads of it is its type and its status,   *)
(* so every operator takes a graph g == [links, type, status].             *)
(* Wording, layers and recommended actions are left out.  The smallest     *)
(* link id, which breaks ties, is an arbitrary but fixed choice.           *)
(***************************************************************************)
EXTENDS Integers, FiniteSets

INFLUENCE_REVERSED_RELATIONS ==
    {"depends_on", "blocked_by", "requires", "addresses", "accepts",
     "derived_from", "verifies"}

HIGH_RELATIONS ==
    {"invalidates", "constrains", "requires", "depends_on", "blocked_by",
     "accepts", "challenges", "supersedes"}

MEDIUM_RELATIONS ==
    {"addresses", "supports", "verifies", "mitigates", "derived_from",
     "enables", "recommends"}

(* A changed object influences the far end of the link, or the near end    *)
(* when the relation is reversed.                                          *)
Oriented(l) ==
    IF l.relation \in INFLUENCE_REVERSED_RELATIONS THEN << l.to, l.from >> ELSE << l.from, l.to >>

Source(l) == Oriented(l)[1]

Target(l) == Oriented(l)[2]

OutLinks(links, n) == {l \in links : Source(l) = n}

(* The objects within d links of the root, and how far each one is.        *)
Within(links, root, d) ==
    LET within[n \in 0 .. d] ==
            IF n = 0 THEN {root}
            ELSE within[n - 1] \cup {Target(l) : l \in {k \in links : Source(k) \in within[n - 1]}}
    IN  within[d]

Distance(links, root, o, d) ==
    CHOOSE n \in 0 .. d : /\ o \in Within(links, root, n)
                          /\ \A m \in 0 .. n - 1 : o \notin Within(links, root, m)

(* One record for every link out of an object nearer than d, to visited    *)
(* objects too but never back to the root.                                 *)
WalkRecords(links, root, d) ==
    IF d = 0 THEN {}
    ELSE {[object |-> Target(l), link |-> l, distance |-> Distance(links, root, Source(l), d) + 1] :
            l \in {k \in links : Source(k) \in Within(links, root, d - 1) /\ Target(k) # root}}

Descendants(links, root, d) == {r.object : r \in WalkRecords(links, root, d)}

-----------------------------------------------------------------------------
(* Impact.  Severities are ranks: 1 low, 2 medium, 3 high.                 *)

RelationSeverity(relation) ==
    IF relation \in HIGH_RELATIONS THEN 3 ELSE IF relation \in MEDIUM_RELATIONS THEN 2 ELSE 1

ObjectSeverity(type, status) ==
    IF type = "decision" THEN (IF status = "accepted" THEN 3 ELSE 2)
    ELSE IF type \in {"action", "verification", "evidence", "risk"} THEN 2 ELSE 1

Severity(g, r) ==
    LET o == ObjectSeverity(g.type[r.object], g.status[r.object])
        k == RelationSeverity(r.link.relation)
    IN  IF o >= k THEN o ELSE k

IsStronger(g, r, s) ==
    \/ Severity(g, r) > Severity(g, s)
    \/ Severity(g, r) = Severity(g, s) /\ r.distance < s.distance

(* analyze_impact: the strongest record of every object that is not        *)
(* invalidated; invalidated objects are walked through.                    *)
AffectedObjects(g, root, d) ==
    LET kept == {r \in WalkRecords(g.links, root, d) : g.status[r.object] # "invalidated"}
        strongest(o) == {r \in kept : /\ r.object = o
                                      /\ ~ \E s \in kept : s.object = o /\ IsStronger(g, s, r)}
    IN  {LET r == CHOOSE r \in strongest(o) : TRUE
         IN  [object |-> o, via |-> r.link, distance |-> r.distance, severity |-> Severity(g, r)] :
            o \in {r.object : r \in kept}}

-----------------------------------------------------------------------------
(* Invalidation candidates.                                                *)

HasLiveDownstreamVerification(g, o, d) ==
    \E v \in Descendants(g.links, o, d) :
        g.status[v] # "invalidated" /\ g.type[v] \in {"verification", "evidence"}

CanInvalidateDecision_AnyStatus(g, root) == g.type[root] = "decision"

CanInvalidateDecision(g, root) ==
    g.type[root] = "decision" /\ g.status[root] \in {"accepted", "resolved-by-evidence"}

CandidateKinds(g, root, change, d, a) ==
    LET type == g.type[a.object]
        accepted == g.status[a.object] = "accepted"
    IN  CASE type = "decision" ->
                IF accepted /\ change = "invalidated" THEN {"invalidate"}
                ELSE IF accepted /\ change = "superseded" THEN {"supersede"}
                ELSE IF accepted /\ a.severity = 3 THEN {"revalidate"}
                ELSE {"review"}
          [] type = "action" ->
                {"revise"}
                \cup (IF g.type[root] = "decision" /\ change = "invalidated" THEN {"invalidate"} ELSE {})
                \cup (IF HasLiveDownstreamVerification(g, a.object, IF d > a.distance THEN d - a.distance ELSE 0)
                      THEN {} ELSE {"add_verification"})
          [] type = "verification" -> {"revalidate"}
          [] type = "evidence" -> IF change = "evidence_retracted" THEN {"invalidate"} ELSE {"revalidate"}
          [] type = "risk" -> IF a.via.relation = "mitigates" THEN {"revalidate"} ELSE {"review"}
          [] type = "revisit_trigger" -> {"update_revisit_trigger"}
          [] OTHER -> {"review"}

(* The id is what the digest of the code hashes.                           *)
CandidateId(root, change, a, kind) ==
    [root |-> root, change |-> change, target |-> a.object, kind |-> kind, via |-> a.via]

(* proposed_events is not empty.                                           *)
IsMaterialized(g, root, target, kind) ==
    \/ kind = "add_verification"
    \/ kind = "invalidate" /\ (g.type[target] = "decision" => CanInvalidateDecision(g, root))
    \/ kind = "supersede" /\ CanInvalidateDecision(g, root)

(* generate_invalidation_candidates                                        *)
InvalidationCandidates(g, root, change, d, includeLow) ==
    UNION {{[id |-> CandidateId(root, change, a, kind), target |-> a.object, kind |-> kind,
             severity |-> a.severity, materialized |-> IsMaterialized(g, root, a.object, kind)] :
                kind \in CandidateKinds(g, root, change, d, a)} :
           a \in {b \in AffectedObjects(g, root, d) : includeLow \/ b.severity > 1}}
=============================================================================
