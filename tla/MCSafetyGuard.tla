---------------------------- MODULE MCSafetyGuard ----------------------------
(* Instances of SafetyGuard.  Decisions d0 .. d2,  an action a1, evidence  *)
(* e1 (good until time 0) and e2 (weak), an assumption s1 that expires,    *)
(* and risks: r1 from a reply, r2 high (human review), r3 critical and r4  *)
(* medium (explicit acceptance) from drafts.                               *)
EXTENDS SafetyGuard, Sequences, TLC

CONSTANTS d0, d1, d2, a1, e1, e2, s1, r1, r2, r3, r4

Decision(rev, pack) ==
    [type |-> "decision", reversibility |-> rev, pack |-> pack,
     required |-> IF pack THEN {[kind |-> "trial", confidence |-> 2, freshness |-> "current"]} ELSE {}]
EvidenceMeta(confidence, until, kind) ==
    [type |-> "evidence", confidence |-> confidence, freshness |-> "current", validUntil |-> until, kind |-> kind]
RiskMeta(tier, threshold, kind, source) ==
    [type |-> "risk", tier |-> tier, threshold |-> threshold, reversibility |-> 2, mitigations |-> {},
     kind |-> kind, source |-> source]

AllMeta ==
    d0 :> Decision(1, FALSE) @@ d2 :> Decision(1, FALSE) @@ d1 :> Decision(2, TRUE)
    @@ a1 :> [type |-> "action", reversibility |-> 1]
    @@ e1 :> EvidenceMeta(3, 0, "trial") @@ e2 :> EvidenceMeta(1, Never, "survey")
    @@ s1 :> [type |-> "assumption", confidence |-> 2, expires |-> 0]
    @@ r1 :> RiskMeta(2, 1, "privacy", "user-reply")
    @@ r2 :> RiskMeta(3, 2, "safety", "draft") @@ r3 :> RiskMeta(4, 3, "safety", "draft")
    @@ r4 :> RiskMeta(2, 1, "privacy", "draft")

MCMeta == [o \in {d0, d1, d2, a1, e1, e2, s1, r1, r2, r3, r4} |-> AllMeta[o]]

MCDomainRules == {[kinds |-> {"privacy"}, threshold |-> 2]}

Lk(x, r, y) == [from |-> x, relation |-> r, to |-> y]

(* d1 comes with a draft risk, or is there, challenged by one and resting  *)
(* on an assumption; d0 has no domain pack.                                *)
Adopting(status, links) ==
    [status |-> status, links |-> links,
     objects |-> {d0, d1, e1, e2, s1, r1, r2, r3, r4},
     linkable |-> {Lk(e2, "supports", d0), Lk(e1, "supports", d1), Lk(e2, "challenges", d1), Lk(e2, "supports", d1)},
     resolving |-> {e1, e2}, changes |-> {}, approvable |-> {d1}, maxObjects |-> 5]

AdoptionProjects ==
    << Adopting(d0 :> "proposed" @@ r4 :> "open", {Lk(r4, "challenges", d0)}),
       Adopting(s1 :> "active", {}),
       Adopting(d1 :> "proposed" @@ r2 :> "open" @@ s1 :> "active",
                {Lk(r2, "challenges", d1), Lk(d1, "derived_from", s1)}) >>

(* d1, accepted, rests on d0, which is accepted, and a1 carries out d1; or *)
(* d0 rests on d2, which is accepted or open.                              *)
Falling(status, links) ==
    [status |-> status, links |-> links,
     objects |-> {d0, d1, d2, a1, e1, e2, r4},
     linkable |-> {Lk(e1, "supports", d1), Lk(e2, "verifies", a1)},
     resolving |-> {}, changes |-> {"invalidated", "superseded"},
     approvable |-> {d0, d1, a1}, maxObjects |-> 7]

FallProjects ==
    << Falling(d0 :> "accepted" @@ d1 :> "accepted" @@ a1 :> "planned" @@ r4 :> "open",
               {Lk(d1, "depends_on", d0), Lk(a1, "addresses", d1), Lk(r4, "challenges", d1)}),
       Falling(d0 :> "accepted" @@ d1 :> "accepted" @@ d2 :> "accepted",
               {Lk(d1, "depends_on", d0), Lk(d0, "depends_on", d2)}),
       Falling(d0 :> "accepted" @@ d2 :> "unresolved", {Lk(d0, "depends_on", d2)}) >>

MCProjects == AdoptionProjects \o FallProjects
=============================================================================
