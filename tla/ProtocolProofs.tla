---------------------------- MODULE ProtocolProofs ----------------------------
(*****************************************************************************)
(* What the decision protocol guarantees, and what stands on it, for any     *)
(* sessions, decisions, proposals and evidence.                              *)
(*                                                                           *)
(* The validator's rules hold after every step because transact refuses      *)
(* what breaks them.  The proofs use no property of the graph closures the   *)
(* rules mention (IsSessionDecision, Superseders): the properties hold       *)
(* whichever decisions a session's links lead to.                            *)
(*                                                                           *)
(* The plan of generate_plan stays true whatever happens between reading     *)
(* the runtime, exporting the plan and recording it.  A plan is computed     *)
(* from the summaries of closed sessions, which are frozen, and from the     *)
(* statuses of the decisions they list, which the validator pins.  What has  *)
(* to be shown is that nothing else gets into it: an "accepts" link of a     *)
(* summary belongs to a decision that was accepted when the session was      *)
(* closed, and an action to a decision that the summary lists.               *)
(*                                                                           *)
(* A turn of advance-session or handle-reply is shown to be a sequence of    *)
(* protocol steps; what it adds is that what a turn remembers from one step  *)
(* to the next - its decision, the decisions it found, the reply - is still  *)
(* there.                                                                    *)
(*****************************************************************************)
EXTENDS Planner, Interview, RecursionProofs, FiniteSetTheorems, TLAPS
-----------------------------------------------------------------------------
(*****************************************************************************)
(* The decision protocol.                                                    *)
(*****************************************************************************)

\* A proposal is about one decision.
OneTarget ==
    \A p \in Proposals, d, e \in Decisions :
        Addresses(p, d) /\ Addresses(p, e) => d = e

\* A proposal id that is not drawn yet has no links.
UndrawnUnlinked ==
    \A p \in Proposals, d \in Decisions : Addresses(p, d) => status[p] # "absent"

\* Only an active session has an open question.
AskingIsActive == \A s \in Sessions : asked[s] # None => phase[s] = "active"

\* As long as no transaction has come after an open question, the decisions are
\* as they were when it was asked.
ShownIsCurrent ==
    \A s \in Sessions :
        asked[s] # None /\ asked[s] \in current =>
            shown[s] = [d \in Decisions |-> status[d]]

IInv ==
    /\ TypeOK
    /\ BundleIsValid
    /\ OneTarget
    /\ UndrawnUnlinked
    /\ AskingIsActive
    /\ OrphanIsMoot
    /\ AcceptedByOneProposal
    /\ ShownIsCurrent

-----------------------------------------------------------------------------
LEMMA LinkIsInjective ==
    \A r, x, y, q, v, w :
        Link(r, x, y) = Link(q, v, w) <=> r = q /\ x = v /\ y = w
BY DEF Link

\* What the open question of a session is about.
LEMMA OpenQuestion ==
    ASSUME IInv, NEW s \in Sessions, asked[s] # None
    PROVE  /\ asked[s] \in Proposals /\ origin[asked[s]] = s
           /\ status[asked[s]] = "active"
           /\ \E d \in Decisions : Addresses(asked[s], d) /\ status[d] = "proposed"
           /\ \A d \in Decisions : Addresses(asked[s], d) => status[d] = "proposed"
BY DEF IInv, TypeOK, BundleIsValid, QuestionIsValid, OneTarget

\* A reply can only be for the open question of the session, and no other
\* active proposal is about its decision.
LEMMA ReplyIsToOpenQuestion ==
    ASSUME IInv, NEW s \in Sessions, NEW d \in Decisions, NEW p \in Proposals,
           ReplyTarget(s, d, p)
    PROVE  /\ asked[s] = p
           /\ \A q \in Proposals : status[q] = "active" /\ Addresses(q, d) => q = p
<1>1. PICK t \in Sessions : asked[t] = p
    BY DEF IInv, OrphanIsMoot, ReplyTarget
<1>2. p # None
    BY ProtocolAssumption DEF Objects
<1>3. t = s
    BY <1>1, <1>2, OpenQuestion DEF ReplyTarget
<1>4. PICK r \in Proposals :
          { q \in Proposals : status[q] = "active" /\ Addresses(q, d) } = {r}
    BY DEF IInv, BundleIsValid, DecisionIsValid, ReplyTarget
<1>5. QED
    BY <1>1, <1>3, <1>4 DEF ReplyTarget

\* A session that may turn to decision d asks about d or about nothing.
LEMMA AsksOnlyAbout ==
    ASSUME IInv, NEW s \in Sessions, NEW d \in Decisions,
           NoOtherActiveProposal(s, d), asked[s] # None
    PROVE  /\ asked[s] \in Proposals /\ status[asked[s]] = "active"
           /\ Addresses(asked[s], d) /\ status[d] = "proposed"
           /\ \A e \in Decisions : Addresses(asked[s], e) => e = d
BY OpenQuestion DEF NoOtherActiveProposal, IInv, OneTarget

LEMMA InitInvariant == Init => IInv
<1> SUFFICES ASSUME Init PROVE IInv
    OBVIOUS
<1>1. TypeOK
    BY DEF Init, TypeOK, EmptySummary, Objects, DecisionStatuses, ProposalStatuses
<1>2. BundleIsValid
    BY DEF Init, BundleIsValid, QuestionIsValid, SummaryIsValid, DecisionIsValid,
           IsBound, EmptySummary, Objects
<1>3. OneTarget /\ UndrawnUnlinked /\ OrphanIsMoot
    BY DEF Init, OneTarget, UndrawnUnlinked, OrphanIsMoot, Addresses
<1>4. AcceptedByOneProposal
    BY DEF Init, AcceptedByOneProposal, Objects
<1>5. AskingIsActive /\ ShownIsCurrent
    BY DEF Init, AskingIsActive, ShownIsCurrent
<1>6. QED
    BY <1>1, <1>2, <1>3, <1>4, <1>5 DEF IInv

-----------------------------------------------------------------------------
(***************************************************************************)
(* What a step that accepts nothing, or that asks nothing, has to respect. *)
(***************************************************************************)
LEMMA AcceptancesKept ==
    ASSUME IInv, links \subseteq links',
           \A q \in Proposals, e \in Decisions :
               status'[q] = "accepted" /\ Addresses(q, e)'
                   <=> status[q] = "accepted" /\ Addresses(q, e),
           \A e \in Decisions :
               \/ status'[e] \in {status[e], "invalidated"}
               \/ status[e] \notin {"accepted", "invalidated"} /\ status'[e] # "accepted"
    PROVE  AcceptedByOneProposal'
<1> SUFFICES ASSUME NEW e \in Decisions
             PROVE  LET accepted == { q \in Proposals :
                                        status'[q] = "accepted" /\ Addresses(q, e)' }
                    IN  /\ status'[e] = "accepted" =>
                              \E q \in accepted : /\ accepted = {q}
                                                  /\ Link("accepts", e, q) \in links'
                        /\ status'[e] \notin {"accepted", "invalidated"} => accepted = {}
    BY DEF AcceptedByOneProposal
<1>1. { q \in Proposals : status'[q] = "accepted" /\ Addresses(q, e)' }
          = { q \in Proposals : status[q] = "accepted" /\ Addresses(q, e) }
    OBVIOUS
<1>2. QED
    BY <1>1 DEF IInv, AcceptedByOneProposal

LEMMA OrphansStayMoot ==
    ASSUME IInv,
           \A q \in Proposals, e \in Decisions :
               status'[q] = "active" /\ Addresses(q, e)'
                   => status[q] = "active" /\ Addresses(q, e),
           \A e \in Decisions :
               status[e] \in {"resolved-by-evidence", "invalidated"}
                   => status'[e] \in {"resolved-by-evidence", "invalidated"},
           \A t \in Sessions, e \in Decisions :
               asked[t] \in Proposals /\ status'[asked[t]] = "active"
               /\ Addresses(asked[t], e)
                   => \/ asked'[t] = asked[t]
                      \/ status'[e] \in {"resolved-by-evidence", "invalidated"}
    PROVE  OrphanIsMoot'
BY DEF IInv, OrphanIsMoot

LEMMA TargetsKept ==
    ASSUME IInv,
           \A q \in Proposals, e \in Decisions : Addresses(q, e)' <=> Addresses(q, e),
           \A q \in Proposals : status'[q] = "absent" => status[q] = "absent"
    PROVE  OneTarget' /\ UndrawnUnlinked'
BY DEF IInv, OneTarget, UndrawnUnlinked

-----------------------------------------------------------------------------
(***************************************************************************)
(* Every operation preserves the invariant.                                *)
(***************************************************************************)
LEMMA CreateSessionStep ==
    ASSUME IInv, NEW s \in Sessions, CreateSession(s)
    PROVE  IInv'
<1>1. TypeOK'
    BY DEF CreateSession, IInv, TypeOK, MoveHead
<1>2. OneTarget' /\ UndrawnUnlinked' /\ OrphanIsMoot' /\ AcceptedByOneProposal'
    BY DEF CreateSession, IInv, OneTarget, UndrawnUnlinked, OrphanIsMoot,
           AcceptedByOneProposal, Addresses
<1>3. AskingIsActive' /\ ShownIsCurrent'
    BY DEF CreateSession, IInv, TypeOK, AskingIsActive, ShownIsCurrent, MoveHead
<1>4. QED
    BY <1>1, <1>2, <1>3 DEF CreateSession, IInv

LEMMA DiscoverDecisionStep ==
    ASSUME IInv, NEW s \in Sessions, NEW d \in Decisions, DiscoverDecision(s, d)
    PROVE  IInv'
<1>1. PICK st \in DISCOVERABLE_DECISION_STATUSES : status' = [status EXCEPT ![d] = st]
    BY DEF DiscoverDecision
<1>2. d \notin Proposals /\ d \in Objects
    BY ProtocolAssumption DEF Objects
<1>3. TypeOK'
    BY <1>1, <1>2, ProtocolAssumption
       DEF DiscoverDecision, IInv, TypeOK, MoveHead, Touch, DecisionStatuses,
           DISCOVERABLE_DECISION_STATUSES
<1>4. \A x \in Objects : x # d => status'[x] = status[x]
    BY <1>1 DEF IInv, TypeOK
<1>5. status'[d] \in {"unresolved", "blocked"}
    BY <1>1, <1>2 DEF IInv, TypeOK, DISCOVERABLE_DECISION_STATUSES
<1>6. \A p \in Proposals : status'[p] = status[p]
    BY <1>2, <1>4 DEF Objects
<1>7. OneTarget' /\ UndrawnUnlinked'
    BY <1>6 DEF DiscoverDecision, IInv, OneTarget, UndrawnUnlinked, Addresses
<1>8. OrphanIsMoot'
    BY <1>4, <1>6 DEF DiscoverDecision, IInv, OrphanIsMoot, Addresses, Objects
<1>9. AcceptedByOneProposal'
    BY <1>4, <1>5, <1>6
       DEF DiscoverDecision, IInv, AcceptedByOneProposal, Addresses, Objects
<1>10. AskingIsActive' /\ ShownIsCurrent'
    BY DEF DiscoverDecision, IInv, AskingIsActive, ShownIsCurrent, MoveHead
<1>11. QED
    BY <1>3, <1>7, <1>8, <1>9, <1>10 DEF DiscoverDecision, IInv

LEMMA EnrichDecisionStep ==
    ASSUME IInv, NEW s \in Sessions, NEW d \in Decisions, EnrichDecision(s, d)
    PROVE  IInv'
<1>1. TypeOK'
    BY DEF EnrichDecision, IInv, TypeOK, MoveHead
<1>2. OneTarget' /\ UndrawnUnlinked' /\ OrphanIsMoot' /\ AcceptedByOneProposal'
    BY DEF EnrichDecision, IInv, OneTarget, UndrawnUnlinked, OrphanIsMoot,
           AcceptedByOneProposal, Addresses
<1>3. AskingIsActive' /\ ShownIsCurrent'
    BY DEF EnrichDecision, IInv, AskingIsActive, ShownIsCurrent, MoveHead
<1>4. QED
    BY <1>1, <1>2, <1>3 DEF EnrichDecision, IInv

LEMMA IssueProposalStep ==
    ASSUME IInv, NEW s \in Sessions, NEW d \in Decisions, NEW p \in Proposals,
           IssueProposal(s, d, p)
    PROVE  IInv'
<1>1. d \in Objects /\ p \in Objects /\ d \notin Proposals /\ p \notin Decisions
      /\ p # None
    BY ProtocolAssumption DEF Objects
<1>2. asked[s] = None
    BY AsksOnlyAbout DEF IssueProposal, PROPOSABLE_STATUSES
<1>3. /\ status'[d] = "proposed" /\ status'[p] = "active"
      /\ \A x \in Objects : x # d /\ x # p => status'[x] = status[x]
    BY <1>1 DEF IssueProposal, IInv, TypeOK
<1>4. \A q \in Proposals, e \in Decisions :
          Addresses(q, e)' <=> Addresses(q, e) \/ (q = p /\ e = d)
    BY LinkIsInjective DEF IssueProposal, Addresses
<1>5. /\ asked'[s] = p
      /\ \A t \in Sessions : t # s => asked'[t] = asked[t]
    BY DEF IssueProposal, IInv, TypeOK
<1>6. \A e \in Decisions : ~Addresses(p, e)
    BY DEF IssueProposal, IInv, UndrawnUnlinked
<1>7. TypeOK'
    <2>1. shown' \in [Sessions -> [Decisions -> DecisionStatuses] \cup {None}]
        BY <1>1, <1>3 DEF IssueProposal, IInv, TypeOK, DecisionStatuses, Objects
    <2>2. status' \in [Objects -> DecisionStatuses \cup ProposalStatuses]
        BY DEF IssueProposal, IInv, TypeOK, DecisionStatuses, ProposalStatuses
    <2>3. /\ \A e \in Decisions : status'[e] \in DecisionStatuses
          /\ \A q \in Proposals : status'[q] \in ProposalStatuses
        <3>1. "proposed" \in DecisionStatuses /\ "active" \in ProposalStatuses
            BY DEF DecisionStatuses, ProposalStatuses
        <3>2. /\ \A e \in Decisions : status[e] \in DecisionStatuses
              /\ \A q \in Proposals : status[q] \in ProposalStatuses
            BY DEF IInv, TypeOK
        <3>3. \A e \in Decisions : e # p /\ e \in Objects
            BY <1>1 DEF Objects
        <3>4. \A q \in Proposals : q # d /\ q \in Objects
            BY <1>1 DEF Objects
        <3>5. QED
            BY <1>3, <3>1, <3>2, <3>3, <3>4
    <2>4. links' \in SUBSET Links
        <3>1. links' = links \cup {Link("addresses", p, d)} /\ links \in SUBSET Links
            BY DEF IssueProposal, IInv, TypeOK
        <3>2. Link("addresses", p, d) \in Links
            BY DEF Links
        <3>3. QED
            BY <3>1, <3>2
    <2>5. \A t \in Sessions, x \in Objects :
              x \in related'[t] => status'[x] # "absent"
        <3>1. ASSUME NEW t \in Sessions, NEW x \in Objects, x \in related'[t]
              PROVE  x = d \/ x = p \/ x \in related[t]
            BY <3>1 DEF IssueProposal, IInv, TypeOK, Touch
        <3>2. \A t \in Sessions, x \in Objects : x \in related[t] => status[x] # "absent"
            BY DEF IInv, TypeOK
        <3>3. QED
            BY <1>3, <3>1, <3>2
    <2>6. QED
        BY ZenonT(30), <1>1, <2>1, <2>2, <2>3, <2>4, <2>5 DEF IssueProposal, IInv, TypeOK, Touch
<1>8. OneTarget' /\ UndrawnUnlinked'
    BY <1>1, <1>3, <1>4, <1>6 DEF IInv, OneTarget, UndrawnUnlinked, Objects
<1>9. OrphanIsMoot'
    <2> SUFFICES ASSUME NEW q \in Proposals, NEW e \in Decisions,
                        status'[q] = "active", Addresses(q, e)'
                 PROVE  \/ \E t \in Sessions : asked'[t] = q
                        \/ status'[e] \in {"resolved-by-evidence", "invalidated"}
        BY DEF OrphanIsMoot
    <2>1. CASE q = p
        BY <2>1, <1>5
    <2>2. CASE q # p
        <3>1. status[q] = "active" /\ Addresses(q, e) /\ q # None
            BY <2>2, <1>1, <1>3, <1>4, ProtocolAssumption DEF Objects
        <3>2. \/ \E t \in Sessions : asked[t] = q
              \/ status[e] \in {"resolved-by-evidence", "invalidated"}
            BY <3>1 DEF IInv, OrphanIsMoot
        <3>3. CASE \E t \in Sessions : asked[t] = q
            BY <3>1, <3>3, <1>2, <1>5
        <3>4. CASE status[e] \in {"resolved-by-evidence", "invalidated"}
            BY <3>4, <1>1, <1>3 DEF IssueProposal, PROPOSABLE_STATUSES, Objects
        <3>5. QED
            BY <3>2, <3>3, <3>4
    <2>3. QED
        BY <2>1, <2>2
<1>10. AcceptedByOneProposal'
    <2>1. \A q \in Proposals, e \in Decisions :
              status'[q] = "accepted" /\ Addresses(q, e)'
                  <=> status[q] = "accepted" /\ Addresses(q, e)
        BY <1>1, <1>3, <1>4, <1>6 DEF Objects
    <2>2. \A e \in Decisions : e # d => status'[e] = status[e]
        BY <1>1, <1>3 DEF Objects
    <2>3. status[d] \notin {"accepted", "invalidated"} /\ links \subseteq links'
        BY DEF IssueProposal, PROPOSABLE_STATUSES
    <2>4. QED
        BY <2>1, <2>2, <2>3, <1>3, AcceptancesKept
<1>11. AskingIsActive'
    BY <1>5 DEF IssueProposal, IInv, AskingIsActive, Mutable
<1>12. ShownIsCurrent'
    <2>1. \A t \in Sessions : t # s => asked[t] # p
        BY <1>1, OpenQuestion DEF IssueProposal
    <2>2. shown'[s] = [x \in Decisions |-> status'[x]]
        BY DEF IssueProposal, IInv, TypeOK
    <2>3. QED
        BY <1>5, <2>1, <2>2 DEF IssueProposal, ShownIsCurrent
<1>13. QED
    BY <1>7, <1>8, <1>9, <1>10, <1>11, <1>12 DEF IssueProposal, IInv

LEMMA MaterializeDecisionStep ==
    ASSUME IInv, NEW s \in Sessions, NEW d \in Decisions, NEW p \in Proposals,
           NEW supports \in SUBSET Evidence, MaterializeDecision(s, d, p, supports)
    PROVE  IInv'
<1>1. d \in Objects /\ p \in Objects /\ d \notin Proposals /\ p \notin Decisions
      /\ p # None
    BY ProtocolAssumption DEF Objects
<1>2. asked[s] = None
    BY AsksOnlyAbout DEF MaterializeDecision
<1>3. /\ status'[d] = "proposed" /\ status'[p] = "active"
      /\ \A x \in Objects : x # d /\ x # p => status'[x] = status[x]
    BY <1>1 DEF MaterializeDecision, IInv, TypeOK
<1>4. \A q \in Proposals, e \in Decisions :
          Addresses(q, e)' <=> Addresses(q, e) \/ (q = p /\ e = d)
    BY LinkIsInjective DEF MaterializeDecision, Addresses
<1>5. /\ asked'[s] = p
      /\ \A t \in Sessions : t # s => asked'[t] = asked[t]
    BY DEF MaterializeDecision, IInv, TypeOK
<1>6. \A e \in Decisions : ~Addresses(p, e)
    BY DEF MaterializeDecision, IInv, UndrawnUnlinked
<1>7. TypeOK'
    <2>1. shown' \in [Sessions -> [Decisions -> DecisionStatuses] \cup {None}]
        BY <1>1, <1>3 DEF MaterializeDecision, IInv, TypeOK, DecisionStatuses, Objects
    <2>2. status' \in [Objects -> DecisionStatuses \cup ProposalStatuses]
        BY DEF MaterializeDecision, IInv, TypeOK, DecisionStatuses, ProposalStatuses
    <2>3. /\ \A e \in Decisions : status'[e] \in DecisionStatuses
          /\ \A q \in Proposals : status'[q] \in ProposalStatuses
        <3>1. "proposed" \in DecisionStatuses /\ "active" \in ProposalStatuses
            BY DEF DecisionStatuses, ProposalStatuses
        <3>2. /\ \A e \in Decisions : status[e] \in DecisionStatuses
              /\ \A q \in Proposals : status[q] \in ProposalStatuses
            BY DEF IInv, TypeOK
        <3>3. \A e \in Decisions : e # p /\ e \in Objects
            BY <1>1 DEF Objects
        <3>4. \A q \in Proposals : q # d /\ q \in Objects
            BY <1>1 DEF Objects
        <3>5. QED
            BY <1>3, <3>1, <3>2, <3>3, <3>4
    <2>4. links' \in SUBSET Links
        <3>1. /\ links' = links \cup {Link("addresses", p, d)}
                               \cup {Link("supports", e, d) : e \in supports}
              /\ links \in SUBSET Links
            BY DEF MaterializeDecision, IInv, TypeOK
        <3>2. Link("addresses", p, d) \in Links /\ \A e \in supports : Link("supports", e, d) \in Links
            BY DEF Links
        <3>3. QED
            BY <3>1, <3>2
    <2>5. \A t \in Sessions, x \in Objects :
              x \in related'[t] => status'[x] # "absent"
        <3>1. ASSUME NEW t \in Sessions, NEW x \in Objects, x \in related'[t]
              PROVE  x = d \/ x = p \/ x \in supports \/ x \in related[t]
            BY <3>1 DEF MaterializeDecision, IInv, TypeOK, Touch
        <3>2. \A t \in Sessions, x \in Objects : x \in related[t] => status[x] # "absent"
            BY DEF IInv, TypeOK
        <3>3. \A x \in supports : status[x] # "absent"
            BY DEF MaterializeDecision
        <3>4. QED
            BY <1>3, <3>1, <3>2, <3>3
    <2>6. related' \in [Sessions -> SUBSET Objects]
        <3>1. {d, p} \cup supports \subseteq Objects
            BY <1>1 DEF Objects
        <3>2. QED
            BY <3>1 DEF MaterializeDecision, IInv, TypeOK, Touch
    <2>7. QED
        BY ZenonT(30), <1>1, <2>1, <2>2, <2>3, <2>4, <2>5, <2>6 DEF MaterializeDecision, IInv, TypeOK
<1>8. OneTarget' /\ UndrawnUnlinked'
    BY <1>1, <1>3, <1>4, <1>6 DEF IInv, OneTarget, UndrawnUnlinked, Objects
<1>9. OrphanIsMoot'
    <2> SUFFICES ASSUME NEW q \in Proposals, NEW e \in Decisions,
                        status'[q] = "active", Addresses(q, e)'
                 PROVE  \/ \E t \in Sessions : asked'[t] = q
                        \/ status'[e] \in {"resolved-by-evidence", "invalidated"}
        BY DEF OrphanIsMoot
    <2>1. CASE q = p
        BY <2>1, <1>5
    <2>2. CASE q # p
        <3>1. status[q] = "active" /\ Addresses(q, e) /\ q # None
            BY <2>2, <1>1, <1>3, <1>4, ProtocolAssumption DEF Objects
        <3>2. \/ \E t \in Sessions : asked[t] = q
              \/ status[e] \in {"resolved-by-evidence", "invalidated"}
            BY <3>1 DEF IInv, OrphanIsMoot
        <3>3. CASE \E t \in Sessions : asked[t] = q
            BY <3>1, <3>3, <1>2, <1>5
        <3>4. CASE status[e] \in {"resolved-by-evidence", "invalidated"}
            BY <3>4, <1>1, <1>3 DEF MaterializeDecision, Objects
        <3>5. QED
            BY <3>2, <3>3, <3>4
    <2>3. QED
        BY <2>1, <2>2
<1>10. AcceptedByOneProposal'
    <2>1. \A q \in Proposals, e \in Decisions :
              status'[q] = "accepted" /\ Addresses(q, e)'
                  <=> status[q] = "accepted" /\ Addresses(q, e)
        BY <1>1, <1>3, <1>4, <1>6 DEF Objects
    <2>2. \A e \in Decisions : e # d => status'[e] = status[e]
        BY <1>1, <1>3 DEF Objects
    <2>3. status[d] \notin {"accepted", "invalidated"} /\ links \subseteq links'
        BY DEF MaterializeDecision
    <2>4. QED
        BY <2>1, <2>2, <2>3, <1>3, AcceptancesKept
<1>11. AskingIsActive'
    BY <1>5 DEF MaterializeDecision, IInv, AskingIsActive, Mutable
<1>12. ShownIsCurrent'
    <2>1. \A t \in Sessions : t # s => asked[t] # p
        BY <1>1, OpenQuestion DEF MaterializeDecision
    <2>2. shown'[s] = [x \in Decisions |-> status'[x]]
        BY DEF MaterializeDecision, IInv, TypeOK
    <2>3. QED
        BY <1>5, <2>1, <2>2 DEF MaterializeDecision, ShownIsCurrent
<1>13. QED
    BY <1>7, <1>8, <1>9, <1>10, <1>11, <1>12 DEF MaterializeDecision, IInv

LEMMA AcceptProposalStep ==
    ASSUME IInv, NEW s \in Sessions, NEW d \in Decisions, NEW p \in Proposals,
           NEW mode \in {"ok", "explicit"}, AcceptProposal(s, d, p, mode)
    PROVE  IInv'
<1>1. d \in Objects /\ p \in Objects /\ d \notin Proposals /\ p \notin Decisions
    BY ProtocolAssumption DEF Objects
<1>2. /\ asked[s] = p
      /\ \A q \in Proposals : status[q] = "active" /\ Addresses(q, d) => q = p
    BY ReplyIsToOpenQuestion DEF AcceptProposal
<1>3. /\ status'[d] = "accepted" /\ status'[p] = "accepted"
      /\ \A x \in Objects : x # d /\ x # p => status'[x] = status[x]
    BY <1>1 DEF AcceptProposal, IInv, TypeOK
<1>4. /\ status[d] = "proposed" /\ status[p] = "active" /\ Addresses(p, d)
      /\ d \in related[s] /\ phase[s] = "active"
    BY DEF AcceptProposal, ReplyTarget, Bound, Mutable
<1>5. \A q \in Proposals, e \in Decisions : Addresses(q, e)' <=> Addresses(q, e)
    BY LinkIsInjective DEF AcceptProposal, Addresses
<1>6. /\ asked'[s] = None
      /\ \A t \in Sessions : t # s => asked'[t] = asked[t]
    BY DEF AcceptProposal, ClearQuestion, IInv, TypeOK
<1>7. TypeOK'
    <2>1. status' \in [Objects -> DecisionStatuses \cup ProposalStatuses]
        BY DEF AcceptProposal, IInv, TypeOK, DecisionStatuses, ProposalStatuses
    <2>2. /\ \A e \in Decisions : status'[e] \in DecisionStatuses
          /\ \A q \in Proposals : status'[q] \in ProposalStatuses
        BY <1>1, <1>3 DEF IInv, TypeOK, DecisionStatuses, ProposalStatuses, Objects
    <2>3. links' \in SUBSET Links
        <3>1. links' = links \cup {Link("accepts", d, p)} /\ links \in SUBSET Links
            BY DEF AcceptProposal, IInv, TypeOK
        <3>2. Link("accepts", d, p) \in Links
            BY DEF Links
        <3>3. QED
            BY <3>1, <3>2
    <2>4. \A t \in Sessions, x \in Objects :
              x \in related'[t] => status'[x] # "absent"
        BY <1>1, <1>3 DEF AcceptProposal, IInv, TypeOK, Touch
    <2>5. QED
        BY ZenonT(30), <1>1, <2>1, <2>2, <2>3, <2>4
           DEF AcceptProposal, ClearQuestion, MoveHead, IInv, TypeOK, Touch
<1>8. OneTarget' /\ UndrawnUnlinked'
    BY <1>1, <1>3, <1>5, TargetsKept DEF Objects
<1>9. OrphanIsMoot'
    BY <1>1, <1>2, <1>3, <1>4, <1>5, <1>6, OrphansStayMoot DEF Objects
<1>10. AcceptedByOneProposal'
    <2> SUFFICES ASSUME NEW e \in Decisions
                 PROVE  LET accepted == { q \in Proposals :
                                            status'[q] = "accepted" /\ Addresses(q, e)' }
                        IN  /\ status'[e] = "accepted" =>
                                  \E q \in accepted :
                                     /\ accepted = {q}
                                     /\ Link("accepts", e, q) \in links'
                            /\ status'[e] \notin {"accepted", "invalidated"} =>
                                  accepted = {}
        BY DEF AcceptedByOneProposal
    <2>1. CASE e = d
        <3>1. { q \in Proposals : status[q] = "accepted" /\ Addresses(q, d) } = {}
            BY <1>4 DEF IInv, AcceptedByOneProposal
        <3>2. { q \in Proposals : status'[q] = "accepted" /\ Addresses(q, d)' } = {p}
            BY <3>1, <1>1, <1>3, <1>4, <1>5 DEF Objects
        <3>3. Link("accepts", d, p) \in links'
            BY DEF AcceptProposal
        <3>4. QED
            BY <2>1, <3>2, <3>3, <1>3
    <2>2. CASE e # d
        <3>1. ~Addresses(p, e)
            BY <2>2, <1>4 DEF IInv, OneTarget
        <3>2. { q \in Proposals : status'[q] = "accepted" /\ Addresses(q, e)' }
                  = { q \in Proposals : status[q] = "accepted" /\ Addresses(q, e) }
            BY <3>1, <1>1, <1>3, <1>5 DEF Objects
        <3>3. status'[e] = status[e] /\ links \subseteq links'
            BY <2>2, <1>1, <1>3 DEF AcceptProposal, Objects
        <3>4. QED
            BY <3>2, <3>3 DEF IInv, AcceptedByOneProposal
    <2>3. QED
        BY <2>1, <2>2
<1>11. AskingIsActive' /\ ShownIsCurrent'
    BY <1>6 DEF AcceptProposal, MoveHead, IInv, AskingIsActive, ShownIsCurrent
<1>12. QED
    BY <1>7, <1>8, <1>9, <1>10, <1>11 DEF AcceptProposal, IInv

LEMMA RejectProposalStep ==
    ASSUME IInv, NEW s \in Sessions, NEW d \in Decisions, NEW p \in Proposals,
           RejectProposal(s, d, p)
    PROVE  IInv'
<1>1. d \in Objects /\ p \in Objects /\ d \notin Proposals /\ p \notin Decisions
    BY ProtocolAssumption DEF Objects
<1>2. /\ asked[s] = p
      /\ \A q \in Proposals : status[q] = "active" /\ Addresses(q, d) => q = p
    BY ReplyIsToOpenQuestion DEF RejectProposal
<1>3. /\ status'[d] = "unresolved" /\ status'[p] = "rejected"
      /\ \A x \in Objects : x # d /\ x # p => status'[x] = status[x]
    BY <1>1 DEF RejectProposal, IInv, TypeOK
<1>4. status[d] = "proposed" /\ status[p] = "active" /\ d \in related[s]
    BY DEF RejectProposal, ReplyTarget, Bound
<1>5. \A q \in Proposals, e \in Decisions : Addresses(q, e)' <=> Addresses(q, e)
    BY DEF RejectProposal, Addresses
<1>6. /\ asked'[s] = None
      /\ \A t \in Sessions : t # s => asked'[t] = asked[t]
    BY DEF RejectProposal, ClearQuestion, IInv, TypeOK
<1>7. TypeOK'
    <2>1. /\ \A e \in Decisions : status'[e] \in DecisionStatuses
          /\ \A q \in Proposals : status'[q] \in ProposalStatuses
        BY <1>1, <1>3 DEF IInv, TypeOK, DecisionStatuses, ProposalStatuses, Objects
    <2>2. status' \in [Objects -> DecisionStatuses \cup ProposalStatuses]
        BY DEF RejectProposal, IInv, TypeOK, DecisionStatuses, ProposalStatuses
    <2>3. \A t \in Sessions, x \in Objects :
              x \in related'[t] => status'[x] # "absent"
        BY <1>1, <1>3 DEF RejectProposal, IInv, TypeOK, Touch
    <2>4. QED
        BY ZenonT(30), <1>1, <2>1, <2>2, <2>3
           DEF RejectProposal, ClearQuestion, MoveHead, IInv, TypeOK, Touch
<1>8. OneTarget' /\ UndrawnUnlinked'
    BY <1>1, <1>3, <1>5, TargetsKept DEF Objects
<1>9. OrphanIsMoot'
    BY <1>1, <1>2, <1>3, <1>4, <1>5, <1>6, OrphansStayMoot DEF Objects
<1>10. AcceptedByOneProposal'
    <2>1. links \subseteq links'
        BY DEF RejectProposal
    <2>2. QED
        BY <2>1, <1>1, <1>3, <1>4, <1>5, AcceptancesKept DEF Objects
<1>11. AskingIsActive' /\ ShownIsCurrent'
    BY <1>6 DEF RejectProposal, MoveHead, IInv, AskingIsActive, ShownIsCurrent
<1>12. QED
    BY <1>7, <1>8, <1>9, <1>10, <1>11 DEF RejectProposal, IInv

LEMMA AnswerProposalStep ==
    ASSUME IInv, NEW s \in Sessions, NEW d \in Decisions, NEW p \in Proposals,
           NEW r \in Proposals, AnswerProposal(s, d, p, r)
    PROVE  IInv'
<1>1. /\ {d, p, r} \subseteq Objects /\ d \notin Proposals
      /\ p \notin Decisions /\ r \notin Decisions
    BY ProtocolAssumption DEF Objects
<1>2. /\ asked[s] = p
      /\ \A q \in Proposals : status[q] = "active" /\ Addresses(q, d) => q = p
    BY ReplyIsToOpenQuestion DEF AnswerProposal
<1>3. /\ status[d] = "proposed" /\ status[p] = "active" /\ Addresses(p, d)
      /\ d \in related[s] /\ status[r] = "absent" /\ r # p
    BY DEF AnswerProposal, ReplyTarget, Bound
<1>4. /\ status'[d] = "accepted" /\ status'[p] = "rejected" /\ status'[r] = "accepted"
      /\ \A x \in Objects : x \notin {d, p, r} => status'[x] = status[x]
    BY <1>1, <1>3 DEF AnswerProposal, IInv, TypeOK
<1>5. \A q \in Proposals, e \in Decisions :
          Addresses(q, e)' <=> Addresses(q, e) \/ (q = r /\ e = d)
    BY LinkIsInjective DEF AnswerProposal, Addresses
<1>6. \A e \in Decisions : ~Addresses(r, e)
    BY <1>3 DEF IInv, UndrawnUnlinked
<1>7. /\ asked'[s] = None
      /\ \A t \in Sessions : t # s => asked'[t] = asked[t]
    BY DEF AnswerProposal, ClearQuestion, IInv, TypeOK
<1>8. TypeOK'
    <2>1. status' \in [Objects -> DecisionStatuses \cup ProposalStatuses]
        BY DEF AnswerProposal, IInv, TypeOK, DecisionStatuses, ProposalStatuses
    <2>2. /\ \A e \in Decisions : status'[e] \in DecisionStatuses
          /\ \A q \in Proposals : status'[q] \in ProposalStatuses
        BY <1>1, <1>4 DEF IInv, TypeOK, DecisionStatuses, ProposalStatuses, Objects
    <2>3. links' \in SUBSET Links
        BY DEF AnswerProposal, IInv, TypeOK, Links
    <2>4. \A t \in Sessions, x \in Objects :
              x \in related'[t] => status'[x] # "absent"
        BY <1>1, <1>4 DEF AnswerProposal, IInv, TypeOK, Touch
    <2>5. QED
        BY <1>1, <2>1, <2>2, <2>3, <2>4
           DEF AnswerProposal, ClearQuestion, MoveHead, IInv, TypeOK, Touch
<1>9. OneTarget' /\ UndrawnUnlinked'
    BY <1>1, <1>4, <1>5, <1>6 DEF IInv, OneTarget, UndrawnUnlinked, Objects
<1>10. OrphanIsMoot'
    BY <1>1, <1>2, <1>3, <1>4, <1>5, <1>7, OrphansStayMoot DEF Objects
<1>11. AcceptedByOneProposal'
    <2> SUFFICES ASSUME NEW e \in Decisions
                 PROVE  LET accepted == { q \in Proposals :
                                            status'[q] = "accepted" /\ Addresses(q, e)' }
                        IN  /\ status'[e] = "accepted" =>
                                  \E q \in accepted :
                                     /\ accepted = {q}
                                     /\ Link("accepts", e, q) \in links'
                            /\ status'[e] \notin {"accepted", "invalidated"} =>
                                  accepted = {}
        BY DEF AcceptedByOneProposal
    <2>1. CASE e = d
        <3>1. { q \in Proposals : status[q] = "accepted" /\ Addresses(q, d) } = {}
            BY <1>3 DEF IInv, AcceptedByOneProposal
        <3>2. { q \in Proposals : status'[q] = "accepted" /\ Addresses(q, d)' } = {r}
            BY <3>1, <1>1, <1>4, <1>5 DEF Objects
        <3>3. Link("accepts", d, r) \in links'
            BY DEF AnswerProposal
        <3>4. QED
            BY <2>1, <3>2, <3>3, <1>4
    <2>2. CASE e # d
        <3>1. ~Addresses(p, e) /\ ~Addresses(r, e)
            BY <2>2, <1>3, <1>6 DEF IInv, OneTarget
        <3>2. { q \in Proposals : status'[q] = "accepted" /\ Addresses(q, e)' }
                  = { q \in Proposals : status[q] = "accepted" /\ Addresses(q, e) }
            BY <2>2, <3>1, <1>1, <1>4, <1>5 DEF Objects
        <3>3. status'[e] = status[e] /\ links \subseteq links'
            BY <2>2, <1>1, <1>4 DEF AnswerProposal, Objects
        <3>4. QED
            BY <3>2, <3>3 DEF IInv, AcceptedByOneProposal
    <2>3. QED
        BY <2>1, <2>2
<1>12. AskingIsActive' /\ ShownIsCurrent'
    BY <1>7 DEF AnswerProposal, MoveHead, IInv, AskingIsActive, ShownIsCurrent
<1>13. QED
    BY <1>8, <1>9, <1>10, <1>11, <1>12 DEF AnswerProposal, IInv

LEMMA DeferDecisionStep ==
    ASSUME IInv, NEW s \in Sessions, NEW d \in Decisions, DeferDecision(s, d)
    PROVE  IInv'
<1>1. d \in Objects /\ d \notin Proposals /\ None \notin Objects
    BY ProtocolAssumption DEF Objects
<1>2. asked[s] # None =>
          /\ asked[s] \in Proposals /\ asked[s] \in Objects /\ asked[s] \notin Decisions
          /\ status[asked[s]] = "active" /\ Addresses(asked[s], d)
          /\ \A e \in Decisions : Addresses(asked[s], e) => e = d
    BY AsksOnlyAbout, ProtocolAssumption DEF DeferDecision, Objects
<1>3. /\ status'[d] = "deferred"
      /\ asked[s] # None => status'[asked[s]] = "inactive"
      /\ \A x \in Objects : x # d /\ x # asked[s] => status'[x] = status[x]
    BY <1>1, <1>2 DEF DeferDecision
<1>4. status[d] \in {"unresolved", "proposed", "blocked"} /\ d \in related[s]
    BY DEF DeferDecision, OPEN_MUTATION_STATUSES, Bound
<1>5. \A q \in Proposals, e \in Decisions : Addresses(q, e)' <=> Addresses(q, e)
    BY DEF DeferDecision, Addresses
<1>6. /\ asked'[s] = None
      /\ \A t \in Sessions : t # s => asked'[t] = asked[t]
    BY DEF DeferDecision, ClearQuestion, IInv, TypeOK
<1>7. TypeOK'
    <2>1. \A x \in Objects :
              status'[x] \in {status[x], "deferred", "inactive"}
        BY <1>1, <1>3
    <2>2. status' \in [Objects -> DecisionStatuses \cup ProposalStatuses]
        BY <2>1 DEF DeferDecision, IInv, TypeOK, DecisionStatuses, ProposalStatuses
    <2>3. /\ \A e \in Decisions : status'[e] \in {status[e], "deferred"}
          /\ \A q \in Proposals : status'[q] \in {status[q], "inactive"}
        BY <1>1, <1>2, <1>3 DEF Objects
    <2>4. \A t \in Sessions, x \in Objects :
              x \in related'[t] => status'[x] # "absent"
        BY <1>1, <1>2, <1>3 DEF DeferDecision, IInv, TypeOK, Touch
    <2>5. related' \in [Sessions -> SUBSET Objects]
        BY <1>1, <1>2 DEF DeferDecision, IInv, TypeOK, Touch
    <2>6. QED
        BY <2>2, <2>3, <2>4, <2>5
           DEF DeferDecision, ClearQuestion, MoveHead, IInv, TypeOK,
               DecisionStatuses, ProposalStatuses
<1>8. OneTarget' /\ UndrawnUnlinked'
    BY <1>1, <1>2, <1>3, <1>5, TargetsKept DEF Objects
<1>9. OrphanIsMoot'
    BY <1>1, <1>2, <1>3, <1>4, <1>5, <1>6, OrphansStayMoot DEF Objects
<1>10. AcceptedByOneProposal'
    <2>1. links \subseteq links'
        BY DEF DeferDecision
    <2>2. \A q \in Proposals : status'[q] = "accepted" <=> status[q] = "accepted"
        BY <1>1, <1>2, <1>3 DEF Objects
    <2>3. \A e \in Decisions : e # d => status'[e] = status[e]
        BY <1>1, <1>2, <1>3 DEF Objects
    <2>4. QED
        BY <2>1, <2>2, <2>3, <1>3, <1>4, <1>5, AcceptancesKept
<1>11. AskingIsActive' /\ ShownIsCurrent'
    BY <1>6 DEF DeferDecision, MoveHead, IInv, AskingIsActive, ShownIsCurrent
<1>12. QED
    BY <1>7, <1>8, <1>9, <1>10, <1>11 DEF DeferDecision, IInv

\* Clearing the question about d leaves every question about something else.
LEMMA QuestionsElsewhereKept ==
    ASSUME IInv, NEW s \in Sessions, NEW d \in Decisions, ClearQuestionAbout(s, d)
    PROVE  /\ asked' \in [Sessions -> Proposals \cup {None}]
           /\ shown' \in [Sessions -> [Decisions -> DecisionStatuses] \cup {None}]
           /\ \A t \in Sessions : asked'[t] \in {asked[t], None}
           /\ \A t \in Sessions, e \in Decisions :
                 asked[t] # None /\ Addresses(asked[t], e) /\ e # d
                     => asked'[t] = asked[t]
<1>1. CASE asked[s] # None /\ Addresses(asked[s], d)
    <2>1. \A e \in Decisions : Addresses(asked[s], e) => e = d
        BY <1>1, OpenQuestion DEF IInv, OneTarget
    <2>2. ClearQuestion(s)
        BY <1>1 DEF ClearQuestionAbout
    <2>3. QED
        BY <2>1, <2>2 DEF ClearQuestion, IInv, TypeOK
<1>2. CASE ~(asked[s] # None /\ Addresses(asked[s], d))
    BY <1>2 DEF ClearQuestionAbout, IInv, TypeOK
<1>3. QED
    BY <1>1, <1>2

LEMMA ResolveByEvidenceStep ==
    ASSUME IInv, NEW s \in Sessions, NEW d \in Decisions, NEW e \in Evidence,
           ResolveByEvidence(s, d, e)
    PROVE  IInv'
<1>1. /\ {d, e} \subseteq Objects /\ d \notin Proposals
      /\ e \notin Decisions /\ e \notin Proposals
    BY ProtocolAssumption DEF Objects
<1>2. /\ status'[d] = "resolved-by-evidence" /\ status'[e] = "active"
      /\ \A x \in Objects : x # d /\ x # e => status'[x] = status[x]
    BY <1>1 DEF ResolveByEvidence, IInv, TypeOK
<1>3. /\ \A q \in Proposals : status'[q] = status[q]
      /\ \A x \in Decisions : x # d => status'[x] = status[x]
    BY <1>1, <1>2 DEF Objects
<1>4. status[d] \in {"unresolved", "proposed", "blocked"} /\ d \in related[s]
    BY DEF ResolveByEvidence, OPEN_MUTATION_STATUSES, Bound
<1>5. \A q \in Proposals, x \in Decisions : Addresses(q, x)' <=> Addresses(q, x)
    BY LinkIsInjective DEF ResolveByEvidence, Addresses
<1>6. /\ asked' \in [Sessions -> Proposals \cup {None}]
      /\ shown' \in [Sessions -> [Decisions -> DecisionStatuses] \cup {None}]
      /\ \A t \in Sessions : asked'[t] \in {asked[t], None}
      /\ \A t \in Sessions, x \in Decisions :
            asked[t] # None /\ Addresses(asked[t], x) /\ x # d => asked'[t] = asked[t]
    BY QuestionsElsewhereKept DEF ResolveByEvidence
<1>7. TypeOK'
    <2>1. status' \in [Objects -> DecisionStatuses \cup ProposalStatuses]
        BY DEF ResolveByEvidence, IInv, TypeOK, DecisionStatuses, ProposalStatuses
    <2>2. /\ \A x \in Decisions : status'[x] \in DecisionStatuses
          /\ \A q \in Proposals : status'[q] \in ProposalStatuses
        BY <1>2, <1>3 DEF IInv, TypeOK, DecisionStatuses
    <2>3. links' \in SUBSET Links
        BY DEF ResolveByEvidence, IInv, TypeOK, Links
    <2>4. \A t \in Sessions, x \in Objects :
              x \in related'[t] => status'[x] # "absent"
        BY <1>1, <1>2 DEF ResolveByEvidence, IInv, TypeOK, Touch
    <2>5. related' \in [Sessions -> SUBSET Objects]
        BY <1>1 DEF ResolveByEvidence, IInv, TypeOK, Touch
    <2>6. QED
        BY <1>6, <2>1, <2>2, <2>3, <2>4, <2>5
           DEF ResolveByEvidence, MoveHead, IInv, TypeOK
<1>8. OneTarget' /\ UndrawnUnlinked'
    BY <1>3, <1>5, TargetsKept
<1>9. OrphanIsMoot'
    <2>1. None \notin Proposals
        BY ProtocolAssumption DEF Objects
    <2>2. QED
        BY <2>1, <1>2, <1>3, <1>4, <1>5, <1>6, OrphansStayMoot
<1>10. AcceptedByOneProposal'
    <2>1. links \subseteq links'
        BY DEF ResolveByEvidence
    <2>2. QED
        BY <2>1, <1>2, <1>3, <1>4, <1>5, AcceptancesKept
<1>11. AskingIsActive' /\ ShownIsCurrent'
    BY <1>6 DEF ResolveByEvidence, MoveHead, IInv, AskingIsActive, ShownIsCurrent
<1>12. QED
    BY <1>7, <1>8, <1>9, <1>10, <1>11 DEF ResolveByEvidence, IInv

LEMMA SupersedeDecisionStep ==
    ASSUME IInv, NEW s \in Sessions, NEW old \in Decisions, NEW new \in Decisions,
           SupersedeDecision(s, old, new)
    PROVE  IInv'
<1>1. old \in Objects /\ new \in Objects /\ old \notin Proposals
    BY ProtocolAssumption DEF Objects
<1>2. /\ status'[old] = "invalidated"
      /\ \A x \in Objects : x # old => status'[x] = status[x]
    BY <1>1 DEF SupersedeDecision, IInv, TypeOK
<1>3. /\ \A q \in Proposals : status'[q] = status[q]
      /\ \A x \in Decisions : x # old => status'[x] = status[x]
    BY <1>1, <1>2 DEF Objects
<1>4. new \in related[s]
    BY DEF SupersedeDecision, Bound
<1>5. \A q \in Proposals, x \in Decisions : Addresses(q, x)' <=> Addresses(q, x)
    BY LinkIsInjective DEF SupersedeDecision, Addresses
<1>6. /\ asked' \in [Sessions -> Proposals \cup {None}]
      /\ shown' \in [Sessions -> [Decisions -> DecisionStatuses] \cup {None}]
      /\ \A t \in Sessions : asked'[t] \in {asked[t], None}
      /\ \A t \in Sessions, x \in Decisions :
            asked[t] # None /\ Addresses(asked[t], x) /\ x # old
                => asked'[t] = asked[t]
    BY QuestionsElsewhereKept DEF SupersedeDecision
<1>7. TypeOK'
    <2>1. status' \in [Objects -> DecisionStatuses \cup ProposalStatuses]
        BY DEF SupersedeDecision, IInv, TypeOK, DecisionStatuses
    <2>2. /\ \A x \in Decisions : status'[x] \in DecisionStatuses
          /\ \A q \in Proposals : status'[q] \in ProposalStatuses
        BY <1>2, <1>3 DEF IInv, TypeOK, DecisionStatuses
    <2>3. links' \in SUBSET Links
        BY DEF SupersedeDecision, IInv, TypeOK, Links
    <2>4. \A t \in Sessions, x \in Objects :
              x \in related'[t] => status'[x] # "absent"
        BY <1>1, <1>2, <1>4 DEF SupersedeDecision, IInv, TypeOK, Touch
    <2>5. related' \in [Sessions -> SUBSET Objects]
        BY <1>1 DEF SupersedeDecision, IInv, TypeOK, Touch
    <2>6. QED
        BY <1>6, <2>1, <2>2, <2>3, <2>4, <2>5
           DEF SupersedeDecision, MoveHead, IInv, TypeOK
<1>8. OneTarget' /\ UndrawnUnlinked'
    BY <1>3, <1>5, TargetsKept
<1>9. OrphanIsMoot'
    <2>1. None \notin Proposals
        BY ProtocolAssumption DEF Objects
    <2>2. QED
        BY <2>1, <1>2, <1>3, <1>5, <1>6, OrphansStayMoot
<1>10. AcceptedByOneProposal'
    <2>1. links \subseteq links'
        BY DEF SupersedeDecision
    <2>2. QED
        BY <2>1, <1>2, <1>3, <1>5, AcceptancesKept
<1>11. AskingIsActive' /\ ShownIsCurrent'
    BY <1>6 DEF SupersedeDecision, MoveHead, IInv, AskingIsActive, ShownIsCurrent
<1>12. QED
    BY <1>7, <1>8, <1>9, <1>10, <1>11 DEF SupersedeDecision, IInv

\* Evidence linked to a decision, by either operation that only records it.
LEMMA EvidenceLinkedStep ==
    ASSUME IInv, NEW s \in Sessions, NEW d \in Decisions, NEW e \in Evidence,
           RecordEvidence(s, d, e) \/ LinkEvidence(s, d, e)
    PROVE  IInv'
<1>1. /\ {d, e} \subseteq Objects /\ e \notin Decisions /\ e \notin Proposals
    BY ProtocolAssumption DEF Objects
<1>2. /\ phase[s] = "active" /\ status[d] # "absent"
      /\ status' = [status EXCEPT ![e] = "active"]
      /\ links' = links \cup { Link("supports", e, d) }
      /\ related' = [related EXCEPT ![s] = @ \cup {d, e}]
      /\ current' = {}
      /\ UNCHANGED << phase, asked, summary, origin, via, shown >>
      /\ BundleIsValid'
    BY DEF RecordEvidence, LinkEvidence, Mutable, Touch, MoveHead,
           OPEN_MUTATION_STATUSES
<1>3. /\ status'[e] = "active"
      /\ \A x \in Objects : x # e => status'[x] = status[x]
    BY <1>1, <1>2 DEF IInv, TypeOK
<1>4. /\ \A q \in Proposals : status'[q] = status[q]
      /\ \A x \in Decisions : status'[x] = status[x]
    BY <1>1, <1>3 DEF Objects
<1>5. \A q \in Proposals, x \in Decisions : Addresses(q, x)' <=> Addresses(q, x)
    BY <1>2, LinkIsInjective DEF Addresses
<1>6. TypeOK'
    <2>1. status' \in [Objects -> DecisionStatuses \cup ProposalStatuses]
        BY <1>2 DEF IInv, TypeOK, DecisionStatuses, ProposalStatuses
    <2>2. links' \in SUBSET Links
        BY <1>2 DEF IInv, TypeOK, Links
    <2>3. \A t \in Sessions, x \in Objects :
              x \in related'[t] => status'[x] # "absent"
        BY <1>1, <1>2, <1>3 DEF IInv, TypeOK
    <2>4. QED
        BY <1>1, <1>2, <1>4, <2>1, <2>2, <2>3 DEF IInv, TypeOK
<1>7. OneTarget' /\ UndrawnUnlinked'
    BY <1>4, <1>5, TargetsKept
<1>8. OrphanIsMoot'
    BY <1>2, <1>4, <1>5, OrphansStayMoot
<1>9. AcceptedByOneProposal'
    BY <1>2, <1>4, <1>5, AcceptancesKept
<1>10. AskingIsActive' /\ ShownIsCurrent'
    BY <1>2 DEF IInv, AskingIsActive, ShownIsCurrent
<1>11. QED
    BY <1>2, <1>6, <1>7, <1>8, <1>9, <1>10 DEF IInv

\* The open question of a session that is resumed or closed is withdrawn, and
\* the decision it was about is unresolved again; nothing else changes status.
LEMMA Boundary ==
    ASSUME IInv, NEW s \in Sessions, status' = StatusAfterBoundary(s)
    PROVE  /\ asked[s] = None => status' = status
           /\ asked[s] # None =>
                /\ status'[asked[s]] = "inactive"
                /\ \A q \in Proposals : q # asked[s] => status'[q] = status[q]
                /\ \A d \in Decisions :
                      status'[d] = IF Addresses(asked[s], d) THEN "unresolved"
                                   ELSE status[d]
                /\ \A e \in Evidence : status'[e] = status[e]
           /\ status' \in [Objects -> DecisionStatuses \cup ProposalStatuses]
<1>1. CASE asked[s] = None
    BY <1>1 DEF StatusAfterBoundary, IInv, TypeOK
<1>2. CASE asked[s] # None
    <2>1. /\ asked[s] \in Proposals
          /\ \A d \in Decisions : Addresses(asked[s], d) => status[d] = "proposed"
        BY <1>2, OpenQuestion
    <2>2. status' = [x \in Objects |->
              IF x = asked[s] THEN "inactive"
              ELSE IF x \in Decisions /\ Addresses(asked[s], x) /\ status[x] = "proposed"
                   THEN "unresolved"
              ELSE status[x]]
        BY <1>2 DEF StatusAfterBoundary
    <2>3. /\ Proposals \subseteq Objects /\ Decisions \subseteq Objects
          /\ Evidence \subseteq Objects
          /\ \A q \in Proposals : q \notin Decisions /\ q \notin Evidence
          /\ \A x \in Evidence : x \notin Decisions
        BY ProtocolAssumption DEF Objects
    <2>4. /\ status'[asked[s]] = "inactive"
          /\ \A q \in Proposals : q # asked[s] => status'[q] = status[q]
        BY <2>1, <2>2, <2>3
    <2>5. \A d \in Decisions :
              status'[d] = IF Addresses(asked[s], d) THEN "unresolved" ELSE status[d]
        BY <2>1, <2>2, <2>3
    <2>6. \A e \in Evidence : status'[e] = status[e]
        BY <2>1, <2>2, <2>3
    <2>7. status' \in [Objects -> DecisionStatuses \cup ProposalStatuses]
        BY <2>2 DEF IInv, TypeOK, DecisionStatuses, ProposalStatuses
    <2>8. QED
        BY <1>2, <2>4, <2>5, <2>6, <2>7
<1>3. QED
    BY <1>1, <1>2

\* What resuming and closing a session have in common.
LEMMA BoundaryStep ==
    ASSUME IInv, NEW s \in Sessions, status' = StatusAfterBoundary(s),
           phase[s] = "active", ClearQuestion(s), MoveHead,
           phase' \in [Sessions -> {"absent", "active", "closed"}],
           \A t \in Sessions : t # s => phase'[t] = phase[t],
           summary' \in [Sessions -> [decisions : SUBSET Decisions,
                                      blockers : SUBSET Decisions]],
           UNCHANGED << related, origin, via, links >>, BundleIsValid'
    PROVE  IInv'
<1>1. None \notin Objects /\ Proposals \subseteq Objects /\ Decisions \subseteq Objects
    BY ProtocolAssumption DEF Objects
<1>2. /\ asked'[s] = None
      /\ \A t \in Sessions : t # s => asked'[t] = asked[t]
    BY DEF ClearQuestion, IInv, TypeOK
<1>3. \A q \in Proposals, d \in Decisions : Addresses(q, d)' <=> Addresses(q, d)
    BY DEF Addresses
<1>4. asked[s] # None =>
          /\ asked[s] \in Proposals /\ status[asked[s]] = "active"
          /\ \A d \in Decisions : Addresses(asked[s], d) => status[d] = "proposed"
    BY OpenQuestion
<1>5. \A q \in Proposals :
          \/ status'[q] = status[q]
          \/ q = asked[s] /\ status[q] = "active" /\ status'[q] = "inactive"
    BY <1>1, <1>4, Boundary
<1>6. \A d \in Decisions :
          \/ status'[d] = status[d]
          \/ status[d] = "proposed" /\ status'[d] = "unresolved"
    BY <1>1, <1>4, Boundary
<1>7. TypeOK'
    <2>1. /\ \A d \in Decisions : status'[d] \in DecisionStatuses
          /\ \A q \in Proposals : status'[q] \in ProposalStatuses
        BY <1>5, <1>6 DEF IInv, TypeOK, DecisionStatuses, ProposalStatuses
    <2>2. \A x \in Objects : status[x] # "absent" => status'[x] # "absent"
        BY <1>5, <1>6, Boundary DEF Objects
    <2>3. QED
        BY ZenonT(30), <2>1, <2>2, Boundary DEF ClearQuestion, MoveHead, IInv, TypeOK
<1>8. OneTarget' /\ UndrawnUnlinked'
    BY <1>3, <1>5, TargetsKept
<1>9. OrphanIsMoot'
    <2>1. asked[s] # None => status'[asked[s]] = "inactive"
        BY Boundary
    <2>2. QED
        BY <2>1, <1>1, <1>2, <1>3, <1>5, <1>6, OrphansStayMoot
<1>10. AcceptedByOneProposal'
    BY <1>3, <1>5, <1>6, AcceptancesKept
<1>11. AskingIsActive' /\ ShownIsCurrent'
    BY <1>2 DEF MoveHead, IInv, AskingIsActive, ShownIsCurrent
<1>12. QED
    BY <1>7, <1>8, <1>9, <1>10, <1>11 DEF IInv

LEMMA ResumeSessionStep ==
    ASSUME IInv, NEW s \in Sessions, ResumeSession(s)
    PROVE  IInv'
BY BoundaryStep DEF ResumeSession, Mutable, IInv, TypeOK

LEMMA CloseSessionStep ==
    ASSUME IInv, NEW s \in Sessions, CloseSession(s)
    PROVE  IInv'
<1>1. SummaryDecisions(s) \subseteq Decisions
    BY DEF SummaryDecisions
<1>2. summary' \in [Sessions -> [decisions : SUBSET Decisions,
                                 blockers : SUBSET Decisions]]
    BY <1>1 DEF CloseSession, IInv, TypeOK
<1>3. QED
    BY <1>2, BoundaryStep DEF CloseSession, Mutable, IInv, TypeOK

LEMMA GeneratePlanStep ==
    ASSUME IInv, NEW s \in Sessions, GeneratePlan(s)
    PROVE  IInv'
<1>1. TypeOK'
    BY DEF GeneratePlan, IInv, TypeOK, MoveHead
<1>2. OneTarget' /\ UndrawnUnlinked' /\ OrphanIsMoot' /\ AcceptedByOneProposal'
    BY DEF GeneratePlan, IInv, OneTarget, UndrawnUnlinked, OrphanIsMoot,
           AcceptedByOneProposal, Addresses
<1>3. AskingIsActive' /\ ShownIsCurrent'
    BY DEF GeneratePlan, IInv, AskingIsActive, ShownIsCurrent, MoveHead
<1>4. QED
    BY <1>1, <1>2, <1>3 DEF GeneratePlan, IInv

LEMMA StutterStep == IInv /\ UNCHANGED vars => IInv'
<1> SUFFICES ASSUME IInv, UNCHANGED vars PROVE IInv'
    OBVIOUS
<1>1. TypeOK'
    BY DEF vars, IInv, TypeOK
<1>2. BundleIsValid'
    BY DEF vars, IInv, BundleIsValid, QuestionIsValid, SummaryIsValid,
           DecisionIsValid, IsBound, IsSessionDecision, HasFinalChain, Addresses
<1>3. OneTarget' /\ UndrawnUnlinked' /\ OrphanIsMoot' /\ AcceptedByOneProposal'
    BY DEF vars, IInv, OneTarget, UndrawnUnlinked, OrphanIsMoot,
           AcceptedByOneProposal, Addresses
<1>4. AskingIsActive' /\ ShownIsCurrent'
    BY DEF vars, IInv, AskingIsActive, ShownIsCurrent
<1>5. QED
    BY <1>1, <1>2, <1>3, <1>4 DEF IInv

-----------------------------------------------------------------------------
LEMMA StepInvariant == IInv /\ [Next]_vars => IInv'
<1> SUFFICES ASSUME IInv, [Next]_vars PROVE IInv'
    OBVIOUS
<1>1. CASE UNCHANGED vars
    BY <1>1, StutterStep
<1>2. ASSUME NEW s \in Sessions,
             \/ CreateSession(s) \/ ResumeSession(s) \/ CloseSession(s)
             \/ GeneratePlan(s)
      PROVE  IInv'
    BY <1>2, CreateSessionStep, ResumeSessionStep, CloseSessionStep,
       GeneratePlanStep
<1>3. ASSUME NEW s \in Sessions, NEW d \in Decisions,
             \/ DiscoverDecision(s, d) \/ EnrichDecision(s, d)
             \/ DeferDecision(s, d)
      PROVE  IInv'
    BY <1>3, DiscoverDecisionStep, EnrichDecisionStep, DeferDecisionStep
<1>4. ASSUME NEW s \in Sessions, NEW d \in Decisions, NEW p \in Proposals,
             \/ IssueProposal(s, d, p) \/ RejectProposal(s, d, p)
             \/ \E supports \in SUBSET Evidence : MaterializeDecision(s, d, p, supports)
             \/ \E mode \in {"ok", "explicit"} : AcceptProposal(s, d, p, mode)
             \/ \E q \in Proposals : AnswerProposal(s, d, p, q)
      PROVE  IInv'
    BY <1>4, IssueProposalStep, MaterializeDecisionStep, RejectProposalStep, AcceptProposalStep,
       AnswerProposalStep
<1>5. ASSUME NEW s \in Sessions, NEW d \in Decisions, NEW e \in Evidence,
             \/ ResolveByEvidence(s, d, e) \/ RecordEvidence(s, d, e)
             \/ LinkEvidence(s, d, e)
      PROVE  IInv'
    BY <1>5, ResolveByEvidenceStep, EvidenceLinkedStep
<1>6. ASSUME NEW s \in Sessions, NEW d \in Decisions, NEW new \in Decisions,
             SupersedeDecision(s, d, new)
      PROVE  IInv'
    BY <1>6, SupersedeDecisionStep
<1>7. QED
    BY <1>1, <1>2, <1>3, <1>4, <1>5, <1>6 DEF Next

\* The invariant of the protocol.
THEOREM Invariance == Spec => []IInv
BY InitInvariant, StepInvariant, PTL DEF Spec

\* The variables of the protocol hold what their comments say.
THEOREM TypeCorrect == Spec => []TypeOK
<1>1. IInv => TypeOK
    BY DEF IInv
<1>2. QED
    BY <1>1, Invariance, PTL

\* A decision that waits for a reply is asked by a session that is not closed.
THEOREM QuestionsCanBeAnswered == Spec => []ProposedIsAnswerable
<1>1. ASSUME IInv PROVE ProposedIsAnswerable
    <2> SUFFICES ASSUME NEW d \in Decisions, status[d] = "proposed"
                 PROVE  \E s \in Sessions : /\ Mutable(s) /\ asked[s] # None
                                            /\ Addresses(asked[s], d)
        BY DEF ProposedIsAnswerable
    <2>1. PICK p \in Proposals : status[p] = "active" /\ Addresses(p, d)
        BY <1>1 DEF IInv, BundleIsValid, DecisionIsValid
    <2>2. PICK s \in Sessions : asked[s] = p
        BY <1>1, <2>1 DEF IInv, OrphanIsMoot
    <2>3. p # None
        BY ProtocolAssumption DEF Objects
    <2>4. QED
        BY <1>1, <2>1, <2>2, <2>3 DEF IInv, AskingIsActive, Mutable
<1>2. QED
    BY <1>1, Invariance, PTL

\* A proposal that outlives its question is about a decision that is decided.
THEOREM OrphansAreMoot == Spec => []OrphanIsMoot
<1>1. IInv => OrphanIsMoot
    BY DEF IInv
<1>2. QED
    BY <1>1, Invariance, PTL

\* An accepted decision accepts exactly one of its proposals.
THEOREM AcceptedOnce == Spec => []AcceptedByOneProposal
<1>1. IInv => AcceptedByOneProposal
    BY DEF IInv
<1>2. QED
    BY <1>1, Invariance, PTL

-----------------------------------------------------------------------------
(***************************************************************************)
(* What a step may never do.                                               *)
(***************************************************************************)

\* Only an undrawn or an active proposal changes status.
LEMMA ProposalMoves ==
    ASSUME IInv, Next, NEW p \in Proposals, status[p] \notin {"absent", "active"}
    PROVE  status'[p] = status[p]
<1>1. p \in Objects /\ p \notin Decisions /\ p \notin Evidence
    BY ProtocolAssumption DEF Objects
<1>2. ASSUME NEW s \in Sessions,
             CreateSession(s) \/ GeneratePlan(s)
      PROVE  status'[p] = status[p]
    BY <1>2 DEF CreateSession, GeneratePlan
<1>3. ASSUME NEW s \in Sessions, ResumeSession(s) \/ CloseSession(s)
      PROVE  status'[p] = status[p]
    BY <1>3, Boundary, OpenQuestion DEF ResumeSession, CloseSession
<1>4. ASSUME NEW s \in Sessions, NEW d \in Decisions,
             DiscoverDecision(s, d) \/ EnrichDecision(s, d)
      PROVE  status'[p] = status[p]
    BY <1>1, <1>4 DEF DiscoverDecision, EnrichDecision, IInv, TypeOK
<1>5. ASSUME NEW s \in Sessions, NEW d \in Decisions, DeferDecision(s, d)
      PROVE  status'[p] = status[p]
    BY <1>1, <1>5, AsksOnlyAbout, ProtocolAssumption DEF DeferDecision, IInv, TypeOK
<1>6. ASSUME NEW s \in Sessions, NEW d \in Decisions, NEW q \in Proposals,
             \/ IssueProposal(s, d, q) \/ RejectProposal(s, d, q)
             \/ \E supports \in SUBSET Evidence : MaterializeDecision(s, d, q, supports)
             \/ \E mode \in {"ok", "explicit"} : AcceptProposal(s, d, q, mode)
             \/ \E r \in Proposals : AnswerProposal(s, d, q, r)
      PROVE  status'[p] = status[p]
    BY <1>1, <1>6 DEF IssueProposal, MaterializeDecision, RejectProposal, AcceptProposal, AnswerProposal,
                      ReplyTarget, IInv, TypeOK
<1>7. ASSUME NEW s \in Sessions, NEW d \in Decisions, NEW e \in Evidence,
             \/ ResolveByEvidence(s, d, e) \/ RecordEvidence(s, d, e)
             \/ LinkEvidence(s, d, e)
      PROVE  status'[p] = status[p]
    BY <1>1, <1>7 DEF ResolveByEvidence, RecordEvidence, LinkEvidence, IInv, TypeOK
<1>8. ASSUME NEW s \in Sessions, NEW d \in Decisions, NEW new \in Decisions,
             SupersedeDecision(s, d, new)
      PROVE  status'[p] = status[p]
    BY <1>1, <1>8 DEF SupersedeDecision, IInv, TypeOK
<1>9. QED
    BY <1>2, <1>3, <1>4, <1>5, <1>6, <1>7, <1>8 DEF Next

\* What was accepted, rejected or withdrawn is never replied to again.
THEOREM RepliesFinal == Spec => RepliesAreFinal
<1>1. ASSUME IInv, [Next]_vars
      PROVE  [\A p \in Proposals :
                 status[p] \in {"accepted", "rejected", "inactive"} =>
                     status'[p] = status[p]]_vars
    BY <1>1, ProposalMoves
<1>2. QED
    BY <1>1, Invariance, PTL DEF Spec, RepliesAreFinal

\* A plain OK accepts a proposal on the decisions it was shown with.
THEOREM OkIsInformed == Spec => OkActsOnWhatWasShown
<1> DEFINE Informed ==
        \A p \in Proposals :
            via[p] = None /\ via'[p] = "ok" =>
                \E s \in Sessions :
                    /\ asked[s] = p
                    /\ shown[s] = [d \in Decisions |-> status[d]]
<1>1. ASSUME IInv, Next PROVE Informed
    <2> SUFFICES ASSUME NEW p \in Proposals, via[p] = None, via'[p] = "ok"
                 PROVE  \E s \in Sessions :
                            /\ asked[s] = p
                            /\ shown[s] = [d \in Decisions |-> status[d]]
        OBVIOUS
    <2>1. None # "ok"
        BY ProtocolAssumption
    <2>2. via' # via
        BY <2>1
    <2>3. PICK s \in Sessions, d \in Decisions, q \in Proposals :
              \/ \E mode \in {"ok", "explicit"} : AcceptProposal(s, d, q, mode)
              \/ \E r \in Proposals : AnswerProposal(s, d, q, r)
        <3>1. ASSUME NEW s \in Sessions PROVE
                  ~(CreateSession(s) \/ ResumeSession(s) \/ CloseSession(s) \/ GeneratePlan(s))
            BY <2>2 DEF CreateSession, ResumeSession, CloseSession, GeneratePlan
        <3>2. ASSUME NEW s \in Sessions, NEW d \in Decisions PROVE
                  ~(DiscoverDecision(s, d) \/ EnrichDecision(s, d) \/ DeferDecision(s, d))
            BY <2>2 DEF DiscoverDecision, EnrichDecision, DeferDecision
        <3>3. ASSUME NEW s \in Sessions, NEW d \in Decisions, NEW q \in Proposals PROVE
                  ~(IssueProposal(s, d, q) \/ RejectProposal(s, d, q)
                    \/ \E supports \in SUBSET Evidence : MaterializeDecision(s, d, q, supports))
            BY <2>2 DEF IssueProposal, RejectProposal, MaterializeDecision
        <3>4. ASSUME NEW s \in Sessions, NEW d \in Decisions, NEW e \in Evidence PROVE
                  ~(ResolveByEvidence(s, d, e) \/ RecordEvidence(s, d, e)
                    \/ LinkEvidence(s, d, e))
            BY <2>2 DEF ResolveByEvidence, RecordEvidence, LinkEvidence
        <3>5. ASSUME NEW s \in Sessions, NEW d \in Decisions, NEW new \in Decisions PROVE
                  ~SupersedeDecision(s, d, new)
            BY <2>2 DEF SupersedeDecision
        <3>6. QED
            BY <1>1, <3>1, <3>2, <3>3, <3>4, <3>5 DEF Next
    <2>4. CASE \E r \in Proposals : AnswerProposal(s, d, q, r)
        BY <1>1, <2>1, <2>4 DEF AnswerProposal, IInv, TypeOK
    <2>5. ASSUME NEW mode \in {"ok", "explicit"}, AcceptProposal(s, d, q, mode)
          PROVE  \E t \in Sessions :
                    /\ asked[t] = p
                    /\ shown[t] = [x \in Decisions |-> status[x]]
        <3>1. q = p /\ mode = "ok"
            BY <1>1, <2>1, <2>5 DEF AcceptProposal, IInv, TypeOK
        <3>2. p = asked[s] /\ p \in current /\ p # None
            BY <2>5, <3>1, ProtocolAssumption DEF AcceptProposal, Fresh, Objects
        <3>3. QED
            BY <1>1, <3>2 DEF IInv, ShownIsCurrent
    <2>6. QED
        BY <2>3, <2>4, <2>5
<1>2. ASSUME IInv, [Next]_vars PROVE [Informed]_vars
    BY <1>1, <1>2
<1>3. QED
    BY <1>2, Invariance, PTL DEF Spec, OkActsOnWhatWasShown

\* Only an active session relates, asks or concludes anything.
LEMMA ClosedSessionKept ==
    ASSUME IInv, Next, NEW t \in Sessions, phase[t] = "closed"
    PROVE  /\ phase'[t] = "closed" /\ related'[t] = related[t]
           /\ asked'[t] = asked[t] /\ summary'[t] = summary[t]
<1> DEFINE Frozen == /\ phase'[t] = "closed" /\ related'[t] = related[t]
                     /\ asked'[t] = asked[t] /\ summary'[t] = summary[t]
<1>1. ASSUME NEW s \in Sessions,
             \/ CreateSession(s) \/ ResumeSession(s) \/ CloseSession(s)
             \/ GeneratePlan(s)
      PROVE  Frozen
    BY <1>1 DEF CreateSession, ResumeSession, CloseSession, GeneratePlan, Mutable,
                ClearQuestion, IInv, TypeOK
<1>2. ASSUME NEW s \in Sessions, NEW d \in Decisions,
             \/ DiscoverDecision(s, d) \/ EnrichDecision(s, d) \/ DeferDecision(s, d)
      PROVE  Frozen
    BY <1>2 DEF DiscoverDecision, EnrichDecision, DeferDecision, Mutable, Touch,
                ClearQuestion, IInv, TypeOK
<1>3. ASSUME NEW s \in Sessions, NEW d \in Decisions, NEW q \in Proposals,
             \/ IssueProposal(s, d, q) \/ RejectProposal(s, d, q)
             \/ \E supports \in SUBSET Evidence : MaterializeDecision(s, d, q, supports)
             \/ \E mode \in {"ok", "explicit"} : AcceptProposal(s, d, q, mode)
             \/ \E r \in Proposals : AnswerProposal(s, d, q, r)
      PROVE  Frozen
    BY <1>3 DEF IssueProposal, MaterializeDecision, RejectProposal, AcceptProposal, AnswerProposal,
                ReplyTarget, Mutable, Touch, ClearQuestion, IInv, TypeOK
<1>4. ASSUME NEW s \in Sessions, NEW d \in Decisions, NEW e \in Evidence,
             \/ ResolveByEvidence(s, d, e) \/ RecordEvidence(s, d, e)
             \/ LinkEvidence(s, d, e)
      PROVE  Frozen
    BY <1>4 DEF ResolveByEvidence, RecordEvidence, LinkEvidence, Mutable, Touch,
                ClearQuestionAbout, ClearQuestion, IInv, TypeOK
<1>5. ASSUME NEW s \in Sessions, NEW d \in Decisions, NEW new \in Decisions,
             SupersedeDecision(s, d, new)
      PROVE  Frozen
    BY <1>5 DEF SupersedeDecision, Mutable, Touch, ClearQuestionAbout, ClearQuestion,
                IInv, TypeOK
<1>6. QED
    BY <1>1, <1>2, <1>3, <1>4, <1>5 DEF Next

\* Whatever the other sessions do, a closed session stays as it was closed.
THEOREM ClosedFrozen == Spec => ClosedIsFrozen
<1>1. ASSUME IInv, [Next]_vars
      PROVE  [\A s \in Sessions :
                 phase[s] = "closed" =>
                     /\ phase'[s] = "closed"
                     /\ related'[s] = related[s] /\ asked'[s] = asked[s]
                     /\ summary'[s] = summary[s]]_vars
    BY <1>1, ClosedSessionKept
<1>2. QED
    BY <1>1, Invariance, PTL DEF Spec, ClosedIsFrozen

-----------------------------------------------------------------------------
(***************************************************************************)
(* Every operation is one step of the life cycle of one decision, or none. *)
(***************************************************************************)
LEMMA MoveOne ==
    ASSUME NEW d \in Decisions, NEW from, NEW to,
           status[d] \in from, status'[d] = to,
           \A x \in Decisions : x # d => status'[x] = status[x]
    PROVE  Lifecycle!Move(d, from, to)
BY DEF Lifecycle!Move, decisionStatus

LEMMA MoveNone ==
    ASSUME \A x \in Decisions : status'[x] = status[x]
    PROVE  decisionStatus' = decisionStatus
BY DEF decisionStatus

LEMMA LifecycleStep ==
    ASSUME IInv, Next
    PROVE  [Lifecycle!LifecycleNext]_decisionStatus
<1> DEFINE Abstract == [Lifecycle!LifecycleNext]_decisionStatus
<1>0. /\ \A x \in Decisions : x \in Objects /\ x \notin Proposals /\ x \notin Evidence
      /\ None \notin Objects
    BY ProtocolAssumption DEF Objects
<1>1. ASSUME NEW s \in Sessions, CreateSession(s) \/ GeneratePlan(s)
      PROVE  Abstract
    BY <1>1, MoveNone DEF CreateSession, GeneratePlan
<1>2. ASSUME NEW s \in Sessions, ResumeSession(s) \/ CloseSession(s)
      PROVE  Abstract
    <2>1. status' = StatusAfterBoundary(s)
        BY <1>2 DEF ResumeSession, CloseSession
    <2>2. CASE asked[s] = None
        BY <2>1, <2>2, Boundary, MoveNone
    <2>3. CASE asked[s] # None
        <3>1. PICK d \in Decisions : Addresses(asked[s], d) /\ status[d] = "proposed"
            BY <2>3, OpenQuestion
        <3>2. \A x \in Decisions : Addresses(asked[s], x) => x = d
            BY <2>3, <3>1, OpenQuestion DEF IInv, OneTarget
        <3>3. /\ status'[d] = "unresolved"
              /\ \A x \in Decisions : x # d => status'[x] = status[x]
            BY <2>1, <2>3, <3>1, <3>2, Boundary
        <3>4. Lifecycle!Withdraw(d)
            BY <3>1, <3>3, MoveOne DEF Lifecycle!Withdraw
        <3>5. QED
            BY <3>4 DEF Lifecycle!LifecycleNext
    <2>4. QED
        BY <2>2, <2>3
<1>3. ASSUME NEW s \in Sessions, NEW d \in Decisions, DiscoverDecision(s, d)
      PROVE  Abstract
    <2>1. PICK st \in DISCOVERABLE_DECISION_STATUSES : status' = [status EXCEPT ![d] = st]
        BY <1>3 DEF DiscoverDecision
    <2>2. /\ status[d] = "absent" /\ status'[d] = st
          /\ \A x \in Decisions : x # d => status'[x] = status[x]
        BY <1>0, <1>3, <2>1 DEF DiscoverDecision, IInv, TypeOK
    <2>3. Lifecycle!Discover(d)
        BY <2>2, MoveOne
           DEF Lifecycle!Discover, Lifecycle!DiscoverableStatuses,
               DISCOVERABLE_DECISION_STATUSES
    <2>4. QED
        BY <2>3 DEF Lifecycle!LifecycleNext
<1>4. ASSUME NEW s \in Sessions, NEW d \in Decisions, EnrichDecision(s, d)
      PROVE  Abstract
    BY <1>4, MoveNone DEF EnrichDecision
<1>5. ASSUME NEW s \in Sessions, NEW d \in Decisions, DeferDecision(s, d)
      PROVE  Abstract
    <2>1. asked[s] \notin Decisions
        BY <1>0, OpenQuestion
    <2>2. /\ status[d] \in OPEN_MUTATION_STATUSES /\ status'[d] = "deferred"
          /\ \A x \in Decisions : x # d => status'[x] = status[x]
        BY <1>0, <1>5, <2>1 DEF DeferDecision
    <2>3. Lifecycle!Defer(d)
        BY <2>2, MoveOne
           DEF Lifecycle!Defer, Lifecycle!OpenStatuses, OPEN_MUTATION_STATUSES
    <2>4. QED
        BY <2>3 DEF Lifecycle!LifecycleNext
<1>6. ASSUME NEW s \in Sessions, NEW d \in Decisions, NEW p \in Proposals,
             IssueProposal(s, d, p)
      PROVE  Abstract
    <2>1. /\ status[d] \in PROPOSABLE_STATUSES /\ status'[d] = "proposed"
          /\ \A x \in Decisions : x # d => status'[x] = status[x]
        BY <1>0, <1>6 DEF IssueProposal, IInv, TypeOK
    <2>2. Lifecycle!Propose(d)
        BY <2>1, MoveOne
           DEF Lifecycle!Propose, Lifecycle!DiscoverableStatuses, PROPOSABLE_STATUSES
    <2>3. QED
        BY <2>2 DEF Lifecycle!LifecycleNext
<1>7. ASSUME NEW s \in Sessions, NEW d \in Decisions, NEW p \in Proposals,
             RejectProposal(s, d, p)
      PROVE  Abstract
    <2>1. /\ status[d] = "proposed" /\ status'[d] = "unresolved"
          /\ \A x \in Decisions : x # d => status'[x] = status[x]
        BY <1>0, <1>7 DEF RejectProposal, ReplyTarget, IInv, TypeOK
    <2>2. Lifecycle!Withdraw(d)
        BY <2>1, MoveOne DEF Lifecycle!Withdraw
    <2>3. QED
        BY <2>2 DEF Lifecycle!LifecycleNext
<1>8. ASSUME NEW s \in Sessions, NEW d \in Decisions, NEW p \in Proposals,
             \/ \E mode \in {"ok", "explicit"} : AcceptProposal(s, d, p, mode)
             \/ \E q \in Proposals : AnswerProposal(s, d, p, q)
      PROVE  Abstract
    <2>1. /\ status[d] = "proposed" /\ status'[d] = "accepted"
          /\ \A x \in Decisions : x # d => status'[x] = status[x]
        <3>0. DOMAIN status = Objects
            BY <1>0 DEF IInv, TypeOK
        <3>1. CASE \E mode \in {"ok", "explicit"} : AcceptProposal(s, d, p, mode)
            <4>1. PICK mode \in {"ok", "explicit"} : AcceptProposal(s, d, p, mode)
                BY <3>1
            <4>2. /\ status[d] = "proposed"
                  /\ status' = [status EXCEPT ![d] = "accepted", ![p] = "accepted"]
                BY <4>1 DEF AcceptProposal, ReplyTarget
            <4>3. QED
                BY <1>0, <3>0, <4>2
        <3>2. CASE \E q \in Proposals : AnswerProposal(s, d, p, q)
            <4>1. PICK q \in Proposals : AnswerProposal(s, d, p, q)
                BY <3>2
            <4>2. /\ status[d] = "proposed"
                  /\ status' = [status EXCEPT ![p] = "rejected", ![d] = "accepted",
                                              ![q] = "accepted"]
                BY <4>1 DEF AnswerProposal, ReplyTarget
            <4>3. QED
                BY <1>0, <3>0, <4>2
        <3>3. QED
            BY <1>8, <3>1, <3>2
    <2>2. Lifecycle!Accept(d)
        BY <2>1, MoveOne DEF Lifecycle!Accept
    <2>3. QED
        BY <2>2 DEF Lifecycle!LifecycleNext
<1>9. ASSUME NEW s \in Sessions, NEW d \in Decisions, NEW e \in Evidence,
             ResolveByEvidence(s, d, e)
      PROVE  Abstract
    <2>1. e \notin Decisions
        BY <1>0
    <2>2. /\ status[d] \in OPEN_MUTATION_STATUSES
          /\ status'[d] = "resolved-by-evidence"
          /\ \A x \in Decisions : x # d => status'[x] = status[x]
        BY <1>0, <1>9, <2>1 DEF ResolveByEvidence, IInv, TypeOK
    <2>3. Lifecycle!Resolve(d)
        BY <2>2, MoveOne
           DEF Lifecycle!Resolve, Lifecycle!OpenStatuses, OPEN_MUTATION_STATUSES
    <2>4. QED
        BY <2>3 DEF Lifecycle!LifecycleNext
<1>10. ASSUME NEW s \in Sessions, NEW d \in Decisions, NEW e \in Evidence,
              RecordEvidence(s, d, e) \/ LinkEvidence(s, d, e)
       PROVE  Abstract
    <2>1. e \notin Decisions
        BY <1>0
    <2>2. QED
        BY <1>0, <1>10, <2>1, MoveNone DEF RecordEvidence, LinkEvidence, IInv, TypeOK
<1>11. ASSUME NEW s \in Sessions, NEW old \in Decisions, NEW new \in Decisions,
              SupersedeDecision(s, old, new)
       PROVE  Abstract
    <2>1. /\ status'[old] = "invalidated"
          /\ \A x \in Decisions : x # old => status'[x] = status[x]
          /\ status[old] \notin {"absent", "invalidated"}
          /\ new # old /\ status[new] \in FINAL_INVALIDATING_STATUSES
        BY <1>0, <1>11 DEF SupersedeDecision, IInv, TypeOK
    <2>2. status[old] \in DecisionStatuses
        BY DEF IInv, TypeOK
    <2>3. Lifecycle!Move(old,
                Lifecycle!OpenStatuses \cup Lifecycle!FinalStatuses \cup {"deferred"},
                "invalidated")
        BY <2>1, <2>2, MoveOne
           DEF DecisionStatuses, Lifecycle!OpenStatuses, Lifecycle!FinalStatuses
    <2>4. Lifecycle!Replace(old)
        BY <2>1, <2>3
           DEF Lifecycle!Replace, Lifecycle!FinalStatuses, decisionStatus,
               FINAL_INVALIDATING_STATUSES
    <2>5. QED
        BY <2>4 DEF Lifecycle!LifecycleNext
<1>12. ASSUME NEW s \in Sessions, NEW d \in Decisions, NEW p \in Proposals,
              NEW supports \in SUBSET Evidence, MaterializeDecision(s, d, p, supports)
       PROVE  Abstract
    <2>1. /\ status[d] = "absent" /\ status'[d] = "proposed"
          /\ \A x \in Decisions : x # d => status'[x] = status[x]
        BY <1>0, <1>12 DEF MaterializeDecision, IInv, TypeOK
    <2>2. Lifecycle!Promote(d)
        BY <2>1, MoveOne DEF Lifecycle!Promote
    <2>3. QED
        BY <2>2 DEF Lifecycle!LifecycleNext
<1>13. QED
    BY <1>1, <1>2, <1>3, <1>4, <1>5, <1>6, <1>7, <1>8, <1>9, <1>10, <1>11, <1>12 DEF Next

\* Each decision is decided once, and after that only replaced by a final one.
THEOREM ProtocolImplementsLifecycle == Spec => ImplementsLifecycle
<1>1. Init => Lifecycle!LifecycleInit
    BY DEF Init, Lifecycle!LifecycleInit, decisionStatus, Objects
<1>2. ASSUME IInv, [Next]_vars
      PROVE  [Lifecycle!LifecycleNext]_decisionStatus
    <2>1. CASE Next
        BY <1>2, <2>1, LifecycleStep
    <2>2. CASE UNCHANGED vars
        <3>1. decisionStatus' = decisionStatus
            BY <2>2, MoveNone DEF vars
        <3>2. QED
            BY <3>1
    <2>3. QED
        BY <1>2, <2>1, <2>2
<1>3. QED
    BY <1>1, <1>2, Invariance, PTL DEF Spec, ImplementsLifecycle, Lifecycle!LifecycleSpec

-----------------------------------------------------------------------------
(***************************************************************************)
(* Plans.                                                                  *)
(***************************************************************************)

\* A decision with an accepted proposal is accepted, or was before it was
\* superseded.
AcceptsIsDecided ==
    \A d \in Decisions, p \in Proposals :
        Link("accepts", d, p) \in links => status[d] \in {"accepted", "invalidated"}

\* The summary of a closed session has links of the graph, and names what
\* keeps its session from being ready.
ReportIsSound ==
    /\ report = [s \in Sessions |-> report[s]]
    /\ \A s \in Sessions : phase[s] = "closed" =>
        /\ report[s].links \subseteq links
        /\ report[s].readiness \in {"ready", "conditional", "blocked"}
        /\ report[s].readiness = "ready" => summary[s].blockers = {}
        /\ \A d \in summary[s].decisions \cap Blocking :
              d \in summary[s].blockers \/ Final(d) \/ status[d] = "deferred"

\* The plan is what would be computed now.
PlanIsCurrent ==
    plan # None =>
        /\ plan.content.sessions \in (SUBSET Sessions) \ {{}}
        /\ \A s \in plan.content.sessions : phase[s] = "closed"
        /\ PlanStaysTrue

PInv == IInv /\ AcceptsIsDecided /\ ReportIsSound /\ PlanIsCurrent

-----------------------------------------------------------------------------
(***************************************************************************)
(* Steps of the protocol.                                                  *)
(***************************************************************************)

LEMMA MoveIsLocal ==
    ASSUME NEW e \in Decisions, NEW from, NEW to, Lifecycle!Move(e, from, to),
           NEW d \in Decisions
    PROVE  status[e] \in from /\ status'[d] = IF d = e THEN to ELSE status[d]
<1>1. decisionStatus[e] = status[e]
    BY DEF decisionStatus
<1>2. decisionStatus[d] = status[d] /\ decisionStatus'[d] = status'[d]
    BY DEF decisionStatus
<1>3. decisionStatus' = [decisionStatus EXCEPT ![e] = to] /\ decisionStatus[e] \in from
    BY DEF Lifecycle!Move
<1>4. decisionStatus'[d] = IF d = e THEN to ELSE decisionStatus[d]
    BY <1>3 DEF decisionStatus
<1>5. QED
    BY <1>1, <1>2, <1>3, <1>4

\* A decided or deferred decision only changes by being superseded.
LEMMA DecidedIsKept ==
    ASSUME IInv, [Next]_vars, NEW d \in Decisions,
           Final(d) \/ status[d] \in {"deferred", "invalidated"}
    PROVE  status'[d] \in {status[d], "invalidated"}
<1>1. CASE UNCHANGED vars
    BY <1>1 DEF vars
<1>2. CASE Next
    <2>1. [Lifecycle!LifecycleNext]_decisionStatus
        BY <1>2, LifecycleStep
    <2>2. decisionStatus[d] = status[d] /\ decisionStatus'[d] = status'[d]
        BY DEF decisionStatus
    <2>3. ASSUME decisionStatus' = decisionStatus PROVE status'[d] = status[d]
        BY <2>2, <2>3
    <2>4. ASSUME NEW e \in Decisions, NEW from, NEW to, Lifecycle!Move(e, from, to),
                 \A x \in from : x \notin FINAL_INVALIDATING_STATUSES
                                 \cup {"deferred", "invalidated"}
          PROVE  status'[d] = status[d]
        <3>1. status[e] \in from /\ status'[d] = IF d = e THEN to ELSE status[d]
            BY <2>4, MoveIsLocal
        <3>2. QED
            BY <2>4, <3>1 DEF Final
    <2>5. ASSUME NEW e \in Decisions, Lifecycle!Replace(e)
          PROVE  status'[d] \in {status[d], "invalidated"}
        BY <2>5, MoveIsLocal DEF Lifecycle!Replace
    <2>6. ASSUME NEW e \in Decisions,
                 \/ Lifecycle!Discover(e) \/ Lifecycle!Promote(e) \/ Lifecycle!Propose(e)
                 \/ Lifecycle!Withdraw(e) \/ Lifecycle!Accept(e)
                 \/ Lifecycle!Resolve(e) \/ Lifecycle!Defer(e)
          PROVE  status'[d] = status[d]
        <3>1. /\ \A x \in {"absent"} \cup {"proposed"} \cup Lifecycle!DiscoverableStatuses
                            \cup Lifecycle!OpenStatuses :
                    x \notin FINAL_INVALIDATING_STATUSES \cup {"deferred", "invalidated"}
            BY DEF Lifecycle!DiscoverableStatuses, Lifecycle!OpenStatuses,
                   FINAL_INVALIDATING_STATUSES
        <3>2. PICK from \in {{"absent"}, {"proposed"}, Lifecycle!DiscoverableStatuses,
                             Lifecycle!OpenStatuses} :
                  \E to : Lifecycle!Move(e, from, to)
            BY <2>6 DEF Lifecycle!Discover, Lifecycle!Promote, Lifecycle!Propose,
                        Lifecycle!Withdraw, Lifecycle!Accept, Lifecycle!Resolve, Lifecycle!Defer
        <3>3. PICK to : Lifecycle!Move(e, from, to)
            BY <3>2
        <3>4. QED
            BY <2>4, <3>1, <3>2, <3>3
    <2>7. QED
        BY <2>1, <2>3, <2>5, <2>6 DEF Lifecycle!LifecycleNext
<1>3. QED
    BY <1>1, <1>2

\* Links are only added, and an "accepts" link by what accepts the decision.
LEMMA LinksGrow ==
    ASSUME IInv, [Next]_vars
    PROVE  /\ links \subseteq links'
           /\ \A d \in Decisions, p \in Proposals :
                 Link("accepts", d, p) \in links' \ links => status'[d] = "accepted"
<1> DEFINE Good == /\ links \subseteq links'
                   /\ \A d \in Decisions, p \in Proposals :
                         Link("accepts", d, p) \in links' \ links
                             => status'[d] = "accepted"
<1>1. ASSUME links' = links PROVE Good
    BY <1>1
<1>2. ASSUME NEW e, NEW x, NEW r \in {"addresses", "supports", "supersedes"},
             links' = links \cup {Link(r, e, x)}
      PROVE  Good
    BY <1>2, LinkIsInjective
<1>3. CASE UNCHANGED vars
    BY <1>1, <1>3 DEF vars
<1>4. ASSUME NEW s \in Sessions,
             \/ CreateSession(s) \/ ResumeSession(s) \/ CloseSession(s)
             \/ GeneratePlan(s)
             \/ \E d \in Decisions :
                   \/ DiscoverDecision(s, d) \/ EnrichDecision(s, d)
                   \/ DeferDecision(s, d)
                   \/ \E p \in Proposals : RejectProposal(s, d, p)
      PROVE  Good
    BY <1>1, <1>4 DEF CreateSession, ResumeSession, CloseSession, GeneratePlan,
                      DiscoverDecision, EnrichDecision, DeferDecision, RejectProposal
<1>5. ASSUME NEW s \in Sessions, NEW d \in Decisions,
             \/ \E p \in Proposals : IssueProposal(s, d, p)
             \/ \E e \in Evidence : \/ ResolveByEvidence(s, d, e)
                                   \/ RecordEvidence(s, d, e) \/ LinkEvidence(s, d, e)
             \/ \E new \in Decisions : SupersedeDecision(s, d, new)
      PROVE  Good
    BY <1>2, <1>5 DEF IssueProposal, ResolveByEvidence, RecordEvidence, LinkEvidence,
                      SupersedeDecision
<1>6. ASSUME NEW s \in Sessions, NEW d \in Decisions, NEW p \in Proposals,
             \/ \E mode \in {"ok", "explicit"} : AcceptProposal(s, d, p, mode)
             \/ \E q \in Proposals : AnswerProposal(s, d, p, q)
      PROVE  Good
    <2>1. d \in Objects /\ p \notin Decisions /\ \A q \in Proposals : q # d
        BY ProtocolAssumption DEF Objects
    <2>2. status'[d] = "accepted"
        BY <1>6, <2>1 DEF AcceptProposal, AnswerProposal, IInv, TypeOK
    <2>3. PICK q \in Proposals :
              links' \in { links \cup {Link("accepts", d, q)},
                          links \cup {Link("addresses", q, d), Link("accepts", d, q)} }
        BY <1>6 DEF AcceptProposal, AnswerProposal
    <2>4. QED
        BY <2>2, <2>3, LinkIsInjective
<1>7. ASSUME NEW s \in Sessions, NEW d \in Decisions, NEW p \in Proposals,
             NEW supports \in SUBSET Evidence, MaterializeDecision(s, d, p, supports)
      PROVE  Good
    <2>1. links' = links \cup {Link("addresses", p, d)}
                        \cup {Link("supports", e, d) : e \in supports}
        BY <1>7 DEF MaterializeDecision
    <2>2. QED
        BY <2>1, LinkIsInjective
<1>8. QED
    BY <1>3, <1>4, <1>5, <1>6, <1>7 DEF Next

LEMMA AcceptsStaysDecided ==
    ASSUME IInv, AcceptsIsDecided, [Next]_vars
    PROVE  AcceptsIsDecided'
<1> SUFFICES ASSUME NEW d \in Decisions, NEW p \in Proposals,
                    Link("accepts", d, p) \in links'
             PROVE  status'[d] \in {"accepted", "invalidated"}
    BY DEF AcceptsIsDecided, Link
<1>1. CASE Link("accepts", d, p) \in links
    <2>1. status[d] \in {"accepted", "invalidated"}
        BY <1>1 DEF AcceptsIsDecided
    <2>2. QED
        BY <2>1, DecidedIsKept DEF Final, FINAL_INVALIDATING_STATUSES
<1>2. CASE Link("accepts", d, p) \notin links
    BY <1>2, LinksGrow
<1>3. QED
    BY <1>1, <1>2

\* The decisions that a closed session lists are not superseded.
LEMMA ListedIsVisible ==
    ASSUME IInv, NEW s \in Sessions, NEW d \in summary[s].decisions
    PROVE  status[d] # "invalidated"
BY DEF IInv, BundleIsValid, SummaryIsValid

\* What every step leaves of a closed session and of the decisions it lists.
LEMMA ClosedIsPinned ==
    ASSUME IInv, IInv', [Next]_vars, NEW s \in Sessions, phase[s] = "closed"
    PROVE  /\ phase'[s] = "closed" /\ summary'[s] = summary[s]
           /\ \A d \in summary[s].decisions :
                 /\ status[d] # "invalidated" /\ status'[d] # "invalidated"
                 /\ Final(d) => Final(d)'
                 /\ status[d] = "deferred" => status'[d] = "deferred"
           /\ \A d \in summary[s].blockers :
                 /\ status[d] \in OPEN_MUTATION_STATUSES
                 /\ status'[d] \in OPEN_MUTATION_STATUSES
<1>1. phase'[s] = "closed" /\ summary'[s] = summary[s]
    BY ClosedSessionKept DEF vars
<1>2. ASSUME NEW d \in summary[s].decisions
      PROVE  /\ status[d] # "invalidated" /\ status'[d] # "invalidated"
             /\ Final(d) => Final(d)'
             /\ status[d] = "deferred" => status'[d] = "deferred"
    <2>1. d \in Decisions
        BY DEF IInv, TypeOK
    <2>2. status[d] # "invalidated" /\ status'[d] # "invalidated"
        BY <1>1 DEF IInv, BundleIsValid, SummaryIsValid
    <2>3. QED
        BY <2>1, <2>2, DecidedIsKept DEF Final
<1>3. ASSUME NEW d \in summary[s].blockers
      PROVE  /\ status[d] \in OPEN_MUTATION_STATUSES
             /\ status'[d] \in OPEN_MUTATION_STATUSES
    BY <1>1, <1>3 DEF IInv, BundleIsValid, SummaryIsValid, OPEN_MUTATION_STATUSES
<1>4. QED
    BY <1>1, <1>2, <1>3

\* The accepted proposals of a decision are known by the links of the summaries.
LEMMA AcceptedByLinks ==
    ASSUME IInv, AcceptsIsDecided, ReportIsSound,
           NEW S \in SUBSET Sessions, \A s \in S : phase[s] = "closed",
           NEW d \in Decisions
    PROVE  AcceptedProposals(S, d) =
               { p \in Proposals : \E s \in S : /\ d \in summary[s].decisions
                                               /\ Link("accepts", d, p) \in report[s].links }
<1> SUFFICES ASSUME NEW s \in S, NEW p \in Proposals, d \in summary[s].decisions,
                    Link("accepts", d, p) \in report[s].links
             PROVE  Final(d)
    BY DEF AcceptedProposals
<1>1. status[d] \in {"accepted", "invalidated"}
    BY DEF ReportIsSound, AcceptsIsDecided
<1>2. QED
    BY <1>1, ListedIsVisible DEF Final, FINAL_INVALIDATING_STATUSES

\* The plan of closed sessions is the same before and after a step.
LEMMA PlanIsKept ==
    ASSUME IInv, IInv', [Next]_vars, AcceptsIsDecided, AcceptsIsDecided',
           ReportIsSound, ReportIsSound',
           NEW S \in SUBSET Sessions,
           \A s \in S : phase[s] = "closed" /\ report'[s] = report[s],
           NEW gates
    PROVE  Plan(S, gates)' = Plan(S, gates) /\ Counted(S) \subseteq Counted(S)'
<1>1. \A s \in S : /\ phase'[s] = "closed" /\ summary'[s] = summary[s]
                   /\ \A d \in summary[s].blockers :
                         /\ status[d] \in OPEN_MUTATION_STATUSES
                         /\ status'[d] \in OPEN_MUTATION_STATUSES
    BY ClosedIsPinned
<1>2. PlannedActions(S)' = PlannedActions(S)
    BY DEF PlannedActions
<1>3. Listed(S)' = Listed(S) /\ Listed(S) \subseteq Decisions
    BY <1>1 DEF Listed, IInv, TypeOK
<1>4. ASSUME NEW d \in Decisions
      PROVE  AcceptedProposals(S, d)' = AcceptedProposals(S, d)
    <2>1. AcceptedProposals(S, d) =
              { p \in Proposals : \E s \in S : /\ d \in summary[s].decisions
                                              /\ Link("accepts", d, p) \in report[s].links }
        BY AcceptedByLinks
    <2>2. AcceptedProposals(S, d)' =
              { p \in Proposals : \E s \in S : /\ d \in summary'[s].decisions
                                              /\ Link("accepts", d, p) \in report'[s].links }
        <3>1. \A s \in S : phase'[s] = "closed"
            BY <1>1
        <3>2. ASSUME NEW s \in S, NEW p \in Proposals, d \in summary'[s].decisions,
                     Link("accepts", d, p) \in report'[s].links
              PROVE  Final(d)'
            <4>1. status'[d] \in {"accepted", "invalidated"}
                BY <3>1, <3>2 DEF ReportIsSound, AcceptsIsDecided, Link
            <4>2. status'[d] # "invalidated"
                BY <3>2 DEF IInv, BundleIsValid, SummaryIsValid
            <4>3. QED
                BY <4>1, <4>2 DEF Final, FINAL_INVALIDATING_STATUSES
        <3>3. QED
            BY <3>2 DEF AcceptedProposals, Link
    <2>3. QED
        BY <1>1, <2>1, <2>2
<1>5. Conflicts(S)' = Conflicts(S)
    <2>1. \A d \in Listed(S) : AcceptedProposals(S, d)' = AcceptedProposals(S, d)
        BY <1>3, <1>4
    <2>2. QED
        BY <1>2, <1>3, <2>1 DEF Conflicts
<1>6. PlanReadiness(S, gates)' = PlanReadiness(S, gates)
    <2>1. { report[s].readiness : s \in S }' = { report[s].readiness : s \in S }
        OBVIOUS
    <2>2. { GateReadiness(a, gates[a]) : a \in PlannedActions(S) }'
              = { GateReadiness(a, gates[a]) : a \in PlannedActions(S) }
        BY <1>2 DEF GateReadiness
    <2>3. QED
        BY <2>1, <2>2 DEF PlanReadiness, Worst, Worse
<1>7. { Blocker(d) : d \in UNION { summary[s].blockers : s \in S } }'
          = { Blocker(d) : d \in UNION { summary[s].blockers : s \in S } }
    BY <1>1 DEF Blocker
<1>8. Plan(S, gates)' = Plan(S, gates)
    BY <1>2, <1>5, <1>6, <1>7 DEF Plan
<1>9. Counted(S) \subseteq Counted(S)'
    <2>1. \A d \in Listed(S) : Final(d) => Final(d)'
        BY ClosedIsPinned DEF Listed
    <2>2. QED
        BY <1>3, <2>1 DEF Counted
<1>10. QED
    BY <1>8, <1>9

-----------------------------------------------------------------------------
(***************************************************************************)
(* Every step of the planner and of the sessions preserves the invariant.  *)
(***************************************************************************)

LEMMA SessionsKeepReports ==
    ASSUME IInv, IInv', ReportIsSound, SessionStep
    PROVE  ReportIsSound'
<1>1. report' = report /\ [Next]_vars
    BY DEF SessionStep
<1>2. ASSUME NEW s \in Sessions, phase'[s] = "closed"
      PROVE  /\ report'[s].links \subseteq links'
             /\ report'[s].readiness \in {"ready", "conditional", "blocked"}
             /\ report'[s].readiness = "ready" => summary'[s].blockers = {}
             /\ \A d \in summary'[s].decisions \cap Blocking :
                   \/ d \in summary'[s].blockers
                   \/ Final(d)' \/ status'[d] = "deferred"
    <2>1. phase[s] = "closed"
        BY <1>2 DEF SessionStep
    <2>2. /\ summary'[s] = summary[s]
          /\ \A d \in summary[s].decisions :
                /\ Final(d) => Final(d)'
                /\ status[d] = "deferred" => status'[d] = "deferred"
        BY <1>1, <2>1, ClosedIsPinned
    <2>3. links \subseteq links'
        BY <1>1, LinksGrow
    <2>4. QED
        BY <1>1, <2>1, <2>2, <2>3 DEF ReportIsSound
<1>3. QED
    BY <1>1, <1>2 DEF ReportIsSound

\* Closing a session leaves what it lists and decided as it is.
LEMMA BoundaryKeepsDecided ==
    ASSUME IInv, NEW s \in Sessions, NEW d \in Decisions,
           status' = StatusAfterBoundary(s), status[d] # "proposed"
    PROVE  status'[d] = status[d]
<1>1. CASE asked[s] = None
    BY <1>1 DEF StatusAfterBoundary
<1>2. CASE asked[s] # None
    <2>1. d # asked[s] /\ d \in Objects
        BY <1>2, ProtocolAssumption DEF IInv, TypeOK, Objects
    <2>2. QED
        BY <1>2, <2>1 DEF StatusAfterBoundary
<1>3. QED
    BY <1>1, <1>2

LEMMA ClosingIsReported ==
    ASSUME IInv, IInv', ReportIsSound, NEW s \in Sessions, PCloseSession(s)
    PROVE  ReportIsSound'
<1> DEFINE R == [actions   |-> GeneratedActions(s),
                 risks     |-> SummaryRisks(s),
                 links     |-> SummaryLinks(s),
                 readiness |-> SummaryReadiness(s, SummaryRisks(s))]
<1>1. /\ CloseSession(s) /\ report' = [report EXCEPT ![s] = R]
      /\ links' = links
    BY DEF PCloseSession, CloseSession
<1>2. [Next]_vars
    BY <1>1 DEF Next
<1>3. /\ report' = [t \in Sessions |-> report'[t]] /\ report'[s] = R
      /\ \A t \in Sessions : t # s => report'[t] = report[t]
    BY <1>1 DEF ReportIsSound
<1> HIDE DEF R
<1>4. /\ report'[s].links \subseteq links'
      /\ report'[s].readiness \in {"ready", "conditional", "blocked"}
      /\ report'[s].readiness = "ready" => summary'[s].blockers = {}
    BY <1>1, <1>3 DEF R, SummaryLinks, SummaryReadiness
<1>5. ASSUME NEW d \in summary'[s].decisions \cap Blocking
      PROVE  d \in summary'[s].blockers \/ Final(d)' \/ status'[d] = "deferred"
    <2>1. summary'[s] = [decisions |-> SummaryDecisions(s),
                         blockers  |-> { x \in SummaryDecisions(s) \cap Blocking :
                                           status[x] \in OPEN_MUTATION_STATUSES }]
        BY <1>1 DEF CloseSession, IInv, TypeOK
    <2>2. d \in SummaryDecisions(s) \cap Blocking /\ d \in Decisions
        BY <2>1, ProtocolAssumption
    <2>3. CASE status[d] \in OPEN_MUTATION_STATUSES
        BY <2>1, <2>2, <2>3
    <2>4. CASE status[d] \notin OPEN_MUTATION_STATUSES
        <3>1. status[d] \in DecisionStatuses \ {"absent", "invalidated"}
            BY <2>2 DEF SummaryDecisions, IInv, TypeOK
        <3>2. Final(d) \/ status[d] = "deferred"
            BY <2>4, <3>1 DEF Final, DecisionStatuses, OPEN_MUTATION_STATUSES,
                              FINAL_INVALIDATING_STATUSES
        <3>3. status'[d] = status[d]
            BY <1>1, <2>2, <2>4, BoundaryKeepsDecided
               DEF CloseSession, OPEN_MUTATION_STATUSES
        <3>4. QED
            BY <3>2, <3>3 DEF Final
    <2>5. QED
        BY <2>3, <2>4
<1>6. ASSUME NEW t \in Sessions, phase'[t] = "closed", t # s
      PROVE  /\ report'[t].links \subseteq links'
             /\ report'[t].readiness \in {"ready", "conditional", "blocked"}
             /\ report'[t].readiness = "ready" => summary'[t].blockers = {}
             /\ \A d \in summary'[t].decisions \cap Blocking :
                   \/ d \in summary'[t].blockers
                   \/ Final(d)' \/ status'[d] = "deferred"
    <2>1. phase[t] = "closed"
        BY <1>1, <1>6 DEF CloseSession, IInv, TypeOK
    <2>2. /\ summary'[t] = summary[t]
          /\ \A d \in summary[t].decisions :
                /\ Final(d) => Final(d)'
                /\ status[d] = "deferred" => status'[d] = "deferred"
        BY <1>2, <2>1, ClosedIsPinned
    <2>3. QED
        BY <1>1, <1>3, <1>6, <2>1, <2>2 DEF ReportIsSound
<1>7. QED
    BY <1>3, <1>4, <1>5, <1>6 DEF ReportIsSound
\* What goes on in the sessions leaves the plan as it is.
LEMMA SessionsKeepPlan ==
    ASSUME PInv, IInv', AcceptsIsDecided', ReportIsSound', [Next]_vars, plan' = plan,
           \A s \in Sessions : phase[s] = "closed" => report'[s] = report[s]
    PROVE  PlanIsCurrent'
<1> SUFFICES ASSUME plan # None PROVE PlanIsCurrent'
    BY DEF PlanIsCurrent
<1> DEFINE S == plan.content.sessions
           gates == plan.content.gates
<1>1. /\ S \in (SUBSET Sessions) \ {{}} /\ \A s \in S : phase[s] = "closed"
      /\ Plan(S, gates) = plan.content /\ plan.counted \subseteq Counted(S)
    BY DEF PInv, PlanIsCurrent, PlanStaysTrue
<1>2. Plan(S, gates)' = Plan(S, gates) /\ Counted(S) \subseteq Counted(S)'
    <2> HIDE DEF S, gates
    <2>1. S' = S /\ gates' = gates
        BY DEF S, gates
    <2>2. \A s \in S : phase[s] = "closed" /\ report'[s] = report[s]
        BY <1>1
    <2>3. QED
        BY <1>1, <2>1, <2>2, PlanIsKept DEF PInv
<1>3. \A s \in S : phase'[s] = "closed"
    BY <1>1, ClosedIsPinned DEF PInv
<1>4. QED
    BY <1>1, <1>2, <1>3 DEF PlanIsCurrent, PlanStaysTrue

LEMMA SamePlan ==
    ASSUME UNCHANGED << phase, related, asked, summary, status, origin, via, links,
                        shown, report >>,
           NEW S, NEW gates
    PROVE  Plan(S, gates)' = Plan(S, gates) /\ Counted(S)' = Counted(S)
<1>1. /\ PlannedActions(S)' = PlannedActions(S) /\ Listed(S)' = Listed(S)
      /\ \A d : Final(d)' = Final(d) /\ AcceptedProposals(S, d)' = AcceptedProposals(S, d)
    BY DEF PlannedActions, Listed, Final, AcceptedProposals, Link
<1>2. Conflicts(S)' = Conflicts(S)
    BY <1>1 DEF Conflicts
<1>3. PlanReadiness(S, gates)' = PlanReadiness(S, gates)
    BY <1>1 DEF PlanReadiness, GateReadiness, Worst, Worse
<1>4. Plan(S, gates)' = Plan(S, gates)
    BY <1>1, <1>2, <1>3 DEF Plan, Blocker
<1>5. QED
    BY <1>1, <1>4 DEF Counted

LEMMA ComputedPlanIsCurrent ==
    ASSUME PInv, NEW S \in SUBSET Sessions, ComputePlan(S)
    PROVE  PlanIsCurrent'
<1>1. PICK gates \in [PlannedActions(S) -> GateStatuses] :
          plan' = [content |-> Plan(S, gates), counted |-> Counted(S)]
    BY DEF ComputePlan
<1>2. /\ plan'.content = Plan(S, gates) /\ plan'.counted = Counted(S)
      /\ plan'.content.sessions = S /\ plan'.content.gates = gates
    BY <1>1 DEF Plan
<1>3. /\ Plan(S, gates)' = Plan(S, gates) /\ Counted(S)' = Counted(S)
      /\ phase' = phase
    BY SamePlan DEF ComputePlan, vars
<1>4. S # {} /\ \A s \in S : phase[s] = "closed"
    BY DEF ComputePlan
<1>5. QED
    BY <1>2, <1>3, <1>4 DEF PlanIsCurrent, PlanStaysTrue

\* Exporting, recording and leaving change at most which proposals are current.
LEMMA PlannerKeeps ==
    ASSUME PInv,
           UNCHANGED << phase, related, asked, summary, status, origin, via, links,
                        shown, report >>,
           current' \in {current, {}}
    PROVE  IInv' /\ AcceptsIsDecided' /\ ReportIsSound'
<1>1. TypeOK'
    BY DEF PInv, IInv, TypeOK
<1>2. BundleIsValid'
    BY DEF PInv, IInv, BundleIsValid, QuestionIsValid, SummaryIsValid,
           DecisionIsValid, IsBound, IsSessionDecision, HasFinalChain, Addresses
<1>3. OneTarget' /\ UndrawnUnlinked' /\ OrphanIsMoot' /\ AcceptedByOneProposal'
    BY DEF PInv, IInv, OneTarget, UndrawnUnlinked, OrphanIsMoot,
           AcceptedByOneProposal, Addresses
<1>4. AskingIsActive' /\ ShownIsCurrent'
    BY DEF PInv, IInv, AskingIsActive, ShownIsCurrent
<1>5. AcceptsIsDecided' /\ ReportIsSound'
    BY DEF PInv, AcceptsIsDecided, ReportIsSound, Final, Link
<1>6. QED
    BY <1>1, <1>2, <1>3, <1>4, <1>5 DEF IInv

LEMMA PlannerKeepsPlan ==
    ASSUME PInv, plan' = plan,
           UNCHANGED << phase, related, asked, summary, status, origin, via, links,
                        shown, report >>
    PROVE  PlanIsCurrent'
<1> SUFFICES ASSUME plan # None PROVE PlanIsCurrent'
    BY DEF PlanIsCurrent
<1> DEFINE S == plan.content.sessions
           gates == plan.content.gates
<1>1. Plan(S, gates)' = Plan(S, gates) /\ Counted(S)' = Counted(S)
    <2> HIDE DEF S, gates
    <2>1. S' = S /\ gates' = gates
        BY DEF S, gates
    <2>2. QED
        BY <2>1, SamePlan
<1>2. QED
    BY <1>1 DEF PInv, PlanIsCurrent, PlanStaysTrue
LEMMA PInitInvariant ==
    ASSUME PInit
    PROVE  PInv
<1>1. IInv
    BY InitInvariant DEF PInit
<1>2. AcceptsIsDecided /\ ReportIsSound /\ PlanIsCurrent
    BY DEF PInit, Init, AcceptsIsDecided, ReportIsSound, PlanIsCurrent
<1>3. QED
    BY <1>1, <1>2 DEF PInv

LEMMA PStepInvariant ==
    ASSUME PInv, [PNext]_pvars
    PROVE  PInv'
<1>1. CASE SessionStep
    <2>1. [Next]_vars /\ plan' = plan /\ report' = report
        BY <1>1 DEF SessionStep
    <2>2. IInv' /\ AcceptsIsDecided'
        BY <2>1, StepInvariant, AcceptsStaysDecided DEF PInv
    <2>3. ReportIsSound'
        BY <1>1, <2>2, SessionsKeepReports DEF PInv
    <2>4. PlanIsCurrent'
        BY <2>1, <2>2, <2>3, SessionsKeepPlan
    <2>5. QED
        BY <2>2, <2>3, <2>4 DEF PInv
<1>2. ASSUME NEW s \in Sessions, PCloseSession(s)
      PROVE  PInv'
    <2>1. CloseSession(s) /\ plan' = plan
        BY <1>2 DEF PCloseSession
    <2>2. [Next]_vars
        BY <2>1 DEF Next
    <2>3. IInv' /\ AcceptsIsDecided'
        BY <2>2, StepInvariant, AcceptsStaysDecided DEF PInv
    <2>4. ReportIsSound'
        BY <1>2, <2>3, ClosingIsReported DEF PInv
    <2>5. \A t \in Sessions : phase[t] = "closed" => report'[t] = report[t]
        BY <1>2, <2>1 DEF PCloseSession, CloseSession, Mutable, PInv, ReportIsSound
    <2>6. PlanIsCurrent'
        BY <2>1, <2>2, <2>3, <2>4, <2>5, SessionsKeepPlan
    <2>7. QED
        BY <2>3, <2>4, <2>6 DEF PInv
<1>3. ASSUME NEW S \in SUBSET Sessions, ComputePlan(S)
      PROVE  PInv'
    <2>1. /\ UNCHANGED << phase, related, asked, summary, status, origin, via, links,
                          shown, report >>
          /\ current' = current
        BY <1>3 DEF ComputePlan, vars
    <2>2. IInv' /\ AcceptsIsDecided' /\ ReportIsSound'
        BY <2>1, PlannerKeeps
    <2>3. QED
        BY <1>3, <2>2, ComputedPlanIsCurrent DEF PInv
<1>4. CASE \/ \E S \in SUBSET Sessions : ExportTraceability(S)
           \/ ExportPlan \/ RecordPlan \/ Leave \/ UNCHANGED pvars
    <2>1. /\ UNCHANGED << phase, related, asked, summary, status, origin, via, links,
                          shown, report >>
          /\ current' \in {current, {}} /\ plan' = plan
        BY <1>4 DEF ExportTraceability, ExportPlan, RecordPlan, Leave, MoveHead,
                    vars, pvars
    <2>2. IInv' /\ AcceptsIsDecided' /\ ReportIsSound'
        BY <2>1, PlannerKeeps
    <2>3. PlanIsCurrent'
        BY <2>1, PlannerKeepsPlan
    <2>4. QED
        BY <2>2, <2>3 DEF PInv
<1>5. QED
    BY <1>1, <1>2, <1>3, <1>4 DEF PNext

LEMMA PInvariance == PSpec => []PInv
<1>1. PInit => PInv
    BY PInitInvariant
<1>2. PInv /\ [PNext]_pvars => PInv'
    BY PStepInvariant
<1>3. QED
    BY <1>1, <1>2, PTL DEF PSpec

-----------------------------------------------------------------------------
\* generate_plan works on what it read without the lock; whatever sessions do
\* before the plan is exported and recorded, and ever after, the plan is what
\* would be computed from the runtime now, but for a count that can only grow.
THEOREM PlansStayTrue == PSpec => []PlanStaysTrue
<1>1. PInv => PlanStaysTrue
    BY DEF PInv, PlanIsCurrent, PlanStaysTrue
<1>2. QED
    BY <1>1, PInvariance, PTL

\* The worst of some readinesses is "ready" only if all of them are.
LEMMA WorstIsReady ==
    ASSUME NEW found \in SUBSET {"ready", "conditional", "blocked"},
           found # {}, Worst(found) = "ready"
    PROVE  found = {"ready"}
<1>1. \E r \in found : \A t \in found : Worse(r, t) = r
    <2>1. CASE "blocked" \in found
        BY <2>1 DEF Worse
    <2>2. CASE "blocked" \notin found /\ "conditional" \in found
        BY <2>2 DEF Worse
    <2>3. CASE "blocked" \notin found /\ "conditional" \notin found
        BY <2>3 DEF Worse
    <2>4. QED
        BY <2>1, <2>2, <2>3
<1>2. "ready" \in found /\ \A t \in found : Worse("ready", t) = "ready"
    BY <1>1 DEF Worst
<1>3. QED
    BY <1>2 DEF Worse

\* A plan that claims to be ready lists no P0 decision for now that is still
\* open, and never will: the readiness of generate_plan is the worst of its
\* close summaries, and what they list is pinned.
THEOREM ReadyPlansAreDecided == PSpec => []ReadyMeansDecided
<1>1. ASSUME PInv PROVE ReadyMeansDecided
    <2> SUFFICES ASSUME plan # None, plan.content.readiness = "ready",
                        NEW s \in plan.content.sessions,
                        NEW d \in summary[s].decisions \cap Blocking
                 PROVE  Final(d) \/ status[d] = "deferred"
        BY DEF ReadyMeansDecided, Listed
    <2> DEFINE S == plan.content.sessions
               gates == plan.content.gates
               found == { report[t].readiness : t \in S }
                        \cup { GateReadiness(a, gates[a]) : a \in PlannedActions(S) }
    <2>1. /\ S \in SUBSET Sessions /\ \A t \in S : phase[t] = "closed"
          /\ Plan(S, gates) = plan.content
        BY <1>1 DEF PInv, PlanIsCurrent, PlanStaysTrue
    <2>2. Worst(found) = "ready"
        <3>1. plan.content.readiness = Plan(S, gates).readiness
            BY <2>1
        <3>2. Plan(S, gates).readiness = PlanReadiness(S, gates)
            BY DEF Plan
        <3>3. PlanReadiness(S, gates) = Worst(found)
            BY Zenon DEF PlanReadiness
        <3>4. QED
            BY <3>1, <3>2, <3>3
    <2>3. found \in SUBSET {"ready", "conditional", "blocked"}
        BY <1>1, <2>1 DEF PInv, ReportIsSound, GateReadiness
    <2>4. report[s].readiness \in found
        OBVIOUS
    <2>5. report[s].readiness = "ready"
        <3> HIDE DEF found
        <3>1. QED
            BY <2>2, <2>3, <2>4, WorstIsReady
    <2>6. QED
        BY <1>1, <2>1, <2>5 DEF PInv, ReportIsSound
<1>2. QED
    BY <1>1, PInvariance, PTL

-----------------------------------------------------------------------------
(***************************************************************************)
(* The objects a session's links lead to.                                  *)
(***************************************************************************)

\* Connected's chain of sets is what its recursive definition says.
Adjacent(Y, edges) == { l.target : l \in { k \in edges : k.source \in Y } }
                      \cup { l.source : l \in { k \in edges : k.target \in Y } }

Spreads(reach, X, edges) ==
    /\ reach[0] = X
    /\ \A n \in Nat : reach[n + 1] = reach[n] \cup Adjacent(reach[n], edges)

LEMMA ConnectedIsIterated ==
    ASSUME NEW X, NEW edges
    PROVE  \E reach : /\ Connected(X, edges) = reach[Cardinality(Objects)]
                      /\ Spreads(reach, X, edges)
<1> DEFINE Adj(Y) == { l.target : l \in { k \in edges : k.source \in Y } }
                     \cup { l.source : l \in { k \in edges : k.target \in Y } }
           S == SUBSET (X \cup { l.target : l \in edges } \cup { l.source : l \in edges })
           widen == [Y \in S |-> Y \cup Adj(Y)]
           Eq(f) == f = [n \in Nat |-> IF n = 0 THEN X
                                      ELSE UNION { Y \cup Adj(Y) : Y \in {f[n - 1]} }]
           reach == CHOOSE f : Eq(f)
<1>1. X \in S /\ widen \in [S -> S]
    OBVIOUS
<1>2. PICK f \in [Nat -> S] : Iterates(f, X, widen)
    <2> HIDE DEF S, widen
    <2>1. QED
        BY <1>1, RecursionIsDefined, Zenon
<1>3. ASSUME NEW n \in Nat, n # 0
      PROVE  widen[f[n - 1]] = UNION { Y \cup Adj(Y) : Y \in {f[n - 1]} }
    <2>1. f[n - 1] \in S
        BY <1>2, <1>3 DEF Iterates
    <2>2. widen[f[n - 1]] = f[n - 1] \cup Adj(f[n - 1])
        BY <2>1
    <2> HIDE DEF Adj, S, widen
    <2>3. QED
        BY <2>2
<1>4. Eq(f)
    <2>1. \A n \in Nat : (IF n = 0 THEN X ELSE widen[f[n - 1]])
             = (IF n = 0 THEN X ELSE UNION { Y \cup Adj(Y) : Y \in {f[n - 1]} })
        BY <1>3
    <2> HIDE DEF Adj, S, widen
    <2>2. QED
        BY <1>2, <2>1 DEF Iterates
<1>5. Eq(reach)
    <2> HIDE DEF Eq
    <2>1. QED
        BY <1>4, Zenon
<1>6. Connected(X, edges) = reach[Cardinality(Objects)]
    BY DEF Connected
<1> HIDE DEF reach
<1>7. reach[0] = X
    BY <1>5
<1>8. ASSUME NEW n \in Nat PROVE reach[n + 1] = reach[n] \cup Adj(reach[n])
    <2>1. reach[n + 1] = UNION { Y \cup Adj(Y) : Y \in {reach[n]} }
        BY <1>5
    <2> HIDE DEF Adj
    <2>2. QED
        BY <2>1
<1>9. QED
    BY <1>6, <1>7, <1>8, Zenon DEF Adjacent, Spreads

\* Both ends of an edge are connected to either one.
LEMMA NeighbourIsConnected ==
    ASSUME NEW X, NEW edges, NEW l \in edges,
           \E x \in Objects : TRUE
    PROVE  /\ l.source \in X => l.target \in Connected(X, edges)
           /\ l.target \in X => l.source \in Connected(X, edges)
<1>1. PICK reach : /\ Connected(X, edges) = reach[Cardinality(Objects)]
                   /\ Spreads(reach, X, edges)
    BY ConnectedIsIterated
<1>2. Cardinality(Objects) \in Nat /\ Cardinality(Objects) # 0
    BY ProtocolAssumption, FS_CardinalityType, FS_EmptySet
<1> DEFINE Later == { n \in Nat : reach[1] \subseteq reach[n + 1] }
<1>3. 0 \in Later
    OBVIOUS
<1>4. ASSUME NEW n \in Nat, n \in Later PROVE n + 1 \in Later
    BY <1>1, <1>4 DEF Spreads
<1>5. Nat \subseteq Later
    <2> HIDE DEF Later
    <2>1. QED
        BY <1>3, <1>4, SetInduction
<1>6. reach[1] \subseteq Connected(X, edges)
    <2>1. Cardinality(Objects) - 1 \in Later
        BY <1>2, <1>5
    <2>2. (Cardinality(Objects) - 1) + 1 = Cardinality(Objects)
        BY <1>2
    <2>3. QED
        BY <1>1, <2>1, <2>2
<1>7. reach[1] = X \cup Adjacent(X, edges)
    BY <1>1 DEF Spreads
<1>8. QED
    BY <1>6, <1>7 DEF Adjacent

-----------------------------------------------------------------------------
(***************************************************************************)
(* Actions are generated for what the summary lists.                       *)
(***************************************************************************)

\* A session is related to the proposals it made.
OriginIsRelated ==
    \A p \in Proposals, s \in Sessions : origin[p] = s => p \in related[s]

\* Actions come with closing a session.
OnlyClosedReport == \A s \in Sessions : phase[s] # "closed" => report[s].actions = {}

GInv == OriginIsRelated /\ OnlyClosedReport /\ ActionsStayGrounded

LEMMA GeneratedIsListed ==
    ASSUME IInv, OriginIsRelated, NEW s \in Sessions, NEW d \in ActionDecisions(s)
    PROVE  d \in SummaryDecisions(s) /\ Final(d) /\ d \in Decisions
<1>1. d \in Decisions /\ d \in Objects /\ Final(d)
    BY DEF ActionDecisions, Final, FINAL_INVALIDATING_STATUSES, Objects
<1>2. PICK x \in related[s] \ Decisions, l \in links :
          /\ l.relation # "supersedes"
          /\ (l.source = d /\ l.target = x) \/ (l.target = d /\ l.source = x)
    <2>1. CASE status[d] = "accepted"
        <3>1. PICK p \in Proposals : Link("accepts", d, p) \in links /\ p \in related[s]
            BY <2>1 DEF ActionDecisions, OriginIsRelated
        <3>2. p \notin Decisions
            BY ProtocolAssumption
        <3>3. QED
            BY <3>1, <3>2 DEF Link
    <2>2. CASE status[d] # "accepted"
        <3>1. PICK e \in Evidence \cap related[s] : Link("supports", e, d) \in links
            BY <2>2 DEF ActionDecisions
        <3>2. e \notin Decisions
            BY ProtocolAssumption
        <3>3. QED
            BY <3>1, <3>2 DEF Link
    <2>3. QED
        BY <2>1, <2>2
<1>3. d \in GraphSubset(s)
    <2> DEFINE edges == { k \in links : k.relation # "supersedes" }
    <2>1. l \in edges
        BY <1>2
    <2>2. l.source \in related[s] => l.target \in Connected(related[s], edges)
        BY <1>1, <2>1, NeighbourIsConnected
    <2>3. l.target \in related[s] => l.source \in Connected(related[s], edges)
        BY <1>1, <2>1, NeighbourIsConnected
    <2>4. QED
        BY <1>2, <2>2, <2>3 DEF GraphSubset
<1>4. QED
    BY <1>1, <1>2, <1>3 DEF SummaryDecisions, Final, FINAL_INVALIDATING_STATUSES

\* A session stays related to what it was related to, and a proposal gets its
\* origin together with the relation.
LEMMA OriginsStayRelated ==
    ASSUME IInv, OriginIsRelated, [Next]_vars
    PROVE  OriginIsRelated'
<1>1. ASSUME UNCHANGED << related, origin >> PROVE OriginIsRelated'
    BY <1>1 DEF OriginIsRelated
<1>2. ASSUME NEW s \in Sessions, NEW things, Touch(s, things), origin' = origin
      PROVE  OriginIsRelated'
    BY <1>2 DEF OriginIsRelated, Touch, IInv, TypeOK
<1>3. ASSUME NEW s \in Sessions, NEW things, NEW p \in things \cap Proposals,
             Touch(s, things), origin' = [origin EXCEPT ![p] = s]
      PROVE  OriginIsRelated'
    BY <1>3 DEF OriginIsRelated, Touch, IInv, TypeOK
<1>4. CASE UNCHANGED vars
    BY <1>1, <1>4 DEF vars
<1>5. ASSUME NEW s \in Sessions,
             \/ CreateSession(s) \/ ResumeSession(s) \/ CloseSession(s)
             \/ GeneratePlan(s)
             \/ \E d \in Decisions : EnrichDecision(s, d)
      PROVE  OriginIsRelated'
    BY <1>1, <1>5 DEF CreateSession, ResumeSession, CloseSession, GeneratePlan,
                      EnrichDecision
<1>6. ASSUME NEW s \in Sessions, NEW d \in Decisions,
             \/ DiscoverDecision(s, d) \/ DeferDecision(s, d)
             \/ \E new \in Decisions : SupersedeDecision(s, d, new)
      PROVE  OriginIsRelated'
    BY <1>2, <1>6 DEF DiscoverDecision, DeferDecision, SupersedeDecision
<1>7. ASSUME NEW s \in Sessions, NEW d \in Decisions, NEW p \in Proposals,
             \/ RejectProposal(s, d, p)
             \/ \E mode \in {"ok", "explicit"} : AcceptProposal(s, d, p, mode)
      PROVE  OriginIsRelated'
    BY <1>2, <1>7 DEF RejectProposal, AcceptProposal
<1>8. ASSUME NEW s \in Sessions, NEW d \in Decisions, NEW e \in Evidence,
             ResolveByEvidence(s, d, e) \/ RecordEvidence(s, d, e) \/ LinkEvidence(s, d, e)
      PROVE  OriginIsRelated'
    BY <1>2, <1>8 DEF ResolveByEvidence, RecordEvidence, LinkEvidence
<1>9. ASSUME NEW s \in Sessions, NEW d \in Decisions, NEW p \in Proposals,
             \/ IssueProposal(s, d, p) \/ \E q \in Proposals : AnswerProposal(s, d, q, p)
             \/ \E supports \in SUBSET Evidence : MaterializeDecision(s, d, p, supports)
      PROVE  OriginIsRelated'
    BY <1>3, <1>9 DEF IssueProposal, AnswerProposal, MaterializeDecision
<1>10. ASSUME Next PROVE OriginIsRelated'
    BY <1>5, <1>6, <1>7, <1>8, <1>9, <1>10 DEF Next
<1>11. QED
    BY <1>4, <1>10

LEMMA SessionsKeepGrounds ==
    ASSUME PInv, PInv', GInv, SessionStep
    PROVE  GInv'
<1>1. report' = report /\ [Next]_vars
    BY DEF SessionStep
<1>2. OriginIsRelated'
    BY <1>1, OriginsStayRelated DEF PInv, GInv
<1>3. \A s \in Sessions : phase[s] = "closed" => phase'[s] = "closed"
    BY <1>1, ClosedIsPinned DEF PInv
<1>4. OnlyClosedReport'
    BY <1>1, <1>3 DEF OnlyClosedReport, GInv
<1>5. ASSUME NEW s \in Sessions, NEW a \in report'[s].actions
      PROVE  a.decision \in summary'[s].decisions /\ Final(a.decision)'
    <2>1. phase[s] = "closed"
        BY <1>1, <1>5 DEF GInv, OnlyClosedReport
    <2>2. a.decision \in summary[s].decisions /\ Final(a.decision)
        BY <1>1, <1>5 DEF GInv, ActionsStayGrounded
    <2>3. /\ summary'[s] = summary[s]
          /\ \A d \in summary[s].decisions : Final(d) => Final(d)'
        BY <1>1, <2>1, ClosedIsPinned DEF PInv
    <2>4. QED
        BY <2>2, <2>3
<1>6. QED
    BY <1>2, <1>4, <1>5 DEF GInv, ActionsStayGrounded, Final

LEMMA ClosingIsGrounded ==
    ASSUME PInv, PInv', GInv, NEW s \in Sessions, PCloseSession(s)
    PROVE  GInv'
<1>1. /\ CloseSession(s) /\ [Next]_vars
      /\ report'[s].actions = GeneratedActions(s)
      /\ \A t \in Sessions : t # s => report'[t] = report[t]
    BY DEF PCloseSession, Next, PInv, ReportIsSound
<1>2. /\ phase'[s] = "closed" /\ summary'[s].decisions = SummaryDecisions(s)
      /\ \A t \in Sessions : t # s => phase'[t] = phase[t] /\ summary'[t] = summary[t]
      /\ status' = StatusAfterBoundary(s)
    BY <1>1 DEF CloseSession, PInv, IInv, TypeOK
<1>3. OriginIsRelated'
    BY <1>1, OriginsStayRelated DEF PInv, GInv
<1>4. OnlyClosedReport'
    BY <1>1, <1>2 DEF OnlyClosedReport, GInv
<1>5. ASSUME NEW a \in report'[s].actions
      PROVE  a.decision \in summary'[s].decisions /\ Final(a.decision)'
    <2>1. a.decision \in ActionDecisions(s)
        BY <1>1, <1>5 DEF GeneratedActions
    <2>2. a.decision \in SummaryDecisions(s) /\ Final(a.decision) /\ a.decision \in Decisions
        BY <2>1, GeneratedIsListed DEF PInv, GInv
    <2>3. status'[a.decision] = status[a.decision]
        BY <1>2, <2>2, BoundaryKeepsDecided DEF PInv, Final, FINAL_INVALIDATING_STATUSES
    <2>4. QED
        BY <1>2, <2>2, <2>3 DEF Final
<1>6. ASSUME NEW t \in Sessions, t # s, NEW a \in report'[t].actions
      PROVE  a.decision \in summary'[t].decisions /\ Final(a.decision)'
    <2>1. phase[t] = "closed"
        BY <1>1, <1>6 DEF GInv, OnlyClosedReport
    <2>2. a.decision \in summary[t].decisions /\ Final(a.decision)
        BY <1>1, <1>6 DEF GInv, ActionsStayGrounded
    <2>3. \A d \in summary[t].decisions : Final(d) => Final(d)'
        BY <1>1, <2>1, ClosedIsPinned DEF PInv
    <2>4. QED
        BY <1>2, <1>6, <2>2, <2>3
<1>7. QED
    BY <1>3, <1>4, <1>5, <1>6 DEF GInv, ActionsStayGrounded, Final

LEMMA GInvariance == PSpec => []GInv
<1>1. PInit => GInv
    BY ProtocolAssumption
       DEF PInit, Init, GInv, OriginIsRelated, OnlyClosedReport, ActionsStayGrounded,
           EmptyReport, Objects
<1>2. ASSUME PInv, PInv', GInv, [PNext]_pvars PROVE GInv'
    <2>1. ASSUME UNCHANGED << phase, related, summary, status, origin, report >> PROVE GInv'
        BY <1>2, <2>1 DEF GInv, OriginIsRelated, OnlyClosedReport, ActionsStayGrounded, Final
    <2>2. CASE UNCHANGED pvars
        BY <2>1, <2>2 DEF pvars, vars
    <2>3. CASE \/ \E S \in SUBSET Sessions : ComputePlan(S) \/ ExportTraceability(S)
               \/ ExportPlan \/ RecordPlan \/ Leave
        BY <2>1, <2>3 DEF ComputePlan, ExportTraceability, ExportPlan, RecordPlan, Leave, vars
    <2>4. QED
        BY <1>2, <2>2, <2>3, SessionsKeepGrounds, ClosingIsGrounded DEF PNext
<1>3. QED
    BY <1>1, <1>2, PInvariance, PTL DEF PSpec

\* The actions that closing a session generates are for decisions its summary
\* lists, and those stay decided whatever other sessions do.
THEOREM ActionsGrounded == PSpec => []ActionsStayGrounded
<1>1. GInv => ActionsStayGrounded
    BY DEF GInv
<1>2. QED
    BY <1>1, GInvariance, PTL

-----------------------------------------------------------------------------
(***************************************************************************)
(* Turns.                                                                  *)
(***************************************************************************)

Replies ==
    [kind : {"none", "ok", "accept", "reject", "defer", "free"} \cup Unnamed,
     names : Proposals \cup Decisions \cup {None}, bare : {"yes", "negative", "no"},
     echo : BOOLEAN, wants : {"it", "another"}, constraints : BOOLEAN, follow : BOOLEAN]

Turns ==
    [pc : Steps \cup {"idle"}, end : Ends, reply : Replies,
     about : Decisions \cup {None}, auto : 0..MaxAuto - 1, found : SUBSET Decisions]

Recorded == { d \in Decisions : status[d] # "absent" }

\* A turn is typed, a command names what it is for, and what a turn works on
\* is recorded.
TurnIsSound(t, recorded) ==
    /\ t \in Turns
    /\ t.reply.kind \in {"accept", "reject"} => t.reply.names \in Proposals
    /\ t.reply.kind = "defer" => t.reply.names \in Decisions
    /\ t.found \subseteq recorded
    /\ t.pc = "idle" => t.found = {} /\ t.about = None
    /\ t.pc \in {"resolve", "issue", "constrain", "resolve found"} => t.about \in recorded

TurnsAreSound ==
    /\ others \in 0..MaxOthers
    /\ turn = [s \in Interviewed |-> turn[s]]
    /\ \A s \in Interviewed : TurnIsSound(turn[s], Recorded)

TInv == IInv /\ TurnsAreSound

-----------------------------------------------------------------------------
\* No operation takes a decision out of the record.
LEMMA RecordedStays ==
    ASSUME IInv, [Next]_vars, NEW d \in Decisions, status[d] # "absent"
    PROVE  status'[d] # "absent"
<1>1. CASE UNCHANGED vars
    BY <1>1 DEF vars
<1>2. CASE Next
    <2>1. [Lifecycle!LifecycleNext]_decisionStatus
        BY <1>2, LifecycleStep
    <2>2. decisionStatus[d] = status[d] /\ decisionStatus'[d] = status'[d]
        BY DEF decisionStatus
    <2>3. ASSUME decisionStatus' = decisionStatus PROVE status'[d] # "absent"
        BY <2>2, <2>3
    <2>4. ASSUME NEW e \in Decisions, NEW from, NEW to, Lifecycle!Move(e, from, to),
                 to # "absent"
          PROVE  status'[d] # "absent"
        <3>1. decisionStatus'[d] = IF d = e THEN to ELSE decisionStatus[d]
            BY <2>4 DEF Lifecycle!Move, decisionStatus
        <3>2. QED
            BY <2>2, <2>4, <3>1
    <2>5. ASSUME Lifecycle!LifecycleNext
          PROVE  \E x \in Decisions : \E from, to : Lifecycle!Move(x, from, to) /\ to # "absent"
        BY <2>5 DEF Lifecycle!LifecycleNext, Lifecycle!Discover, Lifecycle!Promote,
                    Lifecycle!Propose, Lifecycle!Withdraw, Lifecycle!Accept, Lifecycle!Resolve,
                    Lifecycle!Defer, Lifecycle!Replace, Lifecycle!DiscoverableStatuses
    <2>6. QED
        BY <2>1, <2>3, <2>4, <2>5
<1>3. QED
    BY <1>1, <1>2

-----------------------------------------------------------------------------
(***************************************************************************)
(* A turn, step by step.                                                   *)
(***************************************************************************)
LEMMA RepliesAreSound ==
    /\ NoReply \in Replies
    /\ \A r \in Commands : /\ r \in Replies
                           /\ r.kind \in {"accept", "reject"} => r.names \in Proposals
                           /\ r.kind = "defer" => r.names \in Decisions
    /\ \A r \in FreeTexts : /\ [r EXCEPT !.kind = Parsed(r)] \in Replies
                            /\ Parsed(r) \in {"answer", "affirm", "decline"}
<1>1. NoReply \in Replies
    BY DEF NoReply, Replies
<1>2. ASSUME NEW r \in Commands
      PROVE  /\ r \in Replies
             /\ r.kind \in {"accept", "reject"} => r.names \in Proposals
             /\ r.kind = "defer" => r.names \in Decisions
    <2>1. \/ r = Command("ok", None)
          \/ \E k \in {"accept", "reject"}, p \in Proposals : r = Command(k, p)
          \/ \E d \in Decisions : r = Command("defer", d)
        BY DEF Commands
    <2>2. ASSUME NEW k \in {"ok", "accept", "reject", "defer"},
                 NEW x \in Proposals \cup Decisions \cup {None}
          PROVE  /\ Command(k, x) \in Replies
                 /\ Command(k, x).kind = k /\ Command(k, x).names = x
        BY DEF Command, NoReply, Replies, Unnamed
    <2>3. QED
        BY <2>1, <2>2
<1>3. ASSUME NEW r \in FreeTexts
      PROVE  /\ [r EXCEPT !.kind = Parsed(r)] \in Replies
             /\ Parsed(r) \in {"answer", "affirm", "decline"}
    <2>1. Parsed(r) \in {"answer", "affirm", "decline"}
        BY DEF Parsed
    <2>2. r \in [kind : {"free"}, names : {None}, bare : {"yes", "negative", "no"},
                 echo : BOOLEAN, wants : {"it", "another"}, constraints : BOOLEAN,
                 follow : BOOLEAN]
        BY DEF FreeTexts
    <2>3. QED
        BY <2>1, <2>2 DEF Replies, Unnamed
<1>4. QED
    BY <1>1, <1>2, <1>3

LEMMA IdleIsSound ==
    ASSUME NEW end \in Ends
    PROVE  Idle(end) \in Turns /\ TurnIsSound(Idle(end), {})
<1>1. 0 \in 0..MaxAuto - 1
    BY InterviewAssumption
<1>2. Idle(end) \in Turns
    BY <1>1, RepliesAreSound DEF Idle, Turns
<1>3. QED
    BY <1>2 DEF Idle, TurnIsSound, NoReply

\* The steps of a turn are transactions of the protocol, or change nothing.
LEMMA TurnStepIsProtocol ==
    ASSUME TInv, NEW s \in Interviewed, TurnStep(s)
    PROVE  [Next]_vars
<1>1. s \in Sessions
    BY InterviewAssumption
<1>2. asked[s] \in Proposals \cup {None}
    BY <1>1 DEF TInv, IInv, TypeOK
<1>3. TurnIsSound(turn[s], Recorded)
    BY DEF TInv, TurnsAreSound
<1>4. ASSUME NEW d \in Decisions, NEW e \in Evidence,
             LeavePending(s, d, e) \/ ResolveByEvidence(s, d, e)
      PROVE  [Next]_vars
    BY <1>1, <1>4 DEF LeavePending, Next
<1>5. CASE Look(s) \/ Scan(s)
    BY <1>5 DEF Look, Scan
<1>6. CASE Seed(s) \/ Discover(s)
    BY <1>1, <1>6 DEF Seed, Discover, Refused, Next
<1>7. CASE Resolve(s)
    BY <1>3, <1>4, <1>7 DEF Resolve, Refused, TurnIsSound, Recorded, At
<1>8. CASE Issue(s)
    BY <1>1, <1>3, <1>8 DEF Issue, Refused, TurnIsSound, Recorded, At, Next
<1>9. CASE TakeReply(s)
    <2> DEFINE r == turn[s].reply
               p == IF r.kind \in Unnamed THEN asked[s] ELSE r.names
    <2>1. CASE Refused(s)
        BY <2>1 DEF Refused
    <2>2. CASE p # None /\ r.kind # "defer" /\ p \in Proposals
                /\ \/ \E d \in Decisions, mode \in {"ok", "explicit"} : AcceptProposal(s, d, p, mode)
                   \/ \E d \in Decisions : RejectProposal(s, d, p)
                   \/ \E d \in Decisions, q \in Proposals : AnswerProposal(s, d, p, q)
        BY <1>1, <2>2 DEF Next
    <2>3. CASE r.kind = "defer" /\ DeferDecision(s, p) /\ p \in Decisions
        BY <1>1, <2>3 DEF Next
    <2>4. r.kind \in Unnamed /\ p # None => p \in Proposals
        BY <1>2
    <2>5. r.kind \in {"accept", "reject"} => p \in Proposals
        BY <1>3 DEF TurnIsSound, Unnamed
    <2>6. r.kind = "defer" => p \in Decisions
        BY <1>3 DEF TurnIsSound, Unnamed
    <2>7. QED
        BY <1>9, <2>1, <2>2, <2>3, <2>4, <2>5, <2>6
           DEF TakeReply, Accepts, Rejects, Answers, Unnamed
<1>10. CASE Constrain(s)
    BY <1>1, <1>3, <1>10 DEF Constrain, Refused, TurnIsSound, Recorded, At, Next
<1>11. CASE ResolveFound(s)
    BY <1>3, <1>4, <1>11 DEF ResolveFound, Refused, TurnIsSound, Recorded, At
<1>12. QED
    BY <1>5, <1>6, <1>7, <1>8, <1>9, <1>10, <1>11 DEF TurnStep

LEMMA InterviewIsProtocol ==
    ASSUME TInv, [INext]_ivars
    PROVE  [Next]_vars
<1>1. CASE UNCHANGED ivars
    BY <1>1 DEF ivars
<1>2. ASSUME NEW s \in Sessions, Others(s) PROVE [Next]_vars
    <2>1. CASE Setup(s)
        BY <2>1 DEF Setup, Next
    <2>2. CASE AnotherSession(s)
        BY <2>2 DEF AnotherSession, Next
    <2>3. CASE AnotherCommand(s)
        BY <2>3 DEF AnotherCommand, Next
    <2>4. QED
        BY <1>2, <2>1, <2>2, <2>3 DEF Others
<1>3. ASSUME NEW s \in Interviewed, TurnStep(s) PROVE [Next]_vars
    BY <1>3, TurnStepIsProtocol
<1>4. ASSUME NEW s \in Interviewed, Advance(s) \/ Reply(s) PROVE [Next]_vars
    BY <1>4 DEF Advance, Reply
<1>5. QED
    BY <1>1, <1>2, <1>3, <1>4 DEF INext

LEMMA RecordedGrows ==
    ASSUME IInv, [Next]_vars
    PROVE  Recorded \subseteq Recorded'
BY RecordedStays DEF Recorded

LEMMA LookingIsSound ==
    ASSUME NEW auto \in 0..MaxAuto - 1, NEW recorded
    PROVE  TurnIsSound([Idle("none") EXCEPT !.pc = "look", !.auto = auto], recorded)
BY RepliesAreSound DEF Idle, Turns, TurnIsSound, NoReply, Ends, Steps

\* The turn of one session changes.
LEMMA OneTurn ==
    ASSUME TInv, [Next]_vars, NEW s \in Interviewed, NEW t, UNCHANGED others,
           turn' = [turn EXCEPT ![s] = t], TurnIsSound(t, Recorded')
    PROVE  TurnsAreSound'
<1>1. Recorded \subseteq Recorded'
    BY RecordedGrows DEF TInv
<1>2. turn' = [r \in Interviewed |-> turn'[r]]
    BY DEF TInv, TurnsAreSound
<1>3. \A r \in Interviewed : turn'[r] = IF r = s THEN t ELSE turn[r]
    BY DEF TInv, TurnsAreSound
<1>4. \A r \in Interviewed : TurnIsSound(turn[r], Recorded) => TurnIsSound(turn[r], Recorded')
    BY <1>1 DEF TurnIsSound
<1>5. \A r \in Interviewed : TurnIsSound(turn'[r], Recorded')
    BY <1>3, <1>4 DEF TInv, TurnsAreSound
<1>6. others' \in 0..MaxOthers
    BY DEF TInv, TurnsAreSound
<1>7. QED
    BY <1>2, <1>5, <1>6 DEF TurnsAreSound

LEMMA TurnEnds ==
    ASSUME TInv, [Next]_vars, NEW s \in Interviewed, UNCHANGED others,
           \/ \E end \in Ends : End(s, end)
           \/ \E auto \in 0..MaxAuto - 1 : LookAgain(s, auto)
    PROVE  TurnsAreSound'
<1>1. ASSUME NEW end \in Ends, End(s, end) PROVE TurnsAreSound'
    <2>1. TurnIsSound(Idle(end), Recorded')
        BY IdleIsSound DEF TurnIsSound
    <2>2. QED
        BY <1>1, <2>1, OneTurn DEF End
<1>2. ASSUME NEW auto \in 0..MaxAuto - 1, LookAgain(s, auto) PROVE TurnsAreSound'
    BY <1>2, LookingIsSound, OneTurn DEF LookAgain
<1>3. QED
    BY <1>1, <1>2

\* A turn goes on to another step, with what it was about or about decision d.
LEMMA TurnGoesOn ==
    ASSUME TInv, [Next]_vars, NEW s \in Interviewed, UNCHANGED others,
           NEW pc \in Steps, NEW about \in Decisions \cup {None}, NEW found,
           found \subseteq Recorded',
           pc \in {"resolve", "issue", "constrain", "resolve found"} => about \in Recorded',
           turn' = [turn EXCEPT ![s] = [turn[s] EXCEPT !.pc = pc, !.about = about,
                                                       !.found = found]]
    PROVE  TurnsAreSound'
<1> DEFINE t == [turn[s] EXCEPT !.pc = pc, !.about = about, !.found = found]
<1>1. TurnIsSound(turn[s], Recorded)
    BY DEF TInv, TurnsAreSound
<1>2. turn[s] \in Turns
    BY <1>1 DEF TurnIsSound
<1>3. found \in SUBSET Decisions
    BY DEF Recorded
<1>4. /\ t \in Turns /\ t.reply = turn[s].reply
      /\ t.pc = pc /\ t.about = about /\ t.found = found
    BY <1>2, <1>3 DEF Turns
<1>5. TurnIsSound(t, Recorded')
    BY <1>1, <1>4 DEF TurnIsSound, Steps
<1>6. QED
    BY <1>5, OneTurn

\* A turn that goes on without a new subject.
LEMMA TurnMovesOn ==
    ASSUME TInv, [Next]_vars, NEW s \in Interviewed, UNCHANGED others,
           NEW pc \in Steps \ {"resolve", "issue", "constrain", "resolve found"},
           NEW found, found \subseteq Recorded',
           turn' = [turn EXCEPT ![s] = [turn[s] EXCEPT !.pc = pc, !.found = found]]
    PROVE  TurnsAreSound'
<1>1. TurnIsSound(turn[s], Recorded)
    BY DEF TInv, TurnsAreSound
<1>2. turn[s].about \in Decisions \cup {None} /\ turn[s] \in Turns
    BY <1>1 DEF TurnIsSound, Turns
<1>3. [turn[s] EXCEPT !.pc = pc, !.found = found]
          = [turn[s] EXCEPT !.pc = pc, !.about = turn[s].about, !.found = found]
    BY <1>2 DEF Turns
<1>4. QED
    BY <1>2, <1>3, TurnGoesOn

\* What is decided is recorded.
LEMMA DecidedIsRecorded ==
    ASSUME TInv, NEW s \in Sessions, NEW d \in Decisions, NEW p \in Proposals,
           \/ \E mode \in {"ok", "explicit"} : AcceptProposal(s, d, p, mode)
           \/ \E q \in Proposals : AnswerProposal(s, d, p, q)
    PROVE  d \in Recorded'
<1>1. [Next]_vars
    BY DEF Next
<1>2. d \in Recorded
    BY DEF AcceptProposal, AnswerProposal, ReplyTarget, Recorded
<1>3. QED
    BY <1>1, <1>2, RecordedGrows DEF TInv

LEMMA TurnStepIsSound ==
    ASSUME TInv, NEW s \in Interviewed, TurnStep(s)
    PROVE  TurnsAreSound'
<1> DEFINE t == turn[s]
<1>1. [Next]_vars /\ s \in Sessions /\ others' = others
    BY TurnStepIsProtocol, InterviewAssumption DEF TurnStep
<1>2. TurnIsSound(t, Recorded) /\ t \in Turns
    BY DEF TInv, TurnsAreSound, TurnIsSound
<1>3. t.auto \in 0..MaxAuto - 1 /\ 0 \in 0..MaxAuto - 1
    BY <1>2, InterviewAssumption DEF Turns
<1>4. /\ t.found \subseteq Recorded /\ Recorded \subseteq Recorded'
      /\ t.about \in Decisions \cup {None}
    BY <1>1, <1>2, RecordedGrows DEF TInv, TurnIsSound, Turns
<1>5. CASE (\E end \in Ends : End(s, end)) \/ (\E auto \in 0..MaxAuto - 1 : LookAgain(s, auto))
    BY <1>1, <1>5, TurnEnds
<1>6. CASE Look(s)
    <2>1. ASSUME NEW d \in Decisions, NEW pc \in {"resolve", "issue"}, IsNext(s, d),
                 turn' = [turn EXCEPT ![s].about = d, ![s].pc = pc]
          PROVE  TurnsAreSound'
        <3>1. d \in Recorded'
            BY <1>4, <2>1 DEF IsNext, OPEN_MUTATION_STATUSES, Recorded
        <3>2. turn' = [turn EXCEPT ![s] = [t EXCEPT !.pc = pc, !.about = d, !.found = t.found]]
            BY <1>2, <2>1 DEF Turns, TInv, TurnsAreSound
        <3>3. pc \in Steps
            BY DEF Steps
        <3>4. QED
            BY <1>1, <1>4, <3>1, <3>2, <3>3, TurnGoesOn
    <2>2. CASE Goto(s, "seed")
        <3>1. turn' = [turn EXCEPT ![s] = [t EXCEPT !.pc = "seed", !.found = t.found]]
            BY <1>2, <2>2 DEF Goto, Turns, TInv, TurnsAreSound
        <3>2. QED
            BY <1>1, <1>4, <3>1, TurnMovesOn DEF Steps
    <2>3. QED
        BY <1>5, <1>6, <2>1, <2>2 DEF Look, Ends
<1>7. CASE Seed(s)
    BY <1>3, <1>5, <1>7 DEF Seed, Refused, Ends
<1>8. CASE Resolve(s)
    <2>1. t.auto + 1 # MaxAuto => t.auto + 1 \in 0..MaxAuto - 1
        BY <1>3, InterviewAssumption
    <2>2. QED
        BY <1>3, <1>5, <1>8, <2>1 DEF Resolve, Refused, Ends
<1>9. CASE Issue(s)
    BY <1>5, <1>9 DEF Issue, Refused, Ends
<1>10. CASE TakeReply(s)
    <2> DEFINE r == t.reply
               p == IF r.kind \in Unnamed THEN asked[s] ELSE r.names
    <2>1. CASE Answers(s, p) /\ p # None /\ r.kind = "answer"
        <3>1. p \in Proposals
            BY <1>1, <2>1 DEF TInv, IInv, TypeOK, Unnamed
        <3>2. PICK d \in Decisions :
                  /\ \/ \E mode \in {"ok", "explicit"} : AcceptProposal(s, d, p, mode)
                     \/ \E q \in Proposals : AnswerProposal(s, d, p, q)
                  /\ FollowUp(s, d)
            BY <2>1 DEF Answers
        <3>3. d \in Recorded'
            BY <1>1, <3>1, <3>2, DecidedIsRecorded
        <3>4. ASSUME NEW pc \in {"constrain", "discover"},
                     turn' = [turn EXCEPT ![s].about = d, ![s].pc = pc]
              PROVE  TurnsAreSound'
            <4>1. turn' = [turn EXCEPT ![s] = [t EXCEPT !.pc = pc, !.about = d,
                                                        !.found = t.found]]
                BY <1>2, <3>4 DEF Turns, TInv, TurnsAreSound
            <4>2. pc \in Steps
                BY DEF Steps
            <4>3. QED
                BY <1>1, <1>4, <3>3, <4>1, <4>2, TurnGoesOn
        <3>5. QED
            BY <1>3, <1>5, <3>2, <3>4 DEF FollowUp
    <2>2. QED
        BY <1>3, <1>5, <1>10, <2>1 DEF TakeReply, Refused, Accepts, Rejects, Ends
<1>11. CASE Constrain(s)
    <2>1. CASE Goto(s, "discover")
        <3>1. turn' = [turn EXCEPT ![s] = [t EXCEPT !.pc = "discover", !.found = t.found]]
            BY <1>2, <2>1 DEF Goto, Turns, TInv, TurnsAreSound
        <3>2. "discover" \in Steps \ {"resolve", "issue", "constrain", "resolve found"}
            BY DEF Steps
        <3>3. QED
            BY <1>1, <1>4, <3>1, <3>2, TurnMovesOn
    <2>2. QED
        BY <1>3, <1>5, <1>11, <2>1 DEF Constrain, Refused, Ends
<1>12. CASE Discover(s)
    <2>1. ASSUME NEW d \in Decisions, DiscoverDecision(s, d), status'[d] = "unresolved",
                 turn' = [turn EXCEPT ![s] = [Idle("none") EXCEPT !.pc = "scan", !.found = {d}]]
          PROVE  TurnsAreSound'
        <3>1. d \in Recorded'
            BY <2>1 DEF Recorded
        <3>2. TurnIsSound([Idle("none") EXCEPT !.pc = "scan", !.found = {d}], Recorded')
            BY <1>3, <3>1, RepliesAreSound DEF Idle, Turns, TurnIsSound, NoReply, Ends, Steps
        <3>3. QED
            BY <1>1, <2>1, <3>2, OneTurn
    <2>2. QED
        BY <1>5, <1>12, <2>1 DEF Discover, Refused, Ends
<1>13. CASE Scan(s)
    <2>1. ASSUME NEW d \in t.found, turn' = [turn EXCEPT ![s].pc = "resolve found", ![s].about = d]
          PROVE  TurnsAreSound'
        <3>1. d \in Recorded' /\ d \in Decisions
            BY <1>4, <2>1 DEF Recorded
        <3>2. turn' = [turn EXCEPT ![s] = [t EXCEPT !.pc = "resolve found", !.about = d,
                                                    !.found = t.found]]
            BY <1>2, <2>1 DEF Turns, TInv, TurnsAreSound
        <3>3. QED
            BY <1>1, <1>4, <3>1, <3>2, TurnGoesOn DEF Steps
    <2>2. ASSUME NEW d \in t.found, turn' = [turn EXCEPT ![s].found = @ \ {d}], At(s, "scan")
          PROVE  TurnsAreSound'
        <3>1. turn' = [turn EXCEPT ![s] = [t EXCEPT !.pc = "scan", !.found = t.found \ {d}]]
            BY <1>2, <2>2 DEF Turns, TInv, TurnsAreSound, At
        <3>2. "scan" \in Steps \ {"resolve", "issue", "constrain", "resolve found"}
            BY DEF Steps
        <3>3. t.found \ {d} \subseteq Recorded'
            BY <1>4
        <3>4. QED
            BY <1>1, <3>1, <3>2, <3>3, TurnMovesOn
    <2>3. QED
        BY <1>3, <1>5, <1>13, <2>1, <2>2 DEF Scan
<1>14. CASE ResolveFound(s)
    <2>1. ASSUME turn' = [turn EXCEPT ![s].pc = "scan", ![s].found = @ \ {t.about}]
          PROVE  TurnsAreSound'
        <3>1. turn' = [turn EXCEPT ![s] = [t EXCEPT !.pc = "scan", !.found = t.found \ {t.about}]]
            BY <1>2, <2>1 DEF Turns, TInv, TurnsAreSound
        <3>2. "scan" \in Steps \ {"resolve", "issue", "constrain", "resolve found"}
            BY DEF Steps
        <3>3. t.found \ {t.about} \subseteq Recorded'
            BY <1>4
        <3>4. QED
            BY <1>1, <3>1, <3>2, <3>3, TurnMovesOn
    <2>2. QED
        BY <1>5, <1>14, <2>1 DEF ResolveFound, Refused, Ends
<1>15. QED
    BY <1>6, <1>7, <1>8, <1>9, <1>10, <1>11, <1>12, <1>13, <1>14 DEF TurnStep

\* A step of a session's turn leaves the turns of the others alone.
LEMMA TurnStepIsOfOne ==
    ASSUME TInv, NEW s \in Interviewed, TurnStep(s)
    PROVE  \A r \in Interviewed : r # s => turn'[r] = turn[r]
<1> SUFFICES ASSUME NEW r \in Interviewed, r # s PROVE turn'[r] = turn[r]
    OBVIOUS
<1>1. turn = [q \in Interviewed |-> turn[q]]
    BY DEF TInv, TurnsAreSound
<1>2. ASSUME \/ \E end \in Ends : End(s, end)
             \/ \E auto : LookAgain(s, auto)
             \/ \E pc : Goto(s, pc)
             \/ \E d : FollowUp(s, d)
      PROVE  turn'[r] = turn[r]
    BY <1>1, <1>2 DEF End, LookAgain, Goto, FollowUp
<1>3. CASE Look(s)
    BY <1>1, <1>2, <1>3 DEF Look, Ends
<1>4. CASE Seed(s) \/ Issue(s) \/ Resolve(s)
    BY <1>2, <1>4 DEF Seed, Issue, Resolve, Refused, Ends
<1>5. CASE TakeReply(s)
    BY <1>2, <1>5 DEF TakeReply, Accepts, Rejects, Answers, Refused, Ends
<1>6. CASE Constrain(s)
    BY <1>2, <1>6 DEF Constrain, Refused, Ends
<1>7. CASE Discover(s) \/ ResolveFound(s)
    BY <1>1, <1>2, <1>7 DEF Discover, ResolveFound, Refused, Ends
<1>8. CASE Scan(s)
    BY <1>1, <1>2, <1>8 DEF Scan
<1>9. QED
    BY <1>3, <1>4, <1>5, <1>6, <1>7, <1>8 DEF TurnStep

LEMMA InterviewInit == IInit => TInv
<1> SUFFICES ASSUME IInit PROVE TInv
    OBVIOUS
<1>1. IInv
    BY InitInvariant DEF IInit
<1>2. others \in 0..MaxOthers
    BY InterviewAssumption DEF IInit
<1>3. TurnIsSound(Idle("none"), Recorded)
    BY IdleIsSound DEF Ends, TurnIsSound
<1>4. QED
    BY <1>1, <1>2, <1>3 DEF IInit, TInv, TurnsAreSound

LEMMA InterviewStep == TInv /\ [INext]_ivars => TInv'
<1> SUFFICES ASSUME TInv, [INext]_ivars PROVE TInv'
    OBVIOUS
<1>1. [Next]_vars
    BY InterviewIsProtocol
<1>2. IInv' /\ Recorded \subseteq Recorded'
    BY <1>1, StepInvariant, RecordedGrows DEF TInv
<1>3. ASSUME turn' = turn, others' \in 0..MaxOthers PROVE TurnsAreSound'
    BY <1>2, <1>3 DEF TInv, TurnsAreSound, TurnIsSound
<1>4. others \in 0..MaxOthers /\ MaxOthers \in Nat
    BY InterviewAssumption DEF TInv, TurnsAreSound
<1>5. ASSUME UNCHANGED ivars PROVE TurnsAreSound'
    BY <1>3, <1>4, <1>5 DEF ivars
<1>6. ASSUME NEW s \in Sessions, Others(s) PROVE TurnsAreSound'
    BY <1>3, <1>4, <1>6 DEF Others
<1>7. ASSUME NEW s \in Interviewed, TurnStep(s) PROVE TurnsAreSound'
    BY <1>7, TurnStepIsSound
<1>8. ASSUME NEW s \in Interviewed, Advance(s), UNCHANGED others PROVE TurnsAreSound'
    BY <1>1, <1>8, TurnEnds, InterviewAssumption DEF Advance
<1>9. ASSUME NEW s \in Interviewed, Reply(s), UNCHANGED others PROVE TurnsAreSound'
    <2>1. ASSUME NEW r \in Replies,
                 r.kind \in {"accept", "reject"} => r.names \in Proposals,
                 r.kind = "defer" => r.names \in Decisions,
                 turn' = [turn EXCEPT ![s] = [Idle("none") EXCEPT !.pc = "reply", !.reply = r]]
          PROVE  TurnsAreSound'
        <3>1. 0 \in 0..MaxAuto - 1
            BY InterviewAssumption
        <3>2. TurnIsSound([Idle("none") EXCEPT !.pc = "reply", !.reply = r], Recorded')
            BY <2>1, <3>1 DEF Idle, Turns, TurnIsSound, Ends, Steps
        <3>3. QED
            BY <1>1, <1>9, <2>1, <3>2, OneTurn
    <2>2. ASSUME NEW end \in Ends, turn' = [turn EXCEPT ![s] = Idle(end)]
          PROVE  TurnsAreSound'
        BY <1>1, <1>9, <2>2, TurnEnds DEF End
    <2>3. ASSUME NEW r \in Commands,
                 turn' = [turn EXCEPT ![s] = [Idle("none") EXCEPT !.pc = "reply", !.reply = r]]
          PROVE  TurnsAreSound'
        BY <2>1, <2>3, RepliesAreSound
    <2>4. ASSUME NEW r \in FreeTexts,
                 turn' = [turn EXCEPT ![s] =
                     IF asked[s] = None THEN Idle("unsupported")
                     ELSE IF IsStale(s) THEN Idle("error")
                     ELSE [Idle("none") EXCEPT !.pc = "reply",
                                               !.reply = [r EXCEPT !.kind = Parsed(r)]]]
          PROVE  TurnsAreSound'
        <3>1. CASE asked[s] = None
            BY <2>2, <2>4, <3>1 DEF Ends
        <3>2. CASE asked[s] # None /\ IsStale(s)
            BY <2>2, <2>4, <3>2 DEF Ends
        <3>3. CASE asked[s] # None /\ ~IsStale(s)
            <4> DEFINE q == [r EXCEPT !.kind = Parsed(r)]
            <4>1. q \in Replies /\ Parsed(r) \in {"answer", "affirm", "decline"}
                BY RepliesAreSound
            <4>2. q.kind = Parsed(r)
                BY <4>1 DEF FreeTexts
            <4>3. QED
                BY <2>1, <2>4, <3>3, <4>1, <4>2
        <3>4. QED
            BY <3>1, <3>2, <3>3
    <2>5. QED
        BY <1>9, <2>3, <2>4 DEF Reply
<1>10. ASSUME INext PROVE TurnsAreSound'
    BY <1>6, <1>7, <1>8, <1>9, <1>10 DEF INext
<1>11. TurnsAreSound'
    BY <1>5, <1>10
<1>12. QED
    BY <1>2, <1>11 DEF TInv

LEMMA InterviewInvariance == ISpec => []TInv
BY InterviewInit, InterviewStep, PTL DEF ISpec

-----------------------------------------------------------------------------
(***************************************************************************)
(* What turns guarantee.                                                   *)
(***************************************************************************)

\* advance-session and handle-reply do, step by step and whoever else is at
\* work, what the protocol allows.
THEOREM TurnsAreProtocol == ISpec => ImplementsProtocol
<1>1. IInit => Init
    BY DEF IInit
<1>2. TInv /\ [INext]_ivars => [Next]_vars
    BY InterviewIsProtocol
<1>3. QED
    BY <1>1, <1>2, InterviewInvariance, PTL DEF ISpec, ImplementsProtocol, Spec

\* So what the protocol guarantees holds between the steps of a turn, and after
\* a turn that failed half-way.
THEOREM TurnsKeepTheProtocol ==
    ISpec => /\ []ProposedIsAnswerable /\ []OrphanIsMoot
             /\ RepliesAreFinal /\ ImplementsLifecycle
BY TurnsAreProtocol, QuestionsCanBeAnswered, OrphansAreMoot, RepliesFinal,
   ProtocolImplementsLifecycle, PTL DEF ImplementsProtocol

\* The variables of the turns hold what their comments say.
THEOREM TurnsTypeCorrect == ISpec => []ITypeOK
<1>1. ASSUME TInv PROVE ITypeOK
    <2>1. ASSUME NEW s \in Interviewed
          PROVE  LET t == turn[s]
                 IN  /\ t.pc \in Steps \cup {"idle"} /\ t.end \in Ends
                     /\ t.reply.kind \in {"none", "ok", "accept", "reject", "defer", "free"}
                                          \cup Unnamed
                     /\ t.auto \in 0..MaxAuto - 1
                     /\ t.found \subseteq { d \in Decisions : status[d] # "absent" }
                     /\ t.pc = "idle" => t.found = {} /\ t.about = None
                     /\ t.pc \in {"resolve", "issue", "constrain", "resolve found"} =>
                           t.about \in Decisions /\ status[t.about] # "absent"
        <3>1. TurnIsSound(turn[s], Recorded)
            BY <1>1 DEF TInv, TurnsAreSound
        <3>2. turn[s] \in Turns /\ turn[s].reply \in Replies
            BY <3>1 DEF TurnIsSound, Turns
        <3>3. QED
            BY <3>1, <3>2 DEF TurnIsSound, Turns, Replies, Recorded
    <2>2. QED
        BY <1>1, <2>1 DEF ITypeOK, TInv, TurnsAreSound
<1>2. QED
    BY <1>1, InterviewInvariance, PTL

\* A reply that names no proposal decides something only on the decisions its
\* question was shown with.
THEOREM RepliesFresh == ISpec => RepliesAreFresh
<1> DEFINE Informed == \A s \in Interviewed :
          /\ turn[s].pc = "reply" /\ turn[s].reply.kind \in Unnamed
          /\ turn'[s] # turn[s] /\ status' # status
          => shown[s] = [d \in Decisions |-> status[d]]
<1>1. ASSUME TInv, INext PROVE Informed
    <2> SUFFICES ASSUME NEW s \in Interviewed, turn[s].pc = "reply",
                        turn[s].reply.kind \in Unnamed,
                        turn'[s] # turn[s], status' # status
                 PROVE  shown[s] = [d \in Decisions |-> status[d]]
        OBVIOUS
    <2>1. s \in Sessions
        BY InterviewAssumption
    <2>2. \A r \in Sessions : ~Others(r)
        BY DEF Others
    <2>3. PICK r \in Interviewed : TurnStep(r) \/ Advance(r) \/ Reply(r)
        BY <1>1, <2>2 DEF INext
    <2>4. TurnStep(r)
        BY <2>3 DEF Advance, Reply, vars
    <2>5. r = s
        BY <1>1, <2>4, TurnStepIsOfOne
    <2>6. TakeReply(s)
        BY <2>4, <2>5 DEF TurnStep, Look, Seed, Resolve, Issue, Constrain, Discover,
                          Scan, ResolveFound, At
    <2>7. ~Refused(s)
        BY DEF Refused, vars
    <2>8. asked[s] # None /\ Fresh(s, asked[s])
        BY <2>6, <2>7 DEF TakeReply
    <2>9. QED
        BY <1>1, <2>1, <2>8 DEF Fresh, TInv, IInv, ShownIsCurrent
<1>2. ASSUME TInv, [INext]_ivars PROVE [Informed]_ivars
    BY <1>1, <1>2
<1>3. QED
    BY <1>2, InterviewInvariance, PTL DEF ISpec, RepliesAreFresh
=============================================================================
