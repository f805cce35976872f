----------------------------- MODULE Interview -----------------------------
(***************************************************************************)
(* decide_me/interview.py and decide_me/selector.py: advance-session and   *)
(* handle-reply.                                                           *)
(*                                                                         *)
(* A turn is several transactions of DecisionProtocol.  What the turn does *)
(* next is decided on bundles read without the lock (current_bundle), and  *)
(* other sessions, and other commands on the same session, run in between. *)
(* A session has one user: the replies to its questions are one after      *)
(* another.                                                                *)
(*                                                                         *)
(* A reply is known by what handle_reply finds in it, and by what the user *)
(* wants; it has at most one clause with a follow-up decision.             *)
(*                                                                         *)
(* Left out: the texts, the classification of the follow-up decisions (an  *)
(* input: any decision not recorded yet), the search for candidates in the *)
(* repository, which only adds text to the question, and the suppression   *)
(* of decisions by resolved conflicts.                                     *)
(***************************************************************************)
EXTENDS DecisionProtocol

CONSTANTS
    Interviewed,    \* sessions with a user
    DecisionTitle,  \* title of each decision
    WorkTitle,      \* title of the work item in the summary of each session
    MaxAuto,        \* max_auto_resolutions
    MaxOthers       \* bound of what others do beside the turns

ASSUME InterviewAssumption ==
    /\ Interviewed \subseteq Sessions
    /\ MaxAuto \in Nat \ {0} /\ MaxOthers \in Nat

VARIABLES
    turn,       \* the turn of each session, or how its last one ended
    others      \* what others have done

ivars == << vars, turn, others >>

Ends == {"none", "question", "stale-proposal", "unbound", "complete", "pending_approval",
         "resolved-by-evidence", "rejected", "unsupported", "error"}

Steps == {"look", "seed", "resolve", "issue", "reply", "constrain", "discover", "scan",
          "resolve found"}

-----------------------------------------------------------------------------
(* Replies.                                                                *)

NoReply == [kind |-> "none", names |-> None, bare |-> "no", echo |-> FALSE, wants |-> "it",
            constraints |-> FALSE, follow |-> FALSE]

(* OK, Accept P-..., Reject P-... and Defer D-...                          *)
Command(kind, names) == [NoReply EXCEPT !.kind = kind, !.names = names]

Commands ==
    { Command("ok", None) }
    \cup { Command(k, p) : k \in {"accept", "reject"}, p \in Proposals }
    \cup { Command("defer", d) : d \in Decisions }

(* A free text: whether its answer is a bare yes or no; whether it repeats *)
(* the recommendation or three fifths of its words; and whether it has     *)
(* clauses with constraints and with a follow-up decision.  Its user wants *)
(* the recommendation, or does not.                                        *)
FreeTexts ==
    { r \in [kind : {"free"}, names : {None}, bare : {"yes", "negative", "no"},
             echo : BOOLEAN, wants : {"it", "another"}, constraints : BOOLEAN, follow : BOOLEAN] :
        /\ r.bare # "no" => ~ r.echo
        /\ r.bare = "yes" => r.wants = "it"
        /\ r.bare = "negative" => r.wants = "another"
        /\ r.wants = "it" => r.bare = "yes" \/ r.echo }

(* _looks_like_affirmation                                                 *)
LooksLikeAffirmation(r) == r.bare = "yes" \/ r.echo

(* _parse_active_reply                                                     *)
Parsed(r) ==
    IF r.constraints \/ r.follow THEN "answer"
    ELSE IF LooksLikeAffirmation(r) THEN "affirm"
    ELSE IF r.bare = "negative" THEN "decline"
    ELSE "answer"

(* _derive_answer_summary gives the recommendation: when the answer looks  *)
(* like it, and when nothing is left of the answer without a yes or no.    *)
AnswersTheRecommendation(r) == LooksLikeAffirmation(r) \/ r.bare = "negative"

Unnamed == {"ok", "affirm", "decline", "answer"}

-----------------------------------------------------------------------------
Idle(end) == [pc |-> "idle", end |-> end, reply |-> NoReply, about |-> None, auto |-> 0,
              found |-> {}]

IInit ==
    /\ Init
    /\ turn = [s \in Interviewed |-> Idle("none")]
    /\ others = 0

At(s, pc) == turn[s].pc = pc

Goto(s, pc) == turn' = [turn EXCEPT ![s].pc = pc]

End(s, end) == turn' = [turn EXCEPT ![s] = Idle(end)]

LookAgain(s, auto) ==
    turn' = [turn EXCEPT ![s] = [Idle("none") EXCEPT !.pc = "look", !.auto = auto]]

(* The lock is not had in time, or the builder, the gate or the validator  *)
(* refuses: the error ends the command, whatever the turn had recorded.    *)
Refused(s) == End(s, "error") /\ UNCHANGED vars

-----------------------------------------------------------------------------
(* advance_session                                                         *)

Advance(s) ==
    /\ At(s, "idle") /\ phase[s] # "absent"
    /\ LookAgain(s, 0)
    /\ UNCHANGED vars

(* proposal_is_stale, of a question of a session that is open.             *)
IsStale(s) ==
    \/ \E d \in Decisions : Addresses(asked[s], d) /\ status[d] = "invalidated"
    \/ asked[s] \notin current

(* select_next_decision with scope "session": among these, whose order is  *)
(* left open.                                                              *)
IsNext(s, d) ==
    /\ d \in Blocking /\ IsSessionDecision(s, d)
    /\ status[d] \in OPEN_MUTATION_STATUSES

HasNext(s) == \E d \in Decisions : IsNext(s, d)

(* _runtime_evidence: a final decision with the same title, or one that a  *)
(* closed session about that title lists.                                  *)
HasEvidence(s, d) ==
    \/ \E c \in Decisions \ {d} :
          status[c] \in FINAL_INVALIDATING_STATUSES /\ DecisionTitle[c] = DecisionTitle[d]
    \/ \E t \in Sessions \ {s} :
          /\ phase[t] = "closed" /\ WorkTitle[t] = DecisionTitle[d]
          /\ \E c \in summary[t].decisions : status[c] \in FINAL_INVALIDATING_STATUSES

(* One look at the bundle: an open question is shown again or found stale, *)
(* else the next decision is resolved or asked about.                      *)
Look(s) ==
    /\ At(s, "look")
    /\ UNCHANGED vars
    /\ \/ phase[s] = "closed" /\ End(s, "error")
       \/ /\ phase[s] # "closed" /\ asked[s] # None
          /\ End(s, IF IsStale(s) THEN "stale-proposal" ELSE "question")
       \/ /\ phase[s] # "closed" /\ asked[s] = None
          /\ IF HasNext(s)
             THEN \E d \in Decisions :
                    /\ IsNext(s, d)
                    /\ turn' = [turn EXCEPT ![s].about = d,
                                  ![s].pc = IF HasEvidence(s, d) THEN "resolve" ELSE "issue"]
             ELSE IF related[s] = {}
             THEN Goto(s, "seed") \/ End(s, "unbound")
             ELSE End(s, "complete")

(* _seed_initial_pack_decision                                             *)
Seed(s) ==
    /\ At(s, "seed")
    /\ \/ Refused(s)
       \/ /\ \E d \in Decisions : DiscoverDecision(s, d) /\ status'[d] = "unresolved"
          /\ LookAgain(s, turn[s].auto)

(* resolve_by_evidence when the gate asks for an approval.                 *)
LeavePending(s, d, e) ==
    \/ RecordEvidence(s, d, e)
    \/ /\ Mutable(s) /\ Bound(s, d) /\ NoOtherActiveProposal(s, d)
       /\ status[d] \in OPEN_MUTATION_STATUSES
       /\ Link("supports", e, d) \in links
       /\ UNCHANGED vars

(* Mutants: a pending approval is taken for a resolution; an off-by-one.    *)
Resolve_PendingGoesOn(s) ==
    /\ At(s, "resolve")
    /\ LET d == turn[s].about
       IN  \/ Refused(s)
           \/ \E e \in Evidence : LeavePending(s, d, e) /\ LookAgain(s, turn[s].auto)
           \/ /\ \E e \in Evidence : ResolveByEvidence(s, d, e)
              /\ IF turn[s].auto + 1 = MaxAuto
                 THEN End(s, "resolved-by-evidence")
                 ELSE LookAgain(s, turn[s].auto + 1)

Resolve(s) ==
    /\ At(s, "resolve")
    /\ LET d == turn[s].about
       IN  \/ Refused(s)
           \/ \E e \in Evidence : LeavePending(s, d, e) /\ End(s, "pending_approval")
           \/ /\ \E e \in Evidence : ResolveByEvidence(s, d, e)
              /\ IF turn[s].auto + 1 = MaxAuto
                 THEN End(s, "resolved-by-evidence")
                 ELSE LookAgain(s, turn[s].auto + 1)

Issue(s) ==
    /\ At(s, "issue")
    /\ \/ Refused(s)
       \/ /\ \E p \in Proposals : IssueProposal(s, turn[s].about, p)
          /\ End(s, "question")

-----------------------------------------------------------------------------
(* handle_reply                                                            *)

(* A free text is read against the recommendation of the open question, if *)
(* the bundle has one and it is fresh.                                     *)
Reply(s) ==
    /\ At(s, "idle") /\ phase[s] = "active"
    /\ UNCHANGED vars
    /\ \/ \E r \in Commands :
            turn' = [turn EXCEPT ![s] = [Idle("none") EXCEPT !.pc = "reply", !.reply = r]]
       \/ \E r \in FreeTexts :
            turn' = [turn EXCEPT ![s] =
                IF asked[s] = None THEN Idle("unsupported")
                ELSE IF IsStale(s) THEN Idle("error")
                ELSE [Idle("none") EXCEPT !.pc = "reply", !.reply = [r EXCEPT !.kind = Parsed(r)]]]

FollowUp(s, d) ==
    LET r == turn[s].reply
    IN  IF r.constraints \/ r.follow
        THEN turn' = [turn EXCEPT ![s].about = d,
                        ![s].pc = IF r.constraints THEN "constrain" ELSE "discover"]
        ELSE LookAgain(s, 0)

Accepts(s, p, mode) ==
    /\ \E d \in Decisions : AcceptProposal(s, d, p, mode)
    /\ LookAgain(s, 0)

Rejects(s, p) ==
    /\ \E d \in Decisions : RejectProposal(s, d, p)
    /\ End(s, "rejected")

Answers(s, p) ==
    \E d \in Decisions :
        /\ IF AnswersTheRecommendation(turn[s].reply)
           THEN AcceptProposal(s, d, p, "explicit")
           ELSE \E q \in Proposals : AnswerProposal(s, d, p, q)
        /\ FollowUp(s, d)

(* The transaction of the reply.  One that names no proposal is for the    *)
(* question that is open under the lock, and _resolve_proposal_target asks *)
(* again whether that one is fresh.                                        *)
TakeReply_FreshWhenRead(s) ==
    /\ At(s, "reply")
    /\ LET r == turn[s].reply
           p == IF r.kind \in Unnamed THEN asked[s] ELSE r.names
       IN  \/ Refused(s)
           \/ /\ p # None
              /\ \/ r.kind = "ok" /\ Accepts(s, p, "ok")
                 \/ r.kind \in {"accept", "affirm"} /\ Accepts(s, p, "explicit")
                 \/ r.kind \in {"reject", "decline"} /\ Rejects(s, p)
                 \/ r.kind = "answer" /\ Answers(s, p)
                 \/ r.kind = "defer" /\ DeferDecision(s, p) /\ LookAgain(s, 0)

TakeReply(s) ==
    /\ At(s, "reply")
    /\ LET r == turn[s].reply
           p == IF r.kind \in Unnamed THEN asked[s] ELSE r.names
       IN  \/ Refused(s)
           \/ /\ p # None
              /\ r.kind \in Unnamed => Fresh(s, p)
              /\ \/ r.kind = "ok" /\ Accepts(s, p, "ok")
                 \/ r.kind \in {"accept", "affirm"} /\ Accepts(s, p, "explicit")
                 \/ r.kind \in {"reject", "decline"} /\ Rejects(s, p)
                 \/ r.kind = "answer" /\ Answers(s, p)
                 \/ r.kind = "defer" /\ DeferDecision(s, p) /\ LookAgain(s, 0)

(* record_reply_artifacts: constraints that address the decision.          *)
Constrain(s) ==
    /\ At(s, "constrain")
    /\ \/ Refused(s)
       \/ /\ EnrichDecision(s, turn[s].about)
          /\ IF turn[s].reply.follow THEN Goto(s, "discover") ELSE LookAgain(s, 0)

(* The follow-up decision of the reply.                                    *)
Discover(s) ==
    /\ At(s, "discover")
    /\ \/ Refused(s)
       \/ \E d \in Decisions :
             /\ DiscoverDecision(s, d) /\ status'[d] = "unresolved"
             /\ turn' = [turn EXCEPT ![s] = [Idle("none") EXCEPT !.pc = "scan", !.found = {d}]]

(* _resolve_discovered_decisions_by_evidence, the bundle it reads.         *)
Scan(s) ==
    /\ At(s, "scan")
    /\ UNCHANGED vars
    /\ \/ turn[s].found = {} /\ LookAgain(s, 0)
       \/ \E d \in turn[s].found :
             IF HasEvidence(s, d)
             THEN turn' = [turn EXCEPT ![s].pc = "resolve found", ![s].about = d]
             ELSE turn' = [turn EXCEPT ![s].found = @ \ {d}]

(* Mutant: the status that was read is taken for the one under the lock.   *)
(* and its transaction: an approval that is needed does not end the turn.  *)
ResolveFound(s) ==
    /\ At(s, "resolve found")
    /\ LET d == turn[s].about
       IN  \/ Refused(s)
           \/ /\ \E e \in Evidence : LeavePending(s, d, e) \/ ResolveByEvidence(s, d, e)
              /\ turn' = [turn EXCEPT ![s].pc = "scan", ![s].found = @ \ {d}]

-----------------------------------------------------------------------------
(* Everybody else.                                                         *)

Setup(s) == CreateSession(s) \/ \E d \in Decisions : DiscoverDecision(s, d)

(* Another session, at work on its own.                                    *)
AnotherSession(s) ==
    /\ s \notin Interviewed
    /\ \E d \in Decisions :
          \/ DeferDecision(s, d)
          \/ \E p \in Proposals :
                \/ IssueProposal(s, d, p) \/ AcceptProposal(s, d, p, "explicit")
                \/ \E supports \in SUBSET Evidence : MaterializeDecision(s, d, p, supports)

(* Commands on any session, between or during its turns.                   *)
AnotherCommand(s) ==
    \/ ResumeSession(s) \/ CloseSession(s) \/ GeneratePlan(s)
    \/ \E d \in Decisions :
          \/ EnrichDecision(s, d)
          \/ \E e \in Evidence : LinkEvidence(s, d, e)
          \/ \E new \in Decisions : SupersedeDecision(s, d, new)

Others(s) ==
    /\ UNCHANGED turn
    /\ \/ Setup(s) /\ UNCHANGED others
       \/ /\ others < MaxOthers /\ others' = others + 1
          /\ AnotherSession(s) \/ AnotherCommand(s)

TurnStep(s) ==
    /\ \/ Look(s) \/ Seed(s) \/ Resolve(s) \/ Issue(s)
       \/ TakeReply(s) \/ Constrain(s) \/ Discover(s) \/ Scan(s) \/ ResolveFound(s)
    /\ UNCHANGED others

INext ==
    \/ \E s \in Sessions : Others(s)
    \/ \E s \in Interviewed :
          \/ TurnStep(s)
          \/ (Advance(s) \/ Reply(s)) /\ UNCHANGED others

ISpec == IInit /\ [][INext]_ivars

(* A turn runs on: it is one process that nobody stops.                    *)
FairISpec == ISpec /\ \A s \in Interviewed : WF_ivars(TurnStep(s))

-----------------------------------------------------------------------------
\* The variables hold what their comments say; an idle session has no work
\* left over, and a turn that resolves or asks knows about what.
ITypeOK ==
    /\ others \in 0..MaxOthers
    /\ \A s \in Interviewed :
          LET t == turn[s]
          IN  /\ t.pc \in Steps \cup {"idle"} /\ t.end \in Ends
              /\ t.reply.kind \in {"none", "ok", "accept", "reject", "defer", "free"} \cup Unnamed
              /\ t.auto \in 0..MaxAuto - 1
              /\ t.found \subseteq { d \in Decisions : status[d] # "absent" }
              /\ t.pc = "idle" => t.found = {} /\ t.about = None
              /\ t.pc \in {"resolve", "issue", "constrain", "resolve found"} =>
                    t.about \in Decisions /\ status[t.about] # "absent"

\* Whatever is read without the lock and whoever is quicker: a reply that does
\* not name its proposal - OK, yes, no or a free answer - decides something
\* only while no decision of the project has changed since its question.
RepliesAreFresh ==
    [][\A s \in Interviewed :
          /\ turn[s].pc = "reply" /\ turn[s].reply.kind \in Unnamed
          /\ turn'[s] # turn[s] /\ status' # status
          => shown[s] = [d \in Decisions |-> status[d]]]_ivars

\* A turn consists of transactions that the protocol allows, so that all its
\* invariants hold between the steps of a turn and after a turn that failed
\* half-way.
ImplementsProtocol == Spec

\* A turn comes to an end: it does not resolve and look for ever.
TurnsEnd == \A s \in Interviewed : []<>(turn[s].pc = "idle")

\* references/interview-engine.md: "when a free-form answer differs from the
\* active recommendation, records an accepted user-authored proposal and marks
\* the previous assistant proposal `rejected`".  A user who wants something
\* else does not find the recommendation accepted.
DifferingAnswerIsRecorded ==
    [][\A s \in Interviewed, p \in Proposals :
          turn[s].pc = "reply" /\ turn[s].reply.wants = "another" /\ asked[s] = p =>
              status'[p] # "accepted"]_ivars

\* handle_reply, to a user who has rejected a proposal: "Please provide the
\* preferred answer or update the recommendation before advancing."  The
\* preferred answer, given at once, is taken.
InvitedAnswerIsTaken ==
    [][\A s \in Interviewed :
          turn[s].end = "rejected" => turn'[s].end # "unsupported"]_ivars
=============================================================================
