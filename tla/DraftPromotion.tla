--------------------------- MODULE DraftPromotion ---------------------------
(***************************************************************************)
(* Promotion of the draft decisions of one draft set (draft_promote.py,    *)
(* draft_sets.py, materialize_decision_with_proposal of protocol.py).      *)
(*                                                                         *)
(* A promotion reads the draft set, decides on a bundle read without the   *)
(* lock, commits one transaction under it, and then, without it again,     *)
(* replaces draft-set.json by its own copy with the id added and appends   *)
(* to promotion-log.jsonl.  Other commands commit between any two of these *)
(* steps, promotions overlap, and a process may die at each.               *)
(*                                                                         *)
(* A transaction is one step (RuntimeStore); a project head is the number  *)
(* of transactions.  The file draft-set.json is seen through the ids       *)
(* promoted_decision_ids, all that its writers change.                     *)
(*                                                                         *)
(* The payload of a new draft set may come with such ids, and a promotion  *)
(* can be undone: after a merge, resolve-merge-conflict may reject its     *)
(* transaction (MergeConflicts), and nobody tells the sidecar.             *)
(***************************************************************************)
EXTENDS Integers, Sequences, FiniteSets, SequencesExt

CONSTANTS
    Procs, Drafts, Sessions,
    Eligible,       \* drafts that _is_bulk_promotable accepts
    Requested,      \* promotion.bulk_promotable_ids, a sequence
    Payloads,       \* promoted_decision_ids that payloads of draft sets have
    MayCrash,       \* whether processes die and sidecar writes fail
    Ops,            \* the commands run: {"single", "bulk", "reconcile"}
    MaxHead,        \* bound of the transactions
    Nobody,
    Other,          \* a question another command asked
    NoFile,
    Empty,          \* a file just opened for writing
    Garbled,        \* content that is not JSON
    Cut,            \* a line cut off by a crash, which the next append continues
    Unparsable      \* the line this makes

ASSUME DraftsAssumption ==
    /\ Eligible \subseteq Drafts /\ Requested \in Seq(Drafts)
    /\ Payloads \subseteq SUBSET Drafts
    /\ Nobody \notin Procs /\ {Nobody, Other, Cut, Unparsable} \cap Drafts = {}
    /\ MaxHead \in Nat

NoHead == -1

VARIABLES
    head,           \* project_head
    generated,      \* project_head_at_generation, NoHead: no draft set yet
    canonical,      \* promoted decisions with their draft_origin and proposal
    open,           \* sessions that are not closed
    question,       \* what each session asks: a draft, Other or Nobody
    draftSet,       \* content of draft-set.json
    tmp,            \* content of draft-set.json.tmp
    log,            \* ids in the lines of promotion-log.jsonl
    lock,           \* reconcile holds the write lock
    proc,           \* the commands running
    given,          \* history: ids the draft set was created with
    rejected,       \* history: drafts whose promotion was rejected
    settled         \* history: nothing disturbed the sidecar since repaired

files == << draftSet, tmp, log >>
project == << head, canonical, open, question, given, rejected >>
vars == << project, generated, files, lock, proc, settled >>

Promoted == {r.draft : r \in canonical}

LogIds == {log[i] : i \in DOMAIN log} \ {Cut, Unparsable}

Appended(line) ==
    IF log # << >> /\ Last(log) = Cut
    THEN [log EXCEPT ![Len(log)] = Unparsable]
    ELSE Append(log, line)

Idle == [pc |-> "idle", op |-> "single", queue |-> << >>, to |-> [d \in Drafts |-> Nobody],
         allowStale |-> FALSE, expected |-> NoHead, copy |-> {}, before |-> NoHead,
         stale |-> FALSE, inode |-> NoFile]

Draft(p) == Head(proc[p].queue)
Target(p) == proc[p].to[Draft(p)]

Init ==
    /\ head = 0
    /\ generated = NoHead
    /\ canonical = {}
    /\ open = Sessions
    /\ question = [s \in Sessions |-> Nobody]
    /\ draftSet = NoFile /\ tmp = NoFile /\ log = << >>
    /\ lock = Nobody
    /\ proc = [p \in Procs |-> Idle]
    /\ given = {} /\ rejected = {}
    /\ settled = TRUE

-----------------------------------------------------------------------------
(* Other commands, each one transaction under the lock.                    *)

Commit ==
    /\ lock = Nobody
    /\ head < MaxHead
    /\ head' = head + 1

(* _normalize_draft_set keeps the promotion that the payload comes with.   *)
CreateDraftSet(ids) ==
    /\ lock = Nobody /\ generated = NoHead
    /\ generated' = head
    /\ draftSet' = ids /\ given' = ids
    /\ settled' = (settled /\ ids = {})
    /\ UNCHANGED << head, canonical, open, question, rejected, tmp, log, lock, proc >>

AskQuestion(s) ==
    /\ Commit
    /\ s \in open /\ question[s] = Nobody
    /\ question' = [question EXCEPT ![s] = Other]
    /\ UNCHANGED << canonical, open, given, rejected, generated, files, lock, proc, settled >>

(* The proposal the session asks about is answered or withdrawn.           *)
Deactivated(s) ==
    {[r EXCEPT !.active = @ /\ r.draft # question[s]] : r \in canonical}

AnswerQuestion(s) ==
    /\ Commit
    /\ s \in open /\ question[s] # Nobody
    /\ question' = [question EXCEPT ![s] = Nobody]
    /\ canonical' = Deactivated(s)
    /\ UNCHANGED << open, given, rejected, generated, files, lock, proc, settled >>

CloseSession(s) ==
    /\ Commit
    /\ s \in open
    /\ open' = open \ {s}
    /\ question' = [question EXCEPT ![s] = Nobody]
    /\ canonical' = Deactivated(s)
    /\ UNCHANGED << given, rejected, generated, files, lock, proc, settled >>

(* resolve_merge_conflict rejects the transaction of a promotion, which    *)
(* conflicts with what a merge brought: the session was closed, then       *)
(* "closes", or evidence the draft rests on changed.                       *)
RejectPromotion(r, closes) ==
    /\ Commit
    /\ closes => question[r.session] \in {r.draft, Nobody}
    /\ canonical' = canonical \ {r}
    /\ open' = IF closes THEN open \ {r.session} ELSE open
    /\ question' = [question EXCEPT ![r.session] = IF @ = r.draft THEN Nobody ELSE @]
    /\ rejected' = rejected \cup {r.draft}
    /\ settled' = FALSE
    /\ UNCHANGED << given, generated, files, lock, proc >>

-----------------------------------------------------------------------------
(* promote_draft_decision and promote_draft_set                            *)

Go(p, r) == proc' = [proc EXCEPT ![p] = r]
Step(p, pc) == Go(p, [proc[p] EXCEPT !.pc = pc])
Fail(p) == Go(p, Idle)

(* The next draft of a bulk promotion, or the end of the command.          *)
Finished(p) ==
    IF Len(proc[p].queue) <= 1 THEN Idle
    ELSE [Idle EXCEPT !.pc = "ready", !.op = proc[p].op, !.queue = Tail(proc[p].queue),
                      !.to = proc[p].to, !.expected = proc[p].expected]

Readable == draftSet \notin {NoFile, Empty, Garbled}

IsStale(h) == generated # h

(* _require_no_other_active_proposal                                       *)
NoOtherActiveProposal(s, d) == question[s] \in {Nobody, d}

StartSingle(p, d, s, allowStale) ==
    /\ "single" \in Ops /\ proc[p].pc = "idle"
    /\ Go(p, [Idle EXCEPT !.pc = "ready", !.queue = << d >>, !.to = [@ EXCEPT ![d] = s],
                          !.allowStale = allowStale])
    /\ UNCHANGED << project, generated, files, lock, settled >>

(* One bundle for all drafts: the preflight of the whole bulk promotion.   *)
Preflight(to) ==
    \A d \in Range(Requested) :
        /\ to[d] \in open
        /\ d \in Promoted \/ NoOtherActiveProposal(to[d], d)

StartBulk(p, to) ==
    /\ "bulk" \in Ops /\ proc[p].pc = "idle" /\ Requested # << >>
    /\ Readable /\ ~IsStale(head)
    /\ Range(Requested) \subseteq Eligible
    /\ \A d, e \in Range(Requested) : to[d] = to[e] => d = e
    /\ Preflight(to)
    /\ Go(p, [Idle EXCEPT !.pc = "ready", !.op = "bulk", !.queue = Requested, !.to = to,
                          !.expected = head])
    /\ UNCHANGED << project, generated, files, lock, settled >>

LoadDraftSet(p) ==
    /\ proc[p].pc = "ready"
    /\ IF Readable
       THEN Go(p, [proc[p] EXCEPT !.pc = "loaded", !.copy = draftSet])
       ELSE Fail(p)
    /\ UNCHANGED << project, generated, files, lock, settled >>

(* The checks on the bundle read without the lock.                         *)
Check(p) ==
    /\ proc[p].pc = "loaded"
    /\ LET judged == IF proc[p].expected = NoHead THEN head ELSE proc[p].expected
           stale == IsStale(judged)
       IN  CASE Target(p) \notin open -> Fail(p)
             [] Target(p) \in open /\ Draft(p) \in Promoted -> Go(p, Finished(p))
             [] OTHER ->
                  IF (stale => proc[p].allowStale) /\ NoOtherActiveProposal(Target(p), Draft(p))
                  THEN Go(p, [proc[p] EXCEPT !.pc = "checked", !.before = head, !.stale = stale])
                  ELSE Fail(p)
    /\ UNCHANGED << project, generated, files, lock, settled >>

(* materialize_decision_with_proposal checks again under the lock, except  *)
(* for staleness.                                                          *)
MayMaterialize_AnyQuestion(p) ==
    Target(p) \in open /\ Draft(p) \notin Promoted

MayMaterialize_NotExists(p) ==
    Target(p) \in open /\ NoOtherActiveProposal(Target(p), Draft(p))

MayMaterialize(p) ==
    /\ Target(p) \in open
    /\ NoOtherActiveProposal(Target(p), Draft(p))
    /\ Draft(p) \notin Promoted

(* What is recorded of the draft with the decision and its proposal.       *)
Origin(p) ==
    [draft |-> Draft(p), session |-> Target(p), mode |-> proc[p].op, active |-> TRUE,
     stale |-> proc[p].stale, before |-> proc[p].before, head |-> head]

Materialize(p) ==
    /\ proc[p].pc = "checked"
    /\ MayMaterialize(p)
    /\ Commit
    /\ canonical' = canonical \cup {Origin(p)}
    /\ question' = [question EXCEPT ![Target(p)] = Draft(p)]
    /\ Step(p, "materialized")
    /\ UNCHANGED << open, given, rejected, generated, files, lock, settled >>

RefuseMaterialize_Continues(p) ==
    /\ proc[p].pc = "checked" /\ lock = Nobody
    /\ ~MayMaterialize(p)
    /\ Step(p, "materialized")
    /\ UNCHANGED << project, generated, files, lock, settled >>

RefuseMaterialize(p) ==
    /\ proc[p].pc = "checked" /\ lock = Nobody
    /\ ~MayMaterialize(p)
    /\ Fail(p)
    /\ UNCHANGED << project, generated, files, lock, settled >>

-----------------------------------------------------------------------------
(* The sidecar.  _atomic_write_json opens draft-set.json.tmp, writes it    *)
(* and renames it; the name is the same for every writer, so writers that  *)
(* overlap share the file, and one may still write to it when the other    *)
(* has renamed it already.                                                 *)

Writing == {"opened", "filled"}
NobodyElseWrites(p) == \A q \in Procs \ {p} : proc[q].pc \notin Writing
WantsToWrite(p) == proc[p].pc \in {"materialized", "repairing"}

(* What the writer p puts in the file.                                     *)
NewIds(p) == IF proc[p].op = "reconcile" THEN Promoted ELSE proc[p].copy \cup {Draft(p)}

(* open(..., "w") creates the file, or truncates the one that is there.    *)
OpenTmp(p) ==
    /\ WantsToWrite(p)
    /\ tmp' = Empty
    /\ Go(p, [proc[p] EXCEPT !.pc = "opened", !.inode = "tmp"])
    /\ settled' = (settled /\ NobodyElseWrites(p))
    /\ UNCHANGED << project, generated, draftSet, log, lock >>

(* Writing from the start over what another left: a shorter text leaves    *)
(* the end of the longer one behind.                                       *)
Overwritten(old, new) ==
    IF old = Empty THEN new
    ELSE IF old = Garbled \/ Cardinality(old) > Cardinality(new) THEN Garbled ELSE new

FillTmp(p) ==
    /\ proc[p].pc = "opened"
    /\ tmp' = IF proc[p].inode = "tmp" THEN Overwritten(tmp, NewIds(p)) ELSE tmp
    /\ draftSet' = IF proc[p].inode = "draft-set" THEN Overwritten(draftSet, NewIds(p)) ELSE draftSet
    /\ Step(p, "filled")
    /\ UNCHANGED << project, generated, log, lock, settled >>

(* Where the file a writer holds open is after the rename.                 *)
AfterRename(inode) ==
    CASE inode = "tmp" -> "draft-set" [] inode = "draft-set" -> "unlinked" [] OTHER -> inode

RenameTmp(p) ==
    /\ proc[p].pc = "filled" /\ tmp # NoFile
    /\ draftSet' = tmp
    /\ tmp' = NoFile
    /\ proc' = [q \in Procs |->
          IF q # p THEN [proc[q] EXCEPT !.inode = AfterRename(@)]
          ELSE [proc[p] EXCEPT !.pc = "renamed", !.inode = NoFile]]
    /\ settled' = (settled /\ (proc[p].op # "reconcile" => proc[p].copy = draftSet /\ Draft(p) \in Promoted))
    /\ UNCHANGED << project, generated, log, lock >>

(* Any failure of the two writes is reported, not raised: the promotion    *)
(* stands and a bulk promotion goes on.  reconcile raises.                 *)
SidecarFails(p) ==
    /\ \/ proc[p].pc = "filled" /\ tmp = NoFile
       \/ MayCrash /\ proc[p].pc \in {"materialized", "renamed"}
    /\ Go(p, Finished(p))
    /\ lock' = IF lock = p THEN Nobody ELSE lock
    /\ settled' = FALSE
    /\ UNCHANGED << project, generated, files >>

AppendLog(p) ==
    /\ proc[p].pc = "renamed" /\ proc[p].op # "reconcile"
    /\ log' = Appended(Draft(p))
    /\ Go(p, Finished(p))
    /\ settled' = (settled /\ Draft(p) \in Promoted)
    /\ UNCHANGED << project, generated, draftSet, tmp, lock >>

-----------------------------------------------------------------------------
(* reconcile_draft_promotions with repair, under the write lock, which the *)
(* writers of the sidecar above do not take.                               *)

StartReconcile(p) ==
    /\ "reconcile" \in Ops /\ proc[p].pc = "idle" /\ lock = Nobody
    /\ Readable
    /\ lock' = p
    /\ Go(p, [Idle EXCEPT !.pc = "repairing", !.op = "reconcile"])
    /\ settled' = NobodyElseWrites(p)
    /\ UNCHANGED << project, generated, files >>

RewriteLog_AppendsMissing(p) ==
    /\ proc[p].pc = "renamed" /\ proc[p].op = "reconcile"
    /\ log' = FoldSet(LAMBDA d, lines : IF lines # << >> /\ Last(lines) = Cut
                                        THEN [lines EXCEPT ![Len(lines)] = Unparsable]
                                        ELSE Append(lines, d),
                      log, Promoted \ LogIds)
    /\ lock' = Nobody
    /\ Go(p, Idle)
    /\ UNCHANGED << project, generated, draftSet, tmp, settled >>

RewriteLog(p) ==
    /\ proc[p].pc = "renamed" /\ proc[p].op = "reconcile"
    /\ log' = SetToSeq(Promoted)
    /\ lock' = Nobody
    /\ Go(p, Idle)
    /\ UNCHANGED << project, generated, draftSet, tmp, settled >>

(* A process dies; a line it was appending may be cut off.                 *)
Crash(p) ==
    /\ MayCrash /\ proc[p].pc # "idle"
    /\ Go(p, Idle)
    /\ lock' = IF lock = p THEN Nobody ELSE lock
    /\ IF proc[p].pc = "renamed" /\ proc[p].op # "reconcile"
       THEN log' \in {log, Appended(Cut)}
       ELSE UNCHANGED log
    /\ settled' = (settled /\ proc[p].pc \in {"ready", "loaded", "checked"})
    /\ UNCHANGED << project, generated, draftSet, tmp >>

-----------------------------------------------------------------------------
Next ==
    \/ \E ids \in Payloads : CreateDraftSet(ids)
    \/ \E r \in canonical, closes \in BOOLEAN : RejectPromotion(r, closes)
    \/ \E s \in Sessions : AskQuestion(s) \/ AnswerQuestion(s) \/ CloseSession(s)
    \/ \E p \in Procs :
          \/ \E d \in Drafts, s \in Sessions, a \in BOOLEAN : StartSingle(p, d, s, a)
          \/ \E to \in [Drafts -> Sessions] : StartBulk(p, to)
          \/ LoadDraftSet(p) \/ Check(p) \/ Materialize(p) \/ RefuseMaterialize(p)
          \/ OpenTmp(p) \/ FillTmp(p) \/ RenameTmp(p) \/ SidecarFails(p) \/ AppendLog(p)
          \/ StartReconcile(p) \/ RewriteLog(p) \/ Crash(p)

Spec == Init /\ [][Next]_vars

-----------------------------------------------------------------------------
Contents == {NoFile, Empty, Garbled} \cup SUBSET Drafts

Origins ==
    [draft : Drafts, session : Sessions, mode : {"single", "bulk"}, active : BOOLEAN,
     stale : BOOLEAN, before : Int, head : Int]

Commands ==
    [pc : {"idle", "ready", "loaded", "checked", "materialized", "repairing",
           "opened", "filled", "renamed"},
     op : {"single", "bulk", "reconcile"}, queue : Seq(Drafts),
     to : [Drafts -> Sessions \cup {Nobody}], allowStale : BOOLEAN, expected : Int,
     copy : SUBSET Drafts, before : Int, stale : BOOLEAN,
     inode : {"tmp", "draft-set", "unlinked", NoFile}]

(* The variables are typed.                                                *)
TypeOK ==
    /\ head \in 0 .. MaxHead /\ generated \in NoHead .. MaxHead
    /\ canonical \subseteq Origins
    /\ open \subseteq Sessions /\ question \in [Sessions -> Drafts \cup {Other, Nobody}]
    /\ draftSet \in Contents /\ tmp \in Contents
    /\ log \in Seq(Drafts \cup {Cut, Unparsable})
    /\ lock \in Procs \cup {Nobody} /\ proc \in [Procs -> Commands]
    /\ given \subseteq Drafts /\ rejected \subseteq Drafts /\ settled \in BOOLEAN

(* A draft that draft-set.json or promotion-log.jsonl names is promoted,   *)
(* unless its promotion was rejected or, for draft-set.json, the draft set *)
(* came with its id: whichever promotions overlapped, failed or died.      *)
SidecarNeverAhead ==
    /\ Readable => draftSet \subseteq Promoted \cup rejected \cup given
    /\ LogIds \subseteq Promoted \cup rejected

(* Two promotions of one draft, into whichever sessions, make one          *)
(* decision: the ids are those of the draft and the lock decides.          *)
PromotedOnce == \A r, s \in canonical : r.draft = s.draft => r = s

(* The open proposal of a promoted draft is what its session asks, so that *)
(* a reply can reach it, however promotions and questions race.            *)
OpenProposalIsAsked ==
    \A r \in canonical : r.active => r.session \in open /\ question[r.session] = r.draft

(* Unless a promotion died, failed, wrote over another's or was rejected   *)
(* since the last repair, both files name exactly what is promoted once    *)
(* nobody is writing: a repair really repairs, what is missing and what is *)
(* stale, and nothing else needs one.  A draft set that came with ids, and *)
(* a promotion that writes them after it was rejected, need one too.       *)
SettledIsExact ==
    settled /\ generated # NoHead
        /\ (\A p \in Procs : proc[p].pc \notin {"materialized", "repairing", "renamed"} \cup Writing)
        => draftSet = Promoted /\ LogIds = Promoted

(* references/output-contract.md: a stale draft set fails single promotion *)
(* unless --allow-stale is explicit, and stale_promoted is then true: what *)
(* is promoted without the flag was generated at the head it is added to.  *)
UnflaggedIsFresh ==
    \A r \in canonical : r.mode = "single" /\ ~r.stale => r.head = generated

(* references/output-contract.md: persisted draft-set.json matches its     *)
(* schema.  Once nobody is writing it, it can be read.                     *)
DraftSetIsReadable ==
    generated # NoHead /\ (\A p \in Procs : proc[p].pc \notin Writing) => Readable
=============================================================================
