------------------------ MODULE DraftPromotionProofs ------------------------
(***************************************************************************)
(* Promotions of one draft set stay consistent for any number of commands, *)
(* drafts and sessions, however they overlap, fail and die.                *)
(*                                                                         *)
(* The project: a draft is materialized under the lock, so it is promoted  *)
(* once and its open proposal is what its session asks.  The sidecar: what *)
(* a promotion writes to draft-set.json is a copy it read before plus the  *)
(* draft it has promoted by then, so the files name what was promoted once *)
(* or what the draft set came with, and nothing else.  Undisturbed they    *)
(* are exact: the one writer has the temporary file for itself, and what   *)
(* is missing is what a promotion under way is about to add.               *)
(***************************************************************************)
EXTENDS DraftPromotion, FiniteSetTheorems, SequenceTheorems, TLAPS

\* Where a promotion still has to write draft-set.json, and the log.
Recording == {"materialized", "opened", "filled"}
Logging == Recording \cup {"renamed"}

\* A command that is running fits the place it is at.
Fits(r) ==
    /\ r.op = "reconcile" => r.queue = << >>
    /\ r.op # "reconcile" /\ r.pc # "idle" => r.queue # << >>
    /\ r.pc \in {"ready", "loaded", "checked", "materialized"} => r.op # "reconcile"
    /\ r.pc = "repairing" => r.op = "reconcile"

CommandsFit == \A p \in Procs : Fits(proc[p])

\* Only a running repair holds the lock between two steps.
LockIsRepair ==
    \A p \in Procs : lock = p <=> proc[p].op = "reconcile" /\ proc[p].pc # "idle"

\* The drafts that were promoted at some time, and those the sidecar may name.
Ever == Promoted \cup rejected
Known == Promoted \cup rejected \cup given

\* What a promotion writes in draft-set.json was promoted before.
Behind(r, known, ever) ==
    /\ r.copy \subseteq known
    /\ r.op # "reconcile" /\ r.pc \in Recording \cup {"renamed"} => Head(r.queue) \in ever

CopiesAreBehind == \A p \in Procs : Behind(proc[p], Known, Ever)

TmpNeverAhead == tmp \notin {NoFile, Empty, Garbled} => tmp \subseteq Known

\* Without a draft set nothing is promoted and no promotion gets beyond loading it.
NothingYet ==
    generated = NoHead =>
        /\ canonical = {} /\ rejected = {} /\ given = {}
        /\ draftSet = NoFile /\ log = << >>
        /\ \A p \in Procs : proc[p].pc \in {"idle", "ready"}

\* Promoted drafts that draft-set.json and promotion-log.jsonl may not name yet.
Due(pcs) ==
    {Draft(p) : p \in {q \in Procs : proc[q].op # "reconcile" /\ proc[q].pc \in pcs}}

\* The one writer has the temporary file for itself.
WriterIsAlone ==
    \A p \in Procs : proc[p].pc \in Writing =>
        /\ NobodyElseWrites(p)
        /\ proc[p].inode = "tmp"
        /\ proc[p].pc = "opened" => tmp = Empty
        /\ proc[p].pc = "filled" => tmp = NewIds(p)

DraftSetIsComplete ==
    /\ draftSet \subseteq Promoted
    /\ \A d \in Promoted : d \in draftSet \/ d \in Due(Recording)

LogIsComplete ==
    /\ \A i \in DOMAIN log : log[i] \in Promoted
    /\ \A d \in Promoted : d \in LogIds \/ d \in Due(Logging)

\* What other commands do.
Creates == \E ids \in Payloads : CreateDraftSet(ids)
Rejects == \E r \in canonical, closes \in BOOLEAN : RejectPromotion(r, closes)
Asks == \E s \in Sessions : AskQuestion(s) \/ AnswerQuestion(s) \/ CloseSession(s)

Others == Creates \/ Rejects \/ Asks

\* Undisturbed, the files lack only what is about to be added; a repair
\* re-establishes this for one file, then for the other.
Undisturbed ==
    settled =>
        /\ WriterIsAlone
        /\ generated # NoHead =>
              /\ (\A p \in Procs : lock = p => proc[p].pc = "renamed") => DraftSetIsComplete
              /\ lock = Nobody => LogIsComplete

IInv ==
    /\ TypeOK /\ IsFiniteSet(Promoted)
    /\ CommandsFit /\ LockIsRepair /\ CopiesAreBehind /\ TmpNeverAhead /\ NothingYet
    /\ SidecarNeverAhead /\ PromotedOnce /\ OpenProposalIsAsked
    /\ Undisturbed

-----------------------------------------------------------------------------
(***************************************************************************)
(* Commands.                                                               *)
(***************************************************************************)

\* The command that has nothing to do.
LEMMA IdleCommand ==
    /\ Idle \in Commands /\ Idle.pc = "idle" /\ Idle.op = "single"
    /\ Idle.queue = << >> /\ Idle.copy = {}
BY DEF Idle, Commands, NoHead

\* A step of a command leaves the others alone.
LEMMA OneCommand ==
    ASSUME TypeOK, NEW p \in Procs, NEW r \in Commands, Go(p, r)
    PROVE  /\ proc' \in [Procs -> Commands]
           /\ \A q \in Procs : proc'[q] = IF q = p THEN r ELSE proc[q]
BY DEF TypeOK, Go

\* A bulk promotion goes on with its next draft.
LEMMA NextCommand ==
    ASSUME TypeOK, CommandsFit, NEW p \in Procs
    PROVE  /\ Finished(p) \in Commands
           /\ Finished(p).pc \in {"idle", "ready"} /\ Finished(p).copy = {}
           /\ Finished(p).pc = "ready" => proc[p].op # "reconcile"
           /\ Fits(Finished(p))
           /\ Finished(p).op = "reconcile" => Finished(p).pc = "idle"
<1>1. CASE Len(proc[p].queue) <= 1
    <2>1. Finished(p) = Idle
        BY <1>1 DEF Finished
    <2>2. QED
        BY <2>1, IdleCommand DEF Fits
<1>2. CASE ~(Len(proc[p].queue) <= 1)
    <2>0. /\ proc[p] \in Commands /\ proc[p].queue \in Seq(Drafts)
          /\ proc[p].op \in {"single", "bulk", "reconcile"}
          /\ proc[p].to \in [Drafts -> Sessions \cup {Nobody}] /\ proc[p].expected \in Int
        BY DEF TypeOK, Commands
    <2>1. proc[p].queue # << >> /\ Len(proc[p].queue) > 1
        BY <1>2, <2>0
    <2>2. Tail(proc[p].queue) \in Seq(Drafts) /\ Tail(proc[p].queue) # << >>
        <3> DEFINE queue == proc[p].queue
        <3> HIDE DEF queue
        <3>1. queue \in Seq(Drafts) /\ queue # << >> /\ Len(queue) > 1
            BY <2>0, <2>1 DEF queue
        <3>2. Tail(queue) \in Seq(Drafts) /\ Len(Tail(queue)) = Len(queue) - 1
            BY <3>1, HeadTailProperties
        <3>3. Len(Tail(queue)) # 0
            <4>1. Len(queue) \in Nat
                BY <3>1
            <4>2. QED
                BY <3>1, <3>2, <4>1
        <3>4. Tail(queue) # << >>
            BY <3>3, EmptySeq
        <3>5. QED
            BY <3>2, <3>4 DEF queue
    <2>3. proc[p].op # "reconcile"
        BY <2>1 DEF CommandsFit, Fits
    <2>4. Finished(p) = [Idle EXCEPT !.pc = "ready", !.op = proc[p].op,
                                     !.queue = Tail(proc[p].queue), !.to = proc[p].to,
                                     !.expected = proc[p].expected]
        BY <1>2 DEF Finished
    <2>5. Finished(p) = [pc |-> "ready", op |-> proc[p].op, queue |-> Tail(proc[p].queue),
                         to |-> proc[p].to, allowStale |-> FALSE,
                         expected |-> proc[p].expected, copy |-> {}, before |-> NoHead,
                         stale |-> FALSE, inode |-> NoFile]
        BY ZenonT(30), <2>4 DEF Idle
    <2>6. Finished(p) \in Commands
        BY <2>0, <2>2, <2>5 DEF Commands, NoHead
    <2>7. QED
        BY <2>2, <2>3, <2>5, <2>6 DEF Fits
<1>3. QED
    BY <1>1, <1>2

\* A question that is answered or withdrawn changes nothing but whether the
\* proposal it is about is open.
LEMMA AnsweredOrigins ==
    ASSUME TypeOK, NEW s \in Sessions, canonical' = Deactivated(s)
    PROVE  /\ canonical' \subseteq Origins
           /\ Promoted' = Promoted
           /\ PromotedOnce => PromotedOnce'
           /\ \A r \in canonical' : \E q \in canonical :
                 /\ r.draft = q.draft /\ r.session = q.session
                 /\ r.active => q.active /\ q.draft # question[s]
<1> DEFINE After(q) == [q EXCEPT !.active = q.active /\ q.draft # question[s]]
<1>1. canonical' = {After(q) : q \in canonical}
    BY DEF Deactivated
<1>2. ASSUME NEW q \in canonical
      PROVE  /\ After(q) \in Origins
             /\ After(q).draft = q.draft /\ After(q).session = q.session
             /\ After(q).active = (q.active /\ q.draft # question[s])
    BY DEF TypeOK, Origins
<1>3. canonical' \subseteq Origins
    BY <1>1, <1>2
<1>4. Promoted' = Promoted
    <2>1. ASSUME NEW d
          PROVE  d \in Promoted' <=> \E q \in canonical : After(q).draft = d
        BY <1>1 DEF Promoted
    <2>2. ASSUME NEW d
          PROVE  d \in Promoted <=> \E q \in canonical : q.draft = d
        BY DEF Promoted
    <2>3. ASSUME NEW d
          PROVE  d \in Promoted' <=> d \in Promoted
        BY <1>2, <2>1, <2>2
    <2>4. QED
        BY <2>3
<1>5. ASSUME PromotedOnce
      PROVE  PromotedOnce'
    <2>1. SUFFICES ASSUME NEW r \in canonical', NEW t \in canonical', r.draft = t.draft
                   PROVE  r = t
        BY DEF PromotedOnce
    <2>2. PICK q \in canonical : r = After(q)
        BY <1>1
    <2>3. PICK u \in canonical : t = After(u)
        BY <1>1
    <2>4. q = u
        BY <1>2, <1>5, <2>1, <2>2, <2>3 DEF PromotedOnce
    <2>5. QED
        BY <2>2, <2>3, <2>4
<1>6. QED
    BY <1>1, <1>2, <1>3, <1>4, <1>5

-----------------------------------------------------------------------------
(***************************************************************************)
(* The log.                                                                *)
(***************************************************************************)

Lines == Drafts \cup {Cut, Unparsable}

\* Appending a line adds it, and damages at most a line that was cut off.
LEMMA LineAppended ==
    ASSUME TypeOK, NEW line \in Lines
    PROVE  /\ Appended(line) \in Seq(Lines)
           /\ \A i \in DOMAIN Appended(line) :
                 Appended(line)[i] \in LogIds \cup {line, Cut, Unparsable}
           /\ (\A i \in DOMAIN log : log[i] \in Drafts) =>
                 /\ \A i \in DOMAIN log :
                       i \in DOMAIN Appended(line) /\ Appended(line)[i] = log[i]
                 /\ \E i \in DOMAIN Appended(line) : Appended(line)[i] = line
                 /\ line \in Drafts =>
                       \A i \in DOMAIN Appended(line) : Appended(line)[i] \in Drafts
<1>1. /\ log \in Seq(Lines) /\ DOMAIN log = 1 .. Len(log) /\ Len(log) \in Nat
      /\ \A i \in DOMAIN log : log[i] \in LogIds \cup {Cut, Unparsable}
    BY DEF TypeOK, Lines, LogIds
<1>2. CASE log # << >> /\ Last(log) = Cut
    <2>1. Len(log) \in DOMAIN log /\ log[Len(log)] = Cut
        BY <1>1, <1>2, EmptySeq DEF Last
    <2>2. Appended(line) = [log EXCEPT ![Len(log)] = Unparsable]
        BY <1>2 DEF Appended
    <2>3. /\ Appended(line) \in Seq(Lines) /\ DOMAIN Appended(line) = DOMAIN log
          /\ \A i \in DOMAIN log :
                Appended(line)[i] = IF i = Len(log) THEN Unparsable ELSE log[i]
        BY <1>1, <2>1, <2>2, ExceptSeq DEF Lines
    <2>4. QED
        BY <1>1, <2>1, <2>3, DraftsAssumption
<1>3. CASE ~(log # << >> /\ Last(log) = Cut)
    <2>1. Appended(line) = Append(log, line)
        BY <1>3 DEF Appended
    <2>2. /\ Appended(line) \in Seq(Lines) /\ DOMAIN Appended(line) = 1 .. Len(log) + 1
          /\ \A i \in DOMAIN Appended(line) :
                Appended(line)[i] = IF i = Len(log) + 1 THEN line ELSE log[i]
        BY <1>1, <2>1, AppendProperties
    <2>3. \A i \in 1 .. Len(log) + 1 : i # Len(log) + 1 => i \in DOMAIN log
        BY <1>1
    <2>4. \A i \in DOMAIN log : i \in 1 .. Len(log) + 1 /\ i # Len(log) + 1
        BY <1>1
    <2>5. Len(log) + 1 \in DOMAIN Appended(line)
        BY <1>1, <2>2
    <2>6. QED
        BY <1>1, <2>2, <2>3, <2>4, <2>5
<1>4. QED
    BY <1>2, <1>3

\* A rewritten log names what is promoted, and nothing else.
LEMMA LogRewritten ==
    ASSUME TypeOK, IsFiniteSet(Promoted)
    PROVE  /\ SetToSeq(Promoted) \in Seq(Drafts)
           /\ \A i \in DOMAIN SetToSeq(Promoted) : SetToSeq(Promoted)[i] \in Promoted
           /\ \A d \in Promoted : \E i \in DOMAIN SetToSeq(Promoted) :
                 SetToSeq(Promoted)[i] = d
<1> DEFINE n == Cardinality(Promoted)
           lines == SetToSeq(Promoted)
<1>1. n \in Nat /\ IsFiniteSet(1 .. n) /\ Cardinality(1 .. n) = n
    BY FS_CardinalityType, FS_Interval
<1>2. \E f : f \in Bijection(1 .. n, Promoted)
    BY FS_CardinalityType DEF ExistsBijection
<1>3. \E f \in [1 .. n -> Promoted] : IsInjective(f)
    BY <1>2 DEF Bijection, Injection, IsInjective
<1>4. lines \in [1 .. n -> Promoted] /\ IsInjective(lines)
    BY <1>3 DEF SetToSeq
<1>5. lines \in Injection(1 .. n, Promoted)
    BY <1>4 DEF Injection, IsInjective
<1>6. lines \in Surjection(1 .. n, Promoted)
    BY <1>1, <1>5, FS_Injection
<1>7. Promoted \subseteq Drafts
    BY DEF Promoted, TypeOK, Origins
<1>8. QED
    BY <1>1, <1>4, <1>6, <1>7 DEF Surjection


-----------------------------------------------------------------------------
(***************************************************************************)
(* Types.                                                                  *)
(***************************************************************************)

\* The files hold what was there before, or what a command puts there.
LEMMA FilesTyped ==
    ASSUME TypeOK, NEW p \in Procs, CommandsFit, proc[p].pc # "idle"
    PROVE  /\ NewIds(p) \in SUBSET Drafts
           /\ \A old : Overwritten(old, NewIds(p)) \in Contents
           /\ proc[p].op # "reconcile" => Draft(p) \in Drafts
<1>1. Promoted \subseteq Drafts
    BY DEF TypeOK, Origins, Promoted
<1>2. proc[p].copy \subseteq Drafts /\ proc[p].queue \in Seq(Drafts)
    BY DEF TypeOK, Commands
<1>3. ASSUME proc[p].op # "reconcile"
      PROVE  Draft(p) \in Drafts
    BY <1>2, <1>3, HeadTailProperties DEF CommandsFit, Fits, Draft
<1>4. NewIds(p) \in SUBSET Drafts
    BY <1>1, <1>2, <1>3 DEF NewIds
<1>5. QED
    BY <1>3, <1>4 DEF Overwritten, Contents

\* Other commands leave the commands of this module, the lock and tmp alone.
LEMMA OthersKeep ==
    ASSUME Others
    PROVE  proc' = proc /\ lock' = lock /\ tmp' = tmp /\ log' = log
BY DEF Others, Creates, CreateDraftSet, Rejects, RejectPromotion, Asks, AskQuestion, AnswerQuestion,
       CloseSession, files

LEMMA InitTyped == Init => TypeOK
BY IdleCommand, DraftsAssumption
   DEF Init, TypeOK, NoHead, Contents

\* Other commands.
LEMMA OthersTyped ==
    ASSUME TypeOK,
           Others
    PROVE  TypeOK'
<1>1. ASSUME NEW ids \in Payloads, CreateDraftSet(ids)
      PROVE  TypeOK'
    BY <1>1, DraftsAssumption DEF CreateDraftSet, TypeOK, Contents, NoHead
<1>1a. ASSUME NEW r \in canonical, NEW closes \in BOOLEAN, RejectPromotion(r, closes)
       PROVE  TypeOK'
    <2>1. r.draft \in Drafts /\ r.session \in Sessions
        BY DEF TypeOK, Origins
    <2>2. question' \in [Sessions -> Drafts \cup {Other, Nobody}]
        BY <1>1a, <2>1 DEF RejectPromotion, TypeOK
    <2>3. /\ canonical' \subseteq Origins /\ open' \subseteq Sessions
          /\ rejected' \subseteq Drafts /\ settled' \in BOOLEAN
        BY <1>1a, <2>1 DEF RejectPromotion, TypeOK
    <2>4. QED
        BY <1>1a, <2>2, <2>3, DraftsAssumption DEF RejectPromotion, Commit, TypeOK, files, NoHead
<1>2. ASSUME NEW s \in Sessions, AskQuestion(s)
      PROVE  TypeOK'
    BY <1>2, DraftsAssumption DEF AskQuestion, Commit, TypeOK, files, NoHead
<1>3. ASSUME NEW s \in Sessions, AnswerQuestion(s) \/ CloseSession(s)
      PROVE  TypeOK'
    <2>1. canonical' \subseteq Origins
        BY <1>3, AnsweredOrigins DEF AnswerQuestion, CloseSession
    <2>2. /\ open' \subseteq Sessions
          /\ question' \in [Sessions -> Drafts \cup {Other, Nobody}]
        BY <1>3 DEF AnswerQuestion, CloseSession, TypeOK
    <2>3. QED
        BY <1>3, <2>1, <2>2, DraftsAssumption
           DEF AnswerQuestion, CloseSession, Commit, TypeOK, files, NoHead
<1>4. QED
    BY <1>1, <1>1a, <1>2, <1>3 DEF Others, Creates, Rejects, Asks

\* What a command is at, after a step that changes nothing else.
LEMMA StepTyped ==
    ASSUME TypeOK, CommandsFit, NEW p \in Procs,
           \/ \E d \in Drafts, s \in Sessions, a \in BOOLEAN : StartSingle(p, d, s, a)
           \/ \E to \in [Drafts -> Sessions] : StartBulk(p, to)
           \/ LoadDraftSet(p) \/ Check(p) \/ RefuseMaterialize(p)
    PROVE  \E r \in Commands :
              /\ Go(p, r) /\ Fits(r) /\ r.op # "reconcile"
              /\ r.pc \in {"idle", "ready", "loaded", "checked"}
              /\ r.pc = "loaded" => Readable
              /\ r.pc = "checked" => proc[p].pc = "loaded"
              /\ \/ r.copy = {} \/ r.copy = proc[p].copy
                 \/ r.copy = draftSet /\ Readable
<1>0. proc[p] \in Commands
    BY DEF TypeOK
<1>1. CASE \E d \in Drafts, s \in Sessions, a \in BOOLEAN : StartSingle(p, d, s, a)
    <2>1. PICK d \in Drafts, s \in Sessions, a \in BOOLEAN : StartSingle(p, d, s, a)
        BY <1>1
    <2> DEFINE r == [Idle EXCEPT !.pc = "ready", !.queue = << d >>,
                                 !.to = [@ EXCEPT ![d] = s], !.allowStale = a]
    <2>2. Go(p, r)
        BY <2>1 DEF StartSingle
    <2>3. << d >> \in Seq(Drafts) /\ << d >> # << >>
        OBVIOUS
    <2>4. /\ r \in Commands /\ r.pc = "ready" /\ r.op = "single" /\ r.queue = << d >>
          /\ r.copy = {}
        BY <2>3, IdleCommand DEF Commands
    <2>5. Fits(r)
        BY <2>3, <2>4 DEF Fits
    <2>6. QED
        BY <2>2, <2>4, <2>5
<1>2. CASE \E to \in [Drafts -> Sessions] : StartBulk(p, to)
    <2>1. PICK to \in [Drafts -> Sessions] : StartBulk(p, to)
        BY <1>2
    <2> DEFINE r == [Idle EXCEPT !.pc = "ready", !.op = "bulk", !.queue = Requested,
                                 !.to = to, !.expected = head]
    <2>2. Go(p, r) /\ Requested # << >>
        BY <2>1 DEF StartBulk
    <2>3. /\ r \in Commands /\ r.pc = "ready" /\ r.op = "bulk" /\ r.queue = Requested
          /\ r.copy = {}
        <3>1. head \in Int /\ Requested \in Seq(Drafts)
            BY DraftsAssumption DEF TypeOK
        <3>2. to \in [Drafts -> Sessions \cup {Nobody}]
            OBVIOUS
        <3>3. QED
            BY <3>1, <3>2, IdleCommand DEF Commands
    <2>4. Fits(r)
        BY <2>2, <2>3 DEF Fits
    <2>5. QED
        BY <2>2, <2>3, <2>4
<1>3. CASE LoadDraftSet(p)
    <2>1. CASE Readable
        <3>1. Go(p, [proc[p] EXCEPT !.pc = "loaded", !.copy = draftSet])
              /\ proc[p].pc = "ready"
            BY <1>3, <2>1 DEF LoadDraftSet
        <3>2. draftSet \in SUBSET Drafts
            BY <2>1 DEF Readable, TypeOK, Contents
        <3> DEFINE r == [proc[p] EXCEPT !.pc = "loaded", !.copy = draftSet]
        <3>3. /\ r \in Commands /\ r.pc = "loaded" /\ r.copy = draftSet
              /\ r.op = proc[p].op /\ r.queue = proc[p].queue
            BY <1>0, <3>2 DEF Commands
        <3>4. Fits(r) /\ r.op # "reconcile"
            BY <3>1, <3>3 DEF CommandsFit, Fits
        <3>5. QED
            BY <2>1, <3>1, <3>3, <3>4
    <2>2. CASE ~Readable
        BY <1>3, <2>2, IdleCommand DEF LoadDraftSet, Fail, Fits
    <2>3. QED
        BY <2>1, <2>2
<1>4. CASE Check(p)
    <2> DEFINE judged == IF proc[p].expected = NoHead THEN head ELSE proc[p].expected
               r == [proc[p] EXCEPT !.pc = "checked", !.before = head, !.stale = IsStale(judged)]
    <2>1. Go(p, Idle) \/ Go(p, Finished(p)) \/ Go(p, r)
        BY <1>4 DEF Check, Fail
    <2>2. proc[p].pc = "loaded" /\ proc[p].op # "reconcile"
        BY <1>4 DEF Check, CommandsFit, Fits
    <2>3. CASE Go(p, Idle)
        BY <2>3, IdleCommand DEF Fits
    <2>4. CASE Go(p, Finished(p))
        <3>1. Finished(p).op # "reconcile"
            BY <2>2, IdleCommand DEF Finished, Idle
        <3>2. QED
            BY <2>4, <3>1, NextCommand
    <2>5. CASE Go(p, r)
        <3>1. head \in Int
            BY DEF TypeOK
        <3>2. IsStale(judged) \in BOOLEAN
            BY DEF IsStale
        <3>3. r \in Commands
            BY <1>0, <3>1, <3>2 DEF Commands
        <3>4. /\ r.pc = "checked" /\ r.copy = proc[p].copy
              /\ r.op = proc[p].op /\ r.queue = proc[p].queue
            BY <1>0 DEF Commands
        <3>5. Fits(r)
            BY <2>2, <3>4 DEF CommandsFit, Fits
        <3>6. QED
            BY <2>2, <2>5, <3>3, <3>4, <3>5
    <2>6. QED
        BY <2>1, <2>3, <2>4, <2>5
<1>5. CASE RefuseMaterialize(p)
    BY <1>5, IdleCommand DEF RefuseMaterialize, Fail, Fits
<1>6. QED
    BY <1>1, <1>2, <1>3, <1>4, <1>5


\* The sidecar writers: one goes on to the next place, with its command as it is.
LEMMA WriterTyped ==
    ASSUME TypeOK, CommandsFit, NEW p \in Procs,
           Materialize(p) \/ OpenTmp(p) \/ FillTmp(p)
    PROVE  \E r \in Commands :
              /\ Go(p, r) /\ Fits(r)
              /\ r.op = proc[p].op /\ r.queue = proc[p].queue /\ r.copy = proc[p].copy
              /\ Materialize(p) => r.pc = "materialized"
              /\ OpenTmp(p) => r.pc = "opened" /\ r.inode = "tmp"
              /\ FillTmp(p) => r.pc = "filled" /\ r.inode = proc[p].inode
<1>0. proc[p] \in Commands /\ Fits(proc[p])
    BY DEF TypeOK, CommandsFit
<1>1. CASE Materialize(p)
    <2> DEFINE r == [proc[p] EXCEPT !.pc = "materialized"]
    <2>1. Go(p, r) /\ proc[p].pc = "checked"
        BY <1>1 DEF Materialize, Step
    <2>2. /\ r \in Commands /\ r.pc = "materialized" /\ r.op = proc[p].op
          /\ r.queue = proc[p].queue /\ r.copy = proc[p].copy
        BY <1>0 DEF Commands
    <2>3. ~OpenTmp(p) /\ ~FillTmp(p)
        BY <2>1 DEF OpenTmp, WantsToWrite, FillTmp
    <2>4. QED
        BY <1>0, <2>1, <2>2, <2>3 DEF Fits
<1>2. CASE OpenTmp(p)
    <2> DEFINE r == [proc[p] EXCEPT !.pc = "opened", !.inode = "tmp"]
    <2>1. Go(p, r) /\ proc[p].pc \in {"materialized", "repairing"}
        BY <1>2 DEF OpenTmp, WantsToWrite
    <2>2. /\ r \in Commands /\ r.pc = "opened" /\ r.op = proc[p].op
          /\ r.queue = proc[p].queue /\ r.copy = proc[p].copy /\ r.inode = "tmp"
        BY <1>0 DEF Commands
    <2>3. ~Materialize(p) /\ ~FillTmp(p)
        BY <2>1 DEF Materialize, FillTmp
    <2>4. QED
        BY <1>0, <2>1, <2>2, <2>3 DEF Fits
<1>3. CASE FillTmp(p)
    <2> DEFINE r == [proc[p] EXCEPT !.pc = "filled"]
    <2>1. Go(p, r) /\ proc[p].pc = "opened"
        BY <1>3 DEF FillTmp, Step
    <2>2. /\ r \in Commands /\ r.pc = "filled" /\ r.op = proc[p].op
          /\ r.queue = proc[p].queue /\ r.copy = proc[p].copy
          /\ r.inode = proc[p].inode
        BY <1>0 DEF Commands
    <2>3. ~Materialize(p) /\ ~OpenTmp(p)
        BY <2>1 DEF Materialize, OpenTmp, WantsToWrite
    <2>4. QED
        BY <1>0, <2>1, <2>2, <2>3 DEF Fits
<1>4. QED
    BY <1>1, <1>2, <1>3

\* A rename also moves the file other writers hold open.
LEMMA RenameTyped ==
    ASSUME TypeOK, CommandsFit, NEW p \in Procs, RenameTmp(p)
    PROVE  /\ proc' \in [Procs -> Commands]
           /\ proc[p].pc = "filled" /\ proc'[p].pc = "renamed"
           /\ \A q \in Procs :
                 /\ Fits(proc'[q])
                 /\ proc'[q].op = proc[q].op /\ proc'[q].queue = proc[q].queue
                 /\ proc'[q].copy = proc[q].copy
                 /\ q # p => proc'[q].pc = proc[q].pc
<1> DEFINE moved(q) == [proc[q] EXCEPT !.inode = AfterRename(proc[q].inode)]
           renamed == [proc[p] EXCEPT !.pc = "renamed", !.inode = NoFile]
<1>0. proc[p].pc = "filled"
    BY DEF RenameTmp
<1>1. proc' = [q \in Procs |-> IF q # p THEN moved(q) ELSE renamed]
    BY DEF RenameTmp
<1>2. ASSUME NEW q \in Procs
      PROVE  /\ moved(q) \in Commands /\ moved(q).op = proc[q].op
             /\ moved(q).queue = proc[q].queue /\ moved(q).copy = proc[q].copy
             /\ moved(q).pc = proc[q].pc /\ Fits(moved(q))
    <2>1. proc[q] \in Commands /\ Fits(proc[q])
        BY DEF TypeOK, CommandsFit
    <2>2. AfterRename(proc[q].inode) \in {"tmp", "draft-set", "unlinked", NoFile}
        BY <2>1 DEF AfterRename, Commands
    <2>3. /\ moved(q) \in Commands /\ moved(q).op = proc[q].op
          /\ moved(q).queue = proc[q].queue /\ moved(q).copy = proc[q].copy
          /\ moved(q).pc = proc[q].pc
        BY <2>1, <2>2 DEF Commands
    <2>4. QED
        BY <2>1, <2>3 DEF Fits
<1>3. /\ renamed \in Commands /\ renamed.op = proc[p].op
      /\ renamed.queue = proc[p].queue /\ renamed.copy = proc[p].copy
      /\ renamed.pc = "renamed"
    <2>1. proc[p] \in Commands
        BY DEF TypeOK
    <2>2. NoFile \in {"tmp", "draft-set", "unlinked", NoFile}
        OBVIOUS
    <2>3. QED
        BY <2>1, <2>2 DEF Commands
<1>4. Fits(renamed)
    BY <1>0, <1>3 DEF Fits, CommandsFit
<1>5. QED
    BY <1>0, <1>1, <1>2, <1>3, <1>4

\* The commands that end with this step, or start.
LEMMA EndTyped ==
    ASSUME TypeOK, CommandsFit, NEW p \in Procs,
           SidecarFails(p) \/ AppendLog(p) \/ RewriteLog(p) \/ Crash(p) \/ StartReconcile(p)
    PROVE  \E r \in Commands :
              /\ Go(p, r) /\ Fits(r) /\ r.copy = {}
              /\ ~StartReconcile(p) => r.pc \in {"idle", "ready"}
              /\ StartReconcile(p) => r.pc = "repairing" /\ r.op = "reconcile"
<1> DEFINE repair == [Idle EXCEPT !.pc = "repairing", !.op = "reconcile"]
<1>1. /\ repair \in Commands /\ repair.pc = "repairing" /\ repair.op = "reconcile"
      /\ repair.copy = {} /\ repair.queue = << >>
    BY IdleCommand DEF Commands
<1>2. CASE StartReconcile(p)
    <2>1. Go(p, repair)
        BY <1>2 DEF StartReconcile
    <2>2. QED
        BY <1>1, <1>2, <2>1 DEF Fits
<1>3. CASE ~StartReconcile(p)
    <2>1. Go(p, Idle) \/ Go(p, Finished(p))
        BY <1>3 DEF SidecarFails, AppendLog, RewriteLog, Crash
    <2>2. Fits(Idle)
        BY IdleCommand DEF Fits
    <2>3. QED
        BY <1>3, <2>1, <2>2, IdleCommand, NextCommand
<1>4. QED
    BY <1>2, <1>3


\* Every step keeps the variables typed and the commands in order.
LEMMA TypeStep ==
    ASSUME TypeOK, CommandsFit, IsFiniteSet(Promoted), Next
    PROVE  TypeOK' /\ CommandsFit'
<1>1. CASE Others
    <2>1. proc' = proc
        BY <1>1, OthersKeep
    <2>2. QED
        BY <1>1, <2>1, OthersTyped DEF CommandsFit, Fits
<1>2. ASSUME NEW p \in Procs, NEW r \in Commands, Go(p, r), Fits(r)
      PROVE  proc' \in [Procs -> Commands] /\ CommandsFit'
    <2>1. CommandsFit' <=> \A q \in Procs : Fits(proc'[q])
        BY DEF CommandsFit, Fits
    <2>2. QED
        BY <1>2, <2>1, OneCommand DEF CommandsFit
<1>3. ASSUME NEW p \in Procs,
             \/ \E d \in Drafts, s \in Sessions, a \in BOOLEAN : StartSingle(p, d, s, a)
             \/ \E to \in [Drafts -> Sessions] : StartBulk(p, to)
             \/ LoadDraftSet(p) \/ Check(p) \/ RefuseMaterialize(p)
      PROVE  TypeOK' /\ CommandsFit'
    <2>1. proc' \in [Procs -> Commands] /\ CommandsFit'
        BY <1>2, <1>3, StepTyped
    <2>2. UNCHANGED << project, generated, files, lock, settled >>
        BY <1>3 DEF StartSingle, StartBulk, LoadDraftSet, Check, RefuseMaterialize
    <2>3. QED
        BY <2>1, <2>2 DEF TypeOK, project, files
<1>4. ASSUME NEW p \in Procs, Materialize(p) \/ OpenTmp(p) \/ FillTmp(p)
      PROVE  TypeOK' /\ CommandsFit'
    <2>1. proc' \in [Procs -> Commands] /\ CommandsFit'
        BY <1>2, <1>4, WriterTyped
    <2>2. CASE Materialize(p)
        <3>1. Origin(p) \in Origins
            <4>1. /\ proc[p] \in Commands /\ proc[p].pc = "checked"
                  /\ proc[p].op # "reconcile" /\ proc[p].queue # << >>
                BY <2>2 DEF TypeOK, CommandsFit, Fits, Materialize
            <4>2. Draft(p) \in Drafts
                BY <4>1, FilesTyped
            <4>3. Target(p) \in Sessions
                BY <2>2 DEF Materialize, MayMaterialize, TypeOK
            <4>4. /\ head \in Int /\ proc[p].op \in {"single", "bulk"}
                  /\ proc[p].stale \in BOOLEAN /\ proc[p].before \in Int
                BY <4>1 DEF TypeOK, Commands
            <4>5. QED
                BY <4>2, <4>3, <4>4 DEF Origin, Origins
        <3>2. Target(p) \in Sessions /\ Draft(p) \in Drafts
            BY <3>1 DEF Origin, Origins
        <3>3. QED
            BY <2>1, <2>2, <3>1, <3>2, DraftsAssumption
               DEF Materialize, Commit, TypeOK, files, NoHead
    <2>3. CASE OpenTmp(p)
        BY <2>1, <2>3 DEF OpenTmp, TypeOK, project, Contents
    <2>4. CASE FillTmp(p)
        <3>1. \A old : Overwritten(old, NewIds(p)) \in Contents
            BY <2>4, FilesTyped DEF FillTmp
        <3>2. tmp' \in Contents /\ draftSet' \in Contents
            BY <2>4, <3>1 DEF FillTmp, TypeOK
        <3>3. QED
            BY <2>1, <2>4, <3>2 DEF FillTmp, TypeOK, project
    <2>5. QED
        BY <1>4, <2>2, <2>3, <2>4, <2>1
<1>5. ASSUME NEW p \in Procs, RenameTmp(p)
      PROVE  TypeOK' /\ CommandsFit'
    <2>1. proc' \in [Procs -> Commands] /\ CommandsFit'
        BY <1>5, RenameTyped DEF CommandsFit, Fits
    <2>2. QED
        BY <1>5, <2>1 DEF RenameTmp, TypeOK, project, Contents
<1>6. ASSUME NEW p \in Procs,
             SidecarFails(p) \/ AppendLog(p) \/ RewriteLog(p) \/ Crash(p) \/ StartReconcile(p)
      PROVE  TypeOK' /\ CommandsFit'
    <2>1. proc' \in [Procs -> Commands] /\ CommandsFit'
        BY <1>2, <1>6, EndTyped
    <2>2. log' \in Seq(Drafts \cup {Cut, Unparsable})
        <3>1. CASE AppendLog(p)
            <4>1. Draft(p) \in Drafts
                BY <3>1, FilesTyped DEF AppendLog
            <4>2. QED
                BY <3>1, <4>1, LineAppended DEF AppendLog, Lines
        <3>2. CASE RewriteLog(p)
            BY <3>2, LogRewritten DEF RewriteLog
        <3>3. CASE Crash(p)
            <4>1. log' \in {log, Appended(Cut)}
                BY <3>3 DEF Crash
            <4>2. QED
                BY <4>1, LineAppended DEF Lines, TypeOK
        <3>4. CASE SidecarFails(p) \/ StartReconcile(p)
            BY <3>4 DEF SidecarFails, StartReconcile, files, TypeOK
        <3>5. QED
            BY <1>6, <3>1, <3>2, <3>3, <3>4
    <2>3. /\ UNCHANGED << project, generated, draftSet, tmp >>
          /\ lock' \in Procs \cup {Nobody}
          /\ settled' \in BOOLEAN
        BY <1>6 DEF SidecarFails, AppendLog, RewriteLog, Crash, StartReconcile, files, TypeOK,
                    NobodyElseWrites
    <2>4. QED
        BY <2>1, <2>2, <2>3 DEF TypeOK, project
<1>7. QED
    BY <1>1, <1>3, <1>4, <1>5, <1>6 DEF Next, Others, Creates, Rejects, Asks


-----------------------------------------------------------------------------
(***************************************************************************)
(* The project: promoted once, and asked.                                  *)
(***************************************************************************)

\* Only a promotion under the lock adds to what is promoted, and only the
\* rejection of its transaction removes it.
LEMMA PromotedStep ==
    ASSUME TypeOK, IsFiniteSet(Promoted), Next
    PROVE  /\ Ever \subseteq Ever' /\ IsFiniteSet(Promoted')
           /\ settled' => Promoted \subseteq Promoted'
           /\ ~Rejects /\ (\A p \in Procs : ~Materialize(p)) => Promoted' = Promoted
           /\ \A p \in Procs : Materialize(p) => Promoted' = Promoted \cup {Draft(p)}
<1>1. CASE \E s \in Sessions : AnswerQuestion(s) \/ CloseSession(s)
    <2>1. Promoted' = Promoted /\ rejected' = rejected /\ proc' = proc
        BY <1>1, AnsweredOrigins DEF AnswerQuestion, CloseSession
    <2>2. \A p \in Procs : ~Materialize(p)
        <3>1. SUFFICES ASSUME NEW p \in Procs, Materialize(p)
                       PROVE  FALSE
            OBVIOUS
        <3>2. proc[p].pc = "checked" /\ proc' = [proc EXCEPT ![p] = [proc[p] EXCEPT !.pc = "materialized"]]
            BY <3>1 DEF Materialize, Step, Go
        <3>3. proc'[p].pc = "materialized"
            BY <3>2 DEF TypeOK, Commands
        <3>4. QED
            BY <2>1, <3>2, <3>3
    <2>3. QED
        BY <2>1, <2>2 DEF Ever
<1>2. ASSUME NEW p \in Procs, Materialize(p)
      PROVE  Promoted' = Promoted \cup {Draft(p)} /\ IsFiniteSet(Promoted')
    <2>1. canonical' = canonical \cup {Origin(p)} /\ Origin(p).draft = Draft(p)
        BY <1>2 DEF Materialize, Origin
    <2>2. Promoted' = {r.draft : r \in canonical'}
        BY DEF Promoted
    <2>3. ASSUME NEW d
          PROVE  d \in Promoted' <=> d \in Promoted \cup {Draft(p)}
        BY <2>1, <2>2 DEF Promoted
    <2>4. Promoted' = Promoted \cup {Draft(p)}
        BY <2>3
    <2>5. QED
        BY <2>4, FS_AddElement
<1>2a. CASE Rejects
    <2>1. PICK r \in canonical, closes \in BOOLEAN : RejectPromotion(r, closes)
        BY <1>2a DEF Rejects
    <2>2. /\ canonical' = canonical \ {r} /\ rejected' = rejected \cup {r.draft}
          /\ ~settled' /\ proc' = proc
        BY <2>1 DEF RejectPromotion
    <2>3. ASSUME NEW d \in Ever PROVE d \in Ever'
        <3>1. CASE d \in rejected
            BY <2>2, <3>1 DEF Ever
        <3>2. CASE d \notin rejected
            <4>1. PICK q \in canonical : q.draft = d
                BY <2>3, <3>2 DEF Ever, Promoted
            <4>2. q = r \/ q \in canonical'
                BY <2>2
            <4>3. QED
                BY <2>2, <4>1, <4>2 DEF Ever, Promoted
        <3>3. QED
            BY <3>1, <3>2
    <2>4. Promoted' \subseteq Promoted
        BY <2>2 DEF Promoted
    <2>5. IsFiniteSet(Promoted')
        BY <2>4, FS_Subset
    <2>6. \A p \in Procs : ~Materialize(p)
        <3>1. SUFFICES ASSUME NEW p \in Procs, Materialize(p)
                       PROVE  FALSE
            OBVIOUS
        <3>2. rejected' = rejected /\ canonical' = canonical \cup {Origin(p)}
            BY <3>1 DEF Materialize
        <3>3. QED
            BY <2>2, <3>2
    <2>7. QED
        BY <1>2a, <2>2, <2>3, <2>5, <2>6
<1>3. CASE canonical' = canonical /\ rejected' = rejected
    BY <1>2, <1>3 DEF Promoted, Ever
<1>3a. rejected' = rejected \/ Rejects
    BY DEF Next, Rejects, CreateDraftSet, AskQuestion, AnswerQuestion, CloseSession, StartSingle,
           StartBulk, LoadDraftSet, Check, Materialize, RefuseMaterialize, OpenTmp, FillTmp,
           RenameTmp, SidecarFails, AppendLog, StartReconcile, RewriteLog, Crash, project
<1>4. QED
    BY <1>1, <1>2, <1>2a, <1>3, <1>3a
       DEF Ever, Next, Rejects, CreateDraftSet, AskQuestion, StartSingle, StartBulk, LoadDraftSet, Check,
           RefuseMaterialize, OpenTmp, FillTmp, RenameTmp, SidecarFails, AppendLog,
           StartReconcile, RewriteLog, Crash, project

\* Nothing leaves the drafts that the sidecar may name.
LEMMA KnownStep ==
    ASSUME TypeOK, IsFiniteSet(Promoted), NothingYet, Next
    PROVE  Known \subseteq Known' /\ Ever \subseteq Ever' /\ Ever' \subseteq Known'
<1>1. Ever \subseteq Ever'
    BY PromotedStep
<1>2. given \subseteq given'
    <2>1. CASE Creates
        BY <2>1 DEF Creates, CreateDraftSet, NothingYet
    <2>2. CASE ~Creates
        BY <2>2
           DEF Next, Creates, RejectPromotion, AskQuestion, AnswerQuestion, CloseSession, StartSingle,
               StartBulk, LoadDraftSet, Check, Materialize, RefuseMaterialize, OpenTmp, FillTmp,
               RenameTmp, SidecarFails, AppendLog, StartReconcile, RewriteLog, Crash, project
    <2>3. QED
        BY <2>1, <2>2
<1>3. QED
    BY <1>1, <1>2 DEF Known, Ever

LEMMA ProjectStep ==
    ASSUME TypeOK, CommandsFit, PromotedOnce, OpenProposalIsAsked, Next
    PROVE  PromotedOnce' /\ OpenProposalIsAsked'
<1>0. ASSUME NEW r \in canonical
      PROVE  r.draft \in Drafts /\ r.draft # Nobody /\ r.draft # Other
    BY DraftsAssumption DEF TypeOK, Origins
<1>1. ASSUME NEW s \in Sessions, AskQuestion(s)
      PROVE  PromotedOnce' /\ OpenProposalIsAsked'
    <2>1. /\ canonical' = canonical /\ open' = open /\ question[s] = Nobody
          /\ \A t \in Sessions : t # s => question'[t] = question[t]
        BY <1>1 DEF AskQuestion, TypeOK
    <2>2. ASSUME NEW r \in canonical, r.active
          PROVE  r.session \in open /\ question'[r.session] = r.draft
        BY <1>0, <2>1, <2>2 DEF OpenProposalIsAsked, TypeOK
    <2>3. QED
        BY <2>1, <2>2 DEF PromotedOnce, OpenProposalIsAsked
<1>2. ASSUME NEW s \in Sessions, AnswerQuestion(s) \/ CloseSession(s)
      PROVE  PromotedOnce' /\ OpenProposalIsAsked'
    <2>1. /\ canonical' = Deactivated(s) /\ open \ {s} \subseteq open'
          /\ \A t \in Sessions : t # s => question'[t] = question[t]
        BY <1>2 DEF AnswerQuestion, CloseSession, TypeOK
    <2>2. /\ PromotedOnce'
          /\ \A r \in canonical' : \E q \in canonical :
                /\ r.draft = q.draft /\ r.session = q.session
                /\ r.active => q.active /\ q.draft # question[s]
        BY <2>1, AnsweredOrigins
    <2>3. ASSUME NEW r \in canonical', r.active
          PROVE  r.session \in open' /\ question'[r.session] = r.draft
        <3>1. PICK q \in canonical : /\ r.draft = q.draft /\ r.session = q.session
                                     /\ q.active /\ q.draft # question[s]
            BY <2>2, <2>3
        <3>2. q.session \in open /\ question[q.session] = q.draft /\ q.session \in Sessions
            BY <3>1 DEF OpenProposalIsAsked, TypeOK
        <3>3. QED
            BY <2>1, <3>1, <3>2
    <2>4. QED
        BY <2>2, <2>3 DEF OpenProposalIsAsked
<1>3. ASSUME NEW p \in Procs, Materialize(p)
      PROVE  PromotedOnce' /\ OpenProposalIsAsked'
    <2> DEFINE new == Origin(p)
    <2>1. /\ canonical' = canonical \cup {new} /\ open' = open
          /\ Target(p) \in open /\ Target(p) \in Sessions /\ Draft(p) \notin Promoted
          /\ question' = [question EXCEPT ![Target(p)] = Draft(p)]
          /\ question[Target(p)] \in {Nobody, Draft(p)}
        BY <1>3 DEF Materialize, MayMaterialize, NoOtherActiveProposal, TypeOK
    <2>2. new.draft = Draft(p) /\ new.session = Target(p)
        BY DEF Origin
    <2>3. ASSUME NEW r \in canonical
          PROVE  r.draft # Draft(p)
        BY <2>1 DEF Promoted
    <2>4. PromotedOnce'
        BY <2>1, <2>2, <2>3 DEF PromotedOnce
    <2>5. ASSUME NEW r \in canonical, r.active
          PROVE  r.session \in open /\ question'[r.session] = r.draft
        <3>1. r.session \in open /\ question[r.session] = r.draft /\ r.session \in Sessions
            BY <2>5 DEF OpenProposalIsAsked, TypeOK
        <3>2. r.session # Target(p)
            BY <1>0, <2>1, <2>3, <3>1
        <3>3. QED
            BY <2>1, <3>1, <3>2 DEF TypeOK
    <2>6. question'[Target(p)] = Draft(p)
        BY <2>1 DEF TypeOK
    <2>7. QED
        BY <2>1, <2>2, <2>4, <2>5, <2>6 DEF OpenProposalIsAsked
<1>3a. ASSUME NEW r \in canonical, NEW closes \in BOOLEAN, RejectPromotion(r, closes)
       PROVE  PromotedOnce' /\ OpenProposalIsAsked'
    <2>1. /\ canonical' = canonical \ {r}
          /\ open' = IF closes THEN open \ {r.session} ELSE open
          /\ question' = [question EXCEPT ![r.session] = IF @ = r.draft THEN Nobody ELSE @]
          /\ closes => question[r.session] \in {r.draft, Nobody}
        BY <1>3a DEF RejectPromotion
    <2>2. ASSUME NEW q \in canonical', q.active
          PROVE  q.session \in open' /\ question'[q.session] = q.draft
        <3>1. q \in canonical /\ q # r
            BY <2>1
        <3>2. q.session \in open /\ question[q.session] = q.draft /\ q.session \in Sessions
            BY <2>2, <3>1 DEF OpenProposalIsAsked, TypeOK
        <3>3. q.draft # r.draft
            BY <3>1 DEF PromotedOnce
        <3>4. CASE q.session = r.session
            BY <1>0, <2>1, <3>1, <3>2, <3>3, <3>4 DEF TypeOK
        <3>5. CASE q.session # r.session
            BY <2>1, <3>2, <3>5 DEF TypeOK
        <3>6. QED
            BY <3>4, <3>5
    <2>3. PromotedOnce'
        BY <2>1 DEF PromotedOnce
    <2>4. QED
        BY <2>2, <2>3 DEF OpenProposalIsAsked
<1>4. CASE canonical' = canonical /\ open' = open /\ question' = question
    BY <1>4 DEF PromotedOnce, OpenProposalIsAsked
<1>5. QED
    BY <1>1, <1>2, <1>3, <1>3a, <1>4
       DEF Next, CreateDraftSet, StartSingle, StartBulk, LoadDraftSet, Check,
           RefuseMaterialize, OpenTmp, FillTmp, RenameTmp, SidecarFails, AppendLog,
           StartReconcile, RewriteLog, Crash, project


-----------------------------------------------------------------------------
(***************************************************************************)
(* The lock and the copies.                                                *)
(***************************************************************************)

LEMMA LockStep ==
    ASSUME TypeOK, CommandsFit, LockIsRepair, Next
    PROVE  LockIsRepair'
<1>0. LockIsRepair' <=>
        \A q \in Procs : lock' = q <=> proc'[q].op = "reconcile" /\ proc'[q].pc # "idle"
    BY DEF LockIsRepair
<1>1. CASE Others
    <2>1. proc' = proc /\ lock' = lock
        BY <1>1, OthersKeep
    <2>2. QED
        BY <1>0, <2>1 DEF LockIsRepair
<1>2. ASSUME NEW p \in Procs,
             \/ \E d \in Drafts, s \in Sessions, a \in BOOLEAN : StartSingle(p, d, s, a)
             \/ \E to \in [Drafts -> Sessions] : StartBulk(p, to)
             \/ LoadDraftSet(p) \/ Check(p) \/ RefuseMaterialize(p)
      PROVE  LockIsRepair'
    <2>1. PICK r \in Commands : Go(p, r) /\ r.op # "reconcile"
        BY <1>2, StepTyped
    <2>2. lock' = lock /\ lock # p
        BY <1>2 DEF StartSingle, StartBulk, LoadDraftSet, Check, RefuseMaterialize,
                    LockIsRepair, CommandsFit, Fits
    <2>3. QED
        BY <1>0, <2>1, <2>2, OneCommand DEF LockIsRepair
<1>3. ASSUME NEW p \in Procs, Materialize(p) \/ OpenTmp(p) \/ FillTmp(p)
      PROVE  LockIsRepair'
    <2>1. PICK r \in Commands :
             Go(p, r) /\ r.op = proc[p].op /\ r.pc \in {"materialized", "opened", "filled"}
        BY <1>3, WriterTyped
    <2>2. lock' = lock /\ proc[p].pc # "idle"
        BY <1>3 DEF Materialize, OpenTmp, FillTmp, WantsToWrite
    <2>3. QED
        BY <1>0, <2>1, <2>2, OneCommand DEF LockIsRepair
<1>4. ASSUME NEW p \in Procs, RenameTmp(p)
      PROVE  LockIsRepair'
    <2>1. lock' = lock
        BY <1>4 DEF RenameTmp
    <2>2. QED
        BY <1>0, <1>4, <2>1, RenameTyped DEF LockIsRepair
<1>5. ASSUME NEW p \in Procs, StartReconcile(p)
      PROVE  LockIsRepair'
    <2>1. PICK r \in Commands : Go(p, r) /\ r.pc = "repairing" /\ r.op = "reconcile"
        BY <1>5, EndTyped
    <2>2. lock' = p /\ lock = Nobody
        BY <1>5 DEF StartReconcile
    <2>3. QED
        BY <1>0, <2>1, <2>2, OneCommand, DraftsAssumption DEF LockIsRepair
<1>6. ASSUME NEW p \in Procs,
             SidecarFails(p) \/ AppendLog(p) \/ RewriteLog(p) \/ Crash(p)
      PROVE  LockIsRepair'
    <2>1. proc[p].pc \notin {"idle", "repairing"} \/ Crash(p)
        BY <1>6 DEF SidecarFails, AppendLog, RewriteLog
    <2>2. ~StartReconcile(p)
        BY <1>6 DEF SidecarFails, AppendLog, RewriteLog, Crash, StartReconcile
    <2>3. PICK r \in Commands : Go(p, r) /\ Fits(r) /\ r.pc \in {"idle", "ready"}
        BY <1>6, <2>2, EndTyped
    <2>4. ~(r.op = "reconcile" /\ r.pc # "idle")
        BY <2>3 DEF Fits
    <2>5. /\ lock' # p
          /\ \A q \in Procs : q # p => (lock' = q <=> lock = q)
        <3>1. CASE SidecarFails(p) \/ Crash(p)
            BY <3>1, DraftsAssumption DEF SidecarFails, Crash
        <3>2. CASE RewriteLog(p)
            <4>1. lock = p /\ lock' = Nobody
                BY <3>2 DEF RewriteLog, LockIsRepair
            <4>2. QED
                BY <4>1, DraftsAssumption
        <3>3. CASE AppendLog(p)
            BY <3>3 DEF AppendLog, LockIsRepair
        <3>4. QED
            BY <1>6, <3>1, <3>2, <3>3
    <2>6. QED
        BY <1>0, <2>3, <2>4, <2>5, OneCommand DEF LockIsRepair
<1>7. QED
    BY <1>1, <1>2, <1>3, <1>4, <1>5, <1>6 DEF Next, Others, Creates, Rejects, Asks

LEMMA BehindStep ==
    ASSUME TypeOK, IsFiniteSet(Promoted), CommandsFit, CopiesAreBehind, SidecarNeverAhead,
           NothingYet, Next
    PROVE  CopiesAreBehind'
<1>0. CopiesAreBehind' <=> \A q \in Procs : Behind(proc'[q], Known', Ever')
    BY DEF CopiesAreBehind, Behind, Known, Ever
<1>1. Known \subseteq Known' /\ Ever \subseteq Ever' /\ \A q \in Procs : Behind(proc[q], Known', Ever')
    <2>1. Known \subseteq Known' /\ Ever \subseteq Ever'
        BY KnownStep
    <2>2. QED
        BY <2>1 DEF CopiesAreBehind, Behind
<1>2. CASE Others
    <2>1. proc' = proc
        BY <1>2, OthersKeep
    <2>2. QED
        BY <1>0, <1>1, <2>1
<1>3. ASSUME NEW p \in Procs,
             \/ \E d \in Drafts, s \in Sessions, a \in BOOLEAN : StartSingle(p, d, s, a)
             \/ \E to \in [Drafts -> Sessions] : StartBulk(p, to)
             \/ LoadDraftSet(p) \/ Check(p) \/ RefuseMaterialize(p)
      PROVE  CopiesAreBehind'
    <2>1. PICK r \in Commands :
             /\ Go(p, r) /\ r.pc \in {"idle", "ready", "loaded", "checked"}
             /\ \/ r.copy = {} \/ r.copy = proc[p].copy
                \/ r.copy = draftSet /\ Readable
        BY <1>3, StepTyped
    <2>2. r.copy \subseteq Known'
        BY <1>1, <2>1 DEF SidecarNeverAhead, Known, Behind
    <2>3. QED
        BY <1>0, <1>1, <2>1, <2>2, OneCommand DEF Behind, Recording
<1>4. ASSUME NEW p \in Procs, Materialize(p) \/ OpenTmp(p) \/ FillTmp(p)
      PROVE  CopiesAreBehind'
    <2>1. PICK r \in Commands :
             Go(p, r) /\ r.op = proc[p].op /\ r.queue = proc[p].queue /\ r.copy = proc[p].copy
        BY <1>4, WriterTyped
    <2>2. proc[p].op # "reconcile" => Draft(p) \in Ever'
        <3>1. CASE Materialize(p)
            BY <3>1, PromotedStep DEF Ever
        <3>2. CASE OpenTmp(p) \/ FillTmp(p)
            BY <1>1, <3>2
               DEF OpenTmp, FillTmp, WantsToWrite, Behind, Recording, Draft, CommandsFit, Fits
        <3>3. QED
            BY <1>4, <3>1, <3>2
    <2>3. Behind(r, Known', Ever')
        BY <1>1, <2>1, <2>2 DEF Behind, Draft
    <2>4. QED
        BY <1>0, <1>1, <2>1, <2>3, OneCommand
<1>5. ASSUME NEW p \in Procs, RenameTmp(p)
      PROVE  CopiesAreBehind'
    BY <1>0, <1>1, <1>5, RenameTyped DEF Behind, Recording
<1>6. ASSUME NEW p \in Procs,
             SidecarFails(p) \/ AppendLog(p) \/ RewriteLog(p) \/ Crash(p) \/ StartReconcile(p)
      PROVE  CopiesAreBehind'
    <2>1. PICK r \in Commands :
             Go(p, r) /\ r.copy = {} /\ r.pc \in {"idle", "ready", "repairing"}
        BY <1>6, EndTyped
    <2>2. QED
        BY <1>0, <1>1, <2>1, OneCommand DEF Behind, Recording
<1>7. QED
    BY <1>2, <1>3, <1>4, <1>5, <1>6 DEF Next, Others, Creates, Rejects, Asks


-----------------------------------------------------------------------------
(***************************************************************************)
(* The sidecar never names too much.                                       *)
(***************************************************************************)

LEMMA SidecarStep ==
    ASSUME TypeOK, IsFiniteSet(Promoted), CommandsFit, CopiesAreBehind, SidecarNeverAhead,
           TmpNeverAhead, NothingYet, Next
    PROVE  SidecarNeverAhead' /\ TmpNeverAhead'
<1> DEFINE Safe(c, done) == c \notin {NoFile, Empty, Garbled} => c \subseteq done
<1>0. /\ Known \subseteq Known' /\ Ever \subseteq Ever' /\ Ever' \subseteq Known'
      /\ Promoted \subseteq Ever
      /\ Safe(draftSet, Known') /\ Safe(tmp, Known') /\ LogIds \subseteq Ever'
      /\ (SidecarNeverAhead' <=> Safe(draftSet', Known') /\ LogIds' \subseteq Ever')
      /\ (TmpNeverAhead' <=> Safe(tmp', Known'))
    <2>1. Known \subseteq Known' /\ Ever \subseteq Ever' /\ Ever' \subseteq Known'
        BY KnownStep
    <2>2. QED
        BY <2>1 DEF SidecarNeverAhead, TmpNeverAhead, Readable, Known, Ever
<1>1. LogIds' \subseteq Ever'
    <2>1. CASE log' = log
        BY <1>0, <2>1 DEF LogIds
    <2>2. ASSUME NEW p \in Procs, AppendLog(p)
          PROVE  LogIds' \subseteq Ever'
        <3>1. Draft(p) \in Ever /\ Draft(p) \in Drafts
            BY <2>2, FilesTyped DEF AppendLog, CopiesAreBehind, Behind, Draft
        <3>2. log' = Appended(Draft(p))
            BY <2>2 DEF AppendLog
        <3>3. \A i \in DOMAIN log' : log'[i] \in LogIds \cup {Draft(p), Cut, Unparsable}
            BY <3>1, <3>2, LineAppended DEF Lines
        <3>4. QED
            BY <1>0, <3>1, <3>3 DEF LogIds
    <2>3. ASSUME NEW p \in Procs, RewriteLog(p)
          PROVE  LogIds' \subseteq Ever'
        <3>1. \A i \in DOMAIN log' : log'[i] \in Promoted
            BY <2>3, LogRewritten DEF RewriteLog
        <3>2. QED
            BY <1>0, <3>1 DEF LogIds
    <2>4. ASSUME NEW p \in Procs, Crash(p), log' # log
          PROVE  LogIds' \subseteq Ever'
        <3>1. log' = Appended(Cut)
            BY <2>4 DEF Crash
        <3>2. \A i \in DOMAIN log' : log'[i] \in LogIds \cup {Cut, Unparsable}
            BY <3>1, LineAppended DEF Lines
        <3>3. QED
            BY <1>0, <3>2 DEF LogIds
    <2>5. QED
        BY <2>1, <2>2, <2>3, <2>4
           DEF Next, CreateDraftSet, RejectPromotion, AskQuestion, AnswerQuestion, CloseSession, StartSingle,
               StartBulk, LoadDraftSet, Check, Materialize, RefuseMaterialize, OpenTmp, FillTmp,
               RenameTmp, SidecarFails, StartReconcile, files
<1>2. Safe(draftSet', Known') /\ Safe(tmp', Known')
    <2>1. ASSUME NEW ids \in Payloads, CreateDraftSet(ids)
          PROVE  Safe(draftSet', Known') /\ Safe(tmp', Known')
        BY <1>0, <2>1 DEF CreateDraftSet, Known
    <2>2. ASSUME NEW p \in Procs, OpenTmp(p)
          PROVE  Safe(draftSet', Known') /\ Safe(tmp', Known')
        BY <1>0, <2>2 DEF OpenTmp
    <2>3. ASSUME NEW p \in Procs, FillTmp(p)
          PROVE  Safe(draftSet', Known') /\ Safe(tmp', Known')
        <3>1. NewIds(p) \subseteq Known
            BY <2>3 DEF FillTmp, NewIds, CopiesAreBehind, Behind, Recording, Draft, Known, Ever
        <3>2. \A old : Overwritten(old, NewIds(p)) \in {Garbled, NewIds(p)}
            BY DEF Overwritten
        <3>3. /\ tmp' \in {tmp, Garbled, NewIds(p)}
              /\ draftSet' \in {draftSet, Garbled, NewIds(p)}
            BY <2>3, <3>2 DEF FillTmp
        <3>4. QED
            BY <1>0, <3>1, <3>3
    <2>4. ASSUME NEW p \in Procs, RenameTmp(p)
          PROVE  Safe(draftSet', Known') /\ Safe(tmp', Known')
        BY <1>0, <2>4 DEF RenameTmp
    <2>5. CASE draftSet' = draftSet /\ tmp' = tmp
        BY <1>0, <2>5
    <2>6. QED
        BY <2>1, <2>2, <2>3, <2>4, <2>5
           DEF Next, RejectPromotion, AskQuestion, AnswerQuestion, CloseSession, StartSingle,
               StartBulk, LoadDraftSet, Check, Materialize, RefuseMaterialize, SidecarFails,
               AppendLog, StartReconcile, RewriteLog, Crash, files
<1>3. QED
    BY <1>0, <1>1, <1>2

\* Without a draft set no promotion gets anywhere.
LEMMA NothingStep ==
    ASSUME TypeOK, IsFiniteSet(Promoted), CommandsFit, LockIsRepair, NothingYet, Next
    PROVE  NothingYet'
<1>1. SUFFICES ASSUME generated' = NoHead
               PROVE  /\ canonical' = {} /\ rejected' = {} /\ given' = {} /\ draftSet' = NoFile /\ log' = << >>
                      /\ \A q \in Procs : proc'[q].pc \in {"idle", "ready"}
    BY DEF NothingYet
<1>2. \A ids : ~CreateDraftSet(ids)
    BY <1>1, DraftsAssumption DEF CreateDraftSet, TypeOK, NoHead
<1>3. generated = NoHead
    BY <1>1, <1>2
       DEF Next, RejectPromotion, AskQuestion, AnswerQuestion, CloseSession, StartSingle, StartBulk,
           LoadDraftSet, Check, Materialize, RefuseMaterialize, OpenTmp, FillTmp, RenameTmp,
           SidecarFails, AppendLog, StartReconcile, RewriteLog, Crash
<1>4. /\ canonical = {} /\ rejected = {} /\ given = {} /\ draftSet = NoFile /\ log = << >> /\ ~Readable
      /\ \A q \in Procs : proc[q].pc \in {"idle", "ready"}
    BY <1>3 DEF NothingYet, Readable
<1>5. \A p \in Procs :
         /\ ~Check(p) /\ ~Materialize(p) /\ ~RefuseMaterialize(p) /\ ~OpenTmp(p)
         /\ ~FillTmp(p) /\ ~RenameTmp(p) /\ ~SidecarFails(p) /\ ~AppendLog(p)
         /\ ~StartReconcile(p) /\ ~RewriteLog(p)
    BY <1>4 DEF Check, Materialize, RefuseMaterialize, OpenTmp, WantsToWrite, FillTmp,
                RenameTmp, SidecarFails, AppendLog, StartReconcile, RewriteLog
<1>6. canonical' = {} /\ rejected' = {} /\ given' = {}
    <2>1. ASSUME NEW s \in Sessions PROVE Deactivated(s) = {}
        BY <1>4 DEF Deactivated
    <2>2. QED
        BY <1>2, <1>4, <1>5, <2>1
           DEF Next, AskQuestion, AnswerQuestion, CloseSession, StartSingle, StartBulk,
               LoadDraftSet, Crash, project
<1>7. CASE \E s \in Sessions : AskQuestion(s) \/ AnswerQuestion(s) \/ CloseSession(s)
    BY <1>4, <1>6, <1>7 DEF AskQuestion, AnswerQuestion, CloseSession, files
<1>8. ASSUME NEW p \in Procs,
             \/ \E d \in Drafts, s \in Sessions, a \in BOOLEAN : StartSingle(p, d, s, a)
             \/ \E to \in [Drafts -> Sessions] : StartBulk(p, to)
             \/ LoadDraftSet(p) \/ Crash(p)
      PROVE  /\ draftSet' = NoFile /\ log' = << >>
             /\ \A q \in Procs : proc'[q].pc \in {"idle", "ready"}
    <2>1. \E r \in Commands : Go(p, r) /\ r.pc \in {"idle", "ready"}
        <3>1. CASE Crash(p)
            BY <1>5, <3>1, EndTyped
        <3>2. CASE ~Crash(p)
            <4>1. PICK r \in Commands :
                     /\ Go(p, r) /\ r.pc \in {"idle", "ready", "loaded", "checked"}
                     /\ r.pc = "loaded" => Readable
                     /\ r.pc = "checked" => proc[p].pc = "loaded"
                BY <1>8, <3>2, StepTyped
            <4>2. QED
                BY <1>4, <4>1
        <3>3. QED
            BY <3>1, <3>2
    <2>2. draftSet' = NoFile /\ log' = << >>
        BY <1>4, <1>8 DEF StartSingle, StartBulk, LoadDraftSet, Crash, files
    <2>3. QED
        BY <1>4, <2>1, <2>2, OneCommand
<1>9. QED
    BY <1>2, <1>4, <1>5, <1>6, <1>7, <1>8 DEF Next


-----------------------------------------------------------------------------
(***************************************************************************)
(* Undisturbed, the sidecar never names too little.                        *)
(***************************************************************************)

\* What is due stays due while its promotion goes on.
LEMMA StillDue ==
    ASSUME NEW pcs, NEW p,
           \A q \in Procs \ {p} :
              /\ proc'[q].op = proc[q].op /\ proc'[q].queue = proc[q].queue
              /\ proc[q].pc \in pcs => proc'[q].pc \in pcs
    PROVE  \A d \in Due(pcs) :
              \/ d \in Due(pcs)'
              \/ proc[p].op # "reconcile" /\ proc[p].pc \in pcs /\ d = Draft(p)
<1>1. SUFFICES ASSUME NEW d \in Due(pcs)
               PROVE  \/ d \in Due(pcs)'
                      \/ proc[p].op # "reconcile" /\ proc[p].pc \in pcs /\ d = Draft(p)
    OBVIOUS
<1>2. PICK q \in Procs : proc[q].op # "reconcile" /\ proc[q].pc \in pcs /\ d = Draft(q)
    BY DEF Due
<1>3. CASE q # p
    <2>1. proc'[q].op # "reconcile" /\ proc'[q].pc \in pcs /\ d = Draft(q)'
        BY <1>2, <1>3 DEF Draft
    <2>2. QED
        BY <2>1 DEF Due
<1>4. QED
    BY <1>2, <1>3

\* A step keeps the writer alone if it leaves writers and what they write alone.
LEMMA AloneKept ==
    ASSUME WriterIsAlone, tmp' = tmp,
           \A q \in Procs : proc'[q].pc \in Writing => proc'[q] = proc[q],
           \A q \in Procs : Promoted' = Promoted \/ proc[q].op # "reconcile"
                            \/ proc[q].pc \notin Writing
    PROVE  WriterIsAlone'
<1>1. SUFFICES ASSUME NEW p \in Procs, proc'[p].pc \in Writing
               PROVE  /\ \A q \in Procs \ {p} : proc'[q].pc \notin Writing
                      /\ proc'[p].inode = "tmp"
                      /\ proc'[p].pc = "opened" => tmp' = Empty
                      /\ proc'[p].pc = "filled" => tmp' = NewIds(p)'
    BY DEF WriterIsAlone, NobodyElseWrites, Writing
<1>2. proc'[p] = proc[p] /\ proc[p].pc \in Writing
    BY <1>1
<1>3. NewIds(p)' = NewIds(p)
    BY <1>2 DEF NewIds, Draft
<1>4. QED
    BY <1>1, <1>2, <1>3 DEF WriterIsAlone, NobodyElseWrites

LEMMA AloneStep ==
    ASSUME IInv, TypeOK', Next, settled'
    PROVE  WriterIsAlone'
<1>0. /\ TypeOK /\ IsFiniteSet(Promoted) /\ CommandsFit /\ LockIsRepair
      /\ settled => WriterIsAlone
    BY DEF IInv, Undisturbed
<1>1. CASE Others
    <2>1. proc' = proc /\ tmp' = tmp
        BY <1>1, OthersKeep
    <2>1a. settled /\ ~Rejects
        BY <1>1 DEF Others, Creates, CreateDraftSet, Rejects, RejectPromotion, Asks, AskQuestion,
                    AnswerQuestion, CloseSession
    <2>2. Promoted' = Promoted
        BY <1>0, <1>1, <2>1a, AnsweredOrigins
           DEF Others, Creates, CreateDraftSet, Asks, AskQuestion, AnswerQuestion, CloseSession, Promoted
    <2>3. QED
        BY <1>0, <2>1, <2>1a, <2>2, AloneKept
<1>2. ASSUME NEW p \in Procs,
             \/ \E d \in Drafts, s \in Sessions, a \in BOOLEAN : StartSingle(p, d, s, a)
             \/ \E to \in [Drafts -> Sessions] : StartBulk(p, to)
             \/ LoadDraftSet(p) \/ Check(p) \/ RefuseMaterialize(p)
      PROVE  WriterIsAlone'
    <2>1. PICK r \in Commands : Go(p, r) /\ r.pc \in {"idle", "ready", "loaded", "checked"}
        BY <1>0, <1>2, StepTyped
    <2>2. \A q \in Procs : proc'[q].pc \in Writing => proc'[q] = proc[q]
        BY <1>0, <2>1, OneCommand DEF Writing
    <2>3. tmp' = tmp /\ Promoted' = Promoted /\ settled' = settled
        BY <1>2 DEF StartSingle, StartBulk, LoadDraftSet, Check, RefuseMaterialize, files,
                    project, Promoted
    <2>4. QED
        BY <1>0, <2>2, <2>3, AloneKept
<1>3. ASSUME NEW p \in Procs, Materialize(p)
      PROVE  WriterIsAlone'
    <2>1. PICK r \in Commands : Go(p, r) /\ r.pc = "materialized"
        BY <1>0, <1>3, WriterTyped
    <2>2. \A q \in Procs : proc'[q].pc \in Writing => proc'[q] = proc[q]
        BY <1>0, <2>1, OneCommand DEF Writing
    <2>3. tmp' = tmp /\ settled' = settled /\ lock = Nobody
        BY <1>3 DEF Materialize, Commit, files
    <2>4. \A q \in Procs : proc[q].op # "reconcile" \/ proc[q].pc \notin Writing
        BY <1>0, <2>3, DraftsAssumption DEF LockIsRepair, Writing
    <2>5. QED
        BY <1>0, <2>2, <2>3, <2>4, AloneKept
<1>4. ASSUME NEW p \in Procs, OpenTmp(p)
      PROVE  WriterIsAlone'
    <2>1. PICK r \in Commands : Go(p, r) /\ r.pc = "opened" /\ r.inode = "tmp"
        BY <1>0, <1>4, WriterTyped
    <2>2. /\ \A q \in Procs : proc'[q] = IF q = p THEN r ELSE proc[q]
          /\ \A q \in Procs \ {p} : proc[q].pc \notin Writing
          /\ tmp' = Empty
        BY <1>0, <1>4, <2>1, OneCommand DEF OpenTmp, NobodyElseWrites
    <2>3. QED
        BY <2>1, <2>2 DEF WriterIsAlone, NobodyElseWrites
<1>5. ASSUME NEW p \in Procs, FillTmp(p)
      PROVE  WriterIsAlone'
    <2>1. PICK r \in Commands :
             /\ Go(p, r) /\ r.pc = "filled" /\ r.inode = proc[p].inode
             /\ r.op = proc[p].op /\ r.queue = proc[p].queue /\ r.copy = proc[p].copy
        BY <1>0, <1>5, WriterTyped
    <2>2. /\ proc[p].pc = "opened" /\ settled
          /\ UNCHANGED project
        BY <1>5 DEF FillTmp
    <2>3. /\ \A q \in Procs \ {p} : proc[q].pc \notin Writing
          /\ proc[p].inode = "tmp" /\ tmp = Empty
        BY <1>0, <2>2 DEF WriterIsAlone, NobodyElseWrites, Writing
    <2>4. \A q \in Procs : proc'[q] = IF q = p THEN r ELSE proc[q]
        BY <1>0, <2>1, OneCommand
    <2>5. NewIds(p)' = NewIds(p)
        BY <2>1, <2>2, <2>4 DEF NewIds, Draft, Promoted, project
    <2>6. tmp' = NewIds(p)
        BY <1>5, <2>3 DEF FillTmp, Overwritten
    <2>7. QED
        BY <2>1, <2>3, <2>4, <2>5, <2>6 DEF WriterIsAlone, NobodyElseWrites
<1>6. ASSUME NEW p \in Procs, RenameTmp(p)
      PROVE  WriterIsAlone'
    <2>1. settled /\ proc[p].pc = "filled" /\ proc'[p].pc = "renamed"
        BY <1>0, <1>6, RenameTyped DEF RenameTmp
    <2>2. \A q \in Procs \ {p} : proc[q].pc \notin Writing /\ proc'[q].pc = proc[q].pc
        BY <1>0, <1>6, <2>1, RenameTyped DEF WriterIsAlone, NobodyElseWrites, Writing
    <2>3. QED
        BY <2>1, <2>2 DEF WriterIsAlone, Writing
<1>7. ASSUME NEW p \in Procs, StartReconcile(p)
      PROVE  WriterIsAlone'
    <2>1. PICK r \in Commands : Go(p, r) /\ r.pc = "repairing"
        BY <1>0, <1>7, EndTyped
    <2>2. \A q \in Procs \ {p} : proc[q].pc \notin Writing
        BY <1>7 DEF StartReconcile, NobodyElseWrites
    <2>3. QED
        BY <1>0, <2>1, <2>2, OneCommand DEF WriterIsAlone, Writing
<1>8. ASSUME NEW p \in Procs, AppendLog(p) \/ RewriteLog(p) \/ Crash(p)
      PROVE  WriterIsAlone'
    <2>1. tmp' = tmp /\ settled /\ Promoted' = Promoted
        BY <1>8 DEF AppendLog, RewriteLog, Crash, project, Promoted
    <2>2. proc[p].pc # "idle"
        BY <1>8 DEF AppendLog, RewriteLog, Crash
    <2>3. ~StartReconcile(p)
        BY <2>2 DEF StartReconcile
    <2>4. PICK r \in Commands : Go(p, r) /\ r.pc \in {"idle", "ready"}
        BY <1>0, <1>8, <2>3, EndTyped
    <2>5. \A q \in Procs : proc'[q].pc \in Writing => proc'[q] = proc[q]
        BY <1>0, <2>4, OneCommand DEF Writing
    <2>6. QED
        BY <1>0, <2>1, <2>5, AloneKept
<1>9. ASSUME NEW p \in Procs
      PROVE  ~SidecarFails(p)
    BY DEF SidecarFails
<1>10. QED
    BY <1>1, <1>2, <1>3, <1>4, <1>5, <1>6, <1>7, <1>8, <1>9 DEF Next, Others, Creates, Rejects, Asks


LEMMA DraftSetStep ==
    ASSUME IInv, TypeOK', Next, settled', generated # NoHead,
           \A q \in Procs : lock' = q => proc'[q].pc = "renamed"
    PROVE  DraftSetIsComplete'
<1> DEFINE Condition == \A q \in Procs : lock = q => proc[q].pc = "renamed"
<1>0. /\ TypeOK /\ IsFiniteSet(Promoted) /\ CommandsFit /\ LockIsRepair /\ CopiesAreBehind
      /\ settled => WriterIsAlone
      /\ settled /\ Condition => DraftSetIsComplete
    BY DEF IInv, Undisturbed
<1>1. /\ (DraftSetIsComplete' <=>
            /\ draftSet' \subseteq Promoted'
            /\ \A d \in Promoted' : d \in draftSet' \/ d \in Due(Recording)')
      /\ Promoted \subseteq Promoted'
    BY <1>0, PromotedStep DEF DraftSetIsComplete, Recording
<1>2. ~Creates /\ ~Rejects
    BY DEF Creates, CreateDraftSet, Rejects, RejectPromotion
<1>3. CASE \E s \in Sessions : AskQuestion(s) \/ AnswerQuestion(s) \/ CloseSession(s)
    <2>1. proc' = proc /\ draftSet' = draftSet /\ settled' = settled /\ lock' = lock
        BY <1>3 DEF AskQuestion, AnswerQuestion, CloseSession, files
    <2>2. Promoted' = Promoted
        BY <1>0, <1>3, AnsweredOrigins
           DEF AskQuestion, AnswerQuestion, CloseSession, project, Promoted
    <2>3. Due(Recording)' = Due(Recording)
        BY <2>1 DEF Due, Draft, Recording
    <2>4. QED
        BY <1>0, <1>1, <2>1, <2>2, <2>3 DEF DraftSetIsComplete
<1>4. ASSUME NEW p \in Procs,
             \/ \E d \in Drafts, s \in Sessions, a \in BOOLEAN : StartSingle(p, d, s, a)
             \/ \E to \in [Drafts -> Sessions] : StartBulk(p, to)
             \/ LoadDraftSet(p) \/ Check(p) \/ RefuseMaterialize(p)
             \/ AppendLog(p) \/ Crash(p)
      PROVE  DraftSetIsComplete'
    <2>1. /\ draftSet' = draftSet /\ Promoted' = Promoted /\ settled
          /\ proc[p].pc \notin Recording
          /\ lock # p => lock' = lock
          /\ ~(proc[p].op = "reconcile" /\ proc[p].pc # "idle")
        <3>1. CASE AppendLog(p)
            BY <3>1 DEF AppendLog, project, Promoted, Recording
        <3>2. CASE Crash(p)
            BY <1>0, <3>2 DEF Crash, project, Promoted, Recording, CommandsFit, Fits
        <3>3. CASE ~AppendLog(p) /\ ~Crash(p)
            BY <1>0, <1>4, <3>3
               DEF StartSingle, StartBulk, LoadDraftSet, Check, RefuseMaterialize,
                   files, project, Promoted, Recording, CommandsFit, Fits
        <3>4. QED
            BY <3>1, <3>2, <3>3
    <2>2. lock # p /\ lock' = lock
        BY <1>0, <2>1 DEF LockIsRepair
    <2>3. PICK r \in Commands : Go(p, r)
        BY <1>0, <1>4, StepTyped, EndTyped
    <2>4. \A q \in Procs : q # p => proc'[q] = proc[q]
        BY <1>0, <2>3, OneCommand
    <2>5. DraftSetIsComplete
        BY <1>0, <2>1, <2>2, <2>4
    <2>6. \A d \in Due(Recording) : d \in Due(Recording)'
        BY <2>1, <2>4, StillDue
    <2>7. QED
        BY <1>1, <2>1, <2>5, <2>6 DEF DraftSetIsComplete
<1>5. ASSUME NEW p \in Procs, Materialize(p)
      PROVE  DraftSetIsComplete'
    <2>1. PICK r \in Commands :
             /\ Go(p, r) /\ r.pc = "materialized" /\ r.op = proc[p].op
             /\ r.queue = proc[p].queue
        BY <1>0, <1>5, WriterTyped
    <2>2. /\ draftSet' = draftSet /\ settled /\ lock = Nobody
          /\ proc[p].pc = "checked" /\ proc[p].op # "reconcile"
        BY <1>0, <1>5 DEF Materialize, Commit, files, CommandsFit, Fits
    <2>3. Promoted' = Promoted \cup {Draft(p)}
        BY <1>0, <1>5, PromotedStep
    <2>4. DraftSetIsComplete
        BY <1>0, <2>2, DraftsAssumption
    <2>5. \A q \in Procs : proc'[q] = IF q = p THEN r ELSE proc[q]
        BY <1>0, <2>1, OneCommand
    <2>6. \A d \in Due(Recording) : d \in Due(Recording)'
        <3>1. proc[p].pc \notin Recording
            BY <2>2 DEF Recording
        <3>2. QED
            BY <2>5, <3>1, StillDue
    <2>7. Draft(p) \in Due(Recording)'
        <3>1. proc'[p].op # "reconcile" /\ proc'[p].pc \in Recording /\ Draft(p)' = Draft(p)
            BY <2>1, <2>2, <2>5 DEF Recording, Draft
        <3>2. QED
            BY <3>1 DEF Due
    <2>8. QED
        BY <1>1, <2>2, <2>3, <2>4, <2>6, <2>7 DEF DraftSetIsComplete
<1>6. ASSUME NEW p \in Procs, OpenTmp(p) \/ FillTmp(p)
      PROVE  DraftSetIsComplete'
    <2>1. PICK r \in Commands :
             /\ Go(p, r) /\ r.pc \in {"opened", "filled"} /\ r.op = proc[p].op
             /\ r.queue = proc[p].queue
        BY <1>0, <1>6, WriterTyped
    <2>2. /\ settled /\ lock' = lock /\ Promoted' = Promoted
          /\ FillTmp(p) => proc[p].pc = "opened"
        BY <1>6 DEF OpenTmp, FillTmp, project, Promoted
    <2>3. draftSet' = draftSet
        BY <1>0, <1>6, <2>2 DEF OpenTmp, FillTmp, WriterIsAlone, Writing
    <2>4. \A q \in Procs : proc'[q] = IF q = p THEN r ELSE proc[q]
        BY <1>0, <2>1, OneCommand
    <2>5. lock # p
        BY <2>1, <2>2, <2>4
    <2>6. DraftSetIsComplete
        BY <1>0, <2>2, <2>4, <2>5
    <2>7. \A d \in Due(Recording) : d \in Due(Recording)'
        <3>1. proc[p].op # "reconcile" /\ proc[p].pc \in Recording
              /\ proc'[p].pc \in Recording
              => Draft(p) \in Due(Recording)'
            BY <2>1, <2>4 DEF Due, Draft
        <3>2. \A q \in Procs \ {p} :
                 /\ proc'[q].op = proc[q].op /\ proc'[q].queue = proc[q].queue
                 /\ proc[q].pc \in Recording => proc'[q].pc \in Recording
            BY <2>4
        <3>3. proc'[p].pc \in Recording
            BY <2>1, <2>4 DEF Recording
        <3>4. QED
            BY <3>1, <3>2, <3>3, StillDue
    <2>8. QED
        BY <1>1, <2>2, <2>3, <2>6, <2>7 DEF DraftSetIsComplete
<1>7. ASSUME NEW p \in Procs, RenameTmp(p)
      PROVE  DraftSetIsComplete'
    <2>1. /\ settled /\ lock' = lock /\ Promoted' = Promoted /\ draftSet' = tmp
          /\ proc[p].op # "reconcile" => proc[p].copy = draftSet /\ Draft(p) \in Promoted
        BY <1>7 DEF RenameTmp, project, Promoted
    <2>2. proc[p].pc = "filled" /\ tmp = NewIds(p)
        BY <1>0, <1>7, <2>1, RenameTyped DEF WriterIsAlone, Writing
    <2>3. CASE proc[p].op = "reconcile"
        BY <1>1, <2>1, <2>2, <2>3 DEF NewIds
    <2>4. CASE proc[p].op # "reconcile"
        <3>1. draftSet' = draftSet \cup {Draft(p)}
            BY <2>1, <2>2, <2>4 DEF NewIds
        <3>2. Draft(p) \in Promoted
            BY <2>1, <2>4
        <3>3. lock # p
            BY <1>0, <2>4 DEF LockIsRepair
        <3>4. DraftSetIsComplete
            BY <1>0, <1>7, <2>1, <3>3, RenameTyped
        <3>5. \A d \in Due(Recording) : d \in Due(Recording)' \/ d = Draft(p)
            <4>1. \A q \in Procs \ {p} :
                     /\ proc'[q].op = proc[q].op /\ proc'[q].queue = proc[q].queue
                     /\ proc'[q].pc = proc[q].pc
                BY <1>0, <1>7, RenameTyped
            <4>2. QED
                BY <4>1, StillDue
        <3>6. QED
            BY <1>1, <2>1, <3>1, <3>2, <3>4, <3>5 DEF DraftSetIsComplete
    <2>5. QED
        BY <2>3, <2>4
<1>8. ASSUME NEW p \in Procs, StartReconcile(p)
      PROVE  DraftSetIsComplete'
    <2>1. PICK r \in Commands : Go(p, r) /\ r.pc = "repairing"
        BY <1>0, <1>8, EndTyped
    <2>2. lock' = p /\ proc'[p].pc = "repairing"
        BY <1>0, <1>8, <2>1, OneCommand DEF StartReconcile
    <2>3. QED
        BY <2>2
<1>9. ASSUME NEW p \in Procs, RewriteLog(p)
      PROVE  DraftSetIsComplete'
    <2>1. /\ draftSet' = draftSet /\ Promoted' = Promoted /\ settled
          /\ proc[p].pc = "renamed" /\ proc[p].op = "reconcile"
        BY <1>9 DEF RewriteLog, project, Promoted
    <2>2. DraftSetIsComplete
        BY <1>0, <2>1 DEF LockIsRepair
    <2>3. PICK r \in Commands : Go(p, r)
        BY <1>0, <1>9, EndTyped
    <2>4. \A q \in Procs : q # p => proc'[q] = proc[q]
        BY <1>0, <2>3, OneCommand
    <2>5. \A d \in Due(Recording) : d \in Due(Recording)'
        BY <2>1, <2>4, StillDue
    <2>6. QED
        BY <1>1, <2>1, <2>2, <2>5 DEF DraftSetIsComplete
<1>10. ASSUME NEW p \in Procs
       PROVE  ~SidecarFails(p)
    BY DEF SidecarFails
<1>11. QED
    BY <1>2, <1>3, <1>4, <1>5, <1>6, <1>7, <1>8, <1>9, <1>10 DEF Next, Creates, Rejects


LEMMA LogStep ==
    ASSUME IInv, TypeOK', Next, settled', generated # NoHead, lock' = Nobody
    PROVE  LogIsComplete'
<1>0. /\ TypeOK /\ IsFiniteSet(Promoted) /\ CommandsFit /\ LockIsRepair /\ CopiesAreBehind
      /\ settled /\ lock = Nobody => LogIsComplete
    BY DEF IInv, Undisturbed
<1>1. /\ (LogIsComplete' <=>
            /\ \A i \in DOMAIN log' : log'[i] \in Promoted'
            /\ \A d \in Promoted' : d \in LogIds' \/ d \in Due(Logging)')
      /\ Promoted \subseteq Promoted'
    BY <1>0, PromotedStep DEF LogIsComplete, Logging, Recording
<1>2. ~Creates /\ ~Rejects
    BY DEF Creates, CreateDraftSet, Rejects, RejectPromotion
<1>3. CASE \E s \in Sessions : AskQuestion(s) \/ AnswerQuestion(s) \/ CloseSession(s)
    <2>1. proc' = proc /\ log' = log /\ settled' = settled /\ lock' = lock
        BY <1>3 DEF AskQuestion, AnswerQuestion, CloseSession, files
    <2>2. Promoted' = Promoted
        BY <1>0, <1>3, AnsweredOrigins
           DEF AskQuestion, AnswerQuestion, CloseSession, project, Promoted
    <2>3. Due(Logging)' = Due(Logging) /\ LogIds' = LogIds
        BY <2>1 DEF Due, Draft, Logging, Recording, LogIds
    <2>4. QED
        BY <1>0, <1>1, <2>1, <2>2, <2>3 DEF LogIsComplete
<1>4. ASSUME NEW p \in Procs,
             \/ \E d \in Drafts, s \in Sessions, a \in BOOLEAN : StartSingle(p, d, s, a)
             \/ \E to \in [Drafts -> Sessions] : StartBulk(p, to)
             \/ LoadDraftSet(p) \/ Check(p) \/ RefuseMaterialize(p) \/ Crash(p)
      PROVE  LogIsComplete'
    <2>1. /\ log' = log /\ Promoted' = Promoted /\ settled
          /\ proc[p].pc \notin Logging
          /\ lock # p => lock' = lock
          /\ ~(proc[p].op = "reconcile" /\ proc[p].pc # "idle")
        <3>1. CASE Crash(p)
            BY <1>0, <3>1 DEF Crash, project, Promoted, Logging, Recording, CommandsFit, Fits
        <3>2. CASE ~Crash(p)
            BY <1>0, <1>4, <3>2
               DEF StartSingle, StartBulk, LoadDraftSet, Check, RefuseMaterialize,
                   files, project, Promoted, Logging, Recording, CommandsFit, Fits
        <3>3. QED
            BY <3>1, <3>2
    <2>2. LogIsComplete
        BY <1>0, <2>1 DEF LockIsRepair
    <2>3. PICK r \in Commands : Go(p, r)
        BY <1>0, <1>4, StepTyped, EndTyped
    <2>4. \A q \in Procs : q # p => proc'[q] = proc[q]
        BY <1>0, <2>3, OneCommand
    <2>5. \A d \in Due(Logging) : d \in Due(Logging)'
        BY <2>1, <2>4, StillDue
    <2>6. QED
        BY <1>1, <2>1, <2>2, <2>5 DEF LogIsComplete, LogIds
<1>5. ASSUME NEW p \in Procs, Materialize(p)
      PROVE  LogIsComplete'
    <2>1. PICK r \in Commands :
             /\ Go(p, r) /\ r.pc = "materialized" /\ r.op = proc[p].op
             /\ r.queue = proc[p].queue
        BY <1>0, <1>5, WriterTyped
    <2>2. /\ log' = log /\ settled /\ lock = Nobody
          /\ proc[p].pc = "checked" /\ proc[p].op # "reconcile"
        BY <1>0, <1>5 DEF Materialize, Commit, files, CommandsFit, Fits
    <2>3. Promoted' = Promoted \cup {Draft(p)}
        BY <1>0, <1>5, PromotedStep
    <2>4. \A q \in Procs : proc'[q] = IF q = p THEN r ELSE proc[q]
        BY <1>0, <2>1, OneCommand
    <2>5. \A d \in Due(Logging) : d \in Due(Logging)'
        <3>1. proc[p].pc \notin Logging
            BY <2>2 DEF Logging, Recording
        <3>2. QED
            BY <2>4, <3>1, StillDue
    <2>6. Draft(p) \in Due(Logging)'
        <3>1. proc'[p].op # "reconcile" /\ proc'[p].pc \in Logging /\ Draft(p)' = Draft(p)
            BY <2>1, <2>2, <2>4 DEF Logging, Recording, Draft
        <3>2. QED
            BY <3>1 DEF Due
    <2>7. QED
        BY <1>0, <1>1, <2>2, <2>3, <2>5, <2>6 DEF LogIsComplete, LogIds
<1>6. ASSUME NEW p \in Procs, OpenTmp(p) \/ FillTmp(p) \/ RenameTmp(p)
      PROVE  LogIsComplete'
    <2>1. /\ proc'[p].pc \in Logging /\ proc'[p].op = proc[p].op
          /\ proc'[p].queue = proc[p].queue
          /\ \A q \in Procs \ {p} :
                /\ proc'[q].op = proc[q].op /\ proc'[q].queue = proc[q].queue
                /\ proc'[q].pc = proc[q].pc
        <3>1. CASE RenameTmp(p)
            BY <1>0, <3>1, RenameTyped DEF Logging
        <3>2. CASE OpenTmp(p) \/ FillTmp(p)
            <4>1. PICK r \in Commands :
                     /\ Go(p, r) /\ r.pc \in {"opened", "filled"} /\ r.op = proc[p].op
                     /\ r.queue = proc[p].queue
                BY <1>0, <3>2, WriterTyped
            <4>2. QED
                BY <1>0, <4>1, OneCommand DEF Logging, Recording
        <3>3. QED
            BY <1>6, <3>1, <3>2
    <2>2. log' = log /\ Promoted' = Promoted /\ settled /\ lock = Nobody
        BY <1>6 DEF OpenTmp, FillTmp, RenameTmp, project, Promoted
    <2>3. \A d \in Due(Logging) : d \in Due(Logging)'
        <3>1. proc[p].op # "reconcile" => Draft(p) \in Due(Logging)'
            BY <2>1 DEF Due, Draft
        <3>2. QED
            BY <2>1, <3>1, StillDue
    <2>4. QED
        BY <1>0, <1>1, <2>2, <2>3 DEF LogIsComplete, LogIds
<1>7. ASSUME NEW p \in Procs, AppendLog(p)
      PROVE  LogIsComplete'
    <2>1. /\ Promoted' = Promoted /\ settled /\ Draft(p) \in Promoted /\ lock = Nobody /\ log' = Appended(Draft(p))
          /\ proc[p].op # "reconcile" /\ proc[p].pc = "renamed"
        BY <1>7 DEF AppendLog, project, Promoted
    <2>2. LogIsComplete /\ Draft(p) \in Drafts /\ Promoted \subseteq Drafts
        BY <1>0, <2>1, FilesTyped DEF TypeOK, Origins, Promoted
    <2>3. /\ \A i \in DOMAIN log : i \in DOMAIN log' /\ log'[i] = log[i]
          /\ \E i \in DOMAIN log' : log'[i] = Draft(p)
          /\ \A i \in DOMAIN log' : log'[i] \in Promoted
        <3>1. \A i \in DOMAIN log : log[i] \in Promoted /\ log[i] \in Drafts
            BY <2>2 DEF LogIsComplete
        <3>2. /\ \A i \in DOMAIN log : i \in DOMAIN log' /\ log'[i] = log[i]
              /\ \E i \in DOMAIN log' : log'[i] = Draft(p)
              /\ \A i \in DOMAIN log' : log'[i] \in Drafts
              /\ \A i \in DOMAIN log' : log'[i] \in LogIds \cup {Draft(p), Cut, Unparsable}
            BY <1>0, <2>1, <2>2, <3>1, LineAppended DEF Lines
        <3>3. LogIds \subseteq Promoted /\ Cut \notin Drafts /\ Unparsable \notin Drafts
            BY <3>1, DraftsAssumption DEF LogIds
        <3>4. QED
            BY <2>1, <3>2, <3>3
    <2>4. LogIds \cup {Draft(p)} \subseteq LogIds'
        BY <2>2, <2>3, DraftsAssumption DEF LogIds
    <2>5. ~StartReconcile(p)
        BY <2>1 DEF StartReconcile
    <2>6. PICK r \in Commands : Go(p, r)
        BY <1>0, <1>7, EndTyped
    <2>7. \A q \in Procs : q # p => proc'[q] = proc[q]
        BY <1>0, <2>6, OneCommand
    <2>8. \A d \in Due(Logging) : d \in Due(Logging)' \/ d = Draft(p)
        BY <2>7, StillDue
    <2>9. QED
        BY <1>1, <2>1, <2>2, <2>3, <2>4, <2>8 DEF LogIsComplete
<1>8. ASSUME NEW p \in Procs, RewriteLog(p)
      PROVE  LogIsComplete'
    <2>1. log' = SetToSeq(Promoted) /\ Promoted' = Promoted
        BY <1>8 DEF RewriteLog, project, Promoted
    <2>2. /\ \A i \in DOMAIN log' : log'[i] \in Promoted
          /\ \A d \in Promoted : \E i \in DOMAIN log' : log'[i] = d
        BY <1>0, <2>1, LogRewritten
    <2>3. Promoted \subseteq Drafts
        BY <1>0 DEF TypeOK, Origins, Promoted
    <2>4. Promoted \subseteq LogIds'
        BY <2>2, <2>3, DraftsAssumption DEF LogIds
    <2>5. QED
        BY <1>1, <2>1, <2>2, <2>3, <2>4
<1>9. ASSUME NEW p \in Procs
      PROVE  ~SidecarFails(p) /\ ~StartReconcile(p)
    BY DraftsAssumption DEF SidecarFails, StartReconcile
<1>10. QED
    BY <1>2, <1>3, <1>4, <1>5, <1>6, <1>7, <1>8, <1>9 DEF Next, Creates, Rejects

LEMMA UndisturbedStep ==
    ASSUME IInv, TypeOK', Next
    PROVE  Undisturbed'
<1>1. SUFFICES ASSUME settled', generated' # NoHead
               PROVE  /\ (\A q \in Procs : lock' = q => proc'[q].pc = "renamed")
                            => DraftSetIsComplete'
                      /\ lock' = Nobody => LogIsComplete'
    BY AloneStep DEF Undisturbed
<1>2. CASE generated # NoHead
    BY <1>1, <1>2, DraftSetStep, LogStep
<1>3. CASE generated = NoHead
    <2>1. PICK ids \in Payloads : CreateDraftSet(ids)
        BY <1>1, <1>3
           DEF Next, RejectPromotion, AskQuestion, AnswerQuestion, CloseSession, StartSingle, StartBulk,
               LoadDraftSet, Check, Materialize, RefuseMaterialize, OpenTmp, FillTmp, RenameTmp,
               SidecarFails, AppendLog, StartReconcile, RewriteLog, Crash
    <2>2. Promoted' = {} /\ draftSet' = {} /\ log' = << >>
        BY <1>1, <1>3, <2>1 DEF CreateDraftSet, IInv, NothingYet, Promoted
    <2>3. QED
        BY <2>2 DEF DraftSetIsComplete, LogIsComplete
<1>4. QED
    BY <1>2, <1>3

-----------------------------------------------------------------------------
(***************************************************************************)
(* Theorems.                                                               *)
(***************************************************************************)

LEMMA InitInv == Init => IInv
<1>1. SUFFICES ASSUME Init
               PROVE  IInv
    OBVIOUS
<1>2. TypeOK
    BY <1>1, InitTyped
<1>3. Promoted = {} /\ IsFiniteSet(Promoted)
    BY <1>1, FS_EmptySet DEF Init, Promoted
<1>4. /\ draftSet = NoFile /\ tmp = NoFile /\ log = << >> /\ lock = Nobody
      /\ canonical = {} /\ rejected = {} /\ given = {} /\ generated = NoHead
      /\ \A p \in Procs : proc[p] = Idle
    BY <1>1 DEF Init
<1>5. CommandsFit /\ LockIsRepair /\ CopiesAreBehind
    BY <1>4, IdleCommand, DraftsAssumption
       DEF CommandsFit, Fits, LockIsRepair, CopiesAreBehind, Behind, Recording
<1>6. TmpNeverAhead /\ NothingYet /\ SidecarNeverAhead
    BY <1>3, <1>4, IdleCommand
       DEF TmpNeverAhead, NothingYet, SidecarNeverAhead, Readable, LogIds
<1>7. PromotedOnce /\ OpenProposalIsAsked
    BY <1>4 DEF PromotedOnce, OpenProposalIsAsked
<1>8. Undisturbed
    BY <1>4, IdleCommand DEF Undisturbed, WriterIsAlone, Writing
<1>9. QED
    BY <1>2, <1>3, <1>5, <1>6, <1>7, <1>8 DEF IInv

LEMMA NextInv == IInv /\ [Next]_vars => IInv'
<1>1. CASE IInv /\ Next
    <2>1. /\ TypeOK /\ IsFiniteSet(Promoted) /\ CommandsFit /\ LockIsRepair
          /\ CopiesAreBehind /\ TmpNeverAhead /\ NothingYet /\ SidecarNeverAhead
          /\ PromotedOnce /\ OpenProposalIsAsked
        BY <1>1 DEF IInv
    <2>2. TypeOK' /\ CommandsFit'
        BY <1>1, <2>1, TypeStep
    <2>3. IsFiniteSet(Promoted')
        BY <1>1, <2>1, PromotedStep
    <2>4. LockIsRepair'
        BY <1>1, <2>1, LockStep
    <2>5. CopiesAreBehind'
        BY <1>1, <2>1, BehindStep
    <2>6. SidecarNeverAhead' /\ TmpNeverAhead'
        BY <1>1, <2>1, SidecarStep
    <2>7. NothingYet'
        BY <1>1, <2>1, NothingStep
    <2>8. PromotedOnce' /\ OpenProposalIsAsked'
        BY <1>1, <2>1, ProjectStep
    <2>9. Undisturbed'
        BY <1>1, <2>2, UndisturbedStep
    <2>10. QED
        BY <2>2, <2>3, <2>4, <2>5, <2>6, <2>7, <2>8, <2>9 DEF IInv
<1>2. CASE IInv /\ UNCHANGED vars
    <2>1. /\ TypeOK /\ IsFiniteSet(Promoted) /\ CommandsFit /\ LockIsRepair
          /\ CopiesAreBehind /\ TmpNeverAhead /\ NothingYet /\ SidecarNeverAhead
          /\ PromotedOnce /\ OpenProposalIsAsked /\ Undisturbed
        BY <1>2 DEF IInv
    <2>2. /\ head' = head /\ generated' = generated /\ canonical' = canonical
          /\ open' = open /\ question' = question /\ draftSet' = draftSet /\ tmp' = tmp
          /\ log' = log /\ lock' = lock /\ proc' = proc /\ settled' = settled
          /\ given' = given /\ rejected' = rejected
        BY <1>2 DEF vars, project, files
    <2>3. Promoted' = Promoted /\ LogIds' = LogIds
        BY <2>2 DEF Promoted, LogIds
    <2>4. TypeOK' /\ IsFiniteSet(Promoted')
        BY <2>1, <2>2, <2>3 DEF TypeOK
    <2>5. CommandsFit' /\ LockIsRepair' /\ CopiesAreBehind'
        BY <2>1, <2>2, <2>3 DEF CommandsFit, Fits, LockIsRepair, CopiesAreBehind, Behind, Known, Ever
    <2>6. TmpNeverAhead' /\ NothingYet' /\ SidecarNeverAhead'
        BY <2>1, <2>2, <2>3 DEF TmpNeverAhead, NothingYet, SidecarNeverAhead, Readable, Known
    <2>7. PromotedOnce' /\ OpenProposalIsAsked'
        BY <2>1, <2>2 DEF PromotedOnce, OpenProposalIsAsked
    <2>8. Undisturbed'
        <3>1. WriterIsAlone' <=> WriterIsAlone
            BY <2>2, <2>3 DEF WriterIsAlone, NobodyElseWrites, NewIds, Draft
        <3>2. Due(Recording)' = Due(Recording) /\ Due(Logging)' = Due(Logging)
            BY <2>2 DEF Due, Draft, Recording, Logging
        <3>3. (DraftSetIsComplete' <=> DraftSetIsComplete) /\ (LogIsComplete' <=> LogIsComplete)
            BY <2>2, <2>3, <3>2 DEF DraftSetIsComplete, LogIsComplete
        <3>4. QED
            BY <2>1, <2>2, <3>1, <3>3 DEF Undisturbed
    <2>9. QED
        BY <2>4, <2>5, <2>6, <2>7, <2>8 DEF IInv
<1>3. QED
    BY <1>1, <1>2

LEMMA InvariantHolds == Spec => []IInv
BY InitInv, NextInv, PTL DEF Spec

\* The variables of the promotion keep their types.
THEOREM TypeCorrect == Spec => []TypeOK
<1>1. IInv => TypeOK
    BY DEF IInv
<1>2. QED
    BY <1>1, InvariantHolds, PTL

\* A draft that draft-set.json or promotion-log.jsonl names is promoted, was
\* until its promotion was rejected, or came with the draft set.
THEOREM SidecarIsNeverAhead == Spec => []SidecarNeverAhead
<1>1. IInv => SidecarNeverAhead
    BY DEF IInv
<1>2. QED
    BY <1>1, InvariantHolds, PTL

\* A draft becomes one decision, however many promotions of it overlap.
THEOREM DraftsPromotedOnce == Spec => []PromotedOnce
<1>1. IInv => PromotedOnce
    BY DEF IInv
<1>2. QED
    BY <1>1, InvariantHolds, PTL

\* The open proposal of a promoted draft is what its session asks.
THEOREM OpenProposalsAreAsked == Spec => []OpenProposalIsAsked
<1>1. IInv => OpenProposalIsAsked
    BY DEF IInv
<1>2. QED
    BY <1>1, InvariantHolds, PTL

\* What no crash, failure, overlap or rejection disturbed since the last repair names
\* exactly what is promoted, once nobody is writing.
THEOREM SettledSidecarIsExact == Spec => []SettledIsExact
<1>1. ASSUME IInv
      PROVE  SettledIsExact
    <2>1. SUFFICES ASSUME settled, generated # NoHead,
                          \A p \in Procs : proc[p].pc \in {"idle", "ready", "loaded", "checked"}
                   PROVE  draftSet = Promoted /\ LogIds = Promoted
        BY <1>1 DEF SettledIsExact, Writing, IInv, TypeOK, Commands
    <2>2. /\ TypeOK /\ CommandsFit /\ LockIsRepair /\ Undisturbed /\ SidecarNeverAhead
        BY <1>1 DEF IInv
    <2>3. \A p \in Procs : lock # p
        BY <2>1, <2>2 DEF LockIsRepair, CommandsFit, Fits
    <2>4. lock = Nobody
        BY <2>2, <2>3 DEF TypeOK
    <2>5. DraftSetIsComplete /\ LogIsComplete
        BY <2>1, <2>2, <2>3, <2>4 DEF Undisturbed
    <2>6. Due(Recording) = {} /\ Due(Logging) = {}
        BY <2>1 DEF Due, Recording, Logging
    <2>7. QED
        BY <2>2, <2>5, <2>6 DEF DraftSetIsComplete, LogIsComplete, LogIds
<1>2. QED
    BY <1>1, InvariantHolds, PTL
=============================================================================
