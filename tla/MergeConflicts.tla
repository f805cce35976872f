--------------------------- MODULE MergeConflicts ---------------------------
(***************************************************************************)
(* decide_me/conflicts.py over branches of a runtime.                      *)
(*                                                                         *)
(* Only the transaction files under events/ are tracked by version         *)
(* control.  Each branch of the repository has its own set of them and its *)
(* own projections; merging a branch adds the files of the other and       *)
(* touches no projection.  The union can be a log that does not validate:  *)
(* two branches moved one object, or one closed the session the other      *)
(* worked in.  detect_merge_conflicts looks for a smallest set of          *)
(* transactions of one session whose rejection makes the log valid, and    *)
(* resolve_merge_conflict records the choice of the user as a control      *)
(* transaction, transaction_rejected, which itself travels with merges.    *)
(*                                                                         *)
(* A command runs under the lock of its branch and is one step; crashes    *)
(* inside a command are RuntimeStore's.  A definition X_Flaw is X with a   *)
(* plausible bug; PROJECT.json says which property refutes it.             *)
(***************************************************************************)
EXTENDS EventLog, FiniteSetsExt

CONSTANTS
    Branches,       \* branches of the repository
    Bases,          \* logs the branches may all start from
    SessionOrder,   \* the session ids in sorted order
    NamedObjects    \* those whose ids ENTITY_ID_PATTERN finds in a message:
                    \* options, evidence, actions (O-...) and links (L-...),
                    \* not decisions (D-...), proposals (P-...), questions

ASSUME MergeConflictsAssumption ==
    /\ \A base \in Bases :
          /\ base \subseteq Tx /\ IsFiniteSet(base)
          /\ \A t \in base : t.change \in Changes \cup {Initialise}
          /\ \A t, u \in base : t.id = u.id => t = u
          /\ LogIsValid(base)
    /\ SessionOrder \in Seq(Sessions) /\ Range(SessionOrder) = Sessions
    /\ NamedObjects \subseteq Objects

MAX_REJECTION_SET_SIZE == 2

VARIABLES
    txs,        \* the domain transactions under events/ of each branch
    controls,   \* the transaction_rejected transactions of each branch
    view,       \* the history its projections were computed from
    last        \* timestamp of the last event the index knows of

bvars == << txs, controls, view, last >>

(***************************************************************************)
(* A control transaction.  Its targets are transaction ids in the code;    *)
(* the transactions stand for them.  "seen" is history: the controls the   *)
(* branch had when the user resolved.                                      *)
(***************************************************************************)
Control ==
    [id : Ids, ts : 0..MaxTime, scope : Sessions,
     kept : Tx, rejected : SUBSET Tx, seen : SUBSET Ids]

Targets(c) == {c.kept} \cup c.rejected

BranchIds == UNION { { t.id : t \in txs[b] \cup controls[b] } : b \in Branches }

(***************************************************************************)
(* new_tx_id draws a fresh id.  An id only breaks the tie of two equal      *)
(* timestamps; they are drawn in increasing order, so that the transaction *)
(* committed first comes first.                                            *)
(***************************************************************************)
NewIds == { i \in Ids \ BranchIds : \A j \in Ids \ BranchIds : i <= j }

-----------------------------------------------------------------------------
(***************************************************************************)
(* Reading a log.  A raw log with an impossible control cannot be read at  *)
(* all: every command that reads events/ fails.  The effective log leaves  *)
(* the rejected transactions out.                                          *)
(***************************************************************************)
Opens(t) == t.change.cell = t.change.scope /\ t.change.from = "absent"

Closes(t) == t.change.cell \in Sessions /\ t.change.from = "open"

Earlier(c, d) ==
    \/ c.ts < d.ts
    \/ c.ts = d.ts /\ c.id < d.id

\* A transaction is rejected twice, or kept after it was rejected.
Clash(c, d) ==
    \/ c.rejected \cap d.rejected # {}
    \/ Earlier(c, d) /\ d.kept \in c.rejected

Readable(T, C) ==
    /\ \A c \in C : \A t \in Targets(c) :
          t \in T /\ t.change.scope = c.scope /\ ~Opens(t)
    /\ \A c, d \in C : c # d => ~Clash(c, d)

Effective(T, C) == T \ UNION { c.rejected : c \in C }

\* The one canonical order of a set of transactions.
Replay(S) ==
    LET place == [t \in S |-> Cardinality({ u \in S : Before(u, t) }) + 1]
    IN  [ i \in 1..Cardinality(S) |-> CHOOSE t \in S : place[t] = i ]

\* validate_event_log on the effective log: a control needs its session.
IsValid(S, C) ==
    /\ ValidHistory(Replay(S))
    /\ \A c \in C : \E t \in S : Opens(t) /\ t.change.scope = c.scope
                                 /\ Earlier(t, c)

LatestTime(S, C) == Max({ t.ts : t \in S \cup C })

Log(b) == Effective(txs[b], controls[b])

BranchReadable(b) == Readable(txs[b], controls[b])

BranchValid(b) == IsValid(Log(b), controls[b])

-----------------------------------------------------------------------------
(***************************************************************************)
(* Detection.  The message of the first event that fails tells which       *)
(* transactions take part: those that touch the object it names, if its id *)
(* is one the pattern finds, or, when it is about a closed session, those  *)
(* that close it or come too late.                                         *)
(***************************************************************************)
Failure(h) ==
    CHOOSE i \in DOMAIN h :
        /\ ~Admissible(SubSeq(h, 1, i - 1), h[i].change)
        /\ \A j \in 1..(i - 1) : Admissible(SubSeq(h, 1, j - 1), h[j].change)

IsLifecycleConflict(h) ==
    LET i == Failure(h)
    IN  Value(SubSeq(h, 1, i - 1), h[i].change.scope) = "closed"

Candidates(S, s) == { t \in S : t.change.scope = s /\ ~Opens(t) }

Participants(S, cand) ==
    LET h == Replay(S)
    IN  IF IsLifecycleConflict(h)
        THEN { t \in cand :
                 \/ Closes(t)
                 \/ \E u \in S : Closes(u) /\ u.change.scope = t.change.scope
                                 /\ Before(u, t) }
        ELSE { t \in cand : /\ t.change.cell = h[Failure(h)].change.cell
                            /\ t.change.cell \in NamedObjects }

\* The sets of k transactions of session s whose rejection repairs the log.
Repairs(S, C, s, k) ==
    { R \in kSubset(k, Candidates(S, s)) : IsValid(S \ R, C) }

SmallestRepairs(S, C, s) ==
    LET sizes == { k \in 1..MAX_REJECTION_SET_SIZE :
                     k <= Cardinality(Candidates(S, s))
                     /\ Repairs(S, C, s, k) # {} }
    IN  IF sizes = {} THEN {} ELSE Repairs(S, C, s, Min(sizes))

\* The resolution_options of session s: what to reject, and of what else
\* takes part one to keep.
Offers_RejectedOnly(S, C, s) ==
    { [reject |-> R, survivors |-> (UNION SmallestRepairs(S, C, s)) \ R] :
        R \in { Q \in SmallestRepairs(S, C, s) :
                  (UNION SmallestRepairs(S, C, s)) \ Q # {} } }

Offers(S, C, s) ==
    LET repairs == SmallestRepairs(S, C, s)
        touched(R) == R \cup Participants(S, Candidates(S, s))
        involved(R) ==
            IF Cardinality(touched(R)) < 2 /\ IsLifecycleConflict(Replay(S))
            THEN touched(R) \cup UNION repairs
            ELSE touched(R)
    IN  { [reject |-> R, survivors |-> involved(R) \ R] :
            R \in { Q \in repairs : involved(Q) \ Q # {} } }

\* detect_merge_conflicts reports the first session that has an offer.
ConflictSessions(S, C) ==
    { s \in Sessions :
        \E i \in DOMAIN SessionOrder :
            /\ SessionOrder[i] = s /\ Offers(S, C, s) # {}
            /\ \A j \in 1..(i - 1) : Offers(S, C, SessionOrder[j]) = {} }

-----------------------------------------------------------------------------
BInit ==
    /\ controls = [b \in Branches |-> {}]
    /\ \E base \in Bases :
          /\ txs = [b \in Branches |-> base]
          /\ view = [b \in Branches |-> Replay(base)]
          /\ last = [b \in Branches |-> LatestTime(base, {})]

Commit_OwnClock(b) ==
    \E c \in Changes, i \in NewIds, now \in 0..MaxTime :
        LET t == [id |-> i, ts |-> now, change |-> c]
        IN  /\ PassesIncremental(view[b], c)
            /\ txs' = [txs EXCEPT ![b] = @ \cup {t}]
            /\ view' = [view EXCEPT ![b] = Append(@, t)]
            /\ last' = [last EXCEPT ![b] = now]
            /\ UNCHANGED controls

\* transact on one branch.  It reads the projections, not events/: after a
\* merge that was not followed by a rebuild they are behind.
Commit(b) ==
    \E c \in { d \in Changes : PassesIncremental(view[b], d) },
       i \in NewIds, now \in 0..MaxTime :
        LET ts == IF now > last[b] THEN now ELSE last[b] + 1
            t  == [id |-> i, ts |-> ts, change |-> c]
        IN  /\ ts <= MaxTime
            /\ \A u \in UNION Range(txs) : Opens(u) => u.change # c
            /\ txs' = [txs EXCEPT ![b] = @ \cup {t}]
            /\ view' = [view EXCEPT ![b] = Append(@, t)]
            /\ last' = [last EXCEPT ![b] = ts]
            /\ UNCHANGED controls

\* git merge: files are never edited, so the union has no textual conflict.
Merge(b, other) ==
    /\ \/ ~(txs[other] \subseteq txs[b])
       \/ ~(controls[other] \subseteq controls[b])
    /\ txs' = [txs EXCEPT ![b] = @ \cup txs[other]]
    /\ controls' = [controls EXCEPT ![b] = @ \cup controls[other]]
    /\ UNCHANGED << view, last >>

\* The projections and the index of branch b become those of the log S, C.
WriteProjections(b, S, C) ==
    /\ view' = [view EXCEPT ![b] = Replay(S)]
    /\ last' = [last EXCEPT ![b] = LatestTime(S, C)]

\* rebuild_and_persist
RebuildBranch(b) ==
    /\ BranchReadable(b) /\ BranchValid(b)
    /\ view[b] # Replay(Log(b)) \/ last[b] # LatestTime(Log(b), controls[b])
    /\ WriteProjections(b, Log(b), controls[b])
    /\ UNCHANGED << txs, controls >>

NewControl(b, s, o, k, i, now) ==
    [id |-> i, ts |-> now, scope |-> s, kept |-> k,
     rejected |-> o.reject, seen |-> { d.id : d \in controls[b] }]

AddControl(b, c) ==
    LET C == controls[b] \cup {c}
        S == Effective(txs[b], C)
    IN  /\ IsValid(S, C)
        /\ controls' = [controls EXCEPT ![b] = C]
        /\ WriteProjections(b, S, C)
        /\ UNCHANGED txs

Resolve_Unchecked(b) ==
    /\ BranchReadable(b) /\ ~BranchValid(b)
    /\ \E s \in ConflictSessions(Log(b), controls[b]) :
       \E o \in Offers(Log(b), controls[b], s) :
       \E k \in o.survivors, i \in NewIds, now \in 0..MaxTime :
          AddControl(b, NewControl(b, s, o, k, i, now))

\* resolve_merge_conflict: the user takes an option and names a survivor to
\* keep; the control is stamped with the clock as it is, and the log with it
\* must read and validate.
Resolve(b) ==
    /\ BranchReadable(b) /\ ~BranchValid(b)
    /\ \E s \in ConflictSessions(Log(b), controls[b]) :
       \E o \in Offers(Log(b), controls[b], s) :
       \E k \in o.survivors, i \in NewIds, now \in 0..MaxTime :
          LET c == NewControl(b, s, o, k, i, now)
          IN  Readable(txs[b], controls[b] \cup {c}) /\ AddControl(b, c)

BNext ==
    \E b \in Branches :
        \/ Commit(b) \/ RebuildBranch(b) \/ Resolve(b)
        \/ \E other \in Branches : Merge(b, other)

BSpec == BInit /\ [][BNext]_bvars

-----------------------------------------------------------------------------
\* The variables hold what their comments say, and no two transactions of the
\* repository share an id.
BTypeOK ==
    /\ txs \in [Branches -> SUBSET Tx]
    /\ controls \in [Branches -> SUBSET Control]
    /\ view \in [Branches -> Seq(Tx)]
    /\ last \in [Branches -> 0..MaxTime]
    /\ LET all == UNION { txs[b] \cup controls[b] : b \in Branches }
       IN  \A t, u \in all : t.id = u.id => t = u

\* As long as the projections of a branch account for exactly the effective
\* transactions of its log, they are what a rebuild would give and the log is
\* valid: however clocks disagree, neither commits nor resolutions bring a
\* branch that has merged nothing since into a state it must repair.
UpToDateIsReplay ==
    \A b \in Branches :
        Range(view[b]) = Log(b) =>
            view[b] = Replay(Log(b)) /\ ValidHistory(view[b])

\* No two sessions of the log S write the same object: whatever conflicts in
\* S are conflicts inside one session.
SessionsDisjoint(S) ==
    \A t, u \in S : t.change.cell = u.change.cell
                       => t.change.scope = u.change.scope

\* The objects branch b goes on using although every transaction that created
\* them was rejected.
Creations(b, o) == { t \in txs[b] : t.change.cell = o /\ t.change.from = "absent" }

Orphans(b) ==
    { o \in Objects :
        /\ \E t \in Log(b) : t.change.cell = o
        /\ Creations(b, o) # {} /\ Creations(b, o) \cap Log(b) = {} }

\* The message of the first failure tells what the conflict is about: a closed
\* session, or an object whose id the pattern finds.
ConflictIsNamed(S) ==
    LET h == Replay(S)
    IN  IsLifecycleConflict(h) \/ h[Failure(h)].change.cell \in NamedObjects

\* When two rejections inside one session are enough to repair a log whose
\* conflicts are inside sessions, and its message tells what the conflict is
\* about, detect_merge_conflicts offers a resolution: the search for
\* participants never hides the last one.  (Nothing is ever offered for a
\* decision or a proposal that two branches moved: the pattern does not find
\* their ids.)  The exception are orphans: resolutions can, one after another
\* or made apart, reject all that a transaction builds on that is merged later,
\* and it takes two transactions to be reported.
RepairableIsReported ==
    \A b \in Branches :
        /\ BranchReadable(b) /\ ~BranchValid(b) /\ SessionsDisjoint(Log(b))
        /\ Orphans(b) = {}
        /\ \E s \in Sessions : SmallestRepairs(Log(b), controls[b], s) # {}
        /\ ConflictIsNamed(Log(b))
        => ConflictSessions(Log(b), controls[b]) # {}

\* Resolutions whose authors knew of one another never contradict each other,
\* whatever their clocks read: a log that cannot be read holds two controls
\* that were made on branches that had not seen each other.
OnlyConcurrentResolutionsClash ==
    \A b \in Branches :
        ~BranchReadable(b) =>
            \E c, d \in controls[b] :
                /\ c # d /\ Clash(c, d)
                /\ c.id \notin d.seen /\ d.id \notin c.seen

\* The README: conflicts of same-session transactions are found by
\* detect-merge-conflicts.
SameSessionConflictsReported ==
    \A b \in Branches :
        BranchReadable(b) /\ ~BranchValid(b) /\ SessionsDisjoint(Log(b))
            => ConflictSessions(Log(b), controls[b]) # {}

\* The README: after resolving, "Rebuild or validate state"; rejected files
\* stay in events/ and are excluded.  So resolved logs go on being readable
\* when their branches are merged.
ResolvedLogsMerge == \A b \in Branches : BranchReadable(b)
=============================================================================
