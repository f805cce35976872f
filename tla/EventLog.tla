------------------------------ MODULE EventLog ------------------------------
(***************************************************************************)
(* The data of the runtime store: transactions, the canonical order of the *)
(* event log and the replay of a history.                                  *)
(*                                                                         *)
(* A transaction is one file of events/.  What it writes is abstracted to  *)
(* one compare-and-set of a cell: project_initialized sets the SYSTEM      *)
(* cell, session_created and session_closed set the cell of their session, *)
(* and any other mutation (an object_status_changed with its from_status,  *)
(* an object_recorded with its fresh id) sets the cell of an object.  The  *)
(* rules of validate_event_log that can make a log invalid are those of a  *)
(* compare-and-set: a from_status that is not the current one, a duplicate *)
(* creation, a mutation of an unknown or closed session.                   *)
(*                                                                         *)
(* A history is the sequence of the effective transactions a projection    *)
(* bundle was computed from.  project_head is a hash chain over that       *)
(* sequence, so the history itself stands for it.                          *)
(***************************************************************************)
EXTENDS Integers, Sequences, FiniteSets, Functions

CONSTANTS
    System,     \* SYSTEM_SESSION_ID: the scope of project-wide transactions
    Sessions,   \* session ids
    Objects,    \* ids of the objects (decisions, proposals, ...) in play
    Statuses,   \* statuses an object can be given
    Ids,        \* transaction ids: they break the ties of the canonical order
    MaxTime     \* bound: largest transaction timestamp

ASSUME EventLogAssumption ==
    /\ System \notin Sessions \cup Objects
    /\ Sessions \cap Objects = {}
    /\ {"absent", "open", "closed"} \cap Statuses = {}
    /\ Ids \subseteq Nat
    /\ MaxTime \in Nat

Scopes == Sessions \cup {System}
Cells  == Scopes \cup Objects
Values == {"absent", "open", "closed"} \cup Statuses

Change == [scope : Scopes, cell : Cells, from : Values, to : Values]
Tx     == [id : Ids, ts : 0..MaxTime, change : Change]

(***************************************************************************)
(* What the operations can ask for: initialise the project, create or      *)
(* close a session, move an object to another status.                      *)
(***************************************************************************)
ScopeChange(s, v, w) == [scope |-> s, cell |-> s, from |-> v, to |-> w]

Initialise == ScopeChange(System, "absent", "open")

Changes ==
    { ScopeChange(s, "absent", "open") : s \in Sessions }
    \cup { ScopeChange(s, "open", "closed") : s \in Sessions }
    \cup [scope : Sessions, cell : Objects,
          from : Statuses \cup {"absent"}, to : Statuses]

-----------------------------------------------------------------------------
(***************************************************************************)
(* Replay.  The value of a cell after history h is what the last           *)
(* transaction of h on that cell wrote.                                    *)
(***************************************************************************)
Value(h, c) ==
    LET writes == { i \in DOMAIN h : h[i].change.cell = c }
    IN  IF writes = {} THEN "absent"
        ELSE h[CHOOSE i \in writes : \A j \in writes : j <= i].change.to

\* project_initialized comes first and only first; every other event but
\* session_created needs its session open; the cell still has value "from".
Admissible(h, c) ==
    /\ c.cell = System <=> h = << >>
    /\ c.cell # c.scope => Value(h, c.scope) = "open"
    /\ Value(h, c.cell) = c.from

ValidHistory(h) ==
    \A i \in DOMAIN h : Admissible(SubSeq(h, 1, i - 1), h[i].change)

(***************************************************************************)
(* _validate_incremental_session_scope and the from_status check of        *)
(* apply_event, on the history h of the loaded bundle: a session is        *)
(* created once, any other event needs its session known and not closed,   *)
(* and an object has the status the event expects.  They are not the rules *)
(* of validate_event_log (Admissible): a replay must accept whatever they  *)
(* let through.                                                            *)
(***************************************************************************)
PassesIncremental_NoScope(h, c) == c.cell # System /\ Value(h, c.cell) = c.from

PassesIncremental(h, c) ==
    /\ c.cell # System
    /\ IF c.cell \in Sessions /\ c.from = "absent"
       THEN Value(h, c.cell) = "absent"
       ELSE /\ Value(h, c.scope) = "open"
            /\ c.cell \in Objects => Value(h, c.cell) = c.from

-----------------------------------------------------------------------------
(***************************************************************************)
(* Canonical order: project_initialized first, then timestamp, then        *)
(* transaction id.                                                         *)
(***************************************************************************)
Rank(t) == IF t.change.cell = System THEN 0 ELSE 1

Before(t, u) ==
    \/ Rank(t) < Rank(u)
    \/ Rank(t) = Rank(u) /\ t.ts < u.ts
    \/ Rank(t) = Rank(u) /\ t.ts = u.ts /\ t.id < u.id

Sorted(h) == \A i, j \in DOMAIN h : i < j => Before(h[i], h[j])

\* The histories a replay of the transaction files S can produce.
CanonicalOrders(S) ==
    { h \in [1..Cardinality(S) -> S] : Range(h) = S /\ Sorted(h) }

LogIsValid(S) == \E h \in CanonicalOrders(S) : h # << >> /\ ValidHistory(h)

\* A timestamp after every one of h, even when the clock reads an earlier one.
NextTimestamp(h, now) ==
    IF h = << >> \/ now > h[Len(h)].ts THEN now ELSE h[Len(h)].ts + 1

AfterCheckpoint(h, t) == h # << >> => Before(h[Len(h)], t)

-----------------------------------------------------------------------------
(***************************************************************************)
(* Projection files.  project-state.json stands for the whole history;     *)
(* taxonomy-state.json records the last event it was computed at; a        *)
(* session file changes with the events of its session only (last_seen_at, *)
(* last_seen_project_head), so it stands for the history up to the last of *)
(* them.  The empty sequence is a missing file.                            *)
(***************************************************************************)
Files == {"project-state", "taxonomy-state"} \cup Sessions

\* How many transactions of h come no later than the last one of session s.
Seen(h, s) ==
    Cardinality({ i \in DOMAIN h :
                    \E j \in DOMAIN h : i <= j /\ h[j].change.scope = s })

Content(h, f) ==
    IF f = "project-state" THEN h
    ELSE IF f = "taxonomy-state" THEN SubSeq(h, Len(h), Len(h))
    ELSE SubSeq(h, 1, Seen(h, f))

\* The order in which _write_projections replaces the files and
\* _load_projection_bundle reads them.
NextFiles(todo) ==
    IF "project-state" \in todo THEN {"project-state"}
    ELSE IF "taxonomy-state" \in todo THEN {"taxonomy-state"}
    ELSE todo
=============================================================================
