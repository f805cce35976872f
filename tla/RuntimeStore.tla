---------------------------- MODULE RuntimeStore ----------------------------
(***************************************************************************)
(* decide_me/store.py: the transaction log under events/, the projection   *)
(* files and runtime-index.json, written by processes that take turns on   *)
(* the write.lock and may die between any two file replacements.           *)
(*                                                                         *)
(* Under the lock nothing else changes the files, so acquiring it, loading *)
(* the runtime, building the transaction and validating it are one step.   *)
(* Each file replacement (temporary file, fsync, rename) is a step of its  *)
(* own, and a process can crash before any of them.                        *)
(*                                                                         *)
(* A definition X_Flaw is X with a plausible bug; PROJECT.json says which  *)
(* property refutes it.                                                    *)
(***************************************************************************)
EXTENDS EventLog

CONSTANTS
    Procs,      \* processes that run commands of the command line
    Nobody,     \* the holder of a free lock
    MaxCrashes  \* bound: crashes in one behaviour

ASSUME RuntimeStoreAssumption ==
    /\ Nobody \notin Procs
    /\ {"project-state", "taxonomy-state"} \cap Sessions = {}
    /\ MaxCrashes \in Nat

VARIABLES
    log,        \* the transactions whose file exists under events/
    disk,       \* content of each projection file
    index,      \* runtime-index.json
    lock,       \* who holds the flock of write.lock
    pc,         \* what each process does next
    stage,      \* history of the bundle a process is persisting
    todo,       \* projection files it has still to replace
    acked,      \* history: transactions in a bundle some command returned
    crashes     \* number of crashes so far

vars == << log, disk, index, lock, pc, stage, todo, acked, crashes >>

NoIndex == [head |-> << >>, manifest |-> [f \in Files |-> << >>]]

Init ==
    /\ log = {}
    /\ disk = [f \in Files |-> << >>]
    /\ index = NoIndex
    /\ lock = Nobody
    /\ pc = [p \in Procs |-> "idle"]
    /\ stage = [p \in Procs |-> << >>]
    /\ todo = [p \in Procs |-> {}]
    /\ acked = {}
    /\ crashes = 0

-----------------------------------------------------------------------------
(***************************************************************************)
(* load_runtime succeeds: the files exist, the index was written for this  *)
(* project head, its manifest matches the bytes of every file, and the     *)
(* sessions_index of the project state matches the session files.          *)
(***************************************************************************)
SessionsMatch(files) ==
    \A s \in Sessions : files[s] = Content(files["project-state"], s)

Accepted(files, ix) ==
    /\ files["project-state"] # << >> /\ files["taxonomy-state"] # << >>
    /\ ix.head = files["project-state"]
    /\ SessionsMatch(files)

Loadable == Accepted(disk, index) /\ index.manifest = disk

History == disk["project-state"]

UsedIds == { t.id : t \in log }

\* new_tx_id and create_session draw random ids: no transaction file, not even
\* one the projections do not know of, has used them.
Requests ==
    { c \in Changes : c.cell \in Sessions /\ c.from = "absent" =>
                        \A t \in log : t.change.cell # c.cell }

Enter_NoLock(p, h, first) ==
    /\ lock' = p
    /\ pc[p] = "idle"
    /\ pc' = [pc EXCEPT ![p] = first]
    /\ stage' = [stage EXCEPT ![p] = h]
    /\ todo' = [todo EXCEPT ![p] = Files]
    /\ UNCHANGED << log, disk, index, acked, crashes >>

\* A process enters the critical section to persist history h, after writing
\* the transaction file of its last transaction when "first" is "log".
Enter(p, h, first) ==
    /\ lock = Nobody
    /\ lock' = p
    /\ pc' = [pc EXCEPT ![p] = first]
    /\ stage' = [stage EXCEPT ![p] = h]
    /\ todo' = [todo EXCEPT ![p] = Files]
    /\ UNCHANGED << log, disk, index, acked, crashes >>

\* bootstrap_runtime: refused once any transaction file exists.
Bootstrap(p) ==
    /\ log = {}
    /\ \E i \in Ids, now \in 0..MaxTime :
          Enter(p, << [id |-> i, ts |-> now, change |-> Initialise] >>, "log")

Transact_ProjectionsOnly(p) ==
    /\ Loadable
    /\ \E i \in Ids \ UsedIds, now \in 0..MaxTime, c \in Requests :
          LET t == [id |-> i, ts |-> NextTimestamp(History, now), change |-> c]
          IN  /\ t.ts <= MaxTime
              /\ PassesIncremental(History, c)
              /\ Enter(p, Append(History, t), "files")

\* transact: the builder reads the loaded bundle, and the built transaction
\* passes the incremental validation against it.
Transact(p) ==
    /\ Loadable
    /\ \E i \in Ids \ UsedIds, now \in 0..MaxTime, c \in Requests :
          LET t == [id |-> i, ts |-> NextTimestamp(History, now), change |-> c]
          IN  /\ t.ts <= MaxTime
              /\ PassesIncremental(History, c)
              /\ AfterCheckpoint(History, t)
              /\ Enter(p, Append(History, t), "log")

Rebuild_PartialDiscovery(p) ==
    \E found \in SUBSET log : \E h \in CanonicalOrders(found) :
        h # << >> /\ ValidHistory(h) /\ Enter(p, h, "files")

Rebuild_Unvalidated(p) ==
    \E h \in CanonicalOrders(log) : h # << >> /\ Enter(p, h, "files")

Rebuild_NeedsProjections(p) ==
    \E h \in CanonicalOrders(log) :
        h # << >> /\ ValidHistory(h) /\ Loadable /\ Enter(p, h, "files")

\* rebuild_and_persist: replay every transaction file, whatever the
\* projections hold; refused when the log is not valid.
Rebuild(p) ==
    \E h \in CanonicalOrders(log) :
        /\ h # << >> /\ ValidHistory(h)
        /\ Enter(p, h, "files")

\* compact_runtime: rewrite the files only when they are what a replay gives.
Compact(p) ==
    \E h \in CanonicalOrders(log) :
        /\ h # << >> /\ ValidHistory(h)
        /\ \A f \in Files : disk[f] = Content(h, f)
        /\ Enter(p, h, "files")

\* _write_transaction
WriteTransaction(p) ==
    /\ pc[p] = "log"
    /\ log' = log \cup { stage[p][Len(stage[p])] }
    /\ pc' = [pc EXCEPT ![p] = "files"]
    /\ UNCHANGED << disk, index, lock, stage, todo, acked, crashes >>

\* One replacement of _write_projections; a session the bundle does not have
\* loses its file.
WriteProjection(p) ==
    /\ pc[p] = "files"
    /\ \E f \in NextFiles(todo[p]) :
          /\ disk' = [disk EXCEPT ![f] = Content(stage[p], f)]
          /\ todo' = [todo EXCEPT ![p] = @ \ {f}]
    /\ UNCHANGED << log, index, lock, pc, stage, acked, crashes >>

\* _write_runtime_index, whose manifest hashes the files as they now are;
\* the command then releases the lock and returns.
WriteIndex(p) ==
    /\ pc[p] = "files" /\ todo[p] = {}
    /\ index' = [head |-> stage[p], manifest |-> disk]
    /\ acked' = acked \cup Range(stage[p])
    /\ lock' = Nobody
    /\ pc' = [pc EXCEPT ![p] = "idle"]
    /\ stage' = [stage EXCEPT ![p] = << >>]
    /\ UNCHANGED << log, disk, todo, crashes >>

Crash_LockKept(p) ==
    /\ pc[p] # "idle" /\ crashes < MaxCrashes
    /\ crashes' = crashes + 1
    /\ pc' = [pc EXCEPT ![p] = "idle"]
    /\ stage' = [stage EXCEPT ![p] = << >>]
    /\ todo' = [todo EXCEPT ![p] = {}]
    /\ UNCHANGED << log, disk, index, lock, acked >>

\* The process dies, or an I/O error aborts the command: the lock is
\* released, what was replaced stays replaced, the rest is never written.
Crash(p) ==
    /\ pc[p] # "idle" /\ crashes < MaxCrashes
    /\ crashes' = crashes + 1
    /\ lock' = Nobody
    /\ pc' = [pc EXCEPT ![p] = "idle"]
    /\ stage' = [stage EXCEPT ![p] = << >>]
    /\ todo' = [todo EXCEPT ![p] = {}]
    /\ UNCHANGED << log, disk, index, acked >>

Persist(p) == WriteTransaction(p) \/ WriteProjection(p) \/ WriteIndex(p)

Next ==
    \E p \in Procs :
        \/ Bootstrap(p) \/ Transact(p) \/ Rebuild(p) \/ Compact(p)
        \/ WriteTransaction(p) \/ WriteProjection(p) \/ WriteIndex(p)
        \/ Crash(p)

Spec == Init /\ [][Next]_vars

(***************************************************************************)
(* A command that runs goes on running (or dies), and a user whose reads   *)
(* fail with "run rebuild-projections" eventually runs it.                 *)
(***************************************************************************)
FairSpec ==
    /\ Spec
    /\ \A p \in Procs : WF_vars(Persist(p))
    /\ WF_vars(\E p \in Procs : ~Loadable /\ Rebuild(p))

-----------------------------------------------------------------------------
\* The variables hold what their comments say: files and index hold
\* histories, and only the lock holder is inside the critical section.
TypeOK ==
    /\ log \in SUBSET Tx
    /\ disk \in [Files -> Seq(Tx)]
    /\ index \in [head : Seq(Tx), manifest : [Files -> Seq(Tx)]]
    /\ lock \in Procs \cup {Nobody}
    /\ pc \in [Procs -> {"idle", "log", "files"}]
    /\ stage \in [Procs -> Seq(Tx)]
    /\ todo \in [Procs -> SUBSET Files]
    /\ acked \in SUBSET Tx
    /\ crashes \in 0..MaxCrashes
    /\ \A p \in Procs : pc[p] # "idle" => lock = p

\* Write-ahead: whatever a projection file or the index accounts for is
\* already durable in the log, at every instant of every write and crash.
WriteAhead ==
    /\ \A f \in Files : Range(disk[f]) \subseteq log
    /\ Range(index.head) \subseteq log

\* project-state.json never falls behind a transaction some command has
\* returned: no later writer, crash or rebuild takes it back.
AckedNeverLost == acked \subseteq Range(History)

\* Every bundle load_runtime accepts was replayed from a valid history in
\* canonical order, and no file of it is from another transaction: what a
\* crash left half replaced is never accepted as the current state.
AcceptedIsWhole ==
    Loadable =>
        /\ ValidHistory(History) /\ Sorted(History)
        /\ \A f \in Files : disk[f] = Content(History, f)

\* As long as nothing has crashed, between two commands the incremental
\* projections are exactly what a full replay of the log gives, whatever the
\* clocks of the writers read: the log is valid and a compaction is accepted.
IncrementalIsReplay ==
    crashes = 0 /\ lock = Nobody /\ log # {} =>
        /\ Loadable /\ ValidHistory(History)
        /\ CanonicalOrders(log) = {History}

\* transact_with_precommit's promise: what is durable in the log can be
\* replayed and the projections rebuilt.
DurableLogReplays == lock = Nobody /\ log # {} => LogIsValid(log)

\* A crash that leaves the files unreadable is repaired: as long as the log is
\* valid, a rebuild makes the runtime loadable again.
RebuildRecovers == LogIsValid(log) ~> (Loadable \/ ~LogIsValid(log))

Promise == INSTANCE StoreLedger WITH committed <- index.head

\* The store implements the ledger it promises: seen through the index, every
\* command, crash and rebuild is an atomic commit or nothing.
ImplementsLedger == Promise!LedgerSpec

\* The lock is always released: no command keeps the others waiting forever.
LockReleased == \A p \in Procs : lock = p ~> lock # p
=============================================================================
