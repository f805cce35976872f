--------------------------- MODULE RuntimeReaders ---------------------------
(***************************************************************************)
(* RuntimeStore composed with commands that only read.  list-sessions,     *)
(* show-session, search, every diagnostic and every command that looks     *)
(* before it transacts call load_runtime WITHOUT the write lock: the files *)
(* are opened one after the other while writers are replacing them, and    *)
(* the runtime index is what must expose a mixture of two versions.        *)
(*                                                                         *)
(* A reader opens the projection files in the order of                     *)
(* _load_projection_bundle, then the index, then hashes every file again   *)
(* for the manifest, and only then validates the bundle.                   *)
(***************************************************************************)
EXTENDS RuntimeStore

CONSTANT Readers

VARIABLES
    rpc,        \* what each reader does next
    rtodo,      \* files it has still to open, or to hash
    seen,       \* the bundle it has read so far
    seenIndex,  \* the index it has read
    hashed,     \* the manifest it has computed so far
    before      \* history: what was acknowledged when it started

rvars   == << rpc, rtodo, seen, seenIndex, hashed, before >>
allvars == << vars, rvars >>

NoFiles == [f \in Files |-> << >>]

RInit ==
    /\ Init
    /\ rpc = [r \in Readers |-> "start"]
    /\ rtodo = [r \in Readers |-> {}]
    /\ seen = [r \in Readers |-> NoFiles]
    /\ seenIndex = [r \in Readers |-> NoIndex]
    /\ hashed = [r \in Readers |-> NoFiles]
    /\ before = [r \in Readers |-> {}]

StartRead(r) ==
    /\ rpc[r] = "start"
    /\ rpc' = [rpc EXCEPT ![r] = "bundle"]
    /\ rtodo' = [rtodo EXCEPT ![r] = Files]
    /\ before' = [before EXCEPT ![r] = acked]
    /\ UNCHANGED << vars, seen, seenIndex, hashed >>

ReadFile(r) ==
    /\ rpc[r] = "bundle"
    /\ \E f \in NextFiles(rtodo[r]) :
          /\ seen' = [seen EXCEPT ![r][f] = disk[f]]
          /\ rtodo' = [rtodo EXCEPT ![r] = @ \ {f}]
    /\ UNCHANGED << vars, rpc, seenIndex, hashed, before >>

ReadIndex(r) ==
    /\ rpc[r] = "bundle" /\ rtodo[r] = {}
    /\ seenIndex' = [seenIndex EXCEPT ![r] = index]
    /\ rpc' = [rpc EXCEPT ![r] = "manifest"]
    /\ rtodo' = [rtodo EXCEPT ![r] = Files]
    /\ UNCHANGED << vars, seen, hashed, before >>

HashFile(r) ==
    /\ rpc[r] = "manifest"
    /\ \E f \in NextFiles(rtodo[r]) :
          /\ hashed' = [hashed EXCEPT ![r][f] = disk[f]]
          /\ rtodo' = [rtodo EXCEPT ![r] = @ \ {f}]
    /\ UNCHANGED << vars, rpc, seen, seenIndex, before >>

ReadSucceeds_NoIndex(r) == seen[r]["project-state"] # << >> /\ SessionsMatch(seen[r])

\* _validate_runtime_index and validate_projection_bundle on what was read.
ReadSucceeds(r) ==
    Accepted(seen[r], seenIndex[r]) /\ seenIndex[r].manifest = hashed[r]

FinishRead(r) ==
    /\ rpc[r] = "manifest" /\ rtodo[r] = {}
    /\ rpc' = [rpc EXCEPT ![r] = IF ReadSucceeds(r) THEN "returned" ELSE "failed"]
    /\ UNCHANGED << vars, rtodo, seen, seenIndex, hashed, before >>

Read(r) ==
    \/ StartRead(r) \/ ReadFile(r) \/ ReadIndex(r) \/ HashFile(r) \/ FinishRead(r)

RNext ==
    \/ Next /\ UNCHANGED rvars
    \/ \E r \in Readers : Read(r)

RSpec == RInit /\ [][RNext]_allvars

-----------------------------------------------------------------------------
Returned(r) == rpc[r] = "returned"
Result(r)   == seen[r]["project-state"]

RTypeOK ==
    /\ TypeOK
    /\ rpc \in [Readers -> {"start", "bundle", "manifest", "returned", "failed"}]
    /\ rtodo \in [Readers -> SUBSET Files]
    /\ seen \in [Readers -> [Files -> Seq(Tx)]]
    /\ seenIndex \in [Readers -> [head : Seq(Tx), manifest : [Files -> Seq(Tx)]]]
    /\ hashed \in [Readers -> [Files -> Seq(Tx)]]
    /\ before \in [Readers -> SUBSET Tx]

\* A read that returns shows every transaction acknowledged before it
\* started, in canonical order: it is never an older version of the runtime.
ReadIsFresh ==
    \A r \in Readers : Returned(r) =>
        /\ before[r] \subseteq Range(Result(r))
        /\ Sorted(Result(r)) /\ ValidHistory(Result(r))

\* A read that returns shows only transactions whose command has written the
\* index and returned: never a writer's half-replaced files, even though the
\* reader took no lock and the writer may have crashed.
ReadIsCommitted ==
    \A r \in Readers : Returned(r) => Range(Result(r)) \subseteq acked

\* taxonomy-state.json is the one file nothing cross-checks: a returned bundle
\* may hold an older one, but never one newer than its project state.
TaxonomyNotAhead ==
    \A r \in Readers : Returned(r) =>
        Range(seen[r]["taxonomy-state"]) \subseteq Range(Result(r))
=============================================================================
