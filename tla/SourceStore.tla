----------------------------- MODULE SourceStore -----------------------------
(***************************************************************************)
(* The source store beside the runtime (sources/store.py, model.py,        *)
(* index.py, runtime.py) and transact_with_precommit of store.py.          *)
(*                                                                         *)
(* import_source and decompose_source hold the write lock: they decide,    *)
(* change files one by one (the precommit), rebuild the search index and   *)
(* only then make the audit transaction durable.  If a step fails, the     *)
(* rollback puts the files back, again one by one; if the process dies, or *)
(* a step of the rollback fails, it stops where it is.                     *)
(* link_evidence_to_object reads its unit without the lock, and            *)
(* rebuild_evidence_index takes no lock at all.                            *)
(*                                                                         *)
(* The documents here are versions of one source: same type and title,     *)
(* different content.                                                      *)
(***************************************************************************)
EXTENDS Integers, Sequences, FiniteSets, SequencesExt

CONSTANTS
    Procs, Docs,
    Strategies,
    UnitsOf,        \* [Docs -> [Strategies -> set of unit ids]]: decompose_document
    Nobody,         \* no process, no document
    Loads           \* bounds: what a behaviour may hold, records of
                    \*   ops      commands run, of {"import", "decompose",
                    \*            "link", "rebuild"}
                    \*   docs     documents imported
                    \*   fails    a step of a command may fail
                    \*   stops    processes that die or give up a rollback

Units == UNION {UnitsOf[d][s] : d \in Docs, s \in Strategies}

ASSUME UnitsAssumption ==
    /\ \A d \in Docs, s \in Strategies : IsFiniteSet(UnitsOf[d][s])
    /\ \A d, e \in Docs, s, t \in Strategies : d # e => UnitsOf[d][s] \cap UnitsOf[e][t] = {}

ASSUME NobodyAssumption == Nobody \notin Docs \cup Procs

VARIABLES
    load,           \* the member of Loads this behaviour has
    metadata,       \* metadata.yaml: unit_count, and the version whose import
                    \* set effective_to, canonical and superseded_by
    units,          \* units.jsonl
    ended,          \* documents whose units carry an effective_to
    present,        \* documents/<id>/ exists
    registry,       \* registry.yaml: the same, by document
    index,          \* source_units.sqlite: [rows, complete]
    audit,          \* audit events: [imported, versions], versions in order
    evidence,       \* units that the evidence of the event log cites
    shown,          \* units that the evidence of the projections cites
    lock, proc,
    stops,          \* bound: how many died or gave up a rollback
    interrupted     \* history: << op, document >> of the writers that neither
                    \* recorded what they did nor undid it

files == << metadata, units, ended, present, registry >>
citations == << evidence, shown >>
history == << stops, interrupted >>
vars == << load, files, index, audit, citations, lock, proc, history >>

NoMetadata == [count |-> -1, until |-> Nobody]     \* no such file
NoIndex == [rows |-> {}, complete |-> FALSE]
Idle == [op |-> "none", todo |-> << >>]

Init ==
    /\ load \in Loads
    /\ metadata = [d \in Docs |-> NoMetadata]
    /\ units = [d \in Docs |-> {}]
    /\ ended = {} /\ present = {} /\ registry = << >>
    /\ index = NoIndex
    /\ audit = [imported |-> {}, versions |-> << >>]
    /\ evidence = {} /\ shown = {}
    /\ lock = Nobody
    /\ proc = [p \in Procs |-> Idle]
    /\ stops = 0 /\ interrupted = {}

-----------------------------------------------------------------------------
(* A command is what it still has to do.                                   *)

Rebuilding == << "list", "reset", "read", "publish" >>

Saving == << "metadata", "registry" >> \o Rebuilding \o << "record", "project" >>

ImportSteps_PreviousForgotten(prev) == << "directory" >> \o Saving

ImportSteps(prev) ==
    << "directory" >> \o (IF prev = Nobody THEN Saving
                          ELSE << "previous" >> \o (<< "previous units" >> \o Saving))

DecomposeSteps == << "units" >> \o Saving

Doing(p, step) == proc[p].todo # << >> /\ Head(proc[p].todo) = step
Done(p) == [proc EXCEPT ![p].todo = Tail(@)]

(* What the rollbacks put back, file by file.                              *)
UndoSteps_PreviousForgotten(c) ==
    IF c.op = "decompose"
    THEN << "undo units", "undo metadata", "undo registry", "undo index" >>
    ELSE << "undo files", "undo directory", "undo registry", "undo index" >>

UndoSteps(c) ==
    CASE c.op = "decompose" ->
            << "undo units", "undo metadata", "undo registry", "undo index" >>
      [] c.op = "import" /\ c.prev = Nobody ->
            << "undo files", "undo directory", "undo registry", "undo index" >>
      [] c.op = "import" /\ c.prev # Nobody ->
            << "undo files", "undo directory" >>
                \o << "undo previous", "undo previous units", "undo registry", "undo index" >>

Snapshot == [metadata |-> metadata, units |-> units, ended |-> ended, registry |-> registry,
             index |-> index]

Command(op, d, prev, new, steps) ==
    [op |-> op, doc |-> d, prev |-> prev, new |-> new, todo |-> steps, old |-> Snapshot,
     listed |-> << >>, rows |-> {}]

(* The units of d that the project cites, as a command that loads the      *)
(* projections sees it.                                                    *)
LinkedUnits(d) == shown \cap UNION {UnitsOf[d][s] : s \in Strategies}

(* The newest other version is superseded, or the one the user names.      *)
Previous(d) == IF DOMAIN registry \subseteq {d} THEN {Nobody} ELSE DOMAIN registry \ {d}

(* A document whose directory is there is reported as existing, or refused *)
(* if its registry entry or its audit event is missing.                    *)
BeginImport(p, d, prev) ==
    /\ "import" \in load.ops /\ proc[p].op = "none" /\ lock = Nobody
    /\ d \in load.docs \ present
    /\ prev # Nobody => metadata[prev] # NoMetadata
    /\ lock' = p
    /\ proc' = [proc EXCEPT ![p] = Command("import", d, prev, {}, ImportSteps(prev))]
    /\ UNCHANGED << load, files, index, audit, citations, history >>

BeginDecompose_Unchecked(p, d, s) ==
    /\ "decompose" \in load.ops /\ proc[p].op = "none" /\ lock = Nobody
    /\ metadata[d] # NoMetadata
    /\ lock' = p
    /\ proc' = [proc EXCEPT ![p] = Command("decompose", d, Nobody, UnitsOf[d][s], DecomposeSteps)]
    /\ UNCHANGED << load, files, index, audit, citations, history >>

(* Units the project cites may not go.                                     *)
BeginDecompose(p, d, s) ==
    /\ "decompose" \in load.ops /\ proc[p].op = "none" /\ lock = Nobody
    /\ metadata[d] # NoMetadata
    /\ LinkedUnits(d) \subseteq UnitsOf[d][s]
    /\ lock' = p
    /\ proc' = [proc EXCEPT ![p] = Command("decompose", d, Nobody, UnitsOf[d][s], DecomposeSteps)]
    /\ UNCHANGED << load, files, index, audit, citations, history >>

BeginRebuild(p) ==
    /\ "rebuild" \in load.ops /\ proc[p].op = "none"
    /\ proc' = [proc EXCEPT ![p] = Command("rebuild", Nobody, Nobody, {}, Rebuilding)]
    /\ UNCHANGED << load, files, index, audit, citations, lock, history >>

-----------------------------------------------------------------------------
(* The precommit, file by file.                                            *)

MakeDirectory(p) ==
    /\ Doing(p, "directory")
    /\ present' = present \cup {proc[p].doc}
    /\ units' = [units EXCEPT ![proc[p].doc] = {}]
    /\ proc' = Done(p)
    /\ UNCHANGED << load, metadata, ended, registry, index, audit, citations, lock, history >>

SavePrevious(p) ==
    /\ Doing(p, "previous")
    /\ metadata' = [metadata EXCEPT ![proc[p].prev].until = proc[p].doc]
    /\ proc' = Done(p)
    /\ UNCHANGED << load, units, ended, present, registry, index, audit, citations, lock, history >>

SavePreviousUnits(p) ==
    /\ Doing(p, "previous units")
    /\ ended' = ended \cup {proc[p].prev}
    /\ proc' = Done(p)
    /\ UNCHANGED << load, metadata, units, present, registry, index, audit, citations, lock, history >>

SaveUnits(p) ==
    /\ Doing(p, "units")
    /\ units' = [units EXCEPT ![proc[p].doc] = proc[p].new]
    /\ proc' = Done(p)
    /\ UNCHANGED << load, metadata, ended, present, registry, index, audit, citations, lock, history >>

NewMetadata(p) ==
    [count |-> Cardinality(proc[p].new),
     until |-> IF proc[p].op = "import" THEN Nobody ELSE metadata[proc[p].doc].until]

SaveMetadata(p) ==
    /\ Doing(p, "metadata")
    /\ metadata' = [metadata EXCEPT ![proc[p].doc] = NewMetadata(p)]
    /\ proc' = Done(p)
    /\ UNCHANGED << load, units, ended, present, registry, index, audit, citations, lock, history >>

(* A registry does not list a document twice.                              *)
Savable(p) == proc[p].op = "import" => proc[p].doc \notin DOMAIN registry

(* The entry of the document is added by an import, changed where it is    *)
(* there by a decomposition; a superseded entry names its successor.       *)
SaveRegistry(p) ==
    /\ Doing(p, "registry") /\ Savable(p)
    /\ LET c == proc[p]
           kept == IF c.op = "import" THEN DOMAIN registry \cup {c.doc} ELSE DOMAIN registry
       IN  registry' = [d \in kept |->
               CASE d = c.doc -> NewMetadata(p)
                 [] d = c.prev -> metadata[d]
                 [] OTHER -> registry[d]]
    /\ proc' = Done(p)
    /\ UNCHANGED << load, metadata, units, ended, present, index, audit, citations, lock, history >>

-----------------------------------------------------------------------------
(* rebuild_evidence_index: by the writers above, and by anybody, unlocked. *)

ListDocuments(p) ==
    /\ Doing(p, "list")
    /\ proc' = [Done(p) EXCEPT ![p].listed = registry]
    /\ UNCHANGED << load, files, index, audit, citations, lock, history >>

ResetIndex(p) ==
    /\ Doing(p, "reset")
    /\ index' = NoIndex
    /\ proc' = Done(p)
    /\ UNCHANGED << load, files, audit, citations, lock, history >>

(* A unit is current unless the entry read says its document is superseded *)
(* or, as a current entry has no superseded_by of its own, the metadata do.*)
Current(p, d) == proc[p].listed[d].until = Nobody /\ metadata[d].until = Nobody

ReadUnits(p) ==
    /\ Doing(p, "read")
    /\ \A d \in DOMAIN proc[p].listed : metadata[d] # NoMetadata
    /\ proc' = [Done(p) EXCEPT ![p].rows =
          UNION {{[unit |-> u, current |-> Current(p, d)] : u \in units[d]} :
                 d \in DOMAIN proc[p].listed}]
    /\ UNCHANGED << load, files, index, audit, citations, lock, history >>

(* The rows and the schema version have primary keys: a rebuild that finds *)
(* those of another one is undone.                                         *)
Publishable(p) ==
    ~index.complete /\ \A r \in proc[p].rows, q \in index.rows : r.unit # q.unit

PublishIndex(p) ==
    /\ Doing(p, "publish") /\ Publishable(p)
    /\ index' = [rows |-> index.rows \cup proc[p].rows, complete |-> TRUE]
    /\ proc' = IF proc[p].op = "rebuild" THEN [proc EXCEPT ![p] = Idle] ELSE Done(p)
    /\ UNCHANGED << load, files, audit, citations, lock, history >>

RecordTransaction(p) ==
    /\ Doing(p, "record")
    /\ audit' = IF proc[p].op # "import" THEN audit
                ELSE [imported |-> audit.imported \cup {proc[p].doc},
                      versions |-> IF proc[p].prev = Nobody THEN audit.versions
                                   ELSE Append(audit.versions, << proc[p].doc, proc[p].prev >>)]
    /\ proc' = Done(p)
    /\ UNCHANGED << load, files, index, citations, lock, history >>

(* The projections of the runtime are written, or are not and have to be   *)
(* rebuilt: the transaction stands.                                        *)
WriteProjections(p) ==
    /\ Doing(p, "project")
    /\ lock' = Nobody
    /\ proc' = [proc EXCEPT ![p] = Idle]
    /\ UNCHANGED << load, files, index, audit, citations, history >>

-----------------------------------------------------------------------------
(* A step fails before the transaction is durable: what was changed is put *)
(* back while the lock is held.                                            *)

Fails(p) ==
    \/ load.fails
    \/ Doing(p, "registry") /\ ~Savable(p)
    \/ Doing(p, "publish") /\ ~Publishable(p)
    \/ Doing(p, "read") /\ \E d \in DOMAIN proc[p].listed : metadata[d] = NoMetadata

UndoNames ==
    {"undo files", "undo directory", "undo previous", "undo previous units",
     "undo units", "undo metadata", "undo registry", "undo index"}

Undoing(p) == \E step \in UndoNames : Doing(p, step)

BeginRollback(p) ==
    /\ proc[p].op \in {"import", "decompose"} /\ Fails(p)
    /\ ~Doing(p, "project") /\ ~Undoing(p)
    /\ proc' = [proc EXCEPT ![p].todo = UndoSteps(proc[p])]
    /\ UNCHANGED << load, files, index, audit, citations, lock, history >>

(* rmtree removes what is in the directory, then the directory.            *)
UndoFiles(p) ==
    /\ Doing(p, "undo files")
    /\ metadata' = [metadata EXCEPT ![proc[p].doc] = NoMetadata]
    /\ units' = [units EXCEPT ![proc[p].doc] = {}]
    /\ proc' = Done(p)
    /\ UNCHANGED << load, ended, present, registry, index, audit, citations, lock, history >>

UndoDirectory(p) ==
    /\ Doing(p, "undo directory")
    /\ present' = present \ {proc[p].doc}
    /\ proc' = Done(p)
    /\ UNCHANGED << load, metadata, units, ended, registry, index, audit, citations, lock, history >>

UndoPrevious(p) ==
    /\ Doing(p, "undo previous")
    /\ metadata' = [metadata EXCEPT ![proc[p].prev] = proc[p].old.metadata[proc[p].prev]]
    /\ proc' = Done(p)
    /\ UNCHANGED << load, units, ended, present, registry, index, audit, citations, lock, history >>

UndoPreviousUnits(p) ==
    /\ Doing(p, "undo previous units")
    /\ ended' = (ended \ {proc[p].prev}) \cup (proc[p].old.ended \cap {proc[p].prev})
    /\ proc' = Done(p)
    /\ UNCHANGED << load, metadata, units, present, registry, index, audit, citations, lock, history >>

UndoUnits(p) ==
    /\ Doing(p, "undo units")
    /\ units' = [units EXCEPT ![proc[p].doc] = proc[p].old.units[proc[p].doc]]
    /\ proc' = Done(p)
    /\ UNCHANGED << load, metadata, ended, present, registry, index, audit, citations, lock, history >>

UndoMetadata(p) ==
    /\ Doing(p, "undo metadata")
    /\ metadata' = [metadata EXCEPT ![proc[p].doc] = proc[p].old.metadata[proc[p].doc]]
    /\ proc' = Done(p)
    /\ UNCHANGED << load, units, ended, present, registry, index, audit, citations, lock, history >>

UndoRegistry(p) ==
    /\ Doing(p, "undo registry")
    /\ registry' = proc[p].old.registry
    /\ proc' = Done(p)
    /\ UNCHANGED << load, metadata, units, ended, present, index, audit, citations, lock, history >>

UndoIndex(p) ==
    /\ Doing(p, "undo index")
    /\ index' = proc[p].old.index
    /\ lock' = Nobody
    /\ proc' = [proc EXCEPT ![p] = Idle]
    /\ UNCHANGED << load, files, audit, citations, history >>

(* "transaction side-effect rollback failed": the rest is not put back.    *)
RollbackFails(p) ==
    /\ stops < load.stops /\ Undoing(p)
    /\ lock' = Nobody
    /\ proc' = [proc EXCEPT ![p] = Idle]
    /\ stops' = stops + 1
    /\ interrupted' = interrupted \cup {<< proc[p].op, proc[p].doc >>}
    /\ UNCHANGED << load, files, index, audit, citations >>

RebuildFails(p) ==
    /\ proc[p].op = "rebuild" /\ Fails(p)
    /\ proc' = [proc EXCEPT ![p] = Idle]
    /\ UNCHANGED << load, files, index, audit, citations, lock, history >>

Crash(p) ==
    /\ stops < load.stops /\ proc[p].op # "none"
    /\ proc' = [proc EXCEPT ![p] = Idle]
    /\ lock' = IF lock = p THEN Nobody ELSE lock
    /\ stops' = stops + 1
    /\ interrupted' = IF proc[p].op \in {"import", "decompose"} /\ ~Doing(p, "project")
                      THEN interrupted \cup {<< proc[p].op, proc[p].doc >>} ELSE interrupted
    /\ UNCHANGED << load, files, index, audit, citations >>

-----------------------------------------------------------------------------
(* link_evidence_to_object                                                 *)

Linking(u, todo) == [op |-> "link", unit |-> u, todo |-> todo]

FindUnit(p, u) ==
    /\ "link" \in load.ops /\ proc[p].op = "none"
    /\ \E d \in DOMAIN registry : u \in units[d] /\ metadata[d] # NoMetadata
    /\ proc' = [proc EXCEPT ![p] = Linking(u, << >>)]
    /\ UNCHANGED << load, files, index, audit, citations, lock, history >>

(* The transaction first, the projections after it.                        *)
LinkEvidence(p) ==
    /\ proc[p].op = "link" /\ proc[p].todo = << >> /\ lock = Nobody
    /\ evidence' = evidence \cup {proc[p].unit}
    /\ lock' = p
    /\ proc' = [proc EXCEPT ![p] = Linking(proc[p].unit, << "show" >>)]
    /\ UNCHANGED << load, files, index, audit, shown, history >>

ShowEvidence(p) ==
    /\ Doing(p, "show")
    /\ shown' = shown \cup {proc[p].unit}
    /\ lock' = Nobody
    /\ proc' = [proc EXCEPT ![p] = Idle]
    /\ UNCHANGED << load, files, index, audit, evidence, history >>

ShowFails(p) ==
    /\ load.fails /\ Doing(p, "show")
    /\ lock' = Nobody
    /\ proc' = [proc EXCEPT ![p] = Idle]
    /\ UNCHANGED << load, files, index, audit, citations, history >>

(* rebuild-projections.  The other commands load the projections there are,*)
(* whose index agrees with them, and write them back with what they add.   *)
RebuildProjections ==
    /\ "link" \in load.ops /\ lock = Nobody
    /\ shown' = evidence
    /\ UNCHANGED << load, files, index, audit, evidence, lock, proc, history >>

-----------------------------------------------------------------------------
(* What the commands that read report.                                     *)

(* validate-sources                                                        *)
MiscountedDocuments ==
    {d \in DOMAIN registry : metadata[d] = NoMetadata \/ metadata[d].count # Cardinality(units[d])}
OrphanedUnits == {u \in evidence : \A d \in DOMAIN registry : u \notin units[d]}

(* search-evidence, without --include-superseded                           *)
FoundUnits == {r.unit : r \in {q \in index.rows : q.current}}

(* The versions that show-source-impact includes: one pass over the        *)
(* replacements, from the last one back.                                   *)
Reached(d, replacements) ==
    LET seen[i \in Nat] ==
            IF i = 0 THEN {d}
            ELSE IF replacements[i][1] \in seen[i - 1] THEN seen[i - 1] \cup {replacements[i][2]}
            ELSE seen[i - 1]
    IN  seen[Len(replacements)] \ {d}

PreviousSourceIds_LogOrder(d) == Reached(d, audit.versions)

PreviousSourceIds(d) == Reached(d, Reverse(audit.versions))

-----------------------------------------------------------------------------
Next ==
    \/ RebuildProjections
    \/ \E p \in Procs :
        \/ \E d \in Docs : \E prev \in Previous(d) : BeginImport(p, d, prev)
        \/ \E d \in Docs, s \in Strategies : BeginDecompose(p, d, s)
        \/ BeginRebuild(p)
        \/ MakeDirectory(p) \/ SavePrevious(p) \/ SavePreviousUnits(p)
        \/ SaveUnits(p) \/ SaveMetadata(p) \/ SaveRegistry(p)
        \/ ListDocuments(p) \/ ResetIndex(p) \/ ReadUnits(p) \/ PublishIndex(p)
        \/ RecordTransaction(p) \/ WriteProjections(p)
        \/ BeginRollback(p) \/ UndoFiles(p) \/ UndoDirectory(p)
        \/ UndoPrevious(p) \/ UndoPreviousUnits(p) \/ UndoUnits(p) \/ UndoMetadata(p)
        \/ UndoRegistry(p) \/ UndoIndex(p) \/ RollbackFails(p)
        \/ RebuildFails(p) \/ Crash(p)
        \/ \E u \in Units : FindUnit(p, u)
        \/ LinkEvidence(p) \/ ShowEvidence(p) \/ ShowFails(p)

Spec == Init /\ [][Next]_vars

-----------------------------------------------------------------------------
Entry == [count : Nat, until : Docs \cup {Nobody}]

(* The variables are typed; whoever changes files or cites units holds the *)
(* lock, and only they do.                                                 *)
TypeOK ==
    /\ metadata \in [Docs -> Entry \cup {NoMetadata}]
    /\ \A d \in Docs : units[d] \subseteq Units
    /\ ended \subseteq Docs /\ present \subseteq Docs
    /\ DOMAIN registry \subseteq Docs /\ Range(registry) \subseteq Entry
    /\ evidence \subseteq Units /\ shown \subseteq evidence /\ audit.imported \subseteq Docs
    /\ \A p \in Procs : proc[p].op \in {"import", "decompose"} \/ Doing(p, "show") <=> lock = p

(* A document whose import is in the audit log has its directory, its      *)
(* metadata and its registry entry, and the version it replaces is no      *)
(* longer current: whatever died or failed, the log never runs ahead.      *)
AuditedIsWhole ==
    /\ \A d \in audit.imported :
          d \in present /\ metadata[d] # NoMetadata /\ d \in DOMAIN registry
    /\ \A v \in Range(audit.versions) : metadata[v[2]].until # Nobody

(* Once a command has returned, and none has died or failed to undo what   *)
(* it did, the files agree, however many commands failed between: the      *)
(* registry is that of the audited imports, it and the metadata count the  *)
(* units there are and say alike which versions have ended, and no         *)
(* directory is left behind by a failed import.                            *)
QuietIsConsistent ==
    lock = Nobody /\ interrupted = {} =>
        /\ present = audit.imported /\ DOMAIN registry = present
        /\ MiscountedDocuments = {}
        /\ \A d \in present :
              registry[d] = metadata[d] /\ (metadata[d].until # Nobody <=> d \in ended)

(* README.md: show-source-impact with --include-previous-version-links     *)
(* includes the decisions still linked to earlier versions.  The impact of *)
(* a version includes the one it replaced, and all that one includes: the  *)
(* one the log says it replaced, and any whose metadata name it as their   *)
(* successor, unless an import of it died or could not be undone before.   *)
ImpactReachesBack ==
    \A d \in Docs, e \in audit.imported :
        \/ << e, d >> \in Range(audit.versions)
        \/ metadata[d].until = e /\ << "import", e >> \notin interrupted
        => {d} \cup PreviousSourceIds(d) \subseteq PreviousSourceIds(e)

(* references/evidence-source-store.md: decompose-source refuses to drop a *)
(* source unit already referenced by evidence.  Once the projections show  *)
(* that a unit is cited, as they do when link-evidence has returned, no    *)
(* step of a command, of a rollback or of a rebuild takes it away, if it   *)
(* was there when the writer at work took the lock.                        *)
LinkedUnitsStay ==
    [][\A u \in shown, d \in Docs :
          /\ u \in units[d]
          /\ \A p \in Procs : proc[p].op \in {"import", "decompose"} => u \in proc[p].old.units[d]
          => u \in units'[d]]_vars

(* As validate-sources sees it: every unit that evidence cites is there.   *)
CitedUnitsExist == OrphanedUnits = {}

(* references/evidence-source-store.md: file updates are rolled back if    *)
(* the audit transaction cannot be persisted.  When nobody holds the lock, *)
(* no document is there whose import is not in the log.                    *)
UnrecordedIsRolledBack == lock = Nobody => present \subseteq audit.imported

(* references/evidence-source-store.md: default search returns only        *)
(* current canonical snapshots.  When nobody is at work, a complete index  *)
(* finds the units of the versions that are not superseded.                *)
SearchIsCurrent ==
    index.complete /\ (\A p \in Procs : proc[p].op = "none") =>
        FoundUnits = UNION {units[d] : d \in {e \in DOMAIN registry : metadata[e].until = Nobody}}
=============================================================================
