# A specification of decide-me

decide-me keeps the decisions of a project: sessions discover decisions,
propose answers, record what the user replies and close with a summary. All of
it is stored as immutable transaction files, from which every other file can be
replayed. This directory holds TLA+ modules that model that program, the TLC
configurations that check them on small instances, and proofs, checked by
TLAPS, of theorems for every instance. `PROJECT.json` maps every definition to
the lines it models and lists the runs, the mutants, the hazards and the
theorems.

To check it, `tlc -config <run>.cfg <module>` for each run of section 3, for
example `tlc -config MCRuntimeStore.cfg MCRuntimeStore`, and
`tlapm <module>.tla` for each module of section 4.

## 1. The system

The program is a command line (`scripts/decide_me.py`); each command is one
short-lived process that works on the files under `.ai/decide-me/`. Processes
share nothing but those files. Nothing is sent: the hard behaviours come from
several processes, clones and branches acting on the same files, and from a
process that dies between two files.

| component | state it keeps | operations that change it | how it interacts |
|---|---|---|---|
| runtime store (`store.py`) | `events/**/*.jsonl`, `project-state.json`, `taxonomy-state.json`, `sessions/*.json`, `runtime-index.json`, `write.lock` | `bootstrap_runtime`, `transact`, `transact_with_precommit`, `rebuild_and_persist`, `compact_runtime` | every other component reads with `load_runtime` (no lock) and writes with `transact` (a builder called under the lock) |
| event log and replay (`events.py`, `projections.py`) | none | `build_event`, `apply_event`, `rebuild_projections` | called by the store |
| validation (`validate.py`) | none | none: accepts or refuses a log or a bundle | called before and after every transaction |
| decision protocol (`protocol.py`, `object_views.py`, `selector.py`) | decisions, proposals, evidence, links; the open question of a session | discover, enrich, issue, accept, reject, answer, defer, resolve by evidence, supersede | one `transact` each |
| session lifecycle (`lifecycle.py`) | sessions and their close summaries | create, resume, close | withdraws the session's open question |
| evidence links (`sources/runtime.py`) | evidence objects and `supports` links | `link_evidence_to_object` | binds a decision of another session |
| source store (`sources/store.py`, ...) | imported documents, snapshots, normative units | import, decompose, index | files first, then the event: `transact_with_precommit` with a rollback |
| plan generation (`planner.py`) | `plan_generated` events, plan files | `generate_plan` | reads closed sessions, writes for the SYSTEM session |
| merge conflicts (`conflicts.py`, `suppression.py`) | `transaction_rejected` and `semantic_conflict_resolved` events | `resolve_merge_conflict`, `resolve_session_conflict` | repairs a log whose branches were merged by file |
| drafts (`draft_*.py`) | draft-set files, promotion log | create, promote, reconcile, export | a canonical transaction, then side files outside the lock |
| autopilot (`autopilot.py`) | draft sets | iterate until convergence or a limit | writes no event |
| safety gate and approvals (`safety_*.py`) | approval objects | evaluate, approve | may refuse an acceptance, a resolution by evidence, a promotion |
| interview (`interview.py`) | none of its own | `advance_session`: one reply, several transactions | every step on a bundle read without the lock |
| impact and invalidation (`impact_*.py`, `graph_traversal.py`, `invalidation_candidates.py`) | none of their own | apply a candidate of a report | a report of one bundle, applied to a later one |
| search, taxonomy, classification, stale detection | none | none | read a loaded bundle |
| domain packs | none | none | configuration |
| documents, exporters, registers | output files | export, with managed regions | read a loaded bundle |

What makes each correct, and what is hard about it:

- **Store.** What a command returned is never lost; the projections are what a
  replay of the log gives; what `load_runtime` accepts is one whole version.
  Hard: death between any two file replacements, readers that take no lock,
  clocks that run backwards, an incremental validation that is not the one of
  the replay.
- **Decision protocol and sessions.** A question that is open can be answered; a
  reply is final; a plain "OK" acts on what the user was shown; a closed session
  stays what it was. Hard: two sessions bound to one decision, evidence that
  overtakes a question, supersession across sessions, summaries of closed
  sessions that are validated against the present.
- **Merge conflicts.** A merged log that does not replay is repaired by
  rejecting transactions, and stays repaired when repairs are merged again.
- **Source store and drafts.** A side effect outside the log is retained exactly
  when the event that accounts for it is, or can be reconciled with it.
- **Safety gate.** An approval covers only the gate it was given for.
- **Interview.** Each of the transactions of one turn is right on the bundle it
  is applied to, not only on the one it was chosen on.
- **Impact.** The traversal reports each affected object once, by a shortest
  path; a candidate applied late is applied to what it was computed for.

- **Autopilot and projection.** A draft set reported as unblocked has no gap that
  matters and is fresh; the iteration keeps its budget and what it was given.
- **Plans.** A plan computed without the lock is right when it is recorded.
- **Requirement ids.** Numbers stay distinct on one branch, whatever was merged
  and rejected.

The full list, each at its line, is under `hazards` in `PROJECT.json`.

## 2. The modules

| module | what it is |
|---|---|
| `EventLog` | transactions, canonical order, replay, content of the projection files (`events.py`, `projections.py`, `validate_event_log`); constants and operators, no state |
| `StoreLedger` | abstract: the committed history the store promises |
| `RuntimeStore` | `store.py`: processes, the lock, the files, crashes; implements `StoreLedger` |
| `RuntimeReaders` | `RuntimeStore` composed with readers that take no lock |
| `DecisionLifecycle` | abstract: the life of one decision |
| `DecisionProtocol` | `protocol.py`, `lifecycle.py`, `link_evidence_to_object`, the bundle rules of `validate.py`; implements `DecisionLifecycle` |
| `Interview` | `interview.py`, `selector.py`: turns made of steps of `DecisionProtocol`, among other sessions and commands; implements `DecisionProtocol` |
| `Planner` | `planner.py`, the actions of `close_session`, `exporters/traceability.py`, over `DecisionProtocol` |
| `MergeConflicts` | `conflicts.py` and the reading of a raw log in `store.py`, over branches of one repository |
| `RequirementIds` | `requirement_ids.py` over branches that merge, reject and rebuild |
| `InfluenceGraph` | `graph_traversal.py` as sets, `impact_analysis.py`, the candidate rules of `invalidation_candidates.py`; operators, no state |
| `GraphWalk` | `_walk_records`, one step per node and per link, and what it must compute |
| `SafetyGate` | `safety_gate.py`: the gate of an object and its digest; operators, no state |
| `SafetyGuard` | everything that passes the gate: acceptance, evidence, approvals, applied candidates; supersession, which does not ask it; uses `SafetyGate` and `InfluenceGraph` |
| `DraftPromotion` | `draft_sets.py`, `draft_promote.py`: promotions and repairs, with the side files |
| `SourceStore` | `sources/*.py` and `transact_with_precommit` |
| `DraftProjection`, `ReviewQueue` | `draft_projection.py`, and what `draft_export.py` and a bulk promotion ask of a draft; operators, no state |
| `Autopilot` | `autopilot.py`, and the commands that project, review and promote what it stored |
| `*Proofs` | lemmas and theorems |
| `MC*` | TLC instances |

### RuntimeStore: state and actions

| TLA+ | code |
|---|---|
| `log` | the set of transaction files under `events/` |
| `disk[f]` | the bytes of projection file `f`, as the history they were computed from; `<< >>` is no file |
| `index` | `runtime-index.json`: the project head, and the digest of each projection file |
| `lock` | who holds `flock(write.lock)` |
| `pc`, `stage`, `todo` | local state of a command inside the critical section |
| `acked` | history variable: what some command has returned |
| `Bootstrap`, `Transact`, `Rebuild`, `Compact` | from `_write_lock` to the point where a file is about to be written |
| `WriteTransaction`, `WriteProjection`, `WriteIndex` | one `_atomic_write` each: write a temporary file, fsync, rename |
| `Crash` | the process dies, or an exception leaves the `with` block |

A transaction is one compare-and-set of a cell. A cell is the SYSTEM scope, a
session or an object; `from_status` of `object_status_changed`, the duplicate
checks of `object_recorded` and `session_created`, and the session checks of
`_validate_incremental_session_scope` are the reads of a compare-and-set. The
project head is a hash chain over the effective events, so the history stands
for it: two equal heads are two equal histories. `project-state.json` embeds the
whole state and stands for the whole history; `taxonomy-state.json` records
only the last event it was computed at; a session file changes only with the
session's own events.

Acquiring the lock, loading, building and validating are one action: under the
lock nobody else changes these files, and every refusal at this point leaves
everything unchanged, so that a refused command is a stuttering step. Readers
are not under the lock, which is what `RuntimeReaders` is for: there each file
opened and each file hashed is a step.

### DecisionProtocol: state and actions

| TLA+ | code |
|---|---|
| `phase`, `related`, `summary` | `session.lifecycle.status`, `session.graph.related_object_ids`, `session.close_summary` |
| `asked` | `session.working_state.active_question_id` / `active_proposal_id` |
| `status` | `object.status` of decisions, proposals and evidence |
| `origin`, `via` | `origin_session_id`, `accepted_via` of a proposal |
| `links` | `addresses`, `accepts`, `supports`, `supersedes` links |
| `current` | the proposals whose `based_on_project_head` is the project head |
| `shown` | history variable: decision statuses at the time the question was asked |
| one action per operation | builder guards; events applied in order; refused with nothing written unless `validate_projection_bundle` accepts the result (`BundleIsValid'`) |

`current` stands for the comparison of two hashes: every transaction moves the
project head (`MoveHead`), `IssueProposal` bases its proposal on the head its
own question event makes.

`BundleIsValid'` as the last conjunct of an action is `transact`: the events
are applied to a copy of the bundle, the copy is validated, and an exception
means that nothing is written. It is a guard of the code, not a property; the
properties below are those the validator does not check, or checks of one
state only.

A transaction is atomic in `DecisionProtocol`. `RuntimeStore` shows to what
extent that is justified: by `ImplementsLedger`, what is loaded through the
index is always one whole committed history, and `IncrementalIsReplay` says
that it is the one a replay gives as long as nothing has crashed.

### MergeConflicts: state and actions

`.gitignore` tracks the files under `events/` and ignores the projections, so
that a merge of two branches adds transaction files and leaves projections that
know nothing of them.

| TLA+ | code |
|---|---|
| `txs[b]`, `controls[b]` | the transaction files of branch `b`; those with a `transaction_rejected` event are the controls |
| `view[b]`, `last[b]` | the projections of the branch, as the history they were computed from, and the last timestamp its index knows |
| `seen` of a control | history variable: the controls its branch had when it was made |
| `Readable`, `Effective`, `IsValid` | `_validate_transaction_rejection_controls`, `effective_events_from_raw`, `validate_event_log` |
| `Offers`, `ConflictSessions` | what `detect_merge_conflicts` reports |
| `Commit`, `RebuildBranch`, `Resolve` | `transact`, `rebuild_and_persist`, `resolve_merge_conflict` on one branch |
| `Merge` | version control: the union of the files |

`Commit` reads `view`, not `txs`, because the code does: after a merge the old
projections still agree with their index and load. `Resolve` stamps its control
with the clock as it is, so that a control may come before transactions it
rejects. The object an error message names is the object of the first change
that fails (`Failure`), which is how the code finds who takes part. Ids are
drawn in increasing order: an id only breaks the tie of two equal timestamps.
Crashes inside a command are left to `RuntimeStore`.

### Interview: state and actions

| TLA+ | code |
|---|---|
| `turn[s]` | the local state of `advance_session` or `handle_reply` of session `s`: where it is, the decision it is about, how many it resolved, the reply it handles, the decisions it found; or how the last turn ended |
| `others` | bound: what others have done |
| `Advance`, `Reply` | a user starts a turn; the reply is parsed on a bundle read without the lock |
| `Look`, `Seed`, `Resolve`, `Issue` | the loop of `advance_session`: choose, resolve by evidence, ask |
| `TakeReply`, `Constrain`, `Discover`, `Scan`, `ResolveFound` | the transactions of `handle_reply` |
| `Others` | any step of `DecisionProtocol` by another session, or by another command on the same one |

Each session has one user, whose replies come one after another. A text is known
by what `_parse_active_reply` finds in it (an echo of the recommendation, a bare
yes or no, constraints, a follow-up) and by what its author wants. Any
transaction may be refused (`Refused`): its builder or its validation may raise
for reasons that are left out. Which open decision `select_next_decision` takes is
left open. The setup of sessions and decisions does not count against `MaxOthers`.

Every transaction of a turn is an action of `DecisionProtocol`, so what is proved
about that module holds with turns too (`ImplementsProtocol`).

### Planner: state and actions

| TLA+ | code |
|---|---|
| `report[s]` | actions, risks, links and readiness of the close summary of `s` |
| `plan`, `step` | the plan `generate_plan` has computed, and how far it has come |
| `export` | what became of the last traceability export |
| `PCloseSession` | `close_session` with `build_close_summary` and the action objects it adds |
| `ComputePlan`, `ExportPlan`, `RecordPlan`, `Leave` | `generate_plan`: read without the lock, write the file, record the event; it may die in between |
| `ExportTraceability` | `export_traceability` |

The verdict of the safety gate on an action is an input, fixed when the plan is
computed: that `evaluate_safety_gate` (`planner.py:414`) would answer differently by the
time the plan is recorded is not seen. Texts, evidence lists and their order are left out, as are resolved
conflicts: `resolve_session_conflict` raises "unsupported" before it writes any.
The validator's own rule on the actions of a summary is not a guard here:
`ActionsStayGrounded` implies it.

### RequirementIds, GraphWalk

`RequirementIds` keeps, per branch, the decisions it has (`has`), those its controls
reject (`rejected`), and what its projections show: `shown`, computed from `basis`.
`DiscoverDecision` counts from `shown`, as `next_requirement_id` does, which a merge
without a rebuild and a command that dies after its transaction file leave behind
(`AppliesToProjections`). `number` is the number in the event of a decision and `had`
remembers the `basis` its number was drawn from. A number may be given again after
its decision was rejected, and the property allows for that.

`GraphWalk` keeps what `_walk_records` keeps: the queue with the path of each
entry, the visited objects, the links seen, the records; `todo` are the links of
the popped object still to follow. They are followed in any order, of which the
order of their ids is one.

### SafetyGate and SafetyGuard: state and actions

| TLA+ | code |
|---|---|
| `p` | the project as the gate reads it: object statuses, links, approvals, time of the last event |
| `clock` | `utc_now()`; some operations read it before the lock, so that a gate may be evaluated in the past |
| `invalidatedBy` | `invalidated_by` of decisions |
| `seen` | history variable: what bore on the target when an approval was given |
| `LinkEvidence`, `MaterializeDecision`, `RecordReplyRisk` | what changes a gate |
| `ApproveSafetyGate`, `AcceptPassed`, `AcceptWithInlineApproval`, `ResolveByEvidence` | what the gate lets through |
| `ApplyCandidate` | a candidate of some report, applied to the project as it is then: it is computed again, and must be there |
| `ResolveDecisionSupersession` | `resolve_decision_supersession`: no gate, no approval |

The digest of a gate is its inputs (no collisions). Sessions and the bundle
validation are those of `DecisionProtocol` and left out: an operation here can do
more than the code's. `InvalidationIsGrounded` shows that the validation, which
would refuse an invalidated decision without a ground, never has to.

### DraftPromotion: state and actions

| TLA+ | code |
|---|---|
| `head`, `canonical`, `open`, `question` | the runtime as far as a promotion reads it; the project head is a count |
| `draftSet`, `tmp`, `log` | `draft-set.json`, its temporary file, `promotion-log.jsonl` |
| `proc` | the running commands: the drafts still to do, the copy of the draft set |
| `Check`, `Materialize` | decided without the lock, committed under it |
| `OpenTmp`, `FillTmp`, `RenameTmp`, `AppendLog` | the sidecar, outside the lock |
| `StartReconcile`, `RewriteLog` | the repair, under the lock |
| `CreateDraftSet(ids)` | the draft set is stored, with the promoted ids its payload comes with (`_normalize_draft_set` keeps them) |
| `RejectPromotion` | `resolve_merge_conflict` rejects the transaction of a promotion after a merge; nothing tells the sidecar |
| `given`, `rejected` | history variables: the ids the draft set came with, the drafts whose promotion was rejected |
| `SidecarFails`, `Crash` | a write fails and the command goes on; the process dies |

A transaction is one step, and the content of the draft set is the ids it lists as
promoted, which is all its writers change. Supporting objects, recipes and
validation data are left out, and so are promotions that a merge brings from another
branch.

### SourceStore: state and actions

| TLA+ | code |
|---|---|
| `metadata`, `units`, `ended`, `present`, `registry` | the files of the documents and `registry.yaml` |
| `index` | the search index in SQLite |
| `audit` | the source events of the log |
| `evidence`, `shown` | the units that the evidence of the log cites, and that of the projections, which every command loads |
| `proc[p].todo` | the steps the command still has to do, in the order of the code |
| `Fails`, `BeginRollback` | an exception before the transaction is durable |
| `UndoSteps`, `UndoFiles` .. `UndoIndex` | the rollback, one removal or replacement at a time, the lock held |
| `RollbackFails` | a step of the rollback raises: the rest is not put back |
| `RebuildFails`, `Crash` | a rebuild of the index gives up; the process dies |
| `LinkEvidence`, `ShowEvidence`, `ShowFails` | a citation becomes durable, then visible; or stays invisible until `RebuildProjections` |
| `interrupted` | history variable: the writers that neither recorded nor undid what they did |

The documents are versions of one source, whose order of import and of
replacement is free; how a document is cut into units is an input (`UnitsOf`).
Dropping the tables of the index is one step. `Current` is the fallback of
`rebuild_evidence_index` (`sources/index.py:27`): an entry without `superseded_by` of
its own takes that of `metadata.yaml`. Registries that cannot be parsed are left out.

### DraftProjection, ReviewQueue, Autopilot

The first two translate the coverage matrix, the gaps, the frontier, the
convergence and the review queue as operators on a draft set. `Autopilot` has
`run`, the local state of one `autopilot-draft`, and the files it and the commands
after it write (`draftSet`, `projection`, `queue`); other commands move the head,
promote and change canonical objects in between. Nodes, links and documents of the
export are renderings and left out. The gaps of `LAYER_GAP_TYPES` that
`detect_gap_diagnostics` never emits are left out.

Three things the translation shows and no property is about: a verification without
targets counts as "auto-remediable" although its remedy changes nothing, so that
a run can end with its budget exhausted; a coverage gap of kind
"proposal required" is reported as `unsupported_recommendation`; and what the
autopilot adds (P1, partial evidence, missing evidence) always keeps the set
blocked, so that its supplements reach a person before they converge.

## 3. What the runs check

A configuration that is named after its module is the run of that module.

| run | configuration | what it shows |
|---|---|---|
| `store` | `MCRuntimeStore.cfg` | two processes, two crashes: `WriteAhead`, `AckedNeverLost`, `AcceptedIsWhole`, `IncrementalIsReplay`; the store implements `StoreLedger`; `RebuildRecovers` and `LockReleased` under fairness |
| `store_replay` | `MCRuntimeStore_replay.cfg` | one crash: `DurableLogReplays` is violated (divergence 1) |
| `readers` | `MCRuntimeReaders.cfg` | a writer, a crash, a reader that opens file after file: `ReadIsFresh`, `ReadIsCommitted` |
| `merge` | `MCMergeConflicts.cfg` | two branches, one session, an option and a decision: `UpToDateIsReplay`, `RepairableIsReported`, `OnlyConcurrentResolutionsClash` |
| `graph_walk` | `MCGraphWalk.cfg` | all sets of up to four links between four objects: `WalkIsComplete`, `PathsLeadFromTheRoot`, `VisitsWhatIsReachable` |
| `safety` | `MCSafetyGuard.cfg` | six projects: `AdoptedAsJudged`, `FallsAsJudged`, `InvalidationIsGrounded` |
| `drafts` | `MCDraftPromotion.cfg` | two processes, two drafts, two sessions: `SidecarNeverAhead`, `PromotedOnce`, `OpenProposalIsAsked`, `SettledIsExact` |
| `sources` | `MCSourceStore.cfg` | two processes, up to three versions, up to two deaths or failed rollbacks: `AuditedIsWhole`, `QuietIsConsistent`, `ImpactReachesBack`, `LinkedUnitsStay` |
| `autopilot` | `MCAutopilot.cfg` | every draft set with one fault, some with two, and small budgets: `UnblockedIsClean`, `QueuedBulkIsSafe`, `BudgetKept` |
| `interview` | `MCInterview.cfg` | one user, another session, two decisions: `RepliesAreFresh`, `RepliesAreFinal`, `ProposedIsAnswerable`, `OrphanIsMoot`; each decision implements `DecisionLifecycle`; `TurnsEnd` under fairness |
| `planner` | `MCPlanner.cfg` | two sessions, two decisions of one title and two domains: `PlanStaysTrue`, `ActionsStayGrounded`, `ReadyMeansDecided` |
| `requirement` | `MCRequirementIds.cfg` | three branches, three decisions: `SharedMeansParallel` |

Bounds, and why they are enough:

- Store. `Ids`, `MaxTime`: four transactions, timestamps 0..3. A bootstrap, a
  session and two transactions of it are the least that lets a crashed transaction
  and its retry disagree on an object; timestamps collide and run backwards within
  that range. `MaxCrashes`: two, so that the recovery from a crash can itself
  crash. `Procs`: two; a third is only another one waiting for the lock. One
  session, because the files of different sessions are written by the same loop.
  A behaviour stops when ids or time are used up, so deadlock is not checked.
- `readers`: one writer and one reader; a reader writes nothing, so two readers
  do not interact, and a second writer is another turn of the first.
- `merge`: two branches, because every branch beyond the second repeats the merge
  of two; the project either has an option and a decision at first, of which a message
  names only the first (`NamedObjects`), or the branches record the option under one id; four transactions beyond the first log, a conflicting change and its
  resolution on each branch, or two of them and two changes made later.
  `Interesting` leaves out changes to the status an object already has. With one
  transaction more (`Objects = {o1}`, the same `Ids`) the exception that
  `RepairableIsReported` makes for orphans begins to matter; that instance passes too, and
  the theorem is for all.
- `graph_walk`: four links make every shape the walk distinguishes, a cycle, two
  links between the same objects, two ways of one length and of two; up to three
  links of two relations, one reversed; depths 0, 1, 2 and none.
- `safety`: in three projects decisions are adopted, in three they fall; each has
  the objects one question of the gate is about (a critical risk, a challenge,
  stale evidence, an assumption that expires, the rules of a domain pack; chains of
  up to three decisions). `approvable`, `maxObjects`, `MaxApprovals` and `MaxTime`
  bound what can arrive; two approvals so that one can be outdated.
- `drafts`: two of each, the least that overlap; `MaxHead` bounds the transactions;
  the payload of the draft set comes with no promoted id or with one.
- `sources`: four loads: two versions, the first decomposed and cited, failures and one
  death; three versions, which can replace each other in any order, failures and one
  death; two versions and two deaths; and index rebuilds at any time without failures.
  A rollback that gives up counts as a death. Together, as one load, they have too many
  states for a run to finish; the properties compare two versions or two overlapping
  commands.
- `autopilot`: a seed is a sound draft decision with at most one fault, of 18
  kinds and two priorities, or two such decisions, under contracts of up to two
  layers and one special target; every rule of the projection reads one or
  two of these at a time. `MaxHead` bounds how often others move the head.
- `interview`: `MaxAuto` one and `MaxOthers` two: one decision resolved on the
  way, and two steps of others, the least that close and ask again.
- `planner`: one proposal is enough because every decision can also be resolved
  by evidence; both decisions have one title so that their actions conflict.
- `requirement`: with three branches a decision can reach a branch by two ways;
  three decisions let a number be used again after a rejection, and by a branch whose
  projections are behind.

Deadlock is not checked where ids, time or a bound are used up.

Fairness. A store command that runs takes its next step or crashes: weak
fairness of `Persist(p)`, which is the operating system scheduling a runnable
process. And a user whose reads fail runs `rebuild-projections`, which is what
every such error message says: weak fairness of a `Rebuild` while the files do not
load. `flock` promises no order, so no fairness is assumed of any other command.
`RebuildRecovers` has the hypothesis that the log is valid, since a rebuild refuses
an invalid log (divergence 1 is how it becomes invalid). In the interview the steps
of a turn are weakly fair: they are one function call of one process. Nothing is
assumed of users or of other sessions.

A definition named `X_Something` in front of `X` is `X` with a bug that a
change to the code could plausibly introduce; `mutants` in `PROJECT.json` says
which property refutes it. No specification uses them.

Some properties are in no configuration and hold in these instances all the same,
which adding them to the configuration shows: the type invariants, `SubgraphIsWhole`,
`AlreadyApprovedIsApplicable`, `ApprovalTakesEffect` (a
`PROPERTY`) and `ImplementsProtocol` (a `PROPERTY`, of `MCInterview`).

## 4. What is proved

Each theorem holds from the named assumptions on the constants alone: any number
of processes, sessions, decisions, branches, documents and crashes.

| module | theorem | property |
|---|---|---|
| `EventLogProofs` | `TypeCorrect` | `TypeOK`, with mutual exclusion: a process that is not idle holds the lock |
| | `LogIsAhead` | `WriteAhead` |
| | `NothingAckedIsLost` | `AckedNeverLost` |
| | `OnlyWholeIsAccepted` | `AcceptedIsWhole` |
| | `IncrementalEqualsReplay` | `IncrementalIsReplay` |
| | `StoreImplementsLedger` | `ImplementsLedger` |
| | `ReaderInvariance` | the invariant of the readers |
| | `ReadsAreFresh` | `ReadIsFresh` |
| | `ReadsAreCommitted` | `ReadIsCommitted` |
| | `TaxonomyIsNeverAhead` | `TaxonomyNotAhead` |
| | `OnlyStrangersClash` | `OnlyConcurrentResolutionsClash` |
| | `BranchesTyped` | `BTypeOK` |
| | `UpToDateViewsAreReplays` | `UpToDateIsReplay` |
| | `RepairableConflictsAreReported` | `RepairableIsReported` |
| | `SharedNumbersAreParallel` | `SharedMeansParallel` |
| `ProtocolProofs` | `TypeCorrect` | `TypeOK` |
| | `QuestionsCanBeAnswered` | `ProposedIsAnswerable` |
| | `OrphansAreMoot` | `OrphanIsMoot` |
| | `AcceptedOnce` | `AcceptedByOneProposal` |
| | `RepliesFinal` | `RepliesAreFinal` |
| | `OkIsInformed` | `OkActsOnWhatWasShown` |
| | `ClosedFrozen` | `ClosedIsFrozen` |
| | `ProtocolImplementsLifecycle` | `ImplementsLifecycle` |
| | `TurnsAreProtocol` | `ImplementsProtocol`: a turn of the interview is steps of the protocol |
| | `TurnsKeepTheProtocol` | what follows from that for turns |
| | `TurnsTypeCorrect` | `ITypeOK` |
| | `RepliesFresh` | `RepliesAreFresh` |
| | `PlansStayTrue` | `PlanStaysTrue` |
| | `ReadyPlansAreDecided` | `ReadyMeansDecided` |
| | `ActionsGrounded` | `ActionsStayGrounded` |
| `GraphWalkProofs` | `WalkTypeCorrect` | `TypeOK` |
| | `WalkFindsAllInfluenced` | `VisitsWhatIsReachable` |
| | `PathsAreWays` | `PathsLeadFromTheRoot` |
| | `WalkIsShortest` | `WalkIsComplete` |
| | `SubgraphsAreWhole` | `SubgraphIsWhole` |
| `DraftPromotionProofs` | `TypeCorrect` | `TypeOK` |
| | `SidecarIsNeverAhead` | `SidecarNeverAhead` |
| | `DraftsPromotedOnce` | `PromotedOnce` |
| | `OpenProposalsAreAsked` | `OpenProposalIsAsked` |
| | `SettledSidecarIsExact` | `SettledIsExact` |
| `SafetyProofs` | `SafetyTypeCorrect` | `TypeOK` |
| | `AdoptionsAreJudged` | `AdoptedAsJudged` |
| | `FallsAreJudged` | `FallsAsJudged` |
| | `InvalidationStaysGrounded` | `InvalidationIsGrounded` |
| `SourceProofs` | `SourceTypeCorrect` | `TypeOK` |
| | `AuditedStaysWhole` | `AuditedIsWhole` |
| | `QuietStaysConsistent` | `QuietIsConsistent` |
| | `CitedUnitsStay` | `LinkedUnitsStay` |
| | `ImpactStaysComplete` | `ImpactReachesBack` |
| `AutopilotProofs` | `AutopilotTyped` | `TypeOK` |
| | `ConvergenceFailsClosed` | `UnblockedIsClean` |
| | `QueuesAreSafe` | `QueuedBulkIsSafe` |
| | `BudgetIsKept` | `BudgetKept` |

`RecursionProofs` has no theorem of the program: it states induction over the
natural numbers about sets instead of operators, and that a function defined by
recursion exists and satisfies its definition, which the proofs about `Chain`,
`Reached`, `Within`, the order of actions and of transactions use; and that a set of
numbers has a least and, if bounded, a greatest member.

The assumptions, none of them more than the code gives: ids of different kinds
differ and are no marker such as `None`, `Nobody`, `"ok"` or `"explicit"`
(`ProtocolAssumption`, `DraftsAssumption`, `NobodyAssumption`); the sets a
module counts or orders are finite; the branches start from a valid log of what the
operations write (`MergeConflictsAssumption`); in `SafetyGuard` a project starts with statuses of
the right kind, links between recorded objects and nothing fallen
(`ProjectsAssumption`), and tiers, thresholds and reversibilities are on their scales
(`MetaAssumption`); `decompose_document` returns a list, so a finite set of units,
and derives their ids from the document, so those of two documents differ
(`UnitsAssumption`); a draft set is a finite document of the schema
`draft-decision-set.schema.json`, its priorities are ranks, and options are within the
limits that `_validate_iteration_limits` enforces (`InputsAssumption`). Each run of a module evaluates those of its instance.

The arguments:

- **Store.** `IInv` adds to the properties what they need to be inductive. That
  the next file a process replaces keeps every acknowledged transaction needs
  `StageSound` (the history a process persists contains everything acknowledged;
  for a rebuild that follows from `WriteAhead`, since the rebuild replays the whole
  log). `AcceptedIsWhole` needs `IndexWhole` (the index, and its manifest, are those
  of one valid history), which `WriteIndex` establishes only because of
  `FilesReplaced` (whatever a process no longer has to do is done). A crash
  disturbs `FilesReplaced` for nobody, because only the lock holder has work in
  progress: that is the mutual exclusion in `TypeOK`. That `log` is finite is
  needed for the canonical order of its transactions to contain them all.
- **Readers.** A reader opens one file after the other while writers replace them.
  What it has read is of commits that happened, each file no older than what was
  acknowledged when it began (`RInv`); that the bundle is one history and not pieces of
  several follows from the index it compares with last.
- **Protocol.** From `ProtocolAssumption` (ids of different kinds differ). The
  invariant has the validator's rules in it, which hold after every step because
  `transact` refuses what breaks them, and what they do not say: a proposal is about
  one decision, a proposal id not drawn yet has no links, only an active session has
  an open question, and `OrphanIsMoot`. The validator only counts active proposal
  objects; that the one it counts is still asked by somebody is `OrphanIsMoot`, and
  from it follow both `ProposedIsAnswerable` and the fact the step lemmas use most,
  that a reply which names its proposal can only be a reply to the open question of
  its session (`ReplyIsToOpenQuestion`). The life cycle lets a decision begin as a draft
  that is promoted, proposed at once (`MaterializeDecision`, `Promote`). No proof opens the graph closures in the
  rules (`Connected`, `Superseders`), so the theorems do not depend on which
  decisions a session's links lead to.
- **Turns.** Each step of a turn is an operation of the protocol or changes nothing
  of the project (`TurnsAreProtocol`), so the protocol's theorems hold of turns without
  another proof. `RepliesFresh` needs that a reply parsed without the lock is checked
  again by the operation that takes it.
- **Plans.** `PInv` is the protocol's invariant, `AcceptsIsDecided` (a decision with
  an accepted proposal is accepted, or was before it was superseded), `ReportIsSound`
  (a closed session's report names what keeps it from being ready) and
  `PlanIsCurrent`. A step of another session cannot change what the plan was
  computed from, because closed sessions are frozen and the decisions in their
  summaries are pinned: both are theorems of the protocol, cited here. For
  `ActionsGrounded` the actions are followed through their conflicts, with one
  recursive function over the actions that `SetInduction` reasons about.
- **Merged logs.** The files of a control's targets travel with it; a control which
  had seen another does not clash with it, in whichever order their timestamps put
  them; controls have different ids. A resolution establishes that because it reads
  the whole raw log, its own control included, before it writes (`Resolve`; the
  mutant `Resolve_Unchecked` does not); a merge keeps it because it adds controls
  and the transactions they name together.
- **The walk.** `WalkInv`: everything queued is visited, no object waits twice, and
  without a depth limit a link out of a visited object leads to a visited one, or is
  still to be followed, or its object is still queued (`FrontierIsPending`). When the
  walk ends the last two are impossible. For the paths, the entry in hand and all
  queued ones lead from the root to their node.
  When the walk is limited, distances count. `ShortestInv`: the queue is ordered by
  distance and spans two of them at most, everything nearer than the entry in hand has
  been visited, each entry carries the length of a shortest way (`DistancesAreShortest`),
  and no link out of an object within the limit is forgotten. `Within` is defined by
  recursion over a number of steps that the graph bounds: no shortest way has more links
  than there are objects (`WithinSaturates`), so looking that far is looking everywhere.
- **The projections of a branch.** A merge changes the log and leaves the projections as
  they were, so what they show is in general not the replay. What stays true is that they
  are sorted, a valid history in themselves, and nothing in them is later than the clock of
  the branch (`ViewsAreHistories`): a commit adds at the end, later than what it knows of,
  a rebuild and a resolution write a replay that validation accepted. Two sorted
  sequences of the same transactions are equal (`ReplayIsCanonical`), and so the view is
  the replay as soon as the hashes of the index agree with the log. The mutant
  `Commit_OwnClock` breaks that order.
- **What is reported.** That a replay accepts a transaction depends only on the
  transactions of the log before it (`Admits`, `AdmissibleIsAdmitted`), so a rejection
  matters to those that come after it in the same cells. If no option is offered,
  each smallest repair rejects all that takes part in the first failure
  (`NoOfferRejectsAll`), so at most two transactions do. When the failure names a
  closed session, the closing and the late transaction are the two, and rejecting the
  late one alone would do (`LateIsReported`). When it names an object and something in
  the log created that object, there are two writers; rejecting the failing one alone
  does not do only because a closing precedes the other, and rejecting that closing
  instead of the other would do as well and leaves a participant (`HiddenIsOrphan`). What
  remains is a transaction on an object the log does not create. Where the failure names
  no session and no object that the pattern finds, nothing is claimed (`ConflictIsNamed`). `CausalInv` says
  that each branch has, of every transaction, the opening of its session, earlier,
  and a creation of its object: a commit found them in its projections, a merge brings
  them along, and no control rejects an opening. So the creations were rejected, and
  the object is an orphan.
- **The autopilot.** `projection` and `queue` are files that stay while the project moves
  on. `ProjectionInv` and `QueueInv` say that one whose head is the current one is what the
  command would write now: whatever changes the draft set or what was accepted moves
  the head on, and that is what makes the head a version of both. The rest is about the diagnostics. If
  no gap blocks then no row blocks (`UnblockedRows`); the safety rows are always in the
  matrix, as they would be derived, because the schema reserves their axes
  (`SafetyRowsListed`); and a row that is not met blocks even where its target is not
  required, because what lacks evidence, is stale or asks for bulk review against its risk
  raises it to required (`UnblockedIsFresh`, `UnblockedIsSupported`, `UnblockedIsReviewed`).
  That an id in the queue names one decision follows from the gap for duplicate ids
  (`OfferedIsBulk`). For the budget, the layers to add have different places
  (`LayerPositions`: the frontier is an order of the rows of different layers), so that at
  most as many are first as there is room for (`FirstFew`).
- **Draft promotion.** From `DraftsAssumption` (markers such as `Nobody` and `Cut` are not ids).
  The project's two properties need only that a promotion checks again under the
  lock. The files need `CopiesAreBehind`: what a writer adds to its old copy of
  `draft-set.json` was promoted before it writes, so even a garbled or lost write
  names nothing but what is promoted, was until its transaction was rejected, or came
  with the draft set (`Known`). That they do not name too little is `Undisturbed`, which
  has to say what is missing meanwhile (`Due`: the drafts of promotions between the
  transaction and their last write), that the one writer has the temporary file for
  itself (`WriterIsAlone`), and in which order a repair restores the two files. A
  repair reads `Promoted` when it writes and holds the lock until the log is
  rewritten (`LockIsRepair`), so what it writes is still what is promoted. Rejecting a
  promotion disturbs the sidecar until the next repair, and so does a draft set that
  comes with promoted ids.
- **The gate.** The digest determines the facts a gate was judged on, so an approval
  that matches was given knowing everything that bears now (`ApprovalsAreWitnessed`).
  For the ground of an invalidated decision `FallsAreGrounded` says that from each one a
  path of invalidations leads to an adopted decision, no longer than the number of
  decisions that fell: a decision falls once and to an adopted one, be it by a candidate or
  by a supersession, so the next fall lengthens every path by at most one step. `Chain`
  looks that far.
- **Sources.** A writer changes one file after the other, so between its steps little
  is true of all of them. `FilesFollow` says instead what they are at each step, as a
  function of what the writer found when it took the lock and of what it still has to
  do (`At`, `Follow`). A rollback may start at any of these steps and has steps of its
  own, so there each file is the one found or the one written, and those already put
  back are the ones found (`UndoAt`, `UndoFollow`, `Between`). `SoundBetween` then shows
  once, for all steps of both, that what was sound stays so: nothing is recorded that is
  not there, nothing is there without its directory, except for the documents whose
  import is under way or was interrupted (`Loose`). What the writer found is itself
  sound until it records (`OldIsSound`), which is what a completed rollback leads back
  to. A death, or a rollback that gives up, leaves the files of the step it came at:
  sound, but agreeing with the log only if there was none (`Reconciled`, while
  `interrupted` is empty). `LinkedUnitsStay` needs that a decomposition keeps what the
  projections show as cited when it begins (`KeepsCited`), and that nobody but the holder
  of the lock changes what they show. `ImpactStaysComplete` needs that a version
  which replaces another was new then (`OlderFirst`): of the replacements, in the order
  in which the pass sees them, none from before that of `d` by `e` starts at `d` or `e`,
  so both start with themselves alone and `e` stays ahead.
- **Requirement ids.** Not inductive by itself. `PastComesAlong`: a branch that has a
  decision has, for all that its number was drawn knowing of, a smaller number or a
  rejection. That needs that what the projections were computed from and do not show was
  rejected (`LeftOutIsRejected`), however far behind they are. A merge takes decisions and
  rejections together; the mutant `MergeDecisions_EventsOnly` does not.

Each inductive invariant was first checked by TLC as an invariant of the module's
run. Properties only proved, and in no configuration: `AcceptedByOneProposal`,
`OkActsOnWhatWasShown`, `ClosedIsFrozen`, `TaxonomyNotAhead`, `ImplementsProtocol`,
`SubgraphIsWhole` and the type invariants.

Only model-checked is liveness (`RebuildRecovers`, `LockReleased`, `TurnsEnd`), which is
outside what the prover can do.

## 5. Where the program and its documents differ

Each is stated as a property of the module, as the document has it. The run
`store_replay` checks the first; the others are in no configuration: adding the
property to the configuration of its module (as `INVARIANT`, or as `PROPERTY` where
it says so) makes TLC print the behaviour.

1. **A crash after the transaction file can make the log invalid for good**
   (`RuntimeStore`, `DurableLogReplays`). `_write_transaction` makes the event durable
   before any projection is replaced. If the process dies there, the projections and
   the index still agree with one another, so the next command loads them as the
   current state, does not see the durable transaction, and can append one from the
   same `from_status`. The log then fails `validate_event_log` and
   `rebuild-projections` refuses it. The docstring of `transact_with_precommit`
   (`store.py:600`) says the log can be replayed, `README.md:379` to rebuild.
2. **Superseding a decision leaves its proposal active** (`DecisionProtocol`,
   `SupersessionDeactivates`, a `PROPERTY` of `MCPlanner.cfg`).
   `references/session-lifecycle.md:24` says it is deactivated. `OrphanIsMoot` shows
   that the proposal that remains can no longer be replied to.
3. **Two sessions in conflict are not reported** (`MergeConflicts`,
   `SameSessionConflictsReported`). `detect_merge_conflicts` looks for at most two
   rejections inside one session that make the whole log valid; if a merge leaves two
   sessions in conflict, it returns nothing for a log that `rebuild-projections`
   refuses. `README.md:216` says such conflicts use `detect-merge-conflicts`. With two
   sessions, `Objects = NamedObjects = {o1, o2}`, `Statuses = {"unresolved"}`, `Ids` up to 8 and `MaxTime = 5`.
4. **Resolutions can hide a later conflict.** Resolutions, made one after the other or on
   two branches apart, can together reject every transaction that created an object.
   An update of it that another branch had made before is merged later: that single
   transaction is invalid, no resolution "keeps" another for it, and
   `detect_merge_conflicts` returns nothing although rejecting it would do;
   `README.md:216` says such conflicts use `detect-merge-conflicts`. These are the
   `Orphans` that `RepairableIsReported` excepts. Dropping the exception shows it with
   `Objects = {o1}`; with two options it also happens between users who have seen each
   other's resolutions (one rejects a creation and keeps the closing of the session, the next
   rejects that closing and keeps another creation).
5. **A conflict resolved on both branches can make the log unreadable**
   (`MergeConflicts`, `ResolvedLogsMerge`). The two `transaction_rejected` controls
   contradict each other, and reading the raw log raises in every command,
   `detect-merge-conflicts` included. `README.md:228` says of a resolved log to rebuild
   or validate it. `OnlyStrangersClash` says that this is the only way: resolutions
   that have seen each other never clash.
6. **An approval that has expired still lets a decision fall** (`SafetyGuard`,
   `FallsUnderLiveApproval`, a `PROPERTY`). `apply_invalidation_candidate` evaluates the
   gate at the time of the last event (`invalidation_candidates.py:145`), not at the
   present; `references/safety-approvals.md:43` wants "non-expired approval metadata".
7. **A draft set that has become stale is promoted as fresh** (`DraftPromotion`,
   `UnflaggedIsFresh`). Staleness is judged on a bundle read without the lock and, of
   all checks, is the one not repeated under it; a bulk promotion compares
   with the head of its start only. `references/output-contract.md:336`.
8. **Two writers can leave `draft-set.json` unreadable** (`DraftPromotion`,
   `DraftSetIsReadable`). `_atomic_write_text` has one temporary name per file, and the
   sidecar is written outside the lock: one promotion renames what the other has just
   truncated. If that one dies, or has a shorter text, every later command
   fails in `load_draft_set`, `reconcile-draft-promotions` included.
   `references/output-contract.md:225`.
9. **Evidence can cite a unit that no longer exists** (`SourceStore`, `CitedUnitsExist`).
   `link_evidence_to_object` reads its unit before the lock and does not look
   again; a decomposition in between drops it. `references/evidence-source-store.md:180`
   says the decomposition refuses to. The same happens without overlap: a link whose
   process dies between its transaction file (`store.py:666`) and the projections (668) is
   durable, but the next decomposition loads projections without it
   (`_linked_source_unit_ids`) and drops the unit. `LinkedUnitsStay` is about citations
   that the projections show.
10. **A process killed in the precommit leaves a document that can never be imported**
    (`SourceStore`, `UnrecordedIsRolledBack`). The rollback runs for exceptions only; the
    next import refuses the directory it finds. `references/evidence-source-store.md:145`
    says such files are rolled back.
11. **The search index can be complete and out of date** (`SourceStore`,
    `SearchIsCurrent`). A rebuild reads the registry, then fills the tables, with no
    lock; one that overlaps an import publishes the registry from before it.
    `references/evidence-source-store.md:102`.
12. **A required evidence target can be taken down to one that is not required**
    (`Autopilot`, `RequiredTargetsAreMet`). `_evidence_coverage_row` recomputes
    priority and `required` of every target from the drafts that miss it, explicit ones of
    the contract included; the projection then says "converged" with the target missing.
    `references/output-contract.md:261` wants convergence to fail closed.
13. **Bulk promotion asks for less than the review queue** (`Autopilot`,
    `BulkPromotionIsReviewed`). `_is_bulk_promotable` looks at neither priority, evidence nor
    conflicts. `references/decision-preflight.md:466` lists what must not be promoted in bulk.
14. **A reply that differs from the recommendation can accept it** (`Interview`,
    `DifferingAnswerIsRecorded`, a `PROPERTY`). `_looks_like_affirmation` takes every text
    that contains the recommendation, or three fifths of its keywords, for a yes: "Do not
    use email magic links for the MVP." accepts "Use email magic links for the MVP.".
    `references/interview-engine.md:52` says a differing answer is recorded as the user's.
15. **The answer a rejection asks for is refused** (`Interview`, `InvitedAnswerIsTaken`, a
    `PROPERTY`). Rejecting clears the question, so the answer that "Please provide the
    preferred answer" (`interview.py:651`) invites ends in "Unsupported reply format".
16. **A decision in a plan can never be replaced** (`Planner`, `PlannedIsReplaceable`).
    `_validate_close_summary` wants every decision of a summary visible, and the summary
    of a closed session never changes, so that superseding one of its decisions is
    refused for ever. `references/plan-generation.md:46` and `README.md:220` say that
    `resolve-decision-supersession` replaces them. For the same reason a conflict between
    the actions of two closed sessions stays.
17. **A promoted draft with a risk breaks the traceability export** (`Planner`,
    `TraceabilityIsWritten`, with `Scaffolded = {d1}`). The summary lists risk objects beside
    risk decisions, the export wants a requirement id of each, and raises
    (`exporters/traceability.py:350`). `references/plan-generation.md:61`.
18. **Merged branches can share a requirement id** (`RequirementIds`,
    `RequirementIdsAreUnique`). Each branch counts from what it sees, and no validator
    compares the numbers. On one branch, too: after a merge without a rebuild, or a death
    after the transaction file, the projections that `next_requirement_id` counts from
    (`protocol.py:52` and 351, loaded at `store.py:617`) do not show a decision the branch
    has, and its number is given again. `references/output-contract.md:364`.
19. **Conflicts on decisions and proposals are not reported** (`MergeConflicts`,
    `SameSessionConflictsReported`, in the configuration as it is). Who takes
    part is found by looking for ids in the message of the failure, with a pattern that
    finds `O-` and `L-` only (`conflicts.py:31`, 231-249); for `D-` and `P-`
    ids nobody takes part, no option has a survivor, and `detect_merge_conflicts` returns
    nothing although one rejection would do. `README.md:216`. `RepairableIsReported` is
    about the conflicts the pattern can name (`ConflictIsNamed`).

More behaviours that a user may find surprising, and that no document denies:

- An unlocked read may return a taxonomy older than its project state
  (`TaxonomyNotAhead` says that it is never newer).
- `resolve_decision_supersession` invalidates an accepted decision without asking the
  safety gate, where a candidate that does the same needs an approval. `FallsAsJudged` is
  about candidates; without its conjunct `Apply` the run refutes it.
- A promotion whose transaction is rejected after a merge stays in `draft-set.json` and
  the promotion log until they are reconciled, and a draft set whose payload comes with
  `promoted_decision_ids` keeps them: `SidecarNeverAhead` allows for both.
- A rollback of an import that gives up after it has removed the directory, and before
  it has restored the registry, leaves an entry without metadata. Every rebuild of the
  index then fails, and with it every import and decomposition; importing the document
  again fails because the registry already has it (`Savable`).
- Of the kinds of conflict in `_classify_conflict` (`conflicts.py:200`-205) only
  session-lifecycle-conflict matters to what is offered.

## 6. What is not modelled

- `object_unlinked`, taxonomy and classification events change nothing that the
  modelled guards read. The options a proposal recommends, the schema of single fields
  and all wording are data.
- A draft that names a decision as its support, and with it `apply_invalidation_candidate`
  inside `DecisionProtocol`: over the links of that module no decision influences another.
  `SafetyGuard` has candidates; their effect on a decision is the move `Replace` of the life
  cycle.
- What the search index holds: `SearchIsCurrent` (divergence 11) is refuted, and
  `QuietIsConsistent` says nothing of it. That a required target was taken down to one
  that is not (divergence 12) is not caught by `UnblockedIsClean`.
- Promotions that a merge brings into a branch with a draft set of its own.
- Of the kinds of merge conflict, those about links and about questions. A rejection that
  leaves a link dangling is therefore not seen.
- The source store and the safety gate are not composed with a turn of the interview:
  there, evidence is an input that stays valid and a refusal is always possible.
- Related sessions and suppression: `resolve_session_conflict` raises before it writes, so
  nothing is ever suppressed; `detect_session_conflicts` only reads.
- Search, classification, stale detection, impact report, domain packs (their safety rules
  are a constant of `SafetyGate`), documents and registers, GitHub and agent exporters,
  command line: they read one loaded bundle and write text.
- Power failure between a rename and its directory entry: the code fsyncs files and the
  model takes a replacement for durable.
- Users of one session who answer at the same time, and output that is lost after a
  transaction was committed: nothing in the program tells.
