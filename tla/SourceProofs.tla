----------------------------- MODULE SourceProofs -----------------------------
(*****************************************************************************)
(* What the source store guarantees whatever fails and whoever dies, for any *)
(* documents, strategies and processes.                                      *)
(*                                                                           *)
(* A writer changes one file after the other, so most of its states satisfy  *)
(* little.  The invariant says what the files are at each of its steps, as a *)
(* function of what they were when it took the lock and of the step it is    *)
(* at (FilesFollow).  A rollback starts at any step and puts back one file   *)
(* after the other: then each file is the old one or the new one, and those  *)
(* already put back are the old ones (UndoFollow).  What holds of the files  *)
(* is shown once, for all the steps of both, from what held of the old files *)
(* (SoundBetween), and once for the files of a writer that records           *)
(* (SoundRecorded, ConsistentRecorded).                                      *)
(* The second half follows the scan behind impact analysis: Reached is a     *)
(* function defined by recursion over the replacements.                      *)
(*****************************************************************************)
EXTENDS SourceStore, RecursionProofs, FiniteSetTheorems, SequenceTheorems

Own(d) == UNION {UnitsOf[d][s] : s \in Strategies}

-----------------------------------------------------------------------------
(* What a writer still has to do, as a function of its next step.            *)

ToProject == << "project" >>
ToRecord == << "record" >> \o ToProject
ToPublish == << "publish" >> \o ToRecord
ToRead == << "read" >> \o ToPublish
ToReset == << "reset" >> \o ToRead
ToList == << "list" >> \o ToReset
ToRegistry == << "registry" >> \o ToList
ToMetadata == << "metadata" >> \o ToRegistry
ToPreviousUnits == << "previous units" >> \o ToMetadata
ToPrevious == << "previous" >> \o ToPreviousUnits
ToUnits == << "units" >> \o ToMetadata

AfterRegistry == {"list", "reset", "read", "publish", "record", "project"}
AfterMetadata == AfterRegistry \cup {"registry"}
AfterPreviousUnits == AfterMetadata \cup {"metadata"}
AfterPrevious == AfterPreviousUnits \cup {"previous units"}
AfterDirectory == AfterPrevious \cup {"previous"}
WriterSteps == AfterDirectory \cup {"directory", "units"}

Works(c) == c.op \in {"import", "decompose"}

(* What a writer that rolls back still has to do.                            *)

ToUndoIndex == << "undo index" >>
ToUndoRegistry == << "undo registry" >> \o ToUndoIndex
ToUndoPreviousUnits == << "undo previous units" >> \o ToUndoRegistry
ToUndoPrevious == << "undo previous" >> \o ToUndoPreviousUnits
ToUndoMetadata == << "undo metadata" >> \o ToUndoRegistry
ToUndoUnits == << "undo units" >> \o ToUndoMetadata
ToUndoDirectory(prev) ==
    << "undo directory" >> \o (IF prev = Nobody THEN ToUndoRegistry ELSE ToUndoPrevious)
ToUndoFiles(prev) == << "undo files" >> \o ToUndoDirectory(prev)

\* The writer c undoes what it did, and is at step t.
UndoAt(c, t) ==
    \/ t = "undo index" /\ c.todo = ToUndoIndex
    \/ t = "undo registry" /\ c.todo = ToUndoRegistry
    \/ t = "undo previous units" /\ c.todo = ToUndoPreviousUnits /\ c.op = "import" /\ c.prev # Nobody
    \/ t = "undo previous" /\ c.todo = ToUndoPrevious /\ c.op = "import" /\ c.prev # Nobody
    \/ t = "undo directory" /\ c.todo = ToUndoDirectory(c.prev) /\ c.op = "import"
    \/ t = "undo files" /\ c.todo = ToUndoFiles(c.prev) /\ c.op = "import"
    \/ t = "undo metadata" /\ c.todo = ToUndoMetadata /\ c.op = "decompose"
    \/ t = "undo units" /\ c.todo = ToUndoUnits /\ c.op = "decompose"

\* The writer c is at step s.
At(c, s) ==
    \/ s = "project" /\ c.todo = ToProject
    \/ s = "record" /\ c.todo = ToRecord
    \/ s = "publish" /\ c.todo = ToPublish
    \/ s = "read" /\ c.todo = ToRead
    \/ s = "reset" /\ c.todo = ToReset
    \/ s = "list" /\ c.todo = ToList
    \/ s = "registry" /\ c.todo = ToRegistry
    \/ s = "metadata" /\ c.todo = ToMetadata
    \/ s = "previous units" /\ c.todo = ToPreviousUnits /\ c.op = "import" /\ c.prev # Nobody
    \/ s = "previous" /\ c.todo = ToPrevious /\ c.op = "import" /\ c.prev # Nobody
    \/ s = "units" /\ c.todo = ToUnits /\ c.op = "decompose"
    \/ s = "directory" /\ c.op = "import" /\ c.prev # Nobody /\ c.todo = << "directory" >> \o ToPrevious
    \/ s = "directory" /\ c.op = "import" /\ c.prev = Nobody /\ c.todo = << "directory" >> \o ToMetadata

-----------------------------------------------------------------------------
(* What the files are at each step of a writer c.                            *)

NewEntry(c) ==
    [count |-> Cardinality(c.new),
     until |-> IF c.op = "import" THEN Nobody ELSE c.old.metadata[c.doc].until]

MetadataAt(c, s) ==
    [d \in Docs |->
        IF d = c.doc /\ s \in AfterMetadata THEN NewEntry(c)
        ELSE IF d = c.prev /\ s \in AfterPrevious THEN [count |-> c.old.metadata[d].count, until |-> c.doc]
        ELSE c.old.metadata[d]]

UnitsAt(c, s) ==
    [d \in Docs |-> IF d = c.doc /\ s \notin {"directory", "units"} THEN c.new ELSE c.old.units[d]]

EndedAt(c, s) ==
    IF c.prev # Nobody /\ s \in AfterPreviousUnits THEN c.old.ended \cup {c.prev} ELSE c.old.ended

KeptBy(c) == DOMAIN c.old.registry \cup (IF c.op = "import" THEN {c.doc} ELSE {})

RegistryAt(c, s) ==
    IF s \in AfterRegistry
    THEN [d \in KeptBy(c) |->
             IF d = c.doc THEN NewEntry(c)
             ELSE IF d = c.prev THEN [count |-> c.old.metadata[d].count, until |-> c.doc]
             ELSE c.old.registry[d]]
    ELSE c.old.registry

\* The directories there were before the writer c, and those there are at step s.
PresentBefore(c, there) == IF c.op = "import" THEN there \ {c.doc} ELSE there

PresentAt(c, s, before) == IF c.op = "import" /\ s # "directory" THEN before \cup {c.doc} ELSE before

Follow(c, s) ==
    /\ metadata = MetadataAt(c, s) /\ units = UnitsAt(c, s)
    /\ ended = EndedAt(c, s) /\ registry = RegistryAt(c, s)
    /\ c.doc \in present <=> s # "directory"

Replaced(c) == [count |-> c.old.metadata[c.prev].count, until |-> c.doc]

\* Each file is the one the writer c found, or the one it writes.
Between(c, m, u, e, r, there) ==
    /\ m \in [Docs -> Entry \cup {NoMetadata}] /\ u \in [Docs -> SUBSET Units]
    /\ \A d \in Docs : \/ m[d] = c.old.metadata[d]
                       \/ d = c.doc /\ m[d] = NewEntry(c) /\ d \in there
                       \/ d = c.prev /\ c.op = "import" /\ m[d] = Replaced(c)
    /\ \A d \in Docs : u[d] = c.old.units[d] \/ (d = c.doc /\ c.op = "decompose" /\ u[d] = c.new)
    /\ e = c.old.ended \/ (c.prev # Nobody /\ e = c.old.ended \cup {c.prev})
    /\ r = c.old.registry \/ r = RegistryAt(c, "project")
    /\ there = PresentBefore(c, there) \/ c.op = "import"

\* What is put back before step t of a rollback, at which the files are these.
Undone(c, t, m, u, e, r, there) ==
    /\ Between(c, m, u, e, r, there)
    /\ t \notin {"undo files", "undo units", "undo metadata"} => m[c.doc] = c.old.metadata[c.doc]
    /\ t \notin {"undo files", "undo directory", "undo previous"} /\ c.prev # Nobody =>
          m[c.prev] = c.old.metadata[c.prev]
    /\ t \notin {"undo files", "undo units"} => u[c.doc] = c.old.units[c.doc]
    /\ t \notin {"undo files", "undo directory", "undo previous", "undo previous units"} =>
          e = c.old.ended
    /\ t = "undo index" => r = c.old.registry
    /\ t \notin {"undo files", "undo directory"} => there = PresentBefore(c, there)

UndoFollow(c, t) == Undone(c, t, metadata, units, ended, registry, present)

Following(p) ==
    \/ \E s \in WriterSteps : At(proc[p], s) /\ Follow(proc[p], s)
    \/ \E t \in UndoNames : UndoAt(proc[p], t) /\ UndoFollow(proc[p], t)

\* The files are those of the step of whoever is writing them.
FilesFollow == \A p \in Procs : Works(proc[p]) => Following(p)

-----------------------------------------------------------------------------
Registries == UNION {[D -> Entry] : D \in SUBSET Docs}

FilesTyped(m, u, e, r) ==
    /\ m \in [Docs -> Entry \cup {NoMetadata}]
    /\ u \in [Docs -> SUBSET Units]
    /\ e \subseteq Docs
    /\ r \in Registries

\* A command that may change files or the index.
CommandTyped(c) ==
    /\ c = [op |-> c.op, doc |-> c.doc, prev |-> c.prev, new |-> c.new, todo |-> c.todo,
            old |-> c.old, listed |-> c.listed, rows |-> c.rows]
    /\ c.op = "rebuild" =>
          c.todo \in {Rebuilding, << "reset", "read", "publish" >>, << "read", "publish" >>, << "publish" >>}
    /\ Works(c) =>
          /\ c.old = [metadata |-> c.old.metadata, units |-> c.old.units, ended |-> c.old.ended,
                      registry |-> c.old.registry, index |-> c.old.index]
          /\ FilesTyped(c.old.metadata, c.old.units, c.old.ended, c.old.registry)
          /\ c.doc \in Docs /\ c.prev \in Docs \cup {Nobody} /\ c.prev # c.doc
          /\ c.new = {} \/ \E s \in Strategies : c.new = UnitsOf[c.doc][s]
          /\ c.op = "import" => c.new = {}
          /\ c.op = "decompose" => c.prev = Nobody

ProcTyped(c) ==
    /\ c.op \in {"none", "link", "import", "decompose", "rebuild"}
    /\ c.op = "none" => c = Idle
    /\ c.op = "link" => c.unit \in Units /\ c.todo \in {<< >>, << "show" >>}
    /\ c.op \in {"import", "decompose", "rebuild"} => CommandTyped(c)

\* The command c has linked evidence that the projections do not show yet.
Shows(c) == c.op = "link" /\ c.todo = << "show" >>

Typed ==
    /\ FilesTyped(metadata, units, ended, registry)
    /\ present \subseteq Docs
    /\ evidence \subseteq Units /\ shown \subseteq evidence
    /\ audit = [imported |-> audit.imported, versions |-> audit.versions]
    /\ audit.imported \subseteq Docs /\ audit.versions \in Seq(Docs \X Docs)
    /\ stops \in Nat
    /\ DOMAIN proc = Procs /\ lock \in Procs \cup {Nobody}
    /\ \A p \in Procs : ProcTyped(proc[p]) /\ (Works(proc[p]) \/ Shows(proc[p]) <=> lock = p)

-----------------------------------------------------------------------------
\* What holds of the files and of the audit log a, whatever stopped half way:
\* nothing is recorded that is not there, and nothing is there without its
\* directory.  The documents of loose are those of imports that are under way,
\* or were left half done: until they are recorded, they may be named without
\* being there.
Sound(m, u, r, there, a, loose) ==
    /\ \A d \in Docs : m[d] # NoMetadata => d \in there
    /\ \A d \in Docs : u[d] \subseteq Own(d) /\ (u[d] # {} => d \in there)
    /\ \A d \in Docs : m[d].until # Nobody => m[d].until \in there \cup loose
    /\ DOMAIN r \subseteq there \cup loose
    /\ \A d \in a.imported : d \in there /\ m[d] # NoMetadata /\ d \in DOMAIN r
    /\ \A i \in DOMAIN a.versions :
          a.versions[i][1] \in a.imported /\ m[a.versions[i][2]].until # Nobody
    /\ \A d \in Docs : m[d].until \in a.imported \ loose =>
          \E i \in DOMAIN a.versions : a.versions[i][1] = m[d].until /\ a.versions[i][2] = d

\* The documents whose import was left half done.
LeftBy(i) == {d \in Docs : << "import", d >> \in i}
Left == LeftBy(interrupted)

\* The document of an import that has not recorded.
Importing(c) == IF c.op = "import" /\ c.todo # ToProject THEN {c.doc} ELSE {}

LooseIn(i, P) == LeftBy(i) \cup UNION {Importing(P[p]) : p \in Procs}
Loose == LooseIn(interrupted, proc)

\* A version that replaces another one was new then.
OlderFirst(versions) ==
    /\ \A i \in DOMAIN versions : versions[i][1] # versions[i][2]
    /\ \A i, j \in DOMAIN versions : i < j => versions[j][1] \notin {versions[i][1], versions[i][2]}

\* A writer works on documents that are there.
Grounded(c) ==
    /\ c.op = "import" => c.prev = Nobody \/ c.old.metadata[c.prev] # NoMetadata
    /\ c.op = "decompose" => c.old.metadata[c.doc] # NoMetadata

OldSound(c, there, a, loose) ==
    Grounded(c) /\ Sound(c.old.metadata, c.old.units, c.old.registry, PresentBefore(c, there), a, loose)

\* What a writer that has not recorded found was sound.
OldIsSound ==
    \A p \in Procs : Works(proc[p]) /\ proc[p].todo # ToProject => OldSound(proc[p], present, audit, Left)

\* A writer does not drop the units that are cited.
KeepsCited ==
    \A p \in Procs : proc[p].op = "decompose" => LinkedUnits(proc[p].doc) \subseteq proc[p].new

\* What the projections do not show yet is recorded.
ShowsCited == \A p \in Procs : Shows(proc[p]) => proc[p].unit \in evidence

\* What holds of the files when nobody is at work and nothing was left half done.
Consistent(m, u, e, r, there, a) ==
    /\ there = a.imported /\ DOMAIN r = there /\ e \subseteq there
    /\ \A d \in there :
          /\ m[d] # NoMetadata /\ m[d].count = Cardinality(u[d]) /\ r[d] = m[d]
          /\ m[d].until # Nobody <=> d \in e

OldConsistent(c, there, a) ==
    Consistent(c.old.metadata, c.old.units, c.old.ended, c.old.registry, PresentBefore(c, there), a)

Reconciled ==
    interrupted = {} =>
        /\ (\A p \in Procs : Works(proc[p]) => proc[p].todo = ToProject) =>
               Consistent(metadata, units, ended, registry, present, audit)
        /\ \A p \in Procs : Works(proc[p]) /\ proc[p].todo # ToProject =>
               OldConsistent(proc[p], present, audit)

IInv ==
    /\ Typed
    /\ FilesFollow
    /\ Sound(metadata, units, registry, present, audit, Loose) /\ OlderFirst(audit.versions)
    /\ OldIsSound /\ KeepsCited /\ ShowsCited
    /\ Reconciled

-----------------------------------------------------------------------------
(* The steps of a writer.                                                    *)

LEMMA Push ==
    ASSUME NEW S, NEW e \in S, NEW t \in Seq(S)
    PROVE  /\ << e >> \o t \in Seq(S) /\ << e >> \o t # << >>
           /\ Head(<< e >> \o t) = e /\ Tail(<< e >> \o t) = t
<1>1. << e >> \in Seq(S) /\ Len(<< e >>) = 1 /\ << e >>[1] = e
    OBVIOUS
<1>2. << e >> \o t \in Seq(S) /\ Len(<< e >> \o t) = 1 + Len(t)
    BY <1>1
<1>3. << e >> \o t # << >> /\ Head(<< e >> \o t) = e
    BY <1>1, <1>2
<1>4. Tail(<< e >> \o t) = t
    BY <1>1, <1>2
<1>5. QED
    BY <1>2, <1>3, <1>4

LEMMA TodosTyped ==
    /\ ToProject \in Seq(WriterSteps)
    /\ ToRecord \in Seq(WriterSteps)
    /\ ToPublish \in Seq(WriterSteps)
    /\ ToRead \in Seq(WriterSteps)
    /\ ToReset \in Seq(WriterSteps)
    /\ ToList \in Seq(WriterSteps)
    /\ ToRegistry \in Seq(WriterSteps)
    /\ ToMetadata \in Seq(WriterSteps)
    /\ ToPreviousUnits \in Seq(WriterSteps)
    /\ ToPrevious \in Seq(WriterSteps)
    /\ ToUnits \in Seq(WriterSteps)
<1>0. {"project", "record", "publish", "read", "reset", "list", "registry", "metadata",
       "previous units", "previous", "units"} \subseteq WriterSteps
    BY DEF WriterSteps, AfterDirectory, AfterPrevious, AfterPreviousUnits, AfterMetadata, AfterRegistry
<1>1. ToProject \in Seq(WriterSteps)
    <2>1. "project" \in WriterSteps
        BY <1>0
    <2> HIDE DEF WriterSteps
    <2>2. QED
        BY <2>1 DEF ToProject
<1>2. ToRecord \in Seq(WriterSteps)
    BY <1>0, <1>1, Push DEF ToRecord
<1>3. ToPublish \in Seq(WriterSteps)
    BY <1>0, <1>2, Push DEF ToPublish
<1>4. ToRead \in Seq(WriterSteps)
    BY <1>0, <1>3, Push DEF ToRead
<1>5. ToReset \in Seq(WriterSteps)
    BY <1>0, <1>4, Push DEF ToReset
<1>6. ToList \in Seq(WriterSteps)
    BY <1>0, <1>5, Push DEF ToList
<1>7. ToRegistry \in Seq(WriterSteps)
    BY <1>0, <1>6, Push DEF ToRegistry
<1>8. ToMetadata \in Seq(WriterSteps)
    BY <1>0, <1>7, Push DEF ToMetadata
<1>9. ToPreviousUnits \in Seq(WriterSteps)
    BY <1>0, <1>8, Push DEF ToPreviousUnits
<1>10. ToPrevious \in Seq(WriterSteps)
    BY <1>0, <1>9, Push DEF ToPrevious
<1>11. ToUnits \in Seq(WriterSteps)
    BY <1>0, <1>8, Push DEF ToUnits
<1>12. QED
    BY <1>1, <1>2, <1>3, <1>4, <1>5, <1>6, <1>7, <1>8, <1>9, <1>10, <1>11

LEMMA ImportIsChain ==
    ASSUME NEW prev
    PROVE  ImportSteps(prev) = IF prev = Nobody THEN << "directory" >> \o ToMetadata
                               ELSE << "directory" >> \o ToPrevious
<1>1. Saving = ToMetadata
    BY DEF Saving, Rebuilding, ToMetadata, ToRegistry, ToList, ToReset, ToRead, ToPublish,
           ToRecord, ToProject
<1>2. QED
    BY <1>1 DEF ImportSteps, ToPrevious, ToPreviousUnits

LEMMA DecomposeIsChain == DecomposeSteps = ToUnits
BY DEF DecomposeSteps, Saving, Rebuilding, ToUnits, ToMetadata, ToRegistry, ToList, ToReset,
       ToRead, ToPublish, ToRecord, ToProject

(* A writer at step s has s first to do; once it is done it is at the next.  *)
NextStep(c, s) ==
    CASE s = "directory" -> IF c.prev = Nobody THEN "metadata" ELSE "previous"
      [] s = "previous" -> "previous units"
      [] s = "previous units" -> "metadata"
      [] s = "units" -> "metadata"
      [] s = "metadata" -> "registry"
      [] s = "registry" -> "list"
      [] s = "list" -> "reset"
      [] s = "reset" -> "read"
      [] s = "read" -> "publish"
      [] s = "publish" -> "record"
      [] OTHER -> "project"

LEMMA Advance ==
    ASSUME NEW c, NEW s \in WriterSteps, At(c, s)
    PROVE  /\ c.todo \in Seq(WriterSteps) /\ c.todo # << >> /\ Head(c.todo) = s
           /\ s # "project" => \A d : d.todo = Tail(c.todo) /\ d.op = c.op /\ d.prev = c.prev =>
                                        At(d, NextStep(c, s))
<1>0. /\ "directory" \in WriterSteps /\ "previous" \in WriterSteps
      /\ "previous units" \in WriterSteps /\ "metadata" \in WriterSteps
      /\ "registry" \in WriterSteps /\ "record" \in WriterSteps /\ "project" \in WriterSteps
      /\ "list" \in WriterSteps /\ "reset" \in WriterSteps /\ "units" \in WriterSteps
      /\ "read" \in WriterSteps /\ "publish" \in WriterSteps
    BY DEF WriterSteps, AfterDirectory, AfterPrevious, AfterPreviousUnits, AfterMetadata, AfterRegistry
<1> DEFINE Good(t, x, y) == t \in Seq(WriterSteps) /\ t # << >> /\ Head(t) = x /\ Tail(t) = y
<1>1. Good(ToRecord, "record", ToProject)
    BY <1>0, TodosTyped, Push DEF ToRecord
<1>2. Good(ToPublish, "publish", ToRecord)
    BY <1>0, TodosTyped, Push DEF ToPublish
<1>3. Good(ToRead, "read", ToPublish)
    BY <1>0, TodosTyped, Push DEF ToRead
<1>4. Good(ToReset, "reset", ToRead)
    BY <1>0, TodosTyped, Push DEF ToReset
<1>5. Good(ToList, "list", ToReset)
    BY <1>0, TodosTyped, Push DEF ToList
<1>6. Good(ToRegistry, "registry", ToList)
    BY <1>0, TodosTyped, Push DEF ToRegistry
<1>7. Good(ToMetadata, "metadata", ToRegistry)
    BY <1>0, TodosTyped, Push DEF ToMetadata
<1>8. Good(ToPreviousUnits, "previous units", ToMetadata)
    BY <1>0, TodosTyped, Push DEF ToPreviousUnits
<1>9. Good(ToPrevious, "previous", ToPreviousUnits)
    BY <1>0, TodosTyped, Push DEF ToPrevious
<1>10. Good(ToUnits, "units", ToMetadata)
    BY <1>0, TodosTyped, Push DEF ToUnits
<1>11. Good(<< "directory" >> \o ToPrevious, "directory", ToPrevious)
    BY <1>0, TodosTyped, Push
<1>12. Good(<< "directory" >> \o ToMetadata, "directory", ToMetadata)
    BY <1>0, TodosTyped, Push
<1>13. ToProject \in Seq(WriterSteps) /\ ToProject # << >> /\ Head(ToProject) = "project"
    BY TodosTyped DEF ToProject
<1>14. CASE s = "record"
    BY <1>1, <1>14 DEF At, NextStep
<1>15. CASE s = "publish"
    BY <1>2, <1>15 DEF At, NextStep
<1>16. CASE s = "read"
    BY <1>3, <1>16 DEF At, NextStep
<1>17. CASE s = "reset"
    BY <1>4, <1>17 DEF At, NextStep
<1>18. CASE s = "list"
    BY <1>5, <1>18 DEF At, NextStep
<1>19. CASE s = "registry"
    BY <1>6, <1>19 DEF At, NextStep
<1>20. CASE s = "metadata"
    BY <1>7, <1>20 DEF At, NextStep
<1>21. CASE s = "previous units"
    BY <1>8, <1>21 DEF At, NextStep
<1>22. CASE s = "previous"
    BY <1>9, <1>22 DEF At, NextStep
<1>23. CASE s = "units"
    BY <1>10, <1>23 DEF At, NextStep
<1>24. CASE s = "directory"
    BY <1>11, <1>12, <1>24 DEF At, NextStep
<1>25. CASE s = "project"
    BY <1>13, <1>25 DEF At
<1>26. QED
    BY <1>14, <1>15, <1>16, <1>17, <1>18, <1>19, <1>20, <1>21, <1>22, <1>23, <1>24, <1>25
    DEF WriterSteps, AfterDirectory, AfterPrevious, AfterPreviousUnits, AfterMetadata, AfterRegistry

(* The same of a rollback.                                                   *)
NextUndo(c, t) ==
    CASE t = "undo files" -> "undo directory"
      [] t = "undo directory" -> IF c.prev = Nobody THEN "undo registry" ELSE "undo previous"
      [] t = "undo previous" -> "undo previous units"
      [] t = "undo previous units" -> "undo registry"
      [] t = "undo units" -> "undo metadata"
      [] t = "undo metadata" -> "undo registry"
      [] OTHER -> "undo index"

LEMMA OneStep ==
    ASSUME NEW S, NEW e \in S
    PROVE  << e >> \in Seq(S) /\ << e >> # << >> /\ Head(<< e >>) = e
    OBVIOUS

(* A tuple is its first element before a shorter one.                        *)
LEMMA FourSteps ==
    ASSUME NEW a, NEW b, NEW c, NEW d
    PROVE  << a, b, c, d >> = << a >> \o (<< b >> \o (<< c >> \o << d >>))
<1> DEFINE S == {a, b, c, d}
           v == << a, b, c, d >>
           w == << a >> \o (<< b >> \o (<< c >> \o << d >>))
<1>1. v \in Seq(S) /\ Len(v) = 4
    OBVIOUS
<1>2. w \in Seq(S) /\ Len(w) = 4
    OBVIOUS
<1>3. \A i \in 1 .. 4 : v[i] = w[i]
    OBVIOUS
<1> HIDE DEF S, v, w
<1>4. v = w
    BY <1>1, <1>2, <1>3, SeqEqual
<1>5. QED
    BY <1>4 DEF v, w

LEMMA TwoSteps ==
    ASSUME NEW S, NEW a \in S, NEW b \in S, NEW s \in Seq(S)
    PROVE  << a, b >> \o s = << a >> \o (<< b >> \o s)
<1> DEFINE v == << a, b >>
           x == << a >>
           y == << b >>
           w == x \o y
<1>1. v \in Seq(S) /\ w \in Seq(S) /\ Len(v) = 2 /\ Len(w) = 2
    OBVIOUS
<1>2. \A i \in 1 .. 2 : v[i] = w[i]
    OBVIOUS
<1>3. x \in Seq(S) /\ y \in Seq(S)
    OBVIOUS
<1> HIDE DEF v, w
<1>4. v = w
    BY <1>1, <1>2, SeqEqual
<1> HIDE DEF x, y
<1>5. (x \o y) \o s = x \o (y \o s)
    BY <1>3, ConcatAssociative
<1>6. v \o s = x \o (y \o s)
    BY <1>4, <1>5 DEF w
<1>7. QED
    BY <1>6 DEF v, x, y

LEMMA UndoTodosTyped ==
    /\ ToUndoIndex \in Seq(UndoNames)
    /\ ToUndoRegistry \in Seq(UndoNames)
    /\ ToUndoPreviousUnits \in Seq(UndoNames)
    /\ ToUndoPrevious \in Seq(UndoNames)
    /\ ToUndoMetadata \in Seq(UndoNames)
    /\ ToUndoUnits \in Seq(UndoNames)
    /\ \A v : ToUndoDirectory(v) \in Seq(UndoNames)
    /\ \A v : ToUndoFiles(v) \in Seq(UndoNames)
<1>0. {"undo files", "undo directory", "undo previous", "undo previous units", "undo units",
       "undo metadata", "undo registry", "undo index"} \subseteq UndoNames
    BY DEF UndoNames
<1>1. ToUndoIndex \in Seq(UndoNames)
    BY <1>0, OneStep, Zenon DEF ToUndoIndex
<1>2. ToUndoRegistry \in Seq(UndoNames)
    BY <1>0, <1>1, Push DEF ToUndoRegistry
<1>3. ToUndoPreviousUnits \in Seq(UndoNames)
    BY <1>0, <1>2, Push DEF ToUndoPreviousUnits
<1>4. ToUndoPrevious \in Seq(UndoNames)
    BY <1>0, <1>3, Push DEF ToUndoPrevious
<1>5. ToUndoMetadata \in Seq(UndoNames)
    BY <1>0, <1>2, Push DEF ToUndoMetadata
<1>6. ToUndoUnits \in Seq(UndoNames)
    BY <1>0, <1>5, Push DEF ToUndoUnits
<1>7. \A v : ToUndoDirectory(v) \in Seq(UndoNames)
    BY <1>0, <1>2, <1>4, Push DEF ToUndoDirectory
<1>8. \A v : ToUndoFiles(v) \in Seq(UndoNames)
    BY <1>0, <1>7, Push DEF ToUndoFiles
<1>9. QED
    BY <1>1, <1>2, <1>3, <1>4, <1>5, <1>6, <1>7, <1>8

LEMMA UndoIsChain ==
    ASSUME NEW c, Works(c)
    PROVE  UndoSteps(c) = IF c.op = "import" THEN ToUndoFiles(c.prev) ELSE ToUndoUnits
<1>1. << "undo units", "undo metadata", "undo registry", "undo index" >> = ToUndoUnits
    BY FourSteps, Zenon DEF ToUndoUnits, ToUndoMetadata, ToUndoRegistry, ToUndoIndex
<1>2. << "undo files", "undo directory", "undo registry", "undo index" >> = ToUndoFiles(Nobody)
    BY FourSteps, Zenon DEF ToUndoFiles, ToUndoDirectory, ToUndoRegistry, ToUndoIndex
<1>3. ASSUME NEW v, v # Nobody
      PROVE  << "undo files", "undo directory" >>
                 \o << "undo previous", "undo previous units", "undo registry", "undo index" >> =
                 ToUndoFiles(v)
    <2>1. << "undo previous", "undo previous units", "undo registry", "undo index" >> = ToUndoPrevious
        BY FourSteps, Zenon DEF ToUndoPrevious, ToUndoPreviousUnits, ToUndoRegistry, ToUndoIndex
    <2>2. "undo files" \in UndoNames /\ "undo directory" \in UndoNames
        BY DEF UndoNames
    <2>3. << "undo files", "undo directory" >> \o ToUndoPrevious =
              << "undo files" >> \o (<< "undo directory" >> \o ToUndoPrevious)
        <3>1. ToUndoPrevious \in Seq(UndoNames)
            BY UndoTodosTyped
        <3>2. ASSUME NEW a \in UndoNames, NEW b \in UndoNames
              PROVE  << a, b >> \o ToUndoPrevious = << a >> \o (<< b >> \o ToUndoPrevious)
            BY <3>1, TwoSteps
        <3>3. QED
            BY ONLY <2>2, <3>2, Zenon
    <2>4. ToUndoDirectory(v) = << "undo directory" >> \o ToUndoPrevious
        BY <1>3, Zenon DEF ToUndoDirectory
    <2>5. QED
        BY <2>1, <2>3, <2>4, Zenon DEF ToUndoFiles
<1>4. CASE c.op = "decompose"
    BY <1>1, <1>4 DEF UndoSteps
<1>5. CASE c.op = "import" /\ c.prev = Nobody
    BY <1>2, <1>5 DEF UndoSteps
<1>6. CASE c.op = "import" /\ c.prev # Nobody
    BY <1>3, <1>6 DEF UndoSteps
<1>7. QED
    BY <1>4, <1>5, <1>6 DEF Works

LEMMA UndoAdvance ==
    ASSUME NEW c, NEW t \in UndoNames, UndoAt(c, t)
    PROVE  /\ c.todo \in Seq(UndoNames) /\ c.todo # << >> /\ Head(c.todo) = t
           /\ t # "undo index" => \A d : d.todo = Tail(c.todo) /\ d.op = c.op /\ d.prev = c.prev =>
                                           UndoAt(d, NextUndo(c, t))
<1>0. /\ "undo files" \in UndoNames /\ "undo directory" \in UndoNames /\ "undo previous" \in UndoNames
      /\ "undo previous units" \in UndoNames /\ "undo units" \in UndoNames
      /\ "undo metadata" \in UndoNames /\ "undo registry" \in UndoNames /\ "undo index" \in UndoNames
    BY DEF UndoNames
<1> DEFINE Good(x, h, y) == x \in Seq(UndoNames) /\ x # << >> /\ Head(x) = h /\ Tail(x) = y
<1>1. ToUndoIndex \in Seq(UndoNames) /\ ToUndoIndex # << >> /\ Head(ToUndoIndex) = "undo index"
    BY <1>0, OneStep, Zenon DEF ToUndoIndex
<1>2. Good(ToUndoRegistry, "undo registry", ToUndoIndex)
    BY <1>0, UndoTodosTyped, Push DEF ToUndoRegistry
<1>3. Good(ToUndoPreviousUnits, "undo previous units", ToUndoRegistry)
    BY <1>0, UndoTodosTyped, Push DEF ToUndoPreviousUnits
<1>4. Good(ToUndoPrevious, "undo previous", ToUndoPreviousUnits)
    BY <1>0, UndoTodosTyped, Push DEF ToUndoPrevious
<1>5. Good(ToUndoMetadata, "undo metadata", ToUndoRegistry)
    BY <1>0, UndoTodosTyped, Push DEF ToUndoMetadata
<1>6. Good(ToUndoUnits, "undo units", ToUndoMetadata)
    BY <1>0, UndoTodosTyped, Push DEF ToUndoUnits
<1>7. \A v : Good(ToUndoDirectory(v), "undo directory",
                 IF v = Nobody THEN ToUndoRegistry ELSE ToUndoPrevious)
    BY <1>0, UndoTodosTyped, Push DEF ToUndoDirectory
<1>8. \A v : Good(ToUndoFiles(v), "undo files", ToUndoDirectory(v))
    BY <1>0, UndoTodosTyped, Push DEF ToUndoFiles
<1>9. CASE t = "undo index"
    BY <1>1, <1>9 DEF UndoAt
<1>10. CASE t = "undo registry"
    BY <1>2, <1>10 DEF UndoAt, NextUndo
<1>11. CASE t = "undo previous units"
    BY <1>3, <1>11 DEF UndoAt, NextUndo
<1>12. CASE t = "undo previous"
    BY <1>4, <1>12 DEF UndoAt, NextUndo
<1>13. CASE t = "undo metadata"
    BY <1>5, <1>13 DEF UndoAt, NextUndo
<1>14. CASE t = "undo units"
    BY <1>6, <1>14 DEF UndoAt, NextUndo
<1>15. CASE t = "undo directory"
    BY <1>7, <1>15 DEF UndoAt, NextUndo
<1>16. CASE t = "undo files"
    BY <1>8, <1>16 DEF UndoAt, NextUndo
<1>17. QED
    BY <1>9, <1>10, <1>11, <1>12, <1>13, <1>14, <1>15, <1>16 DEF UndoNames

-----------------------------------------------------------------------------
(* What holds of the files at each step of a writer.                         *)

LEMMA NobodyIsElse == Nobody \notin Docs /\ Nobody \notin Procs
BY NobodyAssumption

LEMMA StepSets ==
    /\ AfterMetadata \subseteq AfterPrevious /\ AfterRegistry \subseteq AfterMetadata
    /\ "directory" \notin AfterPrevious /\ "units" \notin AfterPrevious
BY DEF AfterPrevious, AfterPreviousUnits, AfterMetadata, AfterRegistry

LEMMA NewIsCounted ==
    ASSUME NEW c, CommandTyped(c), Works(c)
    PROVE  /\ Cardinality(c.new) \in Nat /\ NewEntry(c) # NoMetadata /\ c.new \subseteq Own(c.doc)
           /\ NewEntry(c).count = Cardinality(c.new)
           /\ NewEntry(c).until = IF c.op = "import" THEN Nobody ELSE c.old.metadata[c.doc].until
           /\ NewEntry(c) \in Entry
<1>1. c.new = {} \/ \E s \in Strategies : c.new = UnitsOf[c.doc][s]
    BY DEF CommandTyped
<1>2. IsFiniteSet(c.new)
    BY <1>1, UnitsAssumption, FS_EmptySet DEF CommandTyped
<1>3. Cardinality(c.new) \in Nat
    BY <1>2, FS_CardinalityType
<1>4. c.new \subseteq Own(c.doc)
    BY <1>1 DEF Own
<1>5. c.old.metadata[c.doc] \in Entry \cup {NoMetadata}
    BY DEF CommandTyped, FilesTyped
<1>6. c.old.metadata[c.doc].until \in Docs \cup {Nobody}
    BY <1>5 DEF Entry, NoMetadata
<1> DEFINE until == IF c.op = "import" THEN Nobody ELSE c.old.metadata[c.doc].until
<1>7. until \in Docs \cup {Nobody}
    BY <1>6
<1> HIDE DEF until
<1>8. NewEntry(c) = [count |-> Cardinality(c.new), until |-> until]
    BY DEF NewEntry, until
<1>9. NewEntry(c) # NoMetadata
    BY <1>3, <1>8 DEF NoMetadata
<1>10. NewEntry(c) \in Entry
    BY <1>3, <1>7, <1>8 DEF Entry
<1>11. QED
    BY <1>3, <1>4, <1>8, <1>9, <1>10 DEF until

\* The versions a writer works on were there, except the one it imports.
LEMMA WorksOnKnown ==
    ASSUME NEW c, NEW before, NEW a, NEW loose, CommandTyped(c), Works(c), Grounded(c),
           Sound(c.old.metadata, c.old.units, c.old.registry, before, a, loose)
    PROVE  /\ c.doc \in Docs
           /\ c.op = "decompose" => c.doc \in before
           /\ c.prev # Nobody => c.prev \in Docs /\ c.prev \in before /\ c.op = "import"
BY NobodyIsElse DEF CommandTyped, Works, Grounded, Sound

LEMMA EntryAt ==
    ASSUME NEW c, NEW s \in WriterSteps, CommandTyped(c), Works(c), NEW d \in Docs
    PROVE  /\ d = c.doc /\ s \in AfterMetadata => MetadataAt(c, s)[d] = NewEntry(c)
           /\ d # c.doc /\ d = c.prev /\ s \in AfterPrevious =>
                 /\ MetadataAt(c, s)[d] # NoMetadata
                 /\ MetadataAt(c, s)[d].until = c.doc
                 /\ MetadataAt(c, s)[d].count = c.old.metadata[d].count
           /\ ~ (d = c.doc /\ s \in AfterMetadata) /\ ~ (d = c.prev /\ s \in AfterPrevious) =>
                 MetadataAt(c, s)[d] = c.old.metadata[d]
<1>1. c.doc # Nobody /\ c.doc # c.prev
    BY NobodyIsElse DEF CommandTyped
<1>2. [count |-> c.old.metadata[d].count, until |-> c.doc] # NoMetadata
    BY <1>1 DEF NoMetadata
<1>3. QED
    BY <1>1, <1>2 DEF MetadataAt

\* At every step of a writer the files are of their types.
LEMMA TypedAt ==
    ASSUME NEW c, NEW s \in WriterSteps, CommandTyped(c), Works(c), Grounded(c)
    PROVE  FilesTyped(MetadataAt(c, s), UnitsAt(c, s), EndedAt(c, s), RegistryAt(c, s))
<1> DEFINE m == c.old.metadata  u == c.old.units  e == c.old.ended  r == c.old.registry
           replaced(d) == [count |-> m[d].count, until |-> c.doc]
<1>1. /\ m \in [Docs -> Entry \cup {NoMetadata}] /\ u \in [Docs -> SUBSET Units] /\ e \subseteq Docs
      /\ r \in Registries /\ c.doc \in Docs /\ c.prev \in Docs \cup {Nobody} /\ c.prev # c.doc
      /\ c.op = "decompose" => c.prev = Nobody
    BY DEF CommandTyped, FilesTyped
<1>2. NewEntry(c) \in Entry /\ c.new \subseteq Units
    BY <1>1, NewIsCounted DEF Own, Units
<1>3. ASSUME NEW d \in Docs, d = c.prev PROVE replaced(d) \in Entry
    <2>1. m[d] \in Entry
        BY <1>1, <1>3, NobodyIsElse DEF Grounded, Works
    <2>2. QED
        BY <1>1, <2>1 DEF Entry
<1> HIDE DEF replaced
<1>4. MetadataAt(c, s) \in [Docs -> Entry \cup {NoMetadata}]
    BY <1>1, <1>2, <1>3 DEF MetadataAt, replaced
<1>5. UnitsAt(c, s) \in [Docs -> SUBSET Units]
    BY <1>1, <1>2 DEF UnitsAt
<1>6. EndedAt(c, s) \subseteq Docs
    BY <1>1 DEF EndedAt
<1>7. RegistryAt(c, s) \in Registries
    <2>1. PICK D \in SUBSET Docs : r \in [D -> Entry]
        BY <1>1 DEF Registries
    <2>2. CASE s \in AfterRegistry
        <3>1. KeptBy(c) \subseteq Docs /\ \A d \in KeptBy(c) : d # c.doc => d \in D
            BY <1>1, <2>1 DEF KeptBy
        <3>2. RegistryAt(c, s) = [d \in KeptBy(c) |-> IF d = c.doc THEN NewEntry(c)
                                     ELSE IF d = c.prev THEN replaced(d) ELSE r[d]]
            BY <2>2 DEF RegistryAt, replaced
        <3>3. RegistryAt(c, s) \in [KeptBy(c) -> Entry]
            BY <1>2, <1>3, <2>1, <3>1, <3>2
        <3>4. QED
            BY <3>1, <3>3 DEF Registries
    <2>3. CASE s \notin AfterRegistry
        BY <1>1, <2>3 DEF RegistryAt
    <2>4. QED
        BY <2>2, <2>3
<1>8. QED
    BY <1>4, <1>5, <1>6, <1>7 DEF FilesTyped

\* Where each file is the old or the new one, they are of their types.
LEMMA TypedBetween ==
    ASSUME NEW c, NEW m, NEW u, NEW e, NEW r, NEW there, CommandTyped(c), Works(c), Grounded(c),
           Between(c, m, u, e, r, there)
    PROVE  FilesTyped(m, u, e, r)
<1>1. "project" \in WriterSteps
    BY DEF WriterSteps, AfterDirectory, AfterPrevious, AfterPreviousUnits, AfterMetadata, AfterRegistry
<1>2. RegistryAt(c, "project") \in Registries
    BY <1>1, TypedAt DEF FilesTyped
<1>3. c.old.registry \in Registries /\ c.old.ended \subseteq Docs /\ c.prev \in Docs \cup {Nobody}
    BY DEF CommandTyped, FilesTyped
<1>4. QED
    BY <1>2, <1>3 DEF FilesTyped, Between

\* At every step of a writer each file is the old or the new one.
LEMMA FollowIsBetween ==
    ASSUME NEW c, NEW s \in WriterSteps, NEW there, NEW a, NEW loose, CommandTyped(c), Works(c), Grounded(c),
           s # "directory" => c.doc \in there,
           Sound(c.old.metadata, c.old.units, c.old.registry, PresentBefore(c, there), a, loose)
    PROVE  Between(c, MetadataAt(c, s), UnitsAt(c, s), EndedAt(c, s), RegistryAt(c, s), there)
<1> DEFINE M == MetadataAt(c, s)  U == UnitsAt(c, s)
<1>1. M \in [Docs -> Entry \cup {NoMetadata}] /\ U \in [Docs -> SUBSET Units]
    BY TypedAt DEF FilesTyped
<1>2. s \in AfterMetadata => s # "directory"
    BY StepSets
<1>3. ASSUME NEW d \in Docs
      PROVE  \/ M[d] = c.old.metadata[d]
             \/ d = c.doc /\ M[d] = NewEntry(c) /\ d \in there
             \/ d = c.prev /\ c.op = "import" /\ M[d] = Replaced(c)
    <2>1. M[d] = IF d = c.doc /\ s \in AfterMetadata THEN NewEntry(c)
                 ELSE IF d = c.prev /\ s \in AfterPrevious
                      THEN [count |-> c.old.metadata[d].count, until |-> c.doc]
                 ELSE c.old.metadata[d]
        BY DEF MetadataAt
    <2>2. d = c.prev => c.op = "import"
        BY NobodyIsElse DEF CommandTyped, Works
    <2> HIDE DEF M
    <2>3. QED
        BY <1>2, <2>1, <2>2 DEF Replaced
<1>4. ASSUME NEW d \in Docs
      PROVE  U[d] = c.old.units[d] \/ (d = c.doc /\ c.op = "decompose" /\ U[d] = c.new)
    <2>1. U[d] = IF d = c.doc /\ s \notin {"directory", "units"} THEN c.new ELSE c.old.units[d]
        BY DEF UnitsAt
    <2>2. c.op = "import" => c.new = {} /\ c.old.units[c.doc] = {}
        BY DEF CommandTyped, Sound, PresentBefore
    <2> HIDE DEF U
    <2>3. QED
        BY <2>1, <2>2 DEF Works
<1>5. /\ EndedAt(c, s) = c.old.ended \/ (c.prev # Nobody /\ EndedAt(c, s) = c.old.ended \cup {c.prev})
      /\ RegistryAt(c, s) = c.old.registry \/ RegistryAt(c, s) = RegistryAt(c, "project")
    BY DEF EndedAt, RegistryAt, AfterRegistry
<1>6. there = PresentBefore(c, there) \/ c.op = "import"
    BY DEF PresentBefore
<1>7. QED
    BY <1>1, <1>3, <1>4, <1>5, <1>6 DEF Between

\* Sound files stay sound where each of them is the old or the new one; the
\* document of an import may be named before it is there, and after.
LEMMA SoundBetween ==
    ASSUME NEW c, NEW M, NEW U, NEW E, NEW R, NEW there, NEW a, NEW loose,
           CommandTyped(c), Works(c), Grounded(c), Between(c, M, U, E, R, there),
           a.imported \subseteq Docs, a.versions \in Seq(Docs \X Docs),
           Sound(c.old.metadata, c.old.units, c.old.registry, PresentBefore(c, there), a, loose)
    PROVE  Sound(M, U, R, there, a, loose \cup (IF c.op = "import" THEN {c.doc} ELSE {}))
<1> DEFINE m == c.old.metadata  u == c.old.units  r == c.old.registry
           before == PresentBefore(c, there)
           more == loose \cup (IF c.op = "import" THEN {c.doc} ELSE {})
<1>1. /\ c.doc \in Docs /\ c.doc # c.prev /\ c.doc # Nobody
      /\ c.op = "decompose" => c.doc \in before
      /\ c.prev # Nobody => c.prev \in Docs /\ c.prev \in before /\ c.op = "import"
    BY WorksOnKnown, NobodyIsElse DEF CommandTyped
<1>2. /\ before \subseteq there /\ (c.op = "import" => c.doc \notin before)
      /\ loose \subseteq more /\ (c.op = "import" => c.doc \in more)
    BY DEF PresentBefore
<1>3. /\ NewEntry(c) # NoMetadata /\ c.new \subseteq Own(c.doc)
      /\ NewEntry(c).until = IF c.op = "import" THEN Nobody ELSE m[c.doc].until
    BY NewIsCounted
<1>4. Replaced(c).until = c.doc /\ Replaced(c) # NoMetadata
    BY <1>1 DEF Replaced, NoMetadata
<1>5. ASSUME NEW d \in Docs
      PROVE  \/ M[d] = m[d]
             \/ d = c.doc /\ M[d] = NewEntry(c) /\ d \in there
             \/ d = c.prev /\ c.op = "import" /\ M[d] = Replaced(c) /\ d \in before
    BY <1>1, <1>5, NobodyIsElse DEF Between
<1>6. NoMetadata.until = Nobody
    BY DEF NoMetadata
<1>7. /\ \A d \in Docs : m[d] # NoMetadata => d \in before
      /\ \A d \in Docs : m[d].until # Nobody => m[d].until \in before \cup loose /\ m[d] # NoMetadata
      /\ \A d \in a.imported : d \in before /\ m[d] # NoMetadata /\ d \in DOMAIN r
      /\ DOMAIN r \subseteq before \cup loose
    BY <1>6 DEF Sound
<1> HIDE DEF m, u, r, before, more
<1>8. \A d \in Docs : M[d] # NoMetadata => d \in there
    BY <1>2, <1>5, <1>7
<1>9. ASSUME NEW d \in Docs PROVE U[d] \subseteq Own(d) /\ (U[d] # {} => d \in there)
    <2>1. u[d] \subseteq Own(d) /\ (u[d] # {} => d \in before)
        BY DEF Sound, u, before
    <2>2. U[d] = u[d] \/ (d = c.doc /\ c.op = "decompose" /\ U[d] = c.new)
        BY DEF Between, u
    <2>3. QED
        BY <1>1, <1>2, <1>3, <2>1, <2>2
<1>10. ASSUME NEW d \in Docs, M[d].until # Nobody PROVE M[d].until \in there \cup more
    <2>1. CASE M[d] = m[d]
        BY <1>2, <1>7, <1>10, <2>1
    <2>2. CASE d = c.doc /\ M[d] = NewEntry(c)
        BY <1>2, <1>3, <1>7, <1>10, <2>2
    <2>3. CASE c.op = "import" /\ M[d] = Replaced(c)
        BY <1>2, <1>4, <2>3
    <2>4. QED
        BY <1>5, <2>1, <2>2, <2>3
<1>11. DOMAIN R \subseteq there \cup more /\ DOMAIN r \subseteq DOMAIN R
    <2>1. R = r \/ R = RegistryAt(c, "project")
        BY DEF Between, r
    <2>2. DOMAIN RegistryAt(c, "project") = KeptBy(c)
        BY DEF RegistryAt, AfterRegistry
    <2>3. KeptBy(c) = DOMAIN r \cup (IF c.op = "import" THEN {c.doc} ELSE {})
        BY DEF KeptBy, r
    <2>4. QED
        BY <1>2, <1>7, <2>1, <2>2, <2>3
<1>12. \A d \in a.imported : d \in there /\ M[d] # NoMetadata /\ d \in DOMAIN R
    BY <1>2, <1>3, <1>4, <1>5, <1>7, <1>11
<1>13. ASSUME NEW i \in DOMAIN a.versions
       PROVE  a.versions[i][1] \in a.imported /\ M[a.versions[i][2]].until # Nobody
    <2>1. a.versions[i][2] \in Docs
        OBVIOUS
    <2>2. a.versions[i][1] \in a.imported /\ m[a.versions[i][2]].until # Nobody
        BY DEF Sound, m
    <2> DEFINE d == a.versions[i][2]
    <2>3. c.op = "import" => d # c.doc
        BY <1>2, <1>7, <2>1, <2>2
    <2> HIDE DEF d
    <2>4. M[d].until # Nobody
        BY <1>1, <1>3, <1>4, <1>5, <2>1, <2>2, <2>3 DEF d, Works
    <2>5. QED
        BY <2>2, <2>4 DEF d
<1>14. ASSUME NEW d \in Docs, M[d].until \in a.imported \ more
       PROVE  \E i \in DOMAIN a.versions : a.versions[i][1] = M[d].until /\ a.versions[i][2] = d
    <2>1. Nobody \notin a.imported
        BY NobodyIsElse
    <2>2. M[d].until = m[d].until
        BY <1>2, <1>3, <1>4, <1>5, <1>14, <2>1
    <2>3. QED
        BY <1>2, <1>14, <2>2 DEF Sound, m
<1>15. QED
    BY <1>8, <1>9, <1>10, <1>11, <1>12, <1>13, <1>14 DEF Sound, more

LEMMA SoundLooser ==
    ASSUME NEW m, NEW u, NEW r, NEW there, NEW a, NEW loose, NEW more, loose \subseteq more,
           Sound(m, u, r, there, a, loose)
    PROVE  Sound(m, u, r, there, a, more)
BY DEF Sound

\* The audit log once the writer c has recorded what it did.
Recorded(c, a) ==
    IF c.op # "import" THEN a
    ELSE [imported |-> a.imported \cup {c.doc},
          versions |-> IF c.prev = Nobody THEN a.versions ELSE Append(a.versions, << c.doc, c.prev >>)]

\* A version of the log was there before.
LEMMA LoggedIsThere ==
    ASSUME NEW m, NEW u, NEW r, NEW there, NEW a, NEW loose, Sound(m, u, r, there, a, loose),
           a.versions \in Seq(Docs \X Docs), NEW i \in DOMAIN a.versions
    PROVE  a.versions[i][1] \in there /\ a.versions[i][2] \in there
<1>1. a.versions[i][2] \in Docs
    OBVIOUS
<1>2. m[a.versions[i][2]] # NoMetadata
    BY <1>1 DEF Sound, NoMetadata
<1>3. QED
    BY <1>1, <1>2 DEF Sound

LEMMA Appended ==
    ASSUME NEW S, NEW s \in Seq(S), NEW x \in S
    PROVE  /\ Append(s, x) \in Seq(S) /\ Len(s) \in Nat /\ DOMAIN s = 1..Len(s)
           /\ Len(Append(s, x)) = Len(s) + 1 /\ DOMAIN Append(s, x) = 1..(Len(s) + 1)
           /\ Append(s, x)[Len(s) + 1] = x /\ \A i \in 1..Len(s) : Append(s, x)[i] = s[i]
OBVIOUS

LEMMA SoundRecorded ==
    ASSUME NEW c, NEW before, NEW a, NEW loose, CommandTyped(c), Works(c), Grounded(c),
           c.op = "import" => c.doc \notin before,
           a.imported \subseteq Docs, a.versions \in Seq(Docs \X Docs), OlderFirst(a.versions),
           Sound(c.old.metadata, c.old.units, c.old.registry, before, a, loose)
    PROVE  /\ Sound(MetadataAt(c, "project"), UnitsAt(c, "project"), RegistryAt(c, "project"),
                    PresentAt(c, "project", before), Recorded(c, a), loose)
           /\ OlderFirst(Recorded(c, a).versions)
           /\ Recorded(c, a).imported \subseteq Docs /\ Recorded(c, a).versions \in Seq(Docs \X Docs)
<1> DEFINE M == MetadataAt(c, "project")  U == UnitsAt(c, "project")
           R == RegistryAt(c, "project")  P == PresentAt(c, "project", before)
           b == Recorded(c, a)  n == Len(a.versions)
<1> DEFINE more == loose \cup (IF c.op = "import" THEN {c.doc} ELSE {})
<1>1. Sound(M, U, R, P, a, more) /\ "project" \in WriterSteps /\ "project" \in AfterMetadata
      /\ "project" \in AfterPrevious /\ "project" \in AfterRegistry
    <2>1. "project" \in WriterSteps /\ "project" \in AfterMetadata
          /\ "project" \in AfterPrevious /\ "project" \in AfterRegistry
        BY DEF WriterSteps, AfterDirectory, AfterPrevious, AfterPreviousUnits, AfterMetadata, AfterRegistry
    <2>2. PresentBefore(c, P) = before /\ c.doc \in P
        BY WorksOnKnown DEF PresentBefore, PresentAt, Works
    <2> HIDE DEF M, U, R, P
    <2>3. Between(c, M, U, EndedAt(c, "project"), R, P)
        BY <2>1, <2>2, FollowIsBetween DEF M, U, R
    <2>4. QED
        BY <2>1, <2>2, <2>3, SoundBetween
<1>2. CASE c.op # "import"
    BY <1>1, <1>2 DEF Recorded
<1>3. CASE c.op = "import"
    <2>1. /\ c.doc \in Docs /\ c.doc \notin before /\ c.doc # Nobody /\ c.doc # c.prev
          /\ c.prev # Nobody => c.prev \in Docs
        BY <1>3, WorksOnKnown, NobodyIsElse DEF CommandTyped
    <2>2. /\ b.imported = a.imported \cup {c.doc}
          /\ c.prev = Nobody => b.versions = a.versions
          /\ c.prev # Nobody => b.versions = Append(a.versions, << c.doc, c.prev >>)
        BY <1>3 DEF Recorded
    <2> HIDE DEF b, n
    <2>3. /\ b.imported \subseteq Docs /\ b.versions \in Seq(Docs \X Docs)
          /\ n \in Nat /\ DOMAIN a.versions = 1..n
        <3>1. c.prev # Nobody => << c.doc, c.prev >> \in Docs \X Docs
            BY <2>1
        <3>2. ASSUME c.prev # Nobody PROVE b.versions \in Seq(Docs \X Docs)
            <4>1. PICK x \in Docs \X Docs : x = << c.doc, c.prev >>
                BY <3>1, <3>2
            <4>2. Append(a.versions, x) \in Seq(Docs \X Docs)
                BY Appended
            <4>3. QED
                BY <2>2, <3>2, <4>1, <4>2
        <3>3. b.versions \in Seq(Docs \X Docs)
            BY <2>2, <3>2
        <3>4. n \in Nat /\ DOMAIN a.versions = 1..n
            BY DEF n
        <3>5. QED
            BY <2>1, <2>2, <3>3, <3>4
    <2>4. /\ DOMAIN a.versions \subseteq DOMAIN b.versions
          /\ \A i \in DOMAIN a.versions : b.versions[i] = a.versions[i]
          /\ \A i \in DOMAIN b.versions : i \in DOMAIN a.versions
                \/ (i = n + 1 /\ c.prev # Nobody /\ b.versions[i] = << c.doc, c.prev >>)
          /\ c.prev # Nobody => n + 1 \in DOMAIN b.versions /\ b.versions[n + 1] = << c.doc, c.prev >>
        <3>1. CASE c.prev = Nobody
            BY <2>2, <3>1
        <3>2. CASE c.prev # Nobody
            <4>0. << c.doc, c.prev >> \in Docs \X Docs /\ b.versions = Append(a.versions, << c.doc, c.prev >>)
                BY <2>1, <2>2, <3>2
            <4>1. /\ DOMAIN b.versions = 1..(n + 1)
                  /\ b.versions[n + 1] = << c.doc, c.prev >>
                  /\ \A i \in 1..n : b.versions[i] = a.versions[i]
                BY <4>0, Appended DEF n
            <4>2. QED
                BY <2>3, <3>2, <4>1
        <3>3. QED
            BY <3>1, <3>2
    <2>5. \A i \in DOMAIN a.versions : a.versions[i][1] # c.doc /\ a.versions[i][2] # c.doc
        BY <2>1, LoggedIsThere
    <2>6. OlderFirst(b.versions)
        <3>1. \A i \in DOMAIN b.versions : b.versions[i][1] # b.versions[i][2]
            BY <2>1, <2>4 DEF OlderFirst
        <3>2. ASSUME NEW i \in DOMAIN b.versions, NEW j \in DOMAIN b.versions, i < j
              PROVE  b.versions[j][1] \notin {b.versions[i][1], b.versions[i][2]}
            <4>1. i \in DOMAIN a.versions
                BY SMTT(20), <2>3, <2>4, <3>2
            <4>2. CASE j \in DOMAIN a.versions
                BY <2>4, <3>2, <4>1, <4>2 DEF OlderFirst
            <4>3. CASE j \notin DOMAIN a.versions
                <5>1. b.versions[j][1] = c.doc
                    BY <2>4, <4>3
                <5>2. /\ b.versions[i][1] = a.versions[i][1]
                      /\ b.versions[i][2] = a.versions[i][2]
                    BY <2>4, <4>1
                <5>3. a.versions[i][1] # c.doc /\ a.versions[i][2] # c.doc
                    BY <2>5, <4>1
                <5>4. QED
                    BY <5>1, <5>2, <5>3
            <4>4. QED
                BY <4>2, <4>3
        <3>3. QED
            BY <3>1, <3>2 DEF OlderFirst
    <2>7. /\ M[c.doc] = NewEntry(c) /\ NewEntry(c) # NoMetadata /\ NewEntry(c).until = Nobody
          /\ c.prev # Nobody => M[c.prev].until = c.doc
          /\ \A d \in Docs : d # c.doc /\ d # c.prev => M[d] = c.old.metadata[d]
        BY <1>1, <1>3, <2>1, EntryAt, NewIsCounted
    <2>8. c.doc \in P /\ c.doc \in DOMAIN R
        BY <1>1, <1>3 DEF PresentAt, RegistryAt, KeptBy
    <2> HIDE DEF M, U, R, P
    <2>0. more = loose \cup {c.doc}
        BY <1>3
    <2> HIDE DEF more
    <2>9. \A d \in b.imported : d \in P /\ M[d] # NoMetadata /\ d \in DOMAIN R
        BY <1>1, <2>2, <2>7, <2>8 DEF Sound
    <2>10. ASSUME NEW i \in DOMAIN b.versions
           PROVE  b.versions[i][1] \in b.imported /\ M[b.versions[i][2]].until # Nobody
        <3>1. CASE i \in DOMAIN a.versions
            BY <1>1, <2>2, <2>4, <3>1 DEF Sound
        <3>2. CASE i \notin DOMAIN a.versions
            BY <2>1, <2>2, <2>4, <2>7, <3>2
        <3>3. QED
            BY <3>1, <3>2
    <2>11. ASSUME NEW d \in Docs, M[d].until \in b.imported \ loose
           PROVE  \E i \in DOMAIN b.versions : b.versions[i][1] = M[d].until /\ b.versions[i][2] = d
        <3>1. CASE M[d].until \in a.imported /\ M[d].until # c.doc
            <4>1. PICK i \in DOMAIN a.versions : a.versions[i][1] = M[d].until /\ a.versions[i][2] = d
                BY <1>1, <2>0, <2>11, <3>1 DEF Sound
            <4>2. QED
                BY <2>4, <4>1
        <3>2. CASE M[d].until = c.doc
            <4>1. d # c.doc
                BY <2>1, <2>7, <3>2
            <4>2. d = c.prev
                BY <2>1, <2>7, <2>11, <3>2, <4>1 DEF Sound
            <4>3. c.prev # Nobody
                BY <4>2, NobodyIsElse
            <4>4. QED
                BY <2>4, <3>2, <4>2, <4>3
        <3>3. QED
            BY <2>2, <2>11, <3>1, <3>2
    <2>12. Sound(M, U, R, P, b, loose)
        BY <1>1, <2>0, <2>8, <2>9, <2>10, <2>11 DEF Sound
    <2>13. QED
        BY <2>3, <2>6, <2>12 DEF M, U, R, P, b
<1>4. QED
    BY <1>2, <1>3

\* A writer that nothing interrupts leaves consistent files consistent.
LEMMA ConsistentRecorded ==
    ASSUME NEW c, NEW before, NEW a, NEW loose, CommandTyped(c), Works(c), Grounded(c),
           c.op = "import" => c.doc \notin before,
           Sound(c.old.metadata, c.old.units, c.old.registry, before, a, loose), a.imported \subseteq Docs,
           Consistent(c.old.metadata, c.old.units, c.old.ended, c.old.registry, before, a)
    PROVE  Consistent(MetadataAt(c, "project"), UnitsAt(c, "project"), EndedAt(c, "project"),
                      RegistryAt(c, "project"), PresentAt(c, "project", before), Recorded(c, a))
<1> DEFINE m == c.old.metadata  u == c.old.units  e == c.old.ended  r == c.old.registry
           M == MetadataAt(c, "project")  U == UnitsAt(c, "project")  E == EndedAt(c, "project")
           R == RegistryAt(c, "project")  P == PresentAt(c, "project", before)
           b == Recorded(c, a)
<1>1. "project" \in WriterSteps /\ "project" \in AfterMetadata /\ "project" \in AfterPreviousUnits
      /\ "project" \in AfterPrevious /\ "project" \in AfterRegistry
    BY DEF WriterSteps, AfterDirectory, AfterPrevious, AfterPreviousUnits, AfterMetadata, AfterRegistry
<1>2. /\ c.doc \in Docs /\ c.doc # Nobody /\ c.doc # c.prev
      /\ c.op = "decompose" => c.doc \in before /\ c.prev = Nobody
      /\ c.prev # Nobody => c.prev \in Docs /\ c.prev \in before /\ c.op = "import"
    BY WorksOnKnown, NobodyIsElse DEF CommandTyped
<1>3. /\ before = a.imported /\ DOMAIN r = before /\ e \subseteq before
      /\ \A d \in before : /\ m[d] # NoMetadata /\ m[d].count = Cardinality(u[d]) /\ r[d] = m[d]
                           /\ (m[d].until # Nobody <=> d \in e)
    BY DEF Consistent
<1>4. P = b.imported
    BY <1>2, <1>3 DEF PresentAt, Recorded, Works
<1>5. P = IF c.op = "import" THEN before \cup {c.doc} ELSE before
    BY DEF PresentAt
<1>6. DOMAIN R = P
    BY <1>1, <1>3, <1>5 DEF RegistryAt, KeptBy
<1>7. E = IF c.prev # Nobody THEN e \cup {c.prev} ELSE e
    BY <1>1 DEF EndedAt
<1>8. E \subseteq P
    BY <1>2, <1>3, <1>5, <1>7
<1>9. NewEntry(c) # NoMetadata /\ NewEntry(c).count = Cardinality(c.new)
      /\ NewEntry(c).until = IF c.op = "import" THEN Nobody ELSE m[c.doc].until
    BY NewIsCounted
<1>10. P \subseteq Docs
    BY <1>2, <1>3, <1>5
<1>11. \A d \in Docs : U[d] = IF d = c.doc THEN c.new ELSE u[d]
    BY DEF UnitsAt
<1>12. ASSUME NEW d \in P
       PROVE  /\ M[d] # NoMetadata /\ M[d].count = Cardinality(U[d]) /\ R[d] = M[d]
              /\ (M[d].until # Nobody <=> d \in E)
    <2>1. CASE d = c.doc
        <3>1. M[d] = NewEntry(c) /\ R[d] = NewEntry(c)
            BY <1>1, <1>2, <1>6, <1>12, <2>1 DEF MetadataAt, RegistryAt, KeptBy
        <3>2. U[d] = c.new
            BY <1>2, <1>11, <2>1
        <3>3. M[d].until # Nobody <=> d \in E
            BY <1>2, <1>3, <1>7, <1>9, <2>1, <3>1 DEF Works
        <3>4. QED
            BY <1>9, <3>1, <3>2, <3>3
    <2>2. CASE d = c.prev
        <3>1. d # c.doc /\ d \in Docs /\ c.prev # Nobody /\ d \in before
            BY <1>2, <1>10, <1>12, <2>2, NobodyIsElse
        <3>2. M[d] = [count |-> m[d].count, until |-> c.doc]
            BY <1>1, <2>2, <3>1 DEF MetadataAt
        <3>3. R[d] = [count |-> m[d].count, until |-> c.doc]
            BY <1>1, <1>3, <2>2, <3>1 DEF RegistryAt, KeptBy
        <3>4. U[d] = u[d] /\ d \in E /\ NoMetadata.until = Nobody
            BY <1>7, <1>11, <2>2, <3>1 DEF NoMetadata
        <3> HIDE DEF M, R, U, E
        <3>5. M[d].until = c.doc /\ M[d].count = m[d].count
            BY <3>2
        <3>6. QED
            BY <1>2, <1>3, <3>1, <3>2, <3>3, <3>4, <3>5
    <2>3. CASE d # c.doc /\ d # c.prev
        <3>1. d \in Docs /\ d \in before /\ d \in DOMAIN r
            BY <1>3, <1>5, <1>10, <1>12, <2>3
        <3>2. M[d] = m[d] /\ R[d] = r[d] /\ U[d] = u[d]
            BY <1>1, <1>11, <2>3, <3>1 DEF MetadataAt, RegistryAt, KeptBy
        <3>3. QED
            BY <1>3, <1>7, <2>3, <3>1, <3>2
    <2>4. QED
        BY <2>1, <2>2, <2>3
<1>13. QED
    BY <1>4, <1>6, <1>8, <1>12 DEF Consistent

-----------------------------------------------------------------------------
(* The steps of the processes.                                               *)

\* Process p has one thing less to do; the others are as they were.
Moves(c, d) ==
    d = [op |-> c.op, doc |-> c.doc, prev |-> c.prev, new |-> c.new, todo |-> Tail(c.todo),
         old |-> c.old, listed |-> d.listed, rows |-> d.rows]

GoesOn(p) ==
    /\ DOMAIN proc' = Procs /\ \A q \in Procs : q # p => proc'[q] = proc[q]
    /\ Moves(proc[p], proc'[p])

CommandOf(o, d, v, n, todo, old, l, r) ==
    [op |-> o, doc |-> d, prev |-> v, new |-> n, todo |-> todo, old |-> old, listed |-> l, rows |-> r]

WithTodo(c, x) == [c EXCEPT !.todo = x]
WithListed(c, x) == [c EXCEPT !.listed = x]
WithRows(c, x) == [c EXCEPT !.rows = x]

LEMMA FieldsChange ==
    ASSUME NEW c, NEW o, NEW d, NEW v, NEW n, NEW todo, NEW old, NEW l, NEW r, NEW x,
           c = CommandOf(o, d, v, n, todo, old, l, r)
    PROVE  /\ WithTodo(c, x) = CommandOf(o, d, v, n, x, old, l, r)
           /\ WithListed(c, x) = CommandOf(o, d, v, n, todo, old, x, r)
           /\ WithRows(c, x) = CommandOf(o, d, v, n, todo, old, l, x)
BY DEF CommandOf, WithTodo, WithListed, WithRows

LEMMA DoneGoesOn ==
    ASSUME Typed, NEW p \in Procs, CommandTyped(proc[p]),
           \/ proc' = Done(p)
           \/ \E x : proc' = [Done(p) EXCEPT ![p].listed = x]
           \/ \E x : proc' = [Done(p) EXCEPT ![p].rows = x]
    PROVE  GoesOn(p)
<1> DEFINE c == proc[p]
<1>1. DOMAIN proc = Procs
    BY DEF Typed
<1> DEFINE Cmd(t, l, r) == CommandOf(c.op, c.doc, c.prev, c.new, t, c.old, l, r)
           e == WithTodo(c, Tail(c.todo))
<1>2. c = Cmd(c.todo, c.listed, c.rows)
    BY DEF CommandTyped, CommandOf
<1>3. Done(p) = [proc EXCEPT ![p] = e]
    BY <1>1 DEF Done, WithTodo
<1> HIDE DEF c
<1>4. e = Cmd(Tail(c.todo), c.listed, c.rows)
    BY <1>2, FieldsChange
<1> HIDE DEF e
<1>5. \A x : /\ WithListed(e, x) = Cmd(Tail(c.todo), x, c.rows)
             /\ WithRows(e, x) = Cmd(Tail(c.todo), c.listed, x)
    BY <1>4, FieldsChange
<1>6. DOMAIN Done(p) = Procs /\ Done(p)[p] = e /\ \A q \in Procs : q # p => Done(p)[q] = proc[q]
    BY <1>1, <1>3
<1>7. \A l, r : Moves(c, Cmd(Tail(c.todo), l, r))
    BY DEF Moves, CommandOf
<1>8. CASE proc' = Done(p)
    BY <1>4, <1>6, <1>7, <1>8 DEF GoesOn, c
<1>9. ASSUME NEW x, proc' = [Done(p) EXCEPT ![p].listed = x] \/ proc' = [Done(p) EXCEPT ![p].rows = x]
      PROVE  GoesOn(p)
    <2> HIDE DEF Done
    <2>1. DOMAIN proc' = Procs /\ (proc'[p] = WithListed(e, x) \/ proc'[p] = WithRows(e, x))
          /\ \A q \in Procs : q # p => proc'[q] = proc[q]
        BY <1>6, <1>9 DEF WithListed, WithRows
    <2>2. Moves(c, proc'[p])
        BY <1>5, <1>7, <2>1
    <2>3. QED
        BY <2>1, <2>2 DEF GoesOn, c
<1>10. QED
    BY <1>8, <1>9

\* Whoever does a step of a command rebuilds the index without the lock, writes or
\* rolls back under the lock and is at that step, or has linked evidence.
LEMMA DoingIsAt ==
    ASSUME Typed, FilesFollow, NEW p \in Procs, NEW x, Doing(p, x)
    PROVE  \/ /\ proc[p].op = "rebuild" /\ x \in {"list", "reset", "read", "publish"}
           \/ /\ Works(proc[p]) /\ lock = p /\ CommandTyped(proc[p])
              /\ x \in WriterSteps /\ At(proc[p], x) /\ Follow(proc[p], x)
           \/ /\ Works(proc[p]) /\ lock = p /\ CommandTyped(proc[p])
              /\ x \in UndoNames /\ UndoAt(proc[p], x) /\ UndoFollow(proc[p], x)
           \/ /\ Shows(proc[p]) /\ x = "show"
<1>1. /\ ProcTyped(proc[p]) /\ (Works(proc[p]) \/ Shows(proc[p]) <=> lock = p)
      /\ proc[p].todo # << >> /\ Head(proc[p].todo) = x
    BY DEF Typed, Doing
<1>2. CASE proc[p].op = "none"
    BY <1>1, <1>2 DEF ProcTyped, Idle
<1>3. CASE proc[p].op = "link"
    BY <1>1, <1>3 DEF ProcTyped, Shows
<1>4. CASE proc[p].op = "rebuild"
    <2>1. CommandTyped(proc[p])
        BY <1>1, <1>4 DEF ProcTyped
    <2>2. Head(proc[p].todo) \in {"list", "reset", "read", "publish"}
        BY <1>4, <2>1 DEF CommandTyped, Rebuilding
    <2>3. QED
        BY <1>1, <1>4, <2>2
<1>5. CASE proc[p].op \in {"import", "decompose"}
    <2>1. Works(proc[p]) /\ lock = p /\ CommandTyped(proc[p])
        BY <1>1, <1>5 DEF ProcTyped, Works
    <2>2. Following(p)
        BY <2>1 DEF FilesFollow
    <2>3. ASSUME NEW s \in WriterSteps, At(proc[p], s), Follow(proc[p], s) PROVE s = x
        BY <1>1, <2>3, Advance
    <2>4. ASSUME NEW t \in UndoNames, UndoAt(proc[p], t), UndoFollow(proc[p], t) PROVE t = x
        BY <1>1, <2>4, UndoAdvance
    <2>5. QED
        BY <2>1, <2>2, <2>3, <2>4 DEF Following
<1>6. QED
    BY <1>1, <1>2, <1>3, <1>4, <1>5 DEF ProcTyped

LEMMA StepsApart == \A x \in WriterSteps : x \notin UndoNames /\ x # "show"
BY DEF UndoNames, WriterSteps, AfterDirectory, AfterPrevious, AfterPreviousUnits, AfterMetadata,
       AfterRegistry

\* What a writer is when it does step x, and when it undoes one.
LEMMA WriterIsAt ==
    ASSUME Typed, FilesFollow, NEW p \in Procs, NEW x, Doing(p, x),
           \/ x \in {"directory", "previous", "previous units", "units", "metadata", "registry",
                     "record", "project"}
           \/ x \in {"list", "reset", "read", "publish"} /\ Works(proc[p])
    PROVE  /\ Works(proc[p]) /\ lock = p /\ CommandTyped(proc[p])
           /\ x \in WriterSteps /\ At(proc[p], x) /\ Follow(proc[p], x)
BY DoingIsAt DEF UndoNames, Works, Shows

LEMMA UndoerIsAt ==
    ASSUME Typed, FilesFollow, NEW p \in Procs, NEW x \in UndoNames, Doing(p, x)
    PROVE  /\ Works(proc[p]) /\ lock = p /\ CommandTyped(proc[p])
           /\ UndoAt(proc[p], x) /\ UndoFollow(proc[p], x)
BY DoingIsAt, StepsApart DEF UndoNames

\* Whoever works holds the lock: nobody else does.
LEMMA OneWorks ==
    ASSUME Typed
    PROVE  /\ lock = Nobody => \A q \in Procs : ~ Works(proc[q]) /\ ~ Shows(proc[q])
           /\ \A p, q \in Procs : lock = p /\ q # p => ~ Works(proc[q]) /\ ~ Shows(proc[q])
BY NobodyIsElse DEF Typed

\* The documents of loose, where only p may be importing.
LEMMA LooseIs ==
    ASSUME NEW i, NEW P, NEW p \in Procs, \A q \in Procs : q # p => ~ Works(P[q])
    PROVE  LooseIn(i, P) = LeftBy(i) \cup Importing(P[p])
<1>1. \A q \in Procs : q # p => Importing(P[q]) = {}
    BY DEF Importing, Works
<1>2. QED
    BY <1>1 DEF LooseIn

LEMMA LooseIsLeft ==
    ASSUME NEW i, NEW P, \A q \in Procs : ~ Works(P[q])
    PROVE  LooseIn(i, P) = LeftBy(i)
<1>1. \A q \in Procs : Importing(P[q]) = {}
    BY DEF Importing, Works
<1>2. QED
    BY <1>1 DEF LooseIn

LEMMA AtProject ==
    ASSUME NEW c, NEW s \in WriterSteps, At(c, s)
    PROVE  c.todo = ToProject <=> s = "project"
<1>1. Head(c.todo) = s
    BY Advance
<1>2. Head(ToProject) = "project"
    BY DEF ToProject
<1>3. QED
    BY <1>1, <1>2 DEF At

\* The files of a command depend neither on its rows nor on what it has to do.
Same(c, d) ==
    /\ d.op = c.op /\ d.doc = c.doc /\ d.prev = c.prev /\ d.new = c.new /\ d.old = c.old
    /\ d = [op |-> d.op, doc |-> d.doc, prev |-> d.prev, new |-> d.new, todo |-> d.todo,
            old |-> d.old, listed |-> d.listed, rows |-> d.rows]

LEMMA SameFiles ==
    ASSUME NEW c, NEW d, Same(c, d)
    PROVE  /\ \A s : /\ MetadataAt(d, s) = MetadataAt(c, s) /\ UnitsAt(d, s) = UnitsAt(c, s)
                     /\ EndedAt(d, s) = EndedAt(c, s) /\ RegistryAt(d, s) = RegistryAt(c, s)
           /\ \A m, u, e, r, there :
                 /\ PresentBefore(d, there) = PresentBefore(c, there)
                 /\ Between(c, m, u, e, r, there) => Between(d, m, u, e, r, there)
                 /\ \A t : Undone(c, t, m, u, e, r, there) => Undone(d, t, m, u, e, r, there)
           /\ Works(d) <=> Works(c)
           /\ Works(c) /\ CommandTyped(c) => CommandTyped(d)
<1>1. /\ d.op = c.op /\ d.doc = c.doc /\ d.prev = c.prev /\ d.new = c.new /\ d.old = c.old
    BY DEF Same
<1>2. /\ NewEntry(d) = NewEntry(c) /\ KeptBy(d) = KeptBy(c) /\ Replaced(d) = Replaced(c)
    BY <1>1 DEF NewEntry, KeptBy, Replaced
<1>3. \A s : /\ MetadataAt(d, s) = MetadataAt(c, s) /\ UnitsAt(d, s) = UnitsAt(c, s)
             /\ EndedAt(d, s) = EndedAt(c, s) /\ RegistryAt(d, s) = RegistryAt(c, s)
    BY <1>1, <1>2 DEF MetadataAt, UnitsAt, EndedAt, RegistryAt
<1>4. ASSUME NEW m, NEW u, NEW e, NEW r, NEW there
      PROVE  /\ PresentBefore(d, there) = PresentBefore(c, there)
             /\ Between(c, m, u, e, r, there) => Between(d, m, u, e, r, there)
             /\ \A t : Undone(c, t, m, u, e, r, there) => Undone(d, t, m, u, e, r, there)
    <2>1. PresentBefore(d, there) = PresentBefore(c, there)
        BY <1>1 DEF PresentBefore
    <2>2. Between(c, m, u, e, r, there) => Between(d, m, u, e, r, there)
        BY <1>1, <1>2, <1>3, <2>1 DEF Between
    <2>3. QED
        BY <1>1, <2>1, <2>2 DEF Undone
<1>5. Works(c) /\ CommandTyped(c) => CommandTyped(d)
    <2>1. d = [op |-> d.op, doc |-> d.doc, prev |-> d.prev, new |-> d.new, todo |-> d.todo,
               old |-> d.old, listed |-> d.listed, rows |-> d.rows]
        BY DEF Same
    <2>2. QED
        BY <1>1, <2>1 DEF CommandTyped, Works
<1>6. QED
    BY <1>1, <1>3, <1>4, <1>5 DEF Works

LEMMA MovedIsSame ==
    ASSUME NEW c, NEW d, Moves(c, d)
    PROVE  Same(c, d) /\ d.todo = Tail(c.todo)
<1>1. /\ d.op = c.op /\ d.doc = c.doc /\ d.prev = c.prev /\ d.new = c.new /\ d.old = c.old
      /\ d.todo = Tail(c.todo)
    BY DEF Moves
<1>2. d = [op |-> d.op, doc |-> d.doc, prev |-> d.prev, new |-> d.new, todo |-> d.todo,
           old |-> d.old, listed |-> d.listed, rows |-> d.rows]
    BY DEF Moves
<1>3. QED
    BY <1>1, <1>2 DEF Same

-----------------------------------------------------------------------------
(* A writer's step of a command, before it records: the files become those   *)
(* of the next step.                                                         *)

WritesAt(p, s) ==
    LET c == proc[p]
        n == NextStep(c, s)
    IN  /\ s \in WriterSteps /\ s # "project" /\ s # "record"
        /\ lock = p /\ Works(c) /\ CommandTyped(c) /\ At(c, s) /\ Follow(c, s)
        /\ GoesOn(p)
        /\ metadata' = MetadataAt(c, n) /\ units' = UnitsAt(c, n)
        /\ ended' = EndedAt(c, n) /\ registry' = RegistryAt(c, n)
        /\ present' = IF s = "directory" THEN present \cup {c.doc} ELSE present
        /\ UNCHANGED << audit, citations, lock, history >>

LEMMA UntilChanged ==
    ASSUME NEW r \in Entry \cup {NoMetadata}, NEW x
    PROVE  [r EXCEPT !.until = x] = [count |-> r.count, until |-> x]
BY DEF Entry, NoMetadata

LEMMA MakesDirectory ==
    ASSUME Typed, FilesFollow, NEW p \in Procs, MakeDirectory(p)
    PROVE  WritesAt(p, "directory")
<1> DEFINE c == proc[p]  n == NextStep(c, "directory")
<1>1. Works(c) /\ lock = p /\ CommandTyped(c) /\ At(c, "directory") /\ Follow(c, "directory")
      /\ "directory" \in WriterSteps
    BY WriterIsAt DEF MakeDirectory
<1>2. GoesOn(p)
    BY <1>1, DoneGoesOn DEF MakeDirectory
<1>3. c.op = "import" /\ c.new = {} /\ c.doc \in Docs /\ c.prev \in Docs \cup {Nobody}
    BY <1>1 DEF At, CommandTyped
<1>4. (c.prev = Nobody /\ n = "metadata") \/ (c.prev # Nobody /\ n = "previous")
    BY DEF NextStep
<1> HIDE DEF c, n
<1>5. MetadataAt(c, n) = MetadataAt(c, "directory")
    BY <1>4, NobodyIsElse DEF MetadataAt, AfterPrevious, AfterPreviousUnits, AfterMetadata, AfterRegistry
<1>6. EndedAt(c, n) = EndedAt(c, "directory") /\ RegistryAt(c, n) = RegistryAt(c, "directory")
    BY <1>4 DEF EndedAt, RegistryAt, AfterPreviousUnits, AfterMetadata, AfterRegistry
<1>7. UnitsAt(c, n) = [UnitsAt(c, "directory") EXCEPT ![c.doc] = {}]
    BY <1>3, <1>4 DEF UnitsAt
<1>8. QED
    BY <1>1, <1>2, <1>5, <1>6, <1>7 DEF WritesAt, MakeDirectory, Follow, c, n

LEMMA SavesPrevious ==
    ASSUME Typed, FilesFollow, NEW p \in Procs, SavePrevious(p)
    PROVE  WritesAt(p, "previous")
<1> DEFINE c == proc[p]
<1>1. Works(c) /\ lock = p /\ CommandTyped(c) /\ At(c, "previous") /\ Follow(c, "previous")
      /\ "previous" \in WriterSteps
    BY WriterIsAt DEF SavePrevious
<1>2. GoesOn(p)
    BY <1>1, DoneGoesOn DEF SavePrevious
<1>3. c.doc \in Docs /\ c.prev \in Docs /\ c.prev # c.doc
    BY <1>1 DEF At, CommandTyped
<1>4. NextStep(c, "previous") = "previous units"
    BY DEF NextStep
<1>5. metadata' = [metadata EXCEPT ![c.prev] = [metadata[c.prev] EXCEPT !.until = c.doc]]
    BY DEF SavePrevious
<1>6. metadata[c.prev] \in Entry \cup {NoMetadata} /\ metadata = MetadataAt(c, "previous")
    BY <1>1, <1>3 DEF Typed, FilesTyped, Follow
<1>7. metadata' = [metadata EXCEPT ![c.prev] = [count |-> metadata[c.prev].count, until |-> c.doc]]
    BY <1>5, <1>6, UntilChanged
<1> HIDE DEF c
<1>8. MetadataAt(c, "previous") = [d \in Docs |-> c.old.metadata[d]]
    BY DEF MetadataAt, AfterPrevious, AfterPreviousUnits, AfterMetadata, AfterRegistry
<1>9. MetadataAt(c, "previous units") = [d \in Docs |->
          IF d = c.prev THEN [count |-> c.old.metadata[d].count, until |-> c.doc] ELSE c.old.metadata[d]]
    BY DEF MetadataAt, AfterPrevious, AfterPreviousUnits, AfterMetadata, AfterRegistry
<1>10. metadata' = MetadataAt(c, "previous units")
    <2>1. DOMAIN metadata = Docs /\ \A d \in Docs : metadata[d] = c.old.metadata[d]
        BY <1>6, <1>8
    <2>2. metadata' = [d \in Docs |-> IF d = c.prev THEN [count |-> metadata[c.prev].count, until |-> c.doc]
                                      ELSE metadata[d]]
        <3> DEFINE new == [count |-> metadata[c.prev].count, until |-> c.doc]
        <3>1. metadata' = [metadata EXCEPT ![c.prev] = new]
            BY <1>7
        <3>2. metadata \in [Docs -> Entry \cup {NoMetadata}]
            BY DEF Typed, FilesTyped
        <3> HIDE DEF new
        <3>3. metadata' = [d \in Docs |-> IF d = c.prev THEN new ELSE metadata[d]]
            BY <1>3, <3>1, <3>2
        <3>4. QED
            BY <3>3 DEF new
    <2>3. QED
        BY <1>3, <1>9, <2>1, <2>2
<1>11. /\ UnitsAt(c, "previous units") = UnitsAt(c, "previous")
       /\ EndedAt(c, "previous units") = EndedAt(c, "previous")
       /\ RegistryAt(c, "previous units") = RegistryAt(c, "previous")
    BY DEF UnitsAt, EndedAt, RegistryAt, AfterPreviousUnits, AfterMetadata, AfterRegistry
<1>12. QED
    BY <1>1, <1>2, <1>4, <1>10, <1>11 DEF WritesAt, SavePrevious, Follow, c

LEMMA SavesPreviousUnits ==
    ASSUME Typed, FilesFollow, NEW p \in Procs, SavePreviousUnits(p)
    PROVE  WritesAt(p, "previous units")
<1> DEFINE c == proc[p]
<1>1. Works(c) /\ lock = p /\ CommandTyped(c) /\ At(c, "previous units") /\ Follow(c, "previous units")
      /\ "previous units" \in WriterSteps
    BY WriterIsAt DEF SavePreviousUnits
<1>2. GoesOn(p)
    BY <1>1, DoneGoesOn DEF SavePreviousUnits
<1>3. c.prev # Nobody
    BY <1>1 DEF At
<1>4. NextStep(c, "previous units") = "metadata"
    BY DEF NextStep
<1> HIDE DEF c
<1>5. /\ MetadataAt(c, "metadata") = MetadataAt(c, "previous units")
      /\ UnitsAt(c, "metadata") = UnitsAt(c, "previous units")
      /\ RegistryAt(c, "metadata") = RegistryAt(c, "previous units")
    BY DEF MetadataAt, UnitsAt, RegistryAt, AfterPrevious, AfterPreviousUnits, AfterMetadata, AfterRegistry
<1>6. EndedAt(c, "metadata") = EndedAt(c, "previous units") \cup {c.prev}
    BY <1>3 DEF EndedAt, AfterPreviousUnits, AfterMetadata, AfterRegistry
<1>7. QED
    BY <1>1, <1>2, <1>4, <1>5, <1>6 DEF WritesAt, SavePreviousUnits, Follow, c

LEMMA SavesUnits ==
    ASSUME Typed, FilesFollow, NEW p \in Procs, SaveUnits(p)
    PROVE  WritesAt(p, "units")
<1> DEFINE c == proc[p]
<1>1. Works(c) /\ lock = p /\ CommandTyped(c) /\ At(c, "units") /\ Follow(c, "units")
      /\ "units" \in WriterSteps
    BY WriterIsAt DEF SaveUnits
<1>2. GoesOn(p)
    BY <1>1, DoneGoesOn DEF SaveUnits
<1>3. c.doc \in Docs /\ c.prev = Nobody
    BY <1>1 DEF At, CommandTyped
<1>4. NextStep(c, "units") = "metadata"
    BY DEF NextStep
<1> HIDE DEF c
<1>5. /\ MetadataAt(c, "metadata") = MetadataAt(c, "units")
      /\ EndedAt(c, "metadata") = EndedAt(c, "units")
      /\ RegistryAt(c, "metadata") = RegistryAt(c, "units")
    BY <1>3, NobodyIsElse
    DEF MetadataAt, EndedAt, RegistryAt, AfterPrevious, AfterPreviousUnits, AfterMetadata, AfterRegistry
<1>6. UnitsAt(c, "metadata") = [UnitsAt(c, "units") EXCEPT ![c.doc] = c.new]
    BY <1>3 DEF UnitsAt
<1>7. QED
    BY <1>1, <1>2, <1>4, <1>5, <1>6 DEF WritesAt, SaveUnits, Follow, c

\* What the writer takes for the new entry of its document.
LEMMA NewMetadataIs ==
    ASSUME NEW p \in Procs, NEW s, s \in {"metadata", "registry"}, CommandTyped(proc[p]), Works(proc[p]),
           metadata = MetadataAt(proc[p], s)
    PROVE  NewMetadata(p) = NewEntry(proc[p])
<1> DEFINE c == proc[p]
<1>1. c.doc \in Docs /\ c.prev # c.doc
    BY DEF CommandTyped
<1>2. CASE c.op = "import"
    BY <1>2 DEF NewMetadata, NewEntry
<1>3. CASE c.op # "import"
    <2>1. metadata[c.doc].until = c.old.metadata[c.doc].until
        <3>1. CASE s = "metadata"
            BY <1>1, <3>1 DEF MetadataAt, AfterMetadata, AfterRegistry
        <3>2. CASE s = "registry"
            <4>1. metadata[c.doc] = NewEntry(c)
                BY <1>1, <3>2 DEF MetadataAt, AfterMetadata
            <4>2. QED
                BY <1>3, <4>1, NewIsCounted
        <3>3. QED
            BY <3>1, <3>2
    <2>2. QED
        BY <1>3, <2>1 DEF NewMetadata, NewEntry
<1>4. QED
    BY <1>2, <1>3

LEMMA SavesMetadata ==
    ASSUME Typed, FilesFollow, NEW p \in Procs, SaveMetadata(p)
    PROVE  WritesAt(p, "metadata")
<1> DEFINE c == proc[p]
<1>1. Works(c) /\ lock = p /\ CommandTyped(c) /\ At(c, "metadata") /\ Follow(c, "metadata")
      /\ "metadata" \in WriterSteps
    BY WriterIsAt DEF SaveMetadata
<1>2. GoesOn(p)
    BY <1>1, DoneGoesOn DEF SaveMetadata
<1>3. c.doc \in Docs /\ c.prev # c.doc
    BY <1>1 DEF CommandTyped
<1>4. NextStep(c, "metadata") = "registry"
    BY DEF NextStep
<1>5. metadata = MetadataAt(c, "metadata")
    BY <1>1 DEF Follow
<1>6. metadata' = [metadata EXCEPT ![c.doc] = NewEntry(c)]
    BY <1>1, <1>5, NewMetadataIs DEF SaveMetadata
<1> HIDE DEF c
<1>7. MetadataAt(c, "registry") = [MetadataAt(c, "metadata") EXCEPT ![c.doc] = NewEntry(c)]
    <2> DEFINE e == NewEntry(c)
               old(d) == IF d = c.prev THEN [count |-> c.old.metadata[d].count, until |-> c.doc]
                         ELSE c.old.metadata[d]
    <2> HIDE DEF e, old
    <2>1. MetadataAt(c, "metadata") = [d \in Docs |-> old(d)]
        BY DEF MetadataAt, AfterPrevious, AfterPreviousUnits, AfterMetadata, AfterRegistry, old
    <2>2. MetadataAt(c, "registry") = [d \in Docs |-> IF d = c.doc THEN e ELSE old(d)]
        BY DEF MetadataAt, AfterPrevious, AfterPreviousUnits, AfterMetadata, old, e
    <2>3. [[d \in Docs |-> old(d)] EXCEPT ![c.doc] = e] = [d \in Docs |-> IF d = c.doc THEN e ELSE old(d)]
        BY <1>3
    <2>4. QED
        BY <2>1, <2>2, <2>3 DEF e
<1>8. /\ UnitsAt(c, "registry") = UnitsAt(c, "metadata")
      /\ EndedAt(c, "registry") = EndedAt(c, "metadata")
      /\ RegistryAt(c, "registry") = RegistryAt(c, "metadata")
    BY DEF UnitsAt, EndedAt, RegistryAt, AfterPreviousUnits, AfterMetadata, AfterRegistry
<1>9. QED
    BY <1>1, <1>2, <1>4, <1>5, <1>6, <1>7, <1>8 DEF WritesAt, SaveMetadata, Follow, c

LEMMA SavesRegistry ==
    ASSUME Typed, FilesFollow, NEW p \in Procs, SaveRegistry(p)
    PROVE  WritesAt(p, "registry")
<1> DEFINE c == proc[p]
<1>1. Works(c) /\ lock = p /\ CommandTyped(c) /\ At(c, "registry") /\ Follow(c, "registry")
      /\ "registry" \in WriterSteps
    BY WriterIsAt DEF SaveRegistry
<1>2. GoesOn(p)
    BY <1>1, DoneGoesOn DEF SaveRegistry
<1>3. NextStep(c, "registry") = "list"
    BY DEF NextStep
<1>4. metadata = MetadataAt(c, "registry") /\ registry = RegistryAt(c, "registry")
    BY <1>1 DEF Follow
<1>5. registry = c.old.registry
    BY <1>4 DEF RegistryAt, AfterRegistry
<1>6. c.doc \in Docs /\ c.doc # c.prev /\ KeptBy(c) \subseteq Docs
    BY <1>1 DEF CommandTyped, FilesTyped, Registries, KeptBy
<1>7. registry' = [d \in KeptBy(c) |->
               CASE d = c.doc -> NewMetadata(p)
                 [] d = c.prev -> metadata[d]
                 [] OTHER -> registry[d]]
    BY <1>5 DEF SaveRegistry, KeptBy
<1>8. NewMetadata(p) = NewEntry(c)
    BY <1>1, <1>4, NewMetadataIs
<1>9. ASSUME NEW d \in KeptBy(c), d # c.doc, d = c.prev
      PROVE  metadata[d] = [count |-> c.old.metadata[d].count, until |-> c.doc]
    BY <1>4, <1>6, <1>9 DEF MetadataAt, AfterPrevious, AfterPreviousUnits, AfterMetadata
<1> HIDE DEF c
<1>10. RegistryAt(c, "list") = [d \in KeptBy(c) |->
             IF d = c.doc THEN NewEntry(c)
             ELSE IF d = c.prev THEN [count |-> c.old.metadata[d].count, until |-> c.doc]
             ELSE c.old.registry[d]]
    BY DEF RegistryAt, AfterRegistry
<1>11. registry' = RegistryAt(c, "list")
    <2> DEFINE new == NewEntry(c)
               replaced(d) == [count |-> c.old.metadata[d].count, until |-> c.doc]
               Saved(d) == CASE d = c.doc -> new
                             [] d = c.prev -> metadata[d]
                             [] OTHER -> registry[d]
               Listed(d) == IF d = c.doc THEN new ELSE IF d = c.prev THEN replaced(d) ELSE c.old.registry[d]
    <2> HIDE DEF new, replaced
    <2>1. \A d \in KeptBy(c) : Saved(d) = Listed(d)
        BY <1>5, <1>6, <1>9 DEF replaced
    <2>2. registry' = [d \in KeptBy(c) |-> Saved(d)]
        BY <1>7, <1>8 DEF new
    <2>3. RegistryAt(c, "list") = [d \in KeptBy(c) |-> Listed(d)]
        BY <1>10 DEF new, replaced
    <2> HIDE DEF Saved, Listed
    <2>4. QED
        BY <2>1, <2>2, <2>3
<1>12. /\ UnitsAt(c, "list") = UnitsAt(c, "registry")
       /\ EndedAt(c, "list") = EndedAt(c, "registry")
       /\ MetadataAt(c, "list") = MetadataAt(c, "registry")
    BY DEF UnitsAt, EndedAt, MetadataAt, AfterPrevious, AfterPreviousUnits, AfterMetadata, AfterRegistry
<1>13. QED
    BY <1>1, <1>2, <1>3, <1>4, <1>11, <1>12 DEF WritesAt, SaveRegistry, Follow, c

\* The steps that rebuild the index leave the files alone.
LEMMA RebuildsIndex ==
    ASSUME Typed, FilesFollow, NEW p \in Procs, NEW s,
           \/ s = "list" /\ ListDocuments(p)
           \/ s = "reset" /\ ResetIndex(p)
           \/ s = "read" /\ ReadUnits(p)
           \/ s = "publish" /\ PublishIndex(p),
           Works(proc[p])
    PROVE  WritesAt(p, s)
<1> DEFINE c == proc[p]  n == NextStep(c, s)
<1>1. Doing(p, s) /\ c.op # "rebuild"
    BY DEF ListDocuments, ResetIndex, ReadUnits, PublishIndex, Works
<1>2. Works(c) /\ lock = p /\ CommandTyped(c) /\ At(c, s) /\ Follow(c, s) /\ s \in WriterSteps
    BY <1>1, WriterIsAt
<1>3. GoesOn(p)
    BY <1>1, <1>2, DoneGoesOn DEF ListDocuments, ResetIndex, ReadUnits, PublishIndex
<1>4. n \in AfterRegistry /\ s \in AfterRegistry /\ s # "project" /\ s # "record" /\ s # "directory"
    BY DEF NextStep, AfterRegistry
<1> HIDE DEF c, n
<1>5. /\ MetadataAt(c, n) = MetadataAt(c, s) /\ UnitsAt(c, n) = UnitsAt(c, s)
      /\ EndedAt(c, n) = EndedAt(c, s) /\ RegistryAt(c, n) = RegistryAt(c, s)
    BY <1>4
    DEF MetadataAt, UnitsAt, EndedAt, RegistryAt, AfterPrevious, AfterPreviousUnits, AfterMetadata, AfterRegistry
<1>6. UNCHANGED << files, audit, citations, lock, history >>
    BY DEF ListDocuments, ResetIndex, ReadUnits, PublishIndex, files
<1>7. QED
    BY <1>2, <1>3, <1>4, <1>5, <1>6 DEF WritesAt, Follow, files, c, n

-----------------------------------------------------------------------------
(* The invariant, one lemma for each kind of step.                           *)

LEMMA NextIsStep ==
    ASSUME NEW c, NEW s \in WriterSteps, s # "record", s # "project"
    PROVE  NextStep(c, s) \in WriterSteps \ {"directory", "units", "project"}
BY DEF NextStep, WriterSteps, AfterDirectory, AfterPrevious, AfterPreviousUnits, AfterMetadata, AfterRegistry

\* A writer that has not recorded goes on, forward or back.
WorksOn(p) ==
    LET c == proc[p]
    IN  /\ lock = p /\ Works(c) /\ CommandTyped(c) /\ c.todo # ToProject
        /\ DOMAIN proc' = Procs /\ \A q \in Procs : q # p => proc'[q] = proc[q]
        /\ Same(c, proc'[p]) /\ proc'[p].todo # ToProject
        /\ Between(c, metadata', units', ended', registry', present')
        /\ PresentBefore(c, present') = PresentBefore(c, present)
        /\ Following(p)'
        /\ UNCHANGED << audit, citations, lock, history >>

LEMMA WorksOnKeeps ==
    ASSUME IInv, NEW p \in Procs, WorksOn(p)
    PROVE  IInv'
<1> DEFINE c == proc[p]  d == proc'[p]
<1>1. /\ lock = p /\ Works(c) /\ CommandTyped(c) /\ c.todo # ToProject
      /\ DOMAIN proc' = Procs /\ \A q \in Procs : q # p => proc'[q] = proc[q]
      /\ Same(c, d) /\ d.todo # ToProject
      /\ Between(c, metadata', units', ended', registry', present')
      /\ PresentBefore(c, present') = PresentBefore(c, present)
      /\ Following(p)'
      /\ audit' = audit /\ evidence' = evidence /\ shown' = shown /\ lock' = lock
      /\ stops' = stops /\ interrupted' = interrupted
    BY DEF WorksOn, citations, history
<1>2. /\ CommandTyped(d) /\ Works(d)
      /\ d.op = c.op /\ d.doc = c.doc /\ d.prev = c.prev /\ d.new = c.new /\ d.old = c.old
      /\ PresentBefore(d, present') = PresentBefore(c, present)
    BY <1>1, SameFiles DEF Same
<1>3. Typed /\ \A q \in Procs : q # p => ~ Works(proc[q]) /\ ~ Works(proc'[q]) /\ ~ Shows(proc[q])
    BY <1>1, OneWorks DEF IInv
<1>4. OldSound(c, present, audit, Left)
    BY <1>1 DEF IInv, OldIsSound
<1>5. /\ Grounded(c)
      /\ Sound(c.old.metadata, c.old.units, c.old.registry, PresentBefore(c, present), audit, Left)
    BY <1>4 DEF OldSound
<1>6. Left' = Left /\ Loose' = Left \cup (IF c.op = "import" THEN {c.doc} ELSE {})
    <2>1. LooseIn(interrupted, proc') = LeftBy(interrupted) \cup Importing(d)
        BY <1>3, LooseIs
    <2>2. Importing(d) = IF c.op = "import" THEN {c.doc} ELSE {}
        BY <1>1, <1>2 DEF Importing
    <2>3. QED
        BY <1>1, <2>1, <2>2 DEF Loose, Left
<1> HIDE DEF c, d
<1>7. Typed'
    <2>1. FilesTyped(metadata', units', ended', registry')
        BY <1>1, <1>5, TypedBetween
    <2>2. present' \subseteq Docs
        BY <1>1, <1>3 DEF Typed, CommandTyped, PresentBefore
    <2>3. ASSUME NEW q \in Procs
          PROVE  ProcTyped(proc'[q]) /\ (Works(proc'[q]) \/ Shows(proc'[q]) <=> lock' = q)
        <3>1. CASE q = p
            BY <1>1, <1>2, <3>1 DEF ProcTyped, Works, d
        <3>2. CASE q # p
            BY <1>1, <1>3, <3>2 DEF Typed
        <3>3. QED
            BY <3>1, <3>2
    <2>4. QED
        BY <1>1, <1>3, <2>1, <2>2, <2>3 DEF Typed
<1>8. FilesFollow'
    <2>1. \A q \in Procs : Works(proc'[q]) => q = p
        BY <1>1, <1>3
    <2>2. QED
        BY <1>1, <2>1 DEF FilesFollow
<1>9. Sound(metadata, units, registry, present, audit, Loose)' /\ OlderFirst(audit.versions)'
    <2>1. Sound(c.old.metadata, c.old.units, c.old.registry, PresentBefore(c, present'), audit, Left)
        BY <1>1, <1>5
    <2>2. Sound(metadata', units', registry', present', audit, Loose')
        BY <1>1, <1>3, <1>5, <1>6, <2>1, SoundBetween DEF Typed
    <2>3. QED
        BY <1>1, <2>2 DEF IInv
<1>10. OldIsSound'
    <2>1. OldSound(d, present', audit, Left)
        BY <1>2, <1>5 DEF OldSound, Grounded
    <2>2. QED
        BY <1>1, <1>3, <1>6, <2>1 DEF OldIsSound, d
<1>11. KeepsCited'
    <2>1. ASSUME NEW q \in Procs, proc'[q].op = "decompose"
          PROVE  LinkedUnits(proc'[q].doc) \subseteq proc'[q].new
        <3>1. q = p
            BY <1>3, <2>1 DEF Works
        <3>2. LinkedUnits(c.doc) \subseteq c.new
            BY <1>2, <2>1, <3>1 DEF KeepsCited, IInv, c, d
        <3>3. QED
            BY <1>2, <3>1, <3>2 DEF d
    <2>2. QED
        BY <1>1, <2>1 DEF KeepsCited, LinkedUnits
<1>12. Reconciled'
    <2>1. interrupted = {} => OldConsistent(c, present, audit)
        BY <1>1 DEF IInv, Reconciled, c
    <2>2. interrupted = {} => OldConsistent(d, present', audit)
        BY <1>2, <2>1 DEF OldConsistent
    <2>3. QED
        BY <1>1, <1>2, <1>3, <2>2 DEF Reconciled, d
<1>13. ShowsCited'
    BY <1>1, <1>2, <1>3 DEF ShowsCited, Shows, Works, d
<1>14. QED
    BY <1>7, <1>8, <1>9, <1>10, <1>11, <1>12, <1>13 DEF IInv

\* Forward, from what it found to its next step.
LEMMA WritesKeep ==
    ASSUME IInv, NEW p \in Procs, NEW s, WritesAt(p, s)
    PROVE  IInv'
<1> DEFINE c == proc[p]  d == proc'[p]  n == NextStep(c, s)
<1>1. /\ s \in WriterSteps /\ s # "project" /\ s # "record"
      /\ lock = p /\ Works(c) /\ CommandTyped(c) /\ At(c, s) /\ Follow(c, s)
      /\ DOMAIN proc' = Procs /\ (\A q \in Procs : q # p => proc'[q] = proc[q])
      /\ metadata' = MetadataAt(c, n) /\ units' = UnitsAt(c, n)
      /\ ended' = EndedAt(c, n) /\ registry' = RegistryAt(c, n)
      /\ UNCHANGED << audit, citations, lock, history >>
    BY DEF WritesAt, GoesOn
<1>2. Same(c, d) /\ d.todo = Tail(c.todo)
    BY MovedIsSame DEF WritesAt, GoesOn
<1>3. n \in WriterSteps /\ n # "directory" /\ n # "project" /\ At(d, n)
    <2>1. d.op = c.op /\ d.prev = c.prev
        BY <1>2 DEF Same
    <2>2. QED
        BY <1>1, <1>2, <2>1, NextIsStep, Advance
<1>4. c.todo # ToProject /\ d.todo # ToProject
    BY <1>1, <1>3, AtProject
<1>5. /\ present' = IF s = "directory" THEN present \cup {c.doc} ELSE present
      /\ s = "directory" => c.op = "import"
      /\ s # "directory" => c.doc \in present
    BY <1>1 DEF WritesAt, At, Follow
<1>6. c.doc \in present' /\ PresentBefore(c, present') = PresentBefore(c, present)
    BY <1>5 DEF PresentBefore
<1>7. OldSound(c, present, audit, Left)
    BY <1>1, <1>4 DEF IInv, OldIsSound
<1> HIDE DEF c, d, n
<1>8. Between(c, metadata', units', ended', registry', present')
    <2>1. /\ Grounded(c)
          /\ Sound(c.old.metadata, c.old.units, c.old.registry, PresentBefore(c, present'), audit, Left)
        BY <1>6, <1>7 DEF OldSound
    <2>2. Between(c, MetadataAt(c, n), UnitsAt(c, n), EndedAt(c, n), RegistryAt(c, n), present')
        BY <1>1, <1>3, <1>6, <2>1, FollowIsBetween
    <2>3. QED
        BY <1>1, <2>2
<1>9. Following(p)'
    <2>1. /\ metadata' = MetadataAt(d, n) /\ units' = UnitsAt(d, n)
          /\ ended' = EndedAt(d, n) /\ registry' = RegistryAt(d, n) /\ d.doc \in present'
        BY <1>1, <1>2, <1>6, SameFiles DEF Same
    <2>2. QED
        BY <1>3, <2>1 DEF Following, Follow, d
<1>10. QED
    BY <1>1, <1>2, <1>4, <1>6, <1>8, <1>9, WorksOnKeeps DEF WorksOn, c, d

LEMMA NotToProject ==
    ASSUME NEW c, NEW t \in UndoNames, UndoAt(c, t)
    PROVE  c.todo # ToProject
<1>1. Head(c.todo) = t /\ t # "project"
    BY UndoAdvance DEF UndoNames
<1>2. Head(ToProject) = "project"
    BY DEF ToProject
<1>3. QED
    BY <1>1, <1>2

\* A writer that is not done begins to roll back.
LEMMA BeginsRollback ==
    ASSUME IInv, NEW p \in Procs, BeginRollback(p)
    PROVE  IInv'
<1> DEFINE c == proc[p]  d == proc'[p]
<1>1. /\ Typed /\ FilesFollow /\ DOMAIN proc = Procs
      /\ Works(c) /\ lock = p /\ CommandTyped(c)
    BY DEF IInv, Typed, BeginRollback, ProcTyped, Works
<1>2. /\ ~ Doing(p, "project") /\ ~ Undoing(p)
      /\ proc' = [proc EXCEPT ![p] = WithTodo(c, UndoSteps(c))]
      /\ UNCHANGED << files, audit, citations, lock, history >>
    BY DEF BeginRollback, WithTodo
<1>3. PICK s \in WriterSteps : At(c, s) /\ Follow(c, s)
    <2>1. ASSUME NEW t \in UndoNames, UndoAt(c, t) PROVE FALSE
        BY <1>2, <2>1, UndoAdvance DEF Undoing, Doing
    <2>2. QED
        BY <1>1, <2>1 DEF FilesFollow, Following
<1>4. c.todo # ToProject
    BY <1>2 DEF Doing, ToProject
<1>5. OldSound(c, present, audit, Left)
    BY <1>1, <1>4 DEF IInv, OldIsSound
<1>6. d = WithTodo(c, UndoSteps(c)) /\ DOMAIN proc' = Procs /\ \A q \in Procs : q # p => proc'[q] = proc[q]
    BY <1>1, <1>2
<1> HIDE DEF c, d
<1>7. Same(c, d) /\ d.todo = UndoSteps(c)
    <2>1. c = CommandOf(c.op, c.doc, c.prev, c.new, c.todo, c.old, c.listed, c.rows)
        BY <1>1 DEF CommandTyped, CommandOf
    <2>2. d = CommandOf(c.op, c.doc, c.prev, c.new, UndoSteps(c), c.old, c.listed, c.rows)
        BY <1>6, <2>1, FieldsChange
    <2>3. QED
        BY <2>2 DEF CommandOf, Same
<1>8. Between(c, metadata, units, ended, registry, present)
    <2>1. Between(c, MetadataAt(c, s), UnitsAt(c, s), EndedAt(c, s), RegistryAt(c, s), present)
        <3>1. s # "directory" => c.doc \in present
            BY <1>3 DEF Follow
        <3>2. QED
            BY <1>1, <1>5, <3>1, FollowIsBetween DEF OldSound
    <2>2. QED
        BY <1>3, <2>1 DEF Follow
<1> DEFINE t == IF c.op = "import" THEN "undo files" ELSE "undo units"
<1>9. t \in UndoNames /\ UndoAt(d, t) /\ d.todo # ToProject
    <2>1. c.op \in {"import", "decompose"} /\ d.op = c.op /\ d.prev = c.prev
        BY <1>1, <1>7 DEF Works, Same
    <2>2. t \in UndoNames /\ UndoAt(d, t)
        BY <1>1, <1>7, <2>1, UndoIsChain DEF UndoAt, UndoNames
    <2>3. d.todo # ToProject
        <3> HIDE DEF t
        <3>1. QED
            BY <2>2, NotToProject
    <2>4. QED
        BY <2>2, <2>3
<1>10. Undone(c, t, metadata, units, ended, registry, present)
    <2>1. CASE c.op = "import"
        BY <1>8, <2>1 DEF Undone
    <2>2. CASE c.op # "import"
        <3>1. c.prev = Nobody
            BY <1>1, <2>2 DEF CommandTyped, Works
        <3>2. ended = c.old.ended /\ present = PresentBefore(c, present)
            BY <1>8, <2>2, <3>1 DEF Between
        <3>3. QED
            BY <1>8, <2>2, <3>1, <3>2 DEF Undone
    <2>3. QED
        BY <2>1, <2>2
<1> HIDE DEF t
<1>11. /\ metadata' = metadata /\ units' = units /\ ended' = ended /\ registry' = registry
       /\ present' = present
    BY <1>2 DEF files
<1>12. Following(p)'
    <2>1. Undone(d, t, metadata', units', ended', registry', present')
        BY <1>7, <1>10, <1>11, SameFiles
    <2>2. QED
        BY <1>9, <2>1 DEF Following, UndoFollow, d
<1>13. QED
    BY <1>1, <1>2, <1>4, <1>6, <1>7, <1>8, <1>9, <1>11, <1>12, WorksOnKeeps DEF WorksOn, c, d

\* Step t of a rollback, except the last.
Undoes(p, t) ==
    LET c == proc[p]
    IN  /\ t \in UndoNames /\ t # "undo index"
        /\ lock = p /\ Works(c) /\ CommandTyped(c) /\ UndoAt(c, t)
        /\ GoesOn(p)
        /\ Undone(c, NextUndo(c, t), metadata', units', ended', registry', present')
        /\ PresentBefore(c, present') = PresentBefore(c, present)
        /\ UNCHANGED << audit, citations, lock, history >>

LEMMA UndoesKeep ==
    ASSUME IInv, NEW p \in Procs, NEW t, Undoes(p, t)
    PROVE  IInv'
<1> DEFINE c == proc[p]  d == proc'[p]  n == NextUndo(c, t)
<1>1. /\ t \in UndoNames /\ t # "undo index"
      /\ lock = p /\ Works(c) /\ CommandTyped(c) /\ UndoAt(c, t)
      /\ DOMAIN proc' = Procs /\ (\A q \in Procs : q # p => proc'[q] = proc[q]) /\ Moves(c, d)
      /\ Undone(c, n, metadata', units', ended', registry', present')
      /\ PresentBefore(c, present') = PresentBefore(c, present)
      /\ UNCHANGED << audit, citations, lock, history >>
    BY DEF Undoes, GoesOn
<1> HIDE DEF c, d, n
<1>2. Same(c, d) /\ d.todo = Tail(c.todo) /\ d.op = c.op /\ d.prev = c.prev
    BY <1>1, MovedIsSame DEF Same
<1>3. UndoAt(d, n) /\ n \in UndoNames
    <2>1. UndoAt(d, n)
        BY <1>1, <1>2, UndoAdvance DEF n
    <2>2. n \in UndoNames
        BY DEF n, NextUndo, UndoNames
    <2>3. QED
        BY <2>1, <2>2
<1>4. c.todo # ToProject /\ d.todo # ToProject
    BY <1>1, <1>3, NotToProject
<1>5. Between(c, metadata', units', ended', registry', present')
    BY <1>1 DEF Undone
<1>6. Following(p)'
    <2>1. Undone(d, n, metadata', units', ended', registry', present')
        BY <1>1, <1>2, SameFiles
    <2>2. QED
        BY <1>3, <2>1 DEF Following, UndoFollow, d
<1>7. QED
    BY <1>1, <1>2, <1>4, <1>5, <1>6, WorksOnKeeps DEF WorksOn, c, d

\* What a rollback finds at step t.
UndoesFrom(p, t) ==
    LET c == proc[p]
    IN  /\ Works(c) /\ lock = p /\ CommandTyped(c) /\ t \in UndoNames /\ UndoAt(c, t)
        /\ Undone(c, t, metadata, units, ended, registry, present)
        /\ c.doc \in Docs /\ c.prev # c.doc
        /\ c.op = "import" => c.old.metadata[c.doc] = NoMetadata /\ c.old.units[c.doc] = {}
        /\ c.old.metadata \in [Docs -> Entry \cup {NoMetadata}] /\ c.old.units \in [Docs -> SUBSET Units]

LEMMA RollbackIsAt ==
    ASSUME IInv, NEW p \in Procs, NEW t \in UndoNames, Doing(p, t)
    PROVE  UndoesFrom(p, t) /\ (proc' = Done(p) => GoesOn(p))
<1> DEFINE c == proc[p]
<1>1. Typed /\ FilesFollow
    BY DEF IInv
<1>2. Works(c) /\ lock = p /\ CommandTyped(c) /\ UndoAt(c, t) /\ UndoFollow(c, t)
    BY <1>1, UndoerIsAt
<1>3. OldSound(c, present, audit, Left)
    BY <1>2, NotToProject DEF IInv, OldIsSound
<1>4. c.doc \in Docs /\ c.prev # c.doc
      /\ c.old.metadata \in [Docs -> Entry \cup {NoMetadata}] /\ c.old.units \in [Docs -> SUBSET Units]
    BY <1>2 DEF CommandTyped, FilesTyped
<1>5. c.op = "import" => c.old.metadata[c.doc] = NoMetadata /\ c.old.units[c.doc] = {}
    BY <1>3, <1>4 DEF OldSound, Sound, PresentBefore
<1>6. proc' = Done(p) => GoesOn(p)
    BY <1>1, <1>2, DoneGoesOn
<1>7. QED
    BY <1>2, <1>4, <1>5, <1>6 DEF UndoesFrom, UndoFollow

LEMMA UndoesFiles ==
    ASSUME IInv, NEW p \in Procs, UndoFiles(p)
    PROVE  Undoes(p, "undo files")
<1> DEFINE c == proc[p]
<1>1. UndoesFrom(p, "undo files") /\ GoesOn(p)
    BY RollbackIsAt DEF UndoFiles, UndoNames
<1>2. /\ Undone(c, "undo files", metadata, units, ended, registry, present) /\ c.op = "import"
      /\ c.doc \in Docs /\ c.prev # c.doc
      /\ c.old.metadata[c.doc] = NoMetadata /\ c.old.units[c.doc] = {}
    BY <1>1 DEF UndoesFrom, UndoAt
<1>3. /\ metadata' = [metadata EXCEPT ![c.doc] = NoMetadata] /\ units' = [units EXCEPT ![c.doc] = {}]
      /\ ended' = ended /\ registry' = registry /\ present' = present
      /\ UNCHANGED << audit, citations, lock, history >>
    BY DEF UndoFiles
<1>4. NextUndo(c, "undo files") = "undo directory"
    BY DEF NextUndo
<1> HIDE DEF c
<1>5. Undone(c, "undo directory", metadata', units', ended', registry', present')
    <2>1. Between(c, metadata, units, ended, registry, present)
        BY <1>2 DEF Undone
    <2>2. /\ metadata \in [Docs -> Entry \cup {NoMetadata}] /\ units \in [Docs -> SUBSET Units]
        BY <2>1 DEF Between
    <2>3. /\ metadata' \in [Docs -> Entry \cup {NoMetadata}] /\ units' \in [Docs -> SUBSET Units]
          /\ metadata'[c.doc] = NoMetadata /\ units'[c.doc] = {}
          /\ \A d \in Docs : d # c.doc => metadata'[d] = metadata[d] /\ units'[d] = units[d]
        BY <1>2, <1>3, <2>2
    <2>4. Between(c, metadata', units', ended', registry', present')
        BY <1>2, <1>3, <2>1, <2>3 DEF Between
    <2>5. QED
        BY <1>2, <2>3, <2>4 DEF Undone
<1>6. QED
    BY <1>1, <1>3, <1>4, <1>5 DEF Undoes, UndoesFrom, c

LEMMA UndoesDirectory ==
    ASSUME IInv, NEW p \in Procs, UndoDirectory(p)
    PROVE  Undoes(p, "undo directory")
<1> DEFINE c == proc[p]  n == NextUndo(c, "undo directory")
<1>1. UndoesFrom(p, "undo directory") /\ GoesOn(p)
    BY RollbackIsAt DEF UndoDirectory, UndoNames
<1>2. Undone(c, "undo directory", metadata, units, ended, registry, present) /\ c.op = "import"
    BY <1>1 DEF UndoesFrom, UndoAt
<1>3. /\ metadata' = metadata /\ units' = units /\ ended' = ended /\ registry' = registry
      /\ present' = present \ {c.doc}
      /\ UNCHANGED << audit, citations, lock, history >>
    BY DEF UndoDirectory
<1>4. n = IF c.prev = Nobody THEN "undo registry" ELSE "undo previous"
    BY DEF NextUndo
<1> HIDE DEF c, n
<1>5. PresentBefore(c, present') = PresentBefore(c, present) /\ present' = PresentBefore(c, present')
    BY <1>2, <1>3 DEF PresentBefore
<1>6. Undone(c, n, metadata', units', ended', registry', present')
    <2>1. /\ Between(c, metadata, units, ended, registry, present)
          /\ metadata[c.doc] = c.old.metadata[c.doc] /\ units[c.doc] = c.old.units[c.doc]
        BY <1>2 DEF Undone
    <2>2. Between(c, metadata', units', ended', registry', present')
        BY <1>2, <1>3, <2>1 DEF Between
    <2>3. c.prev = Nobody => ended' = c.old.ended
        BY <2>2 DEF Between
    <2>4. QED
        BY <1>3, <1>4, <1>5, <2>1, <2>2, <2>3 DEF Undone
<1>7. QED
    BY <1>1, <1>3, <1>5, <1>6 DEF Undoes, UndoesFrom, UndoNames, c, n

LEMMA UndoesPrevious ==
    ASSUME IInv, NEW p \in Procs, UndoPrevious(p)
    PROVE  Undoes(p, "undo previous")
<1> DEFINE c == proc[p]  old == c.old.metadata[c.prev]
<1>1. UndoesFrom(p, "undo previous") /\ GoesOn(p)
    BY RollbackIsAt DEF UndoPrevious, UndoNames
<1>2. /\ Undone(c, "undo previous", metadata, units, ended, registry, present)
      /\ CommandTyped(c) /\ Works(c) /\ c.prev # Nobody /\ c.prev # c.doc
      /\ c.old.metadata \in [Docs -> Entry \cup {NoMetadata}]
    BY <1>1 DEF UndoesFrom, UndoAt
<1>3. /\ metadata' = [metadata EXCEPT ![c.prev] = old]
      /\ units' = units /\ ended' = ended /\ registry' = registry /\ present' = present
      /\ UNCHANGED << audit, citations, lock, history >>
    BY DEF UndoPrevious
<1>4. NextUndo(c, "undo previous") = "undo previous units"
    BY DEF NextUndo
<1> HIDE DEF c
<1>5. c.prev \in Docs /\ old \in Entry \cup {NoMetadata}
    BY <1>2 DEF CommandTyped
<1> HIDE DEF old
<1>6. Undone(c, "undo previous units", metadata', units', ended', registry', present')
    <2>1. Between(c, metadata, units, ended, registry, present)
        BY <1>2 DEF Undone
    <2>2. metadata \in [Docs -> Entry \cup {NoMetadata}]
        BY <2>1 DEF Between
    <2>3. /\ metadata' \in [Docs -> Entry \cup {NoMetadata}] /\ metadata'[c.prev] = old
          /\ \A d \in Docs : d # c.prev => metadata'[d] = metadata[d]
        BY <1>3, <1>5, <2>2
    <2>4. Between(c, metadata', units', ended', registry', present')
        BY <1>3, <2>1, <2>3 DEF Between, old
    <2>5. /\ metadata[c.doc] = c.old.metadata[c.doc] /\ units[c.doc] = c.old.units[c.doc]
          /\ present = PresentBefore(c, present) /\ c.doc \in Docs
        BY <1>2 DEF Undone, CommandTyped
    <2>6. QED
        BY <1>2, <1>3, <2>3, <2>4, <2>5 DEF Undone, old
<1>7. QED
    BY <1>1, <1>3, <1>4, <1>6 DEF Undoes, UndoesFrom, c

LEMMA UndoesPreviousUnits ==
    ASSUME IInv, NEW p \in Procs, UndoPreviousUnits(p)
    PROVE  Undoes(p, "undo previous units")
<1> DEFINE c == proc[p]
<1>1. UndoesFrom(p, "undo previous units") /\ GoesOn(p)
    BY RollbackIsAt DEF UndoPreviousUnits, UndoNames
<1>2. Undone(c, "undo previous units", metadata, units, ended, registry, present)
    BY <1>1 DEF UndoesFrom
<1>3. /\ metadata' = metadata /\ units' = units /\ registry' = registry /\ present' = present
      /\ ended' = (ended \ {c.prev}) \cup (c.old.ended \cap {c.prev})
      /\ UNCHANGED << audit, citations, lock, history >>
    BY DEF UndoPreviousUnits
<1>4. NextUndo(c, "undo previous units") = "undo registry"
    BY DEF NextUndo
<1> HIDE DEF c
<1>5. Between(c, metadata, units, ended, registry, present)
    BY <1>2 DEF Undone
<1>6. ended' = c.old.ended
    BY <1>3, <1>5 DEF Between
<1>7. Between(c, metadata', units', ended', registry', present')
    BY <1>3, <1>5, <1>6 DEF Between
<1>8. Undone(c, "undo registry", metadata', units', ended', registry', present')
    BY <1>2, <1>3, <1>6, <1>7 DEF Undone
<1>9. QED
    BY <1>1, <1>3, <1>4, <1>8 DEF Undoes, UndoesFrom, c

LEMMA UndoesUnits ==
    ASSUME IInv, NEW p \in Procs, UndoUnits(p)
    PROVE  Undoes(p, "undo units")
<1> DEFINE c == proc[p]  old == c.old.units[c.doc]
<1>1. UndoesFrom(p, "undo units") /\ GoesOn(p)
    BY RollbackIsAt DEF UndoUnits, UndoNames
<1>2. /\ Undone(c, "undo units", metadata, units, ended, registry, present) /\ c.doc \in Docs
      /\ c.old.units \in [Docs -> SUBSET Units]
    BY <1>1 DEF UndoesFrom
<1>3. /\ units' = [units EXCEPT ![c.doc] = old]
      /\ metadata' = metadata /\ ended' = ended /\ registry' = registry /\ present' = present
      /\ UNCHANGED << audit, citations, lock, history >>
    BY DEF UndoUnits
<1>4. NextUndo(c, "undo units") = "undo metadata"
    BY DEF NextUndo
<1> HIDE DEF c
<1>5. old \in SUBSET Units
    BY <1>2
<1> HIDE DEF old
<1>6. Between(c, metadata, units, ended, registry, present)
    BY <1>2 DEF Undone
<1>7. /\ units' \in [Docs -> SUBSET Units] /\ units'[c.doc] = old
      /\ \A d \in Docs : d # c.doc => units'[d] = units[d]
    <2>1. units \in [Docs -> SUBSET Units]
        BY <1>6 DEF Between
    <2>2. QED
        BY <1>2, <1>3, <1>5, <2>1
<1>8. Between(c, metadata', units', ended', registry', present')
    BY <1>3, <1>6, <1>7 DEF Between, old
<1>9. Undone(c, "undo metadata", metadata', units', ended', registry', present')
    BY <1>2, <1>3, <1>7, <1>8 DEF Undone, old
<1>10. QED
    BY <1>1, <1>3, <1>4, <1>9 DEF Undoes, UndoesFrom, c

LEMMA UndoesMetadata ==
    ASSUME IInv, NEW p \in Procs, UndoMetadata(p)
    PROVE  Undoes(p, "undo metadata")
<1> DEFINE c == proc[p]  old == c.old.metadata[c.doc]
<1>1. UndoesFrom(p, "undo metadata") /\ GoesOn(p)
    BY RollbackIsAt DEF UndoMetadata, UndoNames
<1>2. /\ Undone(c, "undo metadata", metadata, units, ended, registry, present) /\ c.doc \in Docs
      /\ c.old.metadata \in [Docs -> Entry \cup {NoMetadata}] /\ c.prev # c.doc
    BY <1>1 DEF UndoesFrom
<1>3. /\ metadata' = [metadata EXCEPT ![c.doc] = old]
      /\ units' = units /\ ended' = ended /\ registry' = registry /\ present' = present
      /\ UNCHANGED << audit, citations, lock, history >>
    BY DEF UndoMetadata
<1>4. NextUndo(c, "undo metadata") = "undo registry" /\ c.prev \in Docs \cup {Nobody}
    BY <1>1 DEF NextUndo, UndoesFrom, CommandTyped
<1> HIDE DEF c
<1>5. old \in Entry \cup {NoMetadata}
    BY <1>2
<1> HIDE DEF old
<1>6. Between(c, metadata, units, ended, registry, present)
    BY <1>2 DEF Undone
<1>7. /\ metadata' \in [Docs -> Entry \cup {NoMetadata}] /\ metadata'[c.doc] = old
      /\ \A d \in Docs : d # c.doc => metadata'[d] = metadata[d]
    <2>1. metadata \in [Docs -> Entry \cup {NoMetadata}]
        BY <1>6 DEF Between
    <2>2. QED
        BY <1>2, <1>3, <1>5, <2>1
<1>8. Between(c, metadata', units', ended', registry', present')
    BY <1>3, <1>6, <1>7 DEF Between, old
<1>9. Undone(c, "undo registry", metadata', units', ended', registry', present')
    BY <1>2, <1>3, <1>4, <1>7, <1>8 DEF Undone, old
<1>10. QED
    BY <1>1, <1>3, <1>4, <1>9 DEF Undoes, UndoesFrom, c

LEMMA UndoesRegistry ==
    ASSUME IInv, NEW p \in Procs, UndoRegistry(p)
    PROVE  Undoes(p, "undo registry")
<1> DEFINE c == proc[p]
<1>1. UndoesFrom(p, "undo registry") /\ GoesOn(p)
    BY RollbackIsAt DEF UndoRegistry, UndoNames
<1>2. Undone(c, "undo registry", metadata, units, ended, registry, present)
    BY <1>1 DEF UndoesFrom
<1>3. /\ metadata' = metadata /\ units' = units /\ ended' = ended /\ present' = present
      /\ registry' = c.old.registry
      /\ UNCHANGED << audit, citations, lock, history >>
    BY DEF UndoRegistry
<1>4. NextUndo(c, "undo registry") = "undo index"
    BY DEF NextUndo
<1> HIDE DEF c
<1>5. Between(c, metadata', units', ended', registry', present')
    <2>1. Between(c, metadata, units, ended, registry, present)
        BY <1>2 DEF Undone
    <2>2. QED
        BY <1>3, <2>1 DEF Between
<1>6. Undone(c, "undo index", metadata', units', ended', registry', present')
    BY <1>2, <1>3, <1>5 DEF Undone
<1>7. QED
    BY <1>1, <1>3, <1>4, <1>6 DEF Undoes, UndoesFrom, c

\* Steps that leave the writers and their files alone keep the invariant.
LEMMA AsideKeeps ==
    ASSUME IInv, Typed', ShowsCited',
           \A q \in Procs : Works(proc[q]) \/ Works(proc'[q]) => proc'[q] = proc[q] /\ shown' = shown,
           UNCHANGED << files, audit, interrupted >>
    PROVE  IInv'
<1>1. /\ metadata' = metadata /\ units' = units /\ ended' = ended /\ present' = present
      /\ registry' = registry /\ audit' = audit /\ interrupted' = interrupted
    BY DEF files
<1>2. \A q \in Procs : Works(proc[q]) \/ Works(proc'[q]) => proc'[q] = proc[q] /\ shown' = shown
    OBVIOUS
<1>3. FilesFollow'
    BY <1>1, <1>2 DEF IInv, FilesFollow, Following, Follow, UndoFollow
<1>4. Left' = Left /\ Loose' = Loose
    <2>1. \A q \in Procs : Importing(proc'[q]) = Importing(proc[q])
        BY <1>2 DEF Importing, Works
    <2>2. QED
        BY <1>1, <2>1 DEF Left, Loose, LooseIn
<1>5. Sound(metadata, units, registry, present, audit, Loose)' /\ OlderFirst(audit.versions)'
    BY <1>1, <1>4 DEF IInv
<1>6. OldIsSound'
    BY <1>1, <1>2, <1>4 DEF IInv, OldIsSound
<1>7. KeepsCited'
    <2>1. ASSUME NEW q \in Procs, proc'[q].op = "decompose"
          PROVE  LinkedUnits(proc[q].doc)' \subseteq proc'[q].new
        <3>1. shown' = shown /\ proc'[q] = proc[q]
            BY <1>2, <2>1 DEF Works
        <3>2. LinkedUnits(proc[q].doc) \subseteq proc[q].new
            BY <2>1, <3>1 DEF IInv, KeepsCited
        <3>3. QED
            BY <3>1, <3>2 DEF LinkedUnits
    <2>2. QED
        BY <2>1 DEF KeepsCited
<1>8. Reconciled'
    BY <1>1, <1>2 DEF IInv, Reconciled
<1>9. QED
    BY <1>3, <1>5, <1>6, <1>7, <1>8 DEF IInv

\* Only writers matter: what others do to themselves keeps the invariant, and
\* evidence is linked and shown while nobody writes.
OnlyOther(p) ==
    /\ ~ Works(proc[p]) /\ DOMAIN proc' = Procs /\ \A q \in Procs : q # p => proc'[q] = proc[q]
    /\ ProcTyped(proc'[p]) /\ ~ Works(proc'[p])
    /\ Shows(proc'[p]) => lock = Nobody /\ proc'[p].unit \in evidence'
    /\ lock' = IF Shows(proc'[p]) THEN p ELSE IF lock = p THEN Nobody ELSE lock
    /\ shown' = shown \/ lock \in {Nobody, p}
    /\ evidence \subseteq evidence' /\ shown' \subseteq evidence' /\ evidence' \subseteq Units
    /\ stops' \in Nat
    /\ UNCHANGED << files, audit, interrupted >>

LEMMA OthersKeep ==
    ASSUME IInv, NEW p \in Procs, OnlyOther(p)
    PROVE  IInv'
<1>1. /\ ~ Works(proc[p]) /\ DOMAIN proc' = Procs /\ \A q \in Procs : q # p => proc'[q] = proc[q]
      /\ ProcTyped(proc'[p]) /\ ~ Works(proc'[p])
      /\ Shows(proc'[p]) => lock = Nobody /\ proc'[p].unit \in evidence'
      /\ lock' = IF Shows(proc'[p]) THEN p ELSE IF lock = p THEN Nobody ELSE lock
      /\ shown' = shown \/ lock \in {Nobody, p}
      /\ evidence \subseteq evidence' /\ shown' \subseteq evidence' /\ evidence' \subseteq Units /\ stops' \in Nat
      /\ metadata' = metadata /\ units' = units /\ ended' = ended /\ present' = present
      /\ registry' = registry /\ audit' = audit
    BY DEF OnlyOther, files
<1>2. Typed /\ Nobody \notin Procs
    BY NobodyIsElse DEF IInv
<1>3. ASSUME NEW q \in Procs
      PROVE  ProcTyped(proc'[q]) /\ (Works(proc'[q]) \/ Shows(proc'[q]) <=> lock' = q)
    <2>1. CASE q = p
        BY <1>1, <1>2, <2>1
    <2>2. CASE q # p
        <3>1. ProcTyped(proc[q]) /\ (Works(proc[q]) \/ Shows(proc[q]) <=> lock = q) /\ proc'[q] = proc[q]
            BY <1>1, <1>2, <2>2 DEF Typed
        <3>2. lock' = q <=> lock = q
            BY <1>1, <1>2, <2>2
        <3>3. QED
            BY <3>1, <3>2
    <2>3. QED
        BY <2>1, <2>2
<1>4. Typed'
    BY <1>1, <1>2, <1>3 DEF Typed
<1>5. ASSUME NEW q \in Procs, Works(proc[q]) \/ Works(proc'[q]) PROVE proc'[q] = proc[q] /\ shown' = shown
    <2>1. q # p /\ proc'[q] = proc[q]
        BY <1>1, <1>5
    <2>2. lock = q
        BY <1>2, <1>5, <2>1 DEF Typed
    <2>3. QED
        BY <1>1, <1>2, <2>1, <2>2
<1>6. ShowsCited'
    <2>1. ASSUME NEW q \in Procs, Shows(proc'[q]) PROVE proc'[q].unit \in evidence'
        <3>1. CASE q = p
            BY <1>1, <2>1, <3>1
        <3>2. CASE q # p
            BY <1>1, <2>1, <3>2 DEF IInv, ShowsCited
        <3>3. QED
            BY <3>1, <3>2
    <2>2. QED
        BY <2>1 DEF ShowsCited
<1>7. QED
    BY <1>4, <1>5, <1>6, AsideKeeps DEF OnlyOther

\* A process that is idle, links evidence or rebuilds is none that writes.
LEMMA OthersTyped ==
    /\ ProcTyped(Idle) /\ ~ Works(Idle) /\ ~ Shows(Idle)
    /\ \A u \in Units : /\ ProcTyped(Linking(u, << >>)) /\ ~ Works(Linking(u, << >>))
                        /\ ~ Shows(Linking(u, << >>))
                        /\ ProcTyped(Linking(u, << "show" >>)) /\ ~ Works(Linking(u, << "show" >>))
                        /\ Shows(Linking(u, << "show" >>)) /\ Linking(u, << "show" >>).unit = u
    /\ \A old : LET c == CommandOf("rebuild", Nobody, Nobody, {}, Rebuilding, old, << >>, {})
                IN  ProcTyped(c) /\ ~ Works(c) /\ ~ Shows(c)
<1>1. ProcTyped(Idle) /\ ~ Works(Idle) /\ ~ Shows(Idle)
    BY DEF ProcTyped, Idle, Works, Shows
<1>2. ASSUME NEW u \in Units
      PROVE  /\ ProcTyped(Linking(u, << >>)) /\ ~ Works(Linking(u, << >>)) /\ ~ Shows(Linking(u, << >>))
             /\ ProcTyped(Linking(u, << "show" >>)) /\ ~ Works(Linking(u, << "show" >>))
             /\ Shows(Linking(u, << "show" >>)) /\ Linking(u, << "show" >>).unit = u
    BY DEF ProcTyped, Works, Shows, Linking
<1>3. ASSUME NEW old
      PROVE  LET c == CommandOf("rebuild", Nobody, Nobody, {}, Rebuilding, old, << >>, {})
             IN  ProcTyped(c) /\ ~ Works(c) /\ ~ Shows(c)
    BY DEF ProcTyped, CommandTyped, CommandOf, Works, Shows
<1>4. QED
    BY <1>1, <1>2, <1>3

\* What others have in common before their step.
LEMMA Beside ==
    ASSUME IInv, NEW p \in Procs, ~ Works(proc[p])
    PROVE  /\ Typed /\ DOMAIN proc = Procs /\ stops \in Nat /\ Nobody \notin Procs
           /\ shown \subseteq evidence /\ evidence \subseteq Units
           /\ Shows(proc[p]) <=> lock = p
BY NobodyIsElse DEF IInv, Typed

LEMMA BeginsRebuild ==
    ASSUME IInv, NEW p \in Procs, BeginRebuild(p)
    PROVE  IInv'
<1>1. /\ proc[p].op = "none"
      /\ UNCHANGED << files, audit, evidence, shown, lock, stops, interrupted >>
    BY DEF BeginRebuild, citations, history
<1>2. proc' = [proc EXCEPT ![p] =
          CommandOf("rebuild", Nobody, Nobody, {}, Rebuilding, Snapshot, << >>, {})]
    BY DEF BeginRebuild, Command, CommandOf
<1> HIDE DEF CommandOf, Snapshot
<1>3. ~ Works(proc[p]) /\ ~ Shows(proc[p])
    BY <1>1 DEF Works, Shows
<1>4. OnlyOther(p)
    BY <1>1, <1>2, <1>3, Beside, OthersTyped DEF OnlyOther
<1>5. QED
    BY <1>4, OthersKeep

\* A rebuild goes on, or ends, without the lock.
LEMMA RebuildGoesOn ==
    ASSUME IInv, NEW p \in Procs, proc[p].op = "rebuild",
           ListDocuments(p) \/ ResetIndex(p) \/ ReadUnits(p) \/ PublishIndex(p) \/ RebuildFails(p)
    PROVE  IInv'
<1> DEFINE c == proc[p]  d == proc'[p]
<1>1. UNCHANGED << files, audit, citations, lock, history >>
    BY DEF ListDocuments, ResetIndex, ReadUnits, PublishIndex, RebuildFails, files
<1>2. ~ Works(c) /\ ~ Shows(c)
    BY DEF Works, Shows
<1>3. Typed /\ DOMAIN proc = Procs /\ stops \in Nat /\ shown \subseteq evidence /\ evidence \subseteq Units
      /\ lock # p /\ CommandTyped(c)
    BY <1>2, Beside DEF Typed, ProcTyped
<1>4. /\ UNCHANGED << files, audit, interrupted >>
      /\ evidence' = evidence /\ shown' = shown /\ lock' = lock /\ stops' = stops
    BY <1>1 DEF citations, history
<1>5. CASE PublishIndex(p) \/ RebuildFails(p)
    <2>1. proc' = [proc EXCEPT ![p] = Idle]
        BY <1>5 DEF PublishIndex, RebuildFails
    <2>2. OnlyOther(p)
        BY <1>2, <1>3, <1>4, <2>1, OthersTyped DEF OnlyOther
    <2>3. QED
        BY <2>2, OthersKeep
<1>6. CASE ListDocuments(p) \/ ResetIndex(p) \/ ReadUnits(p)
    <2>1. GoesOn(p)
        BY <1>3, <1>6, DoneGoesOn DEF ListDocuments, ResetIndex, ReadUnits
    <2>2. Moves(c, d)
        BY <2>1 DEF GoesOn
    <2>3. d.op = "rebuild" /\ d.todo = Tail(c.todo)
        BY <2>2, MovedIsSame DEF Same
    <2>4. c.todo # << "publish" >>
        BY <1>6 DEF ListDocuments, ResetIndex, ReadUnits, Doing
    <2>5. c.todo \in {Rebuilding, << "reset", "read", "publish" >>, << "read", "publish" >>}
        BY <1>3, <2>4 DEF CommandTyped
    <2>6. d.todo \in {<< "reset", "read", "publish" >>, << "read", "publish" >>, << "publish" >>}
        <3>1. /\ Tail(<< "list", "reset", "read", "publish" >>) = << "reset", "read", "publish" >>
              /\ Tail(<< "reset", "read", "publish" >>) = << "read", "publish" >>
              /\ Tail(<< "read", "publish" >>) = << "publish" >>
            OBVIOUS
        <3> HIDE DEF c, d
        <3>2. QED
            BY <2>3, <2>5, <3>1 DEF Rebuilding
    <2>7. d = [op |-> d.op, doc |-> d.doc, prev |-> d.prev, new |-> d.new, todo |-> d.todo,
               old |-> d.old, listed |-> d.listed, rows |-> d.rows]
        BY <2>2, MovedIsSame DEF Same
    <2>8. ~ Works(d) /\ ~ Shows(d) /\ ProcTyped(d)
        <3> HIDE DEF d
        <3>1. QED
            BY <2>3, <2>6, <2>7 DEF ProcTyped, CommandTyped, Works, Shows
    <2>9. OnlyOther(p)
        BY <1>2, <1>3, <1>4, <2>1, <2>8 DEF OnlyOther, GoesOn
    <2>10. QED
        BY <2>9, OthersKeep
<1>7. QED
    BY <1>5, <1>6

LEMMA Links ==
    ASSUME IInv, NEW p \in Procs,
           (\E u \in Units : FindUnit(p, u)) \/ LinkEvidence(p) \/ ShowEvidence(p) \/ ShowFails(p)
    PROVE  IInv'
<1>1. FilesFollow /\ Typed
    BY DEF IInv
<1>2. ASSUME NEW u \in Units, FindUnit(p, u) PROVE OnlyOther(p)
    <2>1. /\ proc' = [proc EXCEPT ![p] = Linking(u, << >>)] /\ ~ Works(proc[p]) /\ ~ Shows(proc[p])
          /\ UNCHANGED << files, audit, evidence, shown, lock, stops, interrupted >>
        BY <1>2 DEF FindUnit, Works, Shows, citations, history
    <2>2. QED
        BY <2>1, Beside, OthersTyped DEF OnlyOther
<1>3. ASSUME LinkEvidence(p) PROVE OnlyOther(p)
    <2>1. /\ proc' = [proc EXCEPT ![p] = Linking(proc[p].unit, << "show" >>)]
          /\ evidence' = evidence \cup {proc[p].unit} /\ lock = Nobody /\ lock' = p
          /\ UNCHANGED << files, audit, shown, stops, interrupted >>
        BY <1>3 DEF LinkEvidence, history
    <2>2. ~ Works(proc[p]) /\ proc[p].unit \in Units
        BY <1>1, <1>3 DEF LinkEvidence, Works, Typed, ProcTyped
    <2>3. QED
        BY <2>1, <2>2, Beside, OthersTyped DEF OnlyOther
<1>4. ASSUME ShowEvidence(p) \/ ShowFails(p) PROVE OnlyOther(p)
    <2>1. Doing(p, "show")
        BY <1>4 DEF ShowEvidence, ShowFails
    <2>2. Shows(proc[p])
        BY <1>1, <2>1, DoingIsAt, StepsApart DEF UndoNames
    <2>3. ~ Works(proc[p]) /\ lock = p
        BY <2>2, Beside DEF Shows, Works
    <2>4. /\ proc' = [proc EXCEPT ![p] = Idle] /\ lock' = Nobody
          /\ shown' = shown \/ shown' = shown \cup {proc[p].unit}
          /\ UNCHANGED << files, audit, evidence, stops, interrupted >>
        BY <1>4 DEF ShowEvidence, ShowFails, citations, history
    <2>5. shown' \subseteq evidence
        BY <2>2, <2>3, <2>4, Beside DEF IInv, ShowsCited
    <2>6. QED
        BY <2>3, <2>4, <2>5, Beside, OthersTyped DEF OnlyOther
<1>5. QED
    BY <1>2, <1>3, <1>4, OthersKeep

LEMMA ShowsAll ==
    ASSUME IInv, RebuildProjections
    PROVE  IInv'
<1>1. /\ lock = Nobody /\ shown' = evidence
      /\ UNCHANGED << files, audit, evidence, lock, proc, stops, interrupted >>
    BY DEF RebuildProjections, history
<1>2. Typed
    BY DEF IInv
<1>3. \A q \in Procs : ~ Works(proc[q])
    BY <1>1, <1>2, OneWorks
<1>4. Typed' /\ ShowsCited'
    BY <1>1, <1>2 DEF IInv, Typed, ShowsCited, files
<1>5. QED
    BY <1>1, <1>3, <1>4, AsideKeeps

\* A writer begins with the files it found.
Begins(p) ==
    LET c == proc'[p]
    IN  /\ lock = Nobody /\ lock' = p
        /\ DOMAIN proc' = Procs /\ \A q \in Procs : q # p => proc'[q] = proc[q]
        /\ CommandTyped(c) /\ Works(c) /\ Grounded(c)
        /\ c.old.metadata = metadata /\ c.old.units = units /\ c.old.ended = ended
        /\ c.old.registry = registry
        /\ \/ c.op = "import" /\ At(c, "directory") /\ c.doc \notin present
           \/ c.op = "decompose" /\ At(c, "units") /\ LinkedUnits(c.doc) \subseteq c.new
        /\ UNCHANGED << files, audit, citations, history >>

LEMMA BeginsKeep ==
    ASSUME IInv, NEW p \in Procs, Begins(p)
    PROVE  IInv'
<1> DEFINE c == proc'[p]
<1>1. /\ lock = Nobody /\ lock' = p
      /\ DOMAIN proc' = Procs /\ \A q \in Procs : q # p => proc'[q] = proc[q]
      /\ CommandTyped(c) /\ Works(c) /\ Grounded(c)
      /\ c.old.metadata = metadata /\ c.old.units = units /\ c.old.ended = ended
      /\ c.old.registry = registry
      /\ metadata' = metadata /\ units' = units /\ ended' = ended /\ present' = present
      /\ registry' = registry /\ audit' = audit /\ evidence' = evidence /\ shown' = shown
      /\ stops' = stops /\ interrupted' = interrupted
      /\ c.op = "decompose" => LinkedUnits(c.doc) \subseteq c.new
      /\ c.op = "import" => c.doc \notin present
    BY DEF Begins, files, citations, history
<1>2. PICK s \in WriterSteps : At(c, s) /\ s = IF c.op = "import" THEN "directory" ELSE "units"
    BY DEF Begins, WriterSteps
<1>3. Typed /\ Nobody \notin Procs /\ \A q \in Procs : ~ Works(proc[q]) /\ ~ Shows(proc[q])
    BY <1>1, OneWorks, NobodyIsElse DEF IInv
<1>4. Loose = Left /\ Left' = Left /\ Left \subseteq Loose'
    BY <1>1, <1>3, LooseIsLeft DEF Loose, Left, LooseIn
<1>5. Sound(metadata, units, registry, present, audit, Left)
    BY <1>4 DEF IInv
<1>6. c.op = "decompose" => c.doc \in present
    <2>1. c.doc \in Docs
        BY <1>1 DEF CommandTyped
    <2>2. QED
        BY <1>1, <1>5, <2>1 DEF Grounded, Sound
<1>7. c.todo # ToProject
    BY <1>2, AtProject
<1>8. PresentBefore(c, present) = present
    BY <1>1 DEF PresentBefore
<1> HIDE DEF c
<1>9. /\ metadata = MetadataAt(c, s) /\ units = UnitsAt(c, s)
      /\ ended = EndedAt(c, s) /\ registry = RegistryAt(c, s)
    <2>1. /\ s \notin AfterMetadata /\ s \notin AfterPrevious /\ s \notin AfterPreviousUnits
          /\ s \notin AfterRegistry /\ s \in {"directory", "units"}
        BY <1>2 DEF AfterPrevious, AfterPreviousUnits, AfterMetadata, AfterRegistry
    <2>2. /\ metadata \in [Docs -> Entry \cup {NoMetadata}] /\ units \in [Docs -> SUBSET Units]
        BY <1>3 DEF Typed, FilesTyped
    <2>3. /\ MetadataAt(c, s) = [d \in Docs |-> metadata[d]]
          /\ UnitsAt(c, s) = [d \in Docs |-> units[d]]
        BY <1>1, <2>1 DEF MetadataAt, UnitsAt
    <2>4. ended = EndedAt(c, s) /\ registry = RegistryAt(c, s)
        BY <1>1, <2>1 DEF EndedAt, RegistryAt
    <2>5. QED
        BY <2>2, <2>3, <2>4
<1>10. Typed'
    <2>1. ASSUME NEW q \in Procs
          PROVE  ProcTyped(proc'[q]) /\ (Works(proc'[q]) \/ Shows(proc'[q]) <=> lock' = q)
        <3>1. CASE q = p
            BY <1>1, <3>1 DEF ProcTyped, Works, c
        <3>2. CASE q # p
            BY <1>1, <1>3, <3>2 DEF Typed
        <3>3. QED
            BY <3>1, <3>2
    <2>2. QED
        BY <1>1, <1>3, <2>1 DEF Typed
<1>11. FilesFollow'
    <2>1. c.doc \in present <=> s # "directory"
        BY <1>1, <1>2, <1>6 DEF Works
    <2>2. Following(p)'
        BY <1>1, <1>2, <1>9, <2>1 DEF Following, Follow, c
    <2>3. QED
        BY <1>1, <1>3, <2>2 DEF FilesFollow
<1>12. Sound(metadata, units, registry, present, audit, Loose)' /\ OlderFirst(audit.versions)'
    <2>1. Sound(metadata, units, registry, present, audit, Loose')
        BY <1>4, <1>5, SoundLooser
    <2>2. QED
        BY <1>1, <2>1 DEF IInv
<1>13. OldIsSound'
    <2>1. OldSound(c, present, audit, Left)
        BY <1>1, <1>5, <1>8 DEF OldSound
    <2>2. QED
        BY <1>1, <1>3, <1>4, <2>1 DEF OldIsSound, c
<1>14. KeepsCited'
    <2>1. ASSUME NEW q \in Procs, proc'[q].op = "decompose"
          PROVE  LinkedUnits(proc'[q].doc) \subseteq proc'[q].new
        <3>1. q = p
            BY <1>1, <1>3, <2>1 DEF Works
        <3>2. QED
            BY <1>1, <2>1, <3>1 DEF c
    <2>2. QED
        BY <1>1, <2>1 DEF KeepsCited, LinkedUnits
<1>15. Reconciled'
    <2>1. interrupted = {} => Consistent(metadata, units, ended, registry, present, audit)
        BY <1>3 DEF IInv, Reconciled
    <2>2. interrupted = {} => OldConsistent(c, present, audit)
        BY <1>1, <1>8, <2>1 DEF OldConsistent
    <2>3. QED
        BY <1>1, <1>3, <1>7, <2>2 DEF Reconciled, c
<1>16. ShowsCited'
    BY <1>1, <1>3 DEF ShowsCited, Shows, Works, c
<1>17. QED
    BY <1>10, <1>11, <1>12, <1>13, <1>14, <1>15, <1>16 DEF IInv

\* What a new command is.
IsCommand(c, o, d, v, new, todo) ==
    /\ c.op = o /\ c.doc = d /\ c.prev = v /\ c.new = new /\ c.todo = todo
    /\ CommandTyped(c) /\ Works(c)
    /\ c.old.metadata = metadata /\ c.old.units = units /\ c.old.ended = ended
    /\ c.old.registry = registry

LEMMA CommandIs ==
    ASSUME Typed, NEW o, o \in {"import", "decompose"}, NEW d \in Docs, NEW v \in Docs \cup {Nobody},
           v # d, NEW new, NEW todo, new = {} \/ \E s \in Strategies : new = UnitsOf[d][s],
           o = "import" => new = {}, o = "decompose" => v = Nobody
    PROVE  IsCommand(Command(o, d, v, new, todo), o, d, v, new, todo)
<1> DEFINE c == Command(o, d, v, new, todo)
<1>1. /\ Snapshot = [metadata |-> Snapshot.metadata, units |-> Snapshot.units, ended |-> Snapshot.ended,
                     registry |-> Snapshot.registry, index |-> Snapshot.index]
      /\ Snapshot.metadata = metadata /\ Snapshot.units = units /\ Snapshot.ended = ended
      /\ Snapshot.registry = registry
    BY DEF Snapshot
<1> HIDE DEF Snapshot
<1>2. /\ c.op = o /\ c.doc = d /\ c.prev = v /\ c.new = new /\ c.todo = todo /\ c.old = Snapshot
      /\ c = [op |-> c.op, doc |-> c.doc, prev |-> c.prev, new |-> c.new, todo |-> c.todo,
              old |-> c.old, listed |-> c.listed, rows |-> c.rows]
    BY DEF Command
<1> HIDE DEF c
<1>3. Works(c)
    BY <1>2 DEF Works
<1>4. CommandTyped(c)
    BY <1>1, <1>2 DEF CommandTyped, Typed
<1>5. QED
    BY <1>1, <1>2, <1>3, <1>4 DEF c, IsCommand

LEMMA BeginsImport ==
    ASSUME IInv, NEW p \in Procs, NEW d \in Docs, NEW v \in Previous(d), BeginImport(p, d, v)
    PROVE  Begins(p)
<1>1. Typed /\ DOMAIN proc = Procs
    BY DEF IInv, Typed
<1>2. /\ lock = Nobody /\ d \notin present /\ (v # Nobody => metadata[v] # NoMetadata) /\ lock' = p
      /\ proc' = [proc EXCEPT ![p] = Command("import", d, v, {}, ImportSteps(v))]
      /\ UNCHANGED << files, audit, citations, history >>
    BY DEF BeginImport
<1>3. v \in Docs \cup {Nobody} /\ v # d
    <2>1. DOMAIN registry \subseteq Docs
        BY <1>1 DEF Typed, FilesTyped, Registries
    <2>2. v = Nobody \/ v \in DOMAIN registry \ {d}
        BY DEF Previous
    <2>3. QED
        BY <2>1, <2>2, NobodyIsElse
<1> DEFINE c == Command("import", d, v, {}, ImportSteps(v))
<1>4. IsCommand(c, "import", d, v, {}, ImportSteps(v))
    BY <1>1, <1>3, CommandIs
<1> HIDE DEF c
<1>5. /\ c.op = "import" /\ c.doc = d /\ c.prev = v /\ c.todo = ImportSteps(v)
      /\ CommandTyped(c) /\ Works(c)
      /\ c.old.metadata = metadata /\ c.old.units = units /\ c.old.ended = ended
      /\ c.old.registry = registry
    BY <1>4 DEF IsCommand
<1>6. At(c, "directory")
    BY <1>5, ImportIsChain DEF At
<1>7. Grounded(c)
    BY <1>2, <1>5 DEF Grounded
<1>8. /\ DOMAIN proc' = Procs /\ proc'[p] = c /\ \A q \in Procs : q # p => proc'[q] = proc[q]
    BY <1>1, <1>2 DEF c
<1>9. QED
    BY <1>2, <1>5, <1>6, <1>7, <1>8 DEF Begins

LEMMA BeginsDecompose ==
    ASSUME IInv, NEW p \in Procs, NEW d \in Docs, NEW s \in Strategies, BeginDecompose(p, d, s)
    PROVE  Begins(p)
<1>1. Typed /\ DOMAIN proc = Procs
    BY DEF IInv, Typed
<1>2. /\ lock = Nobody /\ metadata[d] # NoMetadata /\ LinkedUnits(d) \subseteq UnitsOf[d][s] /\ lock' = p
      /\ proc' = [proc EXCEPT ![p] = Command("decompose", d, Nobody, UnitsOf[d][s], DecomposeSteps)]
      /\ UNCHANGED << files, audit, citations, history >>
    BY DEF BeginDecompose
<1> DEFINE c == Command("decompose", d, Nobody, UnitsOf[d][s], DecomposeSteps)
<1>3. IsCommand(c, "decompose", d, Nobody, UnitsOf[d][s], DecomposeSteps)
    BY <1>1, CommandIs, NobodyIsElse
<1> HIDE DEF c
<1>4. /\ c.op = "decompose" /\ c.doc = d /\ c.prev = Nobody /\ c.todo = DecomposeSteps
      /\ c.new = UnitsOf[d][s] /\ CommandTyped(c) /\ Works(c)
      /\ c.old.metadata = metadata /\ c.old.units = units /\ c.old.ended = ended
      /\ c.old.registry = registry
    BY <1>3 DEF IsCommand
<1>5. At(c, "units")
    BY <1>4, DecomposeIsChain DEF At
<1>6. Grounded(c)
    BY <1>2, <1>4 DEF Grounded
<1>7. /\ DOMAIN proc' = Procs /\ proc'[p] = c /\ \A q \in Procs : q # p => proc'[q] = proc[q]
    BY <1>1, <1>2 DEF c
<1>8. QED
    BY <1>2, <1>4, <1>5, <1>6, <1>7 DEF Begins

\* The transaction is durable: what the writer found no longer matters.
LEMMA Records ==
    ASSUME IInv, NEW p \in Procs, RecordTransaction(p)
    PROVE  IInv'
<1> DEFINE c == proc[p]  d == proc'[p]  before == PresentBefore(c, present)
<1>1. Typed /\ FilesFollow /\ Nobody \notin Procs
    BY NobodyIsElse DEF IInv
<1>2. Works(c) /\ lock = p /\ CommandTyped(c) /\ At(c, "record") /\ Follow(c, "record")
      /\ "record" \in WriterSteps /\ "project" \in WriterSteps
    <2>1. "project" \in WriterSteps
        BY DEF WriterSteps, AfterDirectory, AfterPrevious, AfterPreviousUnits, AfterMetadata, AfterRegistry
    <2>2. QED
        BY <1>1, <2>1, WriterIsAt DEF RecordTransaction
<1>3. GoesOn(p) /\ Moves(c, d) /\ DOMAIN proc' = Procs /\ \A q \in Procs : q # p => proc'[q] = proc[q]
    BY <1>1, <1>2, DoneGoesOn DEF RecordTransaction, GoesOn
<1>4. /\ metadata' = metadata /\ units' = units /\ ended' = ended /\ present' = present
      /\ registry' = registry /\ evidence' = evidence /\ shown' = shown /\ lock' = lock
      /\ stops' = stops /\ interrupted' = interrupted
      /\ audit' = Recorded(c, audit)
    BY DEF RecordTransaction, files, citations, history, Recorded
<1>5. /\ d.op = c.op /\ d.doc = c.doc /\ d.prev = c.prev /\ d.new = c.new /\ d.old = c.old
      /\ d.todo = Tail(c.todo) /\ CommandTyped(d) /\ Works(d)
      /\ \A s : /\ MetadataAt(d, s) = MetadataAt(c, s) /\ UnitsAt(d, s) = UnitsAt(c, s)
                /\ EndedAt(d, s) = EndedAt(c, s) /\ RegistryAt(d, s) = RegistryAt(c, s)
    BY <1>2, <1>3, MovedIsSame, SameFiles DEF Same
<1>6. At(d, "project") /\ c.todo # ToProject /\ d.todo = ToProject
    <2>1. NextStep(c, "record") = "project"
        BY DEF NextStep
    <2>2. At(d, "project")
        BY <1>2, <1>5, <2>1, Advance
    <2>3. QED
        BY <1>2, <2>2, AtProject
<1>7. Grounded(c) /\ Sound(c.old.metadata, c.old.units, c.old.registry, before, audit, Left)
    BY <1>2, <1>6 DEF IInv, OldIsSound, OldSound
<1> HIDE DEF c, d, before
<1>8. /\ metadata = MetadataAt(c, "project") /\ units = UnitsAt(c, "project")
      /\ ended = EndedAt(c, "project") /\ registry = RegistryAt(c, "project")
    BY <1>2 DEF Follow, MetadataAt, UnitsAt, EndedAt, RegistryAt, AfterPrevious, AfterPreviousUnits,
                AfterMetadata, AfterRegistry
<1>9. /\ present = PresentAt(c, "project", before) /\ c.doc \in present
      /\ c.op = "import" => c.doc \notin before
    BY <1>2 DEF Follow, PresentAt, PresentBefore, before
<1>10. /\ audit.imported \subseteq Docs /\ audit.versions \in Seq(Docs \X Docs) /\ OlderFirst(audit.versions)
       /\ audit = [imported |-> audit.imported, versions |-> audit.versions]
    BY <1>1 DEF Typed, IInv
<1>11. /\ Sound(metadata, units, registry, present, audit', Left) /\ OlderFirst(audit'.versions)
       /\ audit'.imported \subseteq Docs /\ audit'.versions \in Seq(Docs \X Docs)
       /\ audit' = [imported |-> audit'.imported, versions |-> audit'.versions]
    <2>1. /\ Sound(metadata, units, registry, present, Recorded(c, audit), Left)
          /\ OlderFirst(Recorded(c, audit).versions)
          /\ Recorded(c, audit).imported \subseteq Docs /\ Recorded(c, audit).versions \in Seq(Docs \X Docs)
        BY <1>2, <1>7, <1>8, <1>9, <1>10, SoundRecorded
    <2>2. CASE c.op # "import"
        BY <1>4, <1>10, <2>1, <2>2 DEF Recorded
    <2>3. CASE c.op = "import"
        <3>1. audit' = [imported |-> audit'.imported, versions |-> audit'.versions]
            BY <1>4, <2>3 DEF Recorded
        <3>2. QED
            BY <1>4, <2>1, <3>1
    <2>4. QED
        BY <2>2, <2>3
<1>12. Typed'
    <2>1. ASSUME NEW q \in Procs PROVE ProcTyped(proc'[q]) /\ (Works(proc'[q]) \/ Shows(proc'[q]) <=> lock' = q)
        <3>1. CASE q = p
            BY <1>2, <1>4, <1>5, <3>1 DEF ProcTyped, Works, d
        <3>2. CASE q # p
            BY <1>1, <1>2, <1>3, <1>4, <3>2 DEF Typed
        <3>3. QED
            BY <3>1, <3>2
    <2>2. QED
        BY <1>1, <1>3, <1>4, <1>11, <2>1 DEF Typed
<1>13. \A q \in Procs : q # p => ~ Works(proc[q]) /\ ~ Works(proc'[q])
    BY <1>1, <1>2, <1>3, OneWorks
<1>14. FilesFollow'
    <2>1. Following(p)'
        BY <1>2, <1>4, <1>5, <1>6, <1>8, <1>9 DEF Following, Follow, d
    <2>2. QED
        BY <1>3, <1>13, <2>1 DEF FilesFollow
<1>15. OldIsSound'
    BY <1>6, <1>13 DEF OldIsSound, d
<1>16. KeepsCited'
    <2>1. ASSUME NEW q \in Procs, proc'[q].op = "decompose"
          PROVE  LinkedUnits(proc'[q].doc) \subseteq proc'[q].new
        <3>1. q = p
            BY <1>13, <2>1 DEF Works
        <3>2. QED
            BY <1>5, <2>1, <3>1 DEF KeepsCited, IInv, c, d
    <2>2. QED
        BY <1>4, <2>1 DEF KeepsCited, LinkedUnits
<1>17. Reconciled'
    <2>1. ASSUME interrupted = {} PROVE Consistent(metadata, units, ended, registry, present, audit')
        <3>1. Consistent(c.old.metadata, c.old.units, c.old.ended, c.old.registry, before, audit)
            BY <1>2, <1>6, <2>1 DEF IInv, Reconciled, OldConsistent, before, c
        <3>2. QED
            BY <1>2, <1>4, <1>7, <1>8, <1>9, <1>10, <3>1, ConsistentRecorded
    <2>2. QED
        BY <1>4, <1>6, <1>13, <2>1 DEF Reconciled, d
<1>18. Loose' = Left
    <2>1. LooseIn(interrupted, proc') = LeftBy(interrupted) \cup Importing(d)
        BY <1>13, LooseIs DEF d
    <2>2. QED
        BY <1>4, <1>6, <2>1 DEF Loose, Left, Importing
<1>19. ShowsCited'
    BY <1>1, <1>2, <1>3, <1>4, <1>5, OneWorks DEF ShowsCited, Shows, Works, d
<1>20. QED
    BY <1>4, <1>11, <1>12, <1>14, <1>15, <1>16, <1>17, <1>18, <1>19 DEF IInv

\* A writer leaves the lock: it is done, has undone what it did, or has stopped.
Leaves(p) ==
    /\ Works(proc[p]) /\ lock' = Nobody /\ proc' = [proc EXCEPT ![p] = Idle]
    /\ FilesTyped(metadata', units', ended', registry') /\ present' \subseteq Docs
    /\ Sound(metadata', units', registry', present', audit, Left')
    /\ stops' \in Nat
    /\ interrupted' = {} => Consistent(metadata', units', ended', registry', present', audit)
    /\ UNCHANGED << audit, citations >>

LEMMA LeavesKeep ==
    ASSUME IInv, NEW p \in Procs, Leaves(p)
    PROVE  IInv'
<1>1. /\ Works(proc[p]) /\ lock' = Nobody /\ proc' = [proc EXCEPT ![p] = Idle]
      /\ FilesTyped(metadata', units', ended', registry') /\ present' \subseteq Docs
      /\ Sound(metadata', units', registry', present', audit, Left')
      /\ stops' \in Nat
      /\ interrupted' = {} => Consistent(metadata', units', ended', registry', present', audit)
      /\ audit' = audit /\ evidence' = evidence /\ shown' = shown
    BY DEF Leaves, citations
<1>2. Typed /\ Nobody \notin Procs /\ lock = p
    BY <1>1, NobodyIsElse DEF IInv, Typed
<1>3. DOMAIN proc' = Procs /\ proc'[p] = Idle /\ \A q \in Procs : q # p => proc'[q] = proc[q]
    BY <1>1, <1>2 DEF Typed
<1>4. \A q \in Procs : ProcTyped(proc'[q]) /\ ~ Works(proc'[q]) /\ ~ Shows(proc'[q]) /\ lock' # q
    <2>1. \A q \in Procs : q # p => ProcTyped(proc[q]) /\ ~ Works(proc[q]) /\ ~ Shows(proc[q])
        BY <1>2, OneWorks DEF Typed
    <2>2. QED
        BY <1>1, <1>2, <1>3, <2>1, OthersTyped
<1>5. Typed'
    BY <1>1, <1>2, <1>3, <1>4 DEF Typed
<1>6. FilesFollow' /\ OldIsSound' /\ ShowsCited'
    BY <1>4 DEF FilesFollow, OldIsSound, ShowsCited
<1>7. Sound(metadata, units, registry, present, audit, Loose)' /\ OlderFirst(audit.versions)'
    <2>1. Loose' = Left'
        BY <1>4, LooseIsLeft DEF Loose, Left
    <2>2. QED
        BY <1>1, <2>1 DEF IInv
<1>8. KeepsCited'
    <2>1. \A q \in Procs : proc'[q].op # "decompose"
        BY <1>4 DEF Works
    <2>2. QED
        BY <2>1 DEF KeepsCited
<1>9. Reconciled'
    BY <1>1, <1>4 DEF Reconciled
<1>10. QED
    BY <1>5, <1>6, <1>7, <1>8, <1>9 DEF IInv

LEMMA WritesProjections ==
    ASSUME IInv, NEW p \in Procs, WriteProjections(p)
    PROVE  IInv'
<1>1. Typed /\ FilesFollow
    BY DEF IInv
<1>2. lock = p /\ Works(proc[p]) /\ At(proc[p], "project")
    BY <1>1, WriterIsAt DEF WriteProjections
<1>3. proc[p].todo = ToProject /\ \A q \in Procs : q # p => ~ Works(proc[q])
    BY <1>1, <1>2, OneWorks DEF At
<1>4. interrupted = {} => Consistent(metadata, units, ended, registry, present, audit)
    BY <1>3 DEF IInv, Reconciled
<1>5. Loose = Left
    <2>1. LooseIn(interrupted, proc) = LeftBy(interrupted) \cup Importing(proc[p])
        BY <1>3, LooseIs
    <2>2. QED
        BY <1>3, <2>1 DEF Loose, Left, Importing
<1>6. /\ lock' = Nobody /\ proc' = [proc EXCEPT ![p] = Idle]
      /\ metadata' = metadata /\ units' = units /\ ended' = ended /\ present' = present
      /\ registry' = registry /\ stops' = stops /\ interrupted' = interrupted /\ Left' = Left
      /\ UNCHANGED << audit, citations >>
    BY DEF WriteProjections, files, history, Left
<1>7. /\ FilesTyped(metadata, units, ended, registry) /\ present \subseteq Docs /\ stops \in Nat
      /\ Sound(metadata, units, registry, present, audit, Left)
    BY <1>1, <1>5 DEF IInv, Typed
<1>8. QED
    BY <1>2, <1>4, <1>6, <1>7, LeavesKeep DEF Leaves

\* The rollback ends: each file is what it was.
LEMMA UndoesIndex ==
    ASSUME IInv, NEW p \in Procs, UndoIndex(p)
    PROVE  IInv'
<1> DEFINE c == proc[p]
<1>1. UndoesFrom(p, "undo index")
    BY RollbackIsAt DEF UndoIndex, UndoNames
<1>2. /\ Works(c) /\ lock = p /\ CommandTyped(c) /\ UndoAt(c, "undo index")
      /\ Undone(c, "undo index", metadata, units, ended, registry, present)
      /\ c.old.metadata \in [Docs -> Entry \cup {NoMetadata}] /\ c.old.units \in [Docs -> SUBSET Units]
      /\ "undo index" \in UndoNames
    BY <1>1 DEF UndoesFrom
<1>3. OldSound(c, present, audit, Left) /\ (interrupted = {} => OldConsistent(c, present, audit))
    BY <1>2, NotToProject DEF IInv, OldIsSound, Reconciled
<1>4. /\ lock' = Nobody /\ proc' = [proc EXCEPT ![p] = Idle]
      /\ metadata' = metadata /\ units' = units /\ ended' = ended /\ present' = present
      /\ registry' = registry /\ stops' = stops /\ interrupted' = interrupted /\ Left' = Left
      /\ UNCHANGED << audit, citations >>
    BY DEF UndoIndex, files, history, Left
<1> HIDE DEF c
<1>5. /\ metadata = c.old.metadata /\ units = c.old.units /\ ended = c.old.ended
      /\ registry = c.old.registry /\ present = PresentBefore(c, present)
    <2>1. Between(c, metadata, units, ended, registry, present)
        BY <1>2 DEF Undone
    <2>2. /\ metadata \in [Docs -> Entry \cup {NoMetadata}] /\ units \in [Docs -> SUBSET Units]
        BY <2>1 DEF Between
    <2>3. /\ metadata[c.doc] = c.old.metadata[c.doc] /\ units[c.doc] = c.old.units[c.doc]
          /\ c.prev # Nobody => metadata[c.prev] = c.old.metadata[c.prev]
        BY <1>2 DEF Undone
    <2>4. \A d \in Docs : metadata[d] = c.old.metadata[d]
        BY <2>1, <2>3, NobodyIsElse DEF Between
    <2>5. \A d \in Docs : units[d] = c.old.units[d]
        BY <2>1, <2>3 DEF Between
    <2>6. metadata = [d \in Docs |-> metadata[d]] /\ c.old.metadata = [d \in Docs |-> c.old.metadata[d]]
          /\ units = [d \in Docs |-> units[d]] /\ c.old.units = [d \in Docs |-> c.old.units[d]]
        BY <1>2, <2>2
    <2>7. metadata = c.old.metadata /\ units = c.old.units
        BY <2>4, <2>5, <2>6
    <2>8. QED
        BY <1>2, <2>7 DEF Undone
<1>6. /\ FilesTyped(metadata, units, ended, registry) /\ present \subseteq Docs /\ stops \in Nat
    BY DEF IInv, Typed
<1>7. /\ Sound(metadata, units, registry, present, audit, Left)
      /\ interrupted = {} => Consistent(metadata, units, ended, registry, present, audit)
    BY <1>3, <1>5 DEF OldSound, OldConsistent
<1>8. QED
    BY <1>2, <1>4, <1>6, <1>7, LeavesKeep DEF Leaves, c

\* A writer that has not recorded stops where it is.
LEMMA StopsHalfWay ==
    ASSUME IInv, NEW p \in Procs, Works(proc[p]),
           lock' = Nobody, proc' = [proc EXCEPT ![p] = Idle], stops' = stops + 1,
           interrupted' = interrupted \cup {<< proc[p].op, proc[p].doc >>},
           UNCHANGED << files, audit, citations >>
    PROVE  IInv'
<1>1. /\ metadata' = metadata /\ units' = units /\ ended' = ended /\ present' = present
      /\ registry' = registry
    BY DEF files
<1>2. Typed /\ \A q \in Procs : q # p => ~ Works(proc[q])
    BY OneWorks DEF IInv, Typed
<1>3. Loose \subseteq Left'
    <2>1. LooseIn(interrupted, proc) = LeftBy(interrupted) \cup Importing(proc[p])
        BY <1>2, LooseIs
    <2>2. proc[p].doc \in Docs
        BY <1>2 DEF Typed, ProcTyped, CommandTyped, Works
    <2>3. LeftBy(interrupted) \subseteq LeftBy(interrupted')
          /\ (proc[p].op = "import" => proc[p].doc \in LeftBy(interrupted'))
        BY <2>2 DEF LeftBy
    <2>4. QED
        BY <2>1, <2>3 DEF Loose, Left, Importing
<1>4. Sound(metadata', units', registry', present', audit, Left')
    <2>1. Sound(metadata, units, registry, present, audit, Loose)
        BY DEF IInv
    <2>2. QED
        BY <1>1, <1>3, <2>1, SoundLooser
<1>5. FilesTyped(metadata', units', ended', registry') /\ present' \subseteq Docs /\ stops' \in Nat
    BY <1>1, <1>2 DEF Typed
<1>6. interrupted' # {}
    OBVIOUS
<1>7. QED
    BY <1>4, <1>5, <1>6, LeavesKeep DEF Leaves

LEMMA GivesUp ==
    ASSUME IInv, NEW p \in Procs, RollbackFails(p)
    PROVE  IInv'
<1>1. PICK t \in UndoNames : Doing(p, t)
    BY DEF RollbackFails, Undoing
<1>2. Works(proc[p])
    BY <1>1, UndoerIsAt DEF IInv
<1>3. QED
    BY <1>2, StopsHalfWay DEF RollbackFails

LEMMA Dies ==
    ASSUME IInv, NEW p \in Procs, Crash(p)
    PROVE  IInv'
<1>1. /\ proc' = [proc EXCEPT ![p] = Idle] /\ stops' = stops + 1
      /\ lock' = (IF lock = p THEN Nobody ELSE lock)
      /\ interrupted' = IF Works(proc[p]) /\ ~Doing(p, "project")
                        THEN interrupted \cup {<< proc[p].op, proc[p].doc >>} ELSE interrupted
      /\ UNCHANGED << files, audit, citations >>
    BY DEF Crash, Works
<1>2. Typed /\ FilesFollow /\ DOMAIN proc = Procs /\ stops \in Nat
    BY DEF IInv, Typed
<1>3. CASE Works(proc[p]) /\ ~Doing(p, "project")
    <2>1. lock' = Nobody
        BY <1>1, <1>2, <1>3 DEF Typed
    <2>2. QED
        BY <1>1, <1>3, <2>1, StopsHalfWay
<1>4. CASE Works(proc[p]) /\ Doing(p, "project")
    <2>2. lock = p /\ At(proc[p], "project")
        BY <1>2, <1>4, WriterIsAt
    <2>3. proc[p].todo = ToProject /\ \A q \in Procs : q # p => ~ Works(proc[q])
        BY <1>2, <2>2, OneWorks DEF At
    <2>4. interrupted = {} => Consistent(metadata, units, ended, registry, present, audit)
        BY <2>3 DEF IInv, Reconciled
    <2>5. Loose = Left
        <3>1. LooseIn(interrupted, proc) = LeftBy(interrupted) \cup Importing(proc[p])
            BY <2>3, LooseIs
        <3>2. QED
            BY <2>3, <3>1 DEF Loose, Left, Importing
    <2>6. /\ metadata' = metadata /\ units' = units /\ ended' = ended /\ present' = present
          /\ registry' = registry /\ interrupted' = interrupted /\ Left' = Left /\ lock' = Nobody
          /\ stops' \in Nat
        BY <1>1, <1>2, <1>4, <2>2 DEF files, Left
    <2>7. /\ FilesTyped(metadata, units, ended, registry) /\ present \subseteq Docs
          /\ Sound(metadata, units, registry, present, audit, Left)
        BY <1>2, <2>5 DEF IInv, Typed
    <2>8. QED
        BY <1>1, <1>4, <2>4, <2>6, <2>7, LeavesKeep DEF Leaves
<1>5. CASE ~ Works(proc[p])
    <2>1. /\ shown \subseteq evidence /\ evidence \subseteq Units /\ interrupted' = interrupted
          /\ evidence' = evidence /\ shown' = shown /\ stops' \in Nat
        BY <1>1, <1>2, <1>5 DEF Typed, citations
    <2>2. OnlyOther(p)
        BY <1>1, <1>2, <1>5, <2>1, OthersTyped DEF OnlyOther
    <2>3. QED
        BY <2>2, OthersKeep
<1>6. QED
    BY <1>3, <1>4, <1>5

LEMMA InitIInv == Init => IInv
<1> SUFFICES ASSUME Init PROVE IInv
    OBVIOUS
<1>1. /\ metadata = [d \in Docs |-> NoMetadata] /\ units = [d \in Docs |-> {}]
      /\ ended = {} /\ present = {} /\ registry = << >>
      /\ audit = [imported |-> {}, versions |-> << >>] /\ evidence = {} /\ shown = {}
      /\ lock = Nobody /\ proc = [p \in Procs |-> Idle] /\ stops = 0 /\ interrupted = {}
    BY DEF Init
<1>2. audit.imported = {} /\ audit.versions = << >> /\ DOMAIN audit.versions = {}
    BY <1>1
<1>3. Nobody \notin Procs /\ NoMetadata.until = Nobody
    BY NobodyIsElse DEF NoMetadata
<1>4. registry \in Registries /\ DOMAIN registry = {}
    <2>1. registry \in [{} -> Entry] /\ DOMAIN registry = {}
        BY <1>1
    <2>2. QED
        BY <2>1 DEF Registries
<1>5. \A p \in Procs : /\ proc[p] = Idle /\ ~ Works(proc[p]) /\ ~ Shows(proc[p]) /\ ProcTyped(proc[p])
                       /\ proc[p].op # "decompose"
    BY <1>1, OthersTyped DEF Idle
<1>6. Typed
    BY <1>1, <1>2, <1>3, <1>4, <1>5 DEF Typed, FilesTyped
<1>7. FilesFollow /\ OldIsSound /\ KeepsCited /\ ShowsCited
    BY <1>5 DEF FilesFollow, OldIsSound, KeepsCited, ShowsCited
<1>8. Sound(metadata, units, registry, present, audit, Loose)
    <2>1. \A d \in Docs : metadata[d] = NoMetadata /\ units[d] = {}
        BY <1>1
    <2>2. QED
        BY <1>1, <1>2, <1>3, <1>4, <2>1 DEF Sound
<1>9. OlderFirst(audit.versions)
    BY <1>2 DEF OlderFirst
<1>10. Reconciled
    BY <1>1, <1>2, <1>4, <1>5 DEF Reconciled, Consistent
<1>11. QED
    BY <1>6, <1>7, <1>8, <1>9, <1>10 DEF IInv

LEMMA StepKeeps ==
    ASSUME IInv, NEW p \in Procs,
           \/ \E d \in Docs : \E prev \in Previous(d) : BeginImport(p, d, prev)
           \/ \E d \in Docs, s \in Strategies : BeginDecompose(p, d, s)
           \/ BeginRebuild(p)
           \/ MakeDirectory(p) \/ SavePrevious(p) \/ SavePreviousUnits(p)
           \/ SaveUnits(p) \/ SaveMetadata(p) \/ SaveRegistry(p)
           \/ ListDocuments(p) \/ ResetIndex(p) \/ ReadUnits(p) \/ PublishIndex(p)
           \/ RecordTransaction(p) \/ WriteProjections(p)
           \/ BeginRollback(p) \/ UndoFiles(p) \/ UndoDirectory(p)
           \/ UndoPrevious(p) \/ UndoPreviousUnits(p) \/ UndoUnits(p) \/ UndoMetadata(p)
           \/ UndoRegistry(p) \/ UndoIndex(p) \/ RollbackFails(p)
           \/ RebuildFails(p) \/ Crash(p)
           \/ \E u \in Units : FindUnit(p, u)
           \/ LinkEvidence(p) \/ ShowEvidence(p) \/ ShowFails(p)
    PROVE  IInv'
<1>1. Typed /\ FilesFollow
    BY DEF IInv
<1>2. CASE \E d \in Docs : \E prev \in Previous(d) : BeginImport(p, d, prev)
    BY <1>2, BeginsImport, BeginsKeep
<1>3. CASE \E d \in Docs, s \in Strategies : BeginDecompose(p, d, s)
    BY <1>3, BeginsDecompose, BeginsKeep
<1>4. CASE BeginRebuild(p)
    BY <1>4, BeginsRebuild
<1>5. CASE MakeDirectory(p) \/ SavePrevious(p) \/ SavePreviousUnits(p)
    BY <1>1, <1>5, MakesDirectory, SavesPrevious, SavesPreviousUnits, WritesKeep
<1>6. CASE SaveUnits(p) \/ SaveMetadata(p) \/ SaveRegistry(p)
    BY <1>1, <1>6, SavesUnits, SavesMetadata, SavesRegistry, WritesKeep
<1>7. CASE ListDocuments(p) \/ ResetIndex(p) \/ ReadUnits(p) \/ PublishIndex(p)
    <2>1. proc[p].op = "rebuild" \/ Works(proc[p])
        <3>1. PICK x \in {"list", "reset", "read", "publish"} : Doing(p, x)
            BY <1>7 DEF ListDocuments, ResetIndex, ReadUnits, PublishIndex
        <3>2. QED
            BY <1>1, <3>1, DoingIsAt
    <2>2. CASE proc[p].op = "rebuild"
        BY <1>7, <2>2, RebuildGoesOn
    <2>3. CASE Works(proc[p])
        <3>1. PICK s \in {"list", "reset", "read", "publish"} : WritesAt(p, s)
            BY <1>1, <1>7, <2>3, RebuildsIndex
        <3>2. QED
            BY <3>1, WritesKeep
    <2>4. QED
        BY <2>1, <2>2, <2>3
<1>8. CASE RecordTransaction(p) \/ WriteProjections(p) \/ Crash(p)
    BY <1>8, Records, WritesProjections, Dies
<1>9. CASE BeginRollback(p) \/ UndoIndex(p) \/ RollbackFails(p)
    BY <1>9, BeginsRollback, UndoesIndex, GivesUp
<1>10. CASE UndoFiles(p) \/ UndoDirectory(p) \/ UndoPrevious(p) \/ UndoPreviousUnits(p)
    BY <1>10, UndoesFiles, UndoesDirectory, UndoesPrevious, UndoesPreviousUnits, UndoesKeep
<1>11. CASE UndoUnits(p) \/ UndoMetadata(p) \/ UndoRegistry(p)
    BY <1>11, UndoesUnits, UndoesMetadata, UndoesRegistry, UndoesKeep
<1>12. CASE RebuildFails(p)
    BY <1>12, RebuildGoesOn DEF RebuildFails
<1>13. CASE (\E u \in Units : FindUnit(p, u)) \/ LinkEvidence(p) \/ ShowEvidence(p) \/ ShowFails(p)
    BY <1>13, Links
<1>14. QED
    BY <1>2, <1>3, <1>4, <1>5, <1>6, <1>7, <1>8, <1>9, <1>10, <1>11, <1>12, <1>13

LEMMA NextIInv == IInv /\ [Next]_vars => IInv'
<1> SUFFICES ASSUME IInv, [Next]_vars PROVE IInv'
    OBVIOUS
<1>1. CASE Next
    BY <1>1, StepKeeps, ShowsAll DEF Next
<1>2. CASE UNCHANGED vars
    <2>1. UNCHANGED << files, audit, evidence, shown, lock, proc, stops, interrupted >>
        BY <1>2 DEF vars, citations, history
    <2>2. Typed'
        BY <2>1 DEF IInv, Typed, files
    <2>3. ShowsCited'
        BY <2>1 DEF IInv, ShowsCited
    <2>4. QED
        BY <2>1, <2>2, <2>3, AsideKeeps
<1>3. QED
    BY <1>1, <1>2

LEMMA Invariance == Spec => []IInv
BY InitIInv, NextIInv, PTL DEF Spec

-----------------------------------------------------------------------------
\* Whatever failed and whoever died, an audited import has its directory, its
\* metadata and its registry entry, and what it replaced is not current.
THEOREM AuditedStaysWhole == Spec => []AuditedIsWhole
<1>1. IInv => AuditedIsWhole
    <2> SUFFICES ASSUME IInv PROVE AuditedIsWhole
        OBVIOUS
    <2>1. Sound(metadata, units, registry, present, audit, Loose) /\ audit.versions \in Seq(Docs \X Docs)
          /\ audit.imported \subseteq Docs
        BY DEF IInv, Typed
    <2>2. \A d \in audit.imported : d \in present /\ metadata[d] # NoMetadata /\ d \in DOMAIN registry
        BY <2>1 DEF Sound
    <2>3. ASSUME NEW v \in Range(audit.versions) PROVE metadata[v[2]].until # Nobody
        <3>1. PICK i \in DOMAIN audit.versions : v = audit.versions[i]
            BY DEF Range
        <3>2. QED
            BY <2>1, <3>1 DEF Sound
    <2>4. QED
        BY <2>2, <2>3 DEF AuditedIsWhole
<1>2. QED
    BY <1>1, Invariance, PTL

\* When nobody holds the lock, and no writer died or gave up its rollback, the
\* directories, the registry, the metadata and the units agree with the audit
\* log: no failed command, rolled back file by file, leaves them apart, nor does
\* any sequence of commands.
THEOREM QuietStaysConsistent == Spec => []QuietIsConsistent
<1>1. IInv => QuietIsConsistent
    <2> SUFFICES ASSUME IInv, lock = Nobody, interrupted = {}
                 PROVE  /\ present = audit.imported /\ DOMAIN registry = present
                        /\ MiscountedDocuments = {}
                        /\ \A d \in present :
                              registry[d] = metadata[d] /\ (metadata[d].until # Nobody <=> d \in ended)
        BY DEF QuietIsConsistent
    <2>1. \A q \in Procs : ~ Works(proc[q])
        BY OneWorks DEF IInv
    <2>2. Consistent(metadata, units, ended, registry, present, audit)
        BY <2>1 DEF IInv, Reconciled
    <2>3. QED
        BY <2>2 DEF Consistent, MiscountedDocuments
<1>2. QED
    BY <1>1, Invariance, PTL

\* No step of a command takes away a unit that the projections cite and that was
\* there when the writer at work took the lock: an import changes no units but
\* those of its own new directory, a decomposition keeps the cited ones, and each
\* step of a rollback puts back what there was.
THEOREM CitedUnitsStay == Spec => LinkedUnitsStay
<1>1. ASSUME IInv, [Next]_vars, NEW u \in shown, NEW d \in Docs, u \in units[d],
             \A p \in Procs : proc[p].op \in {"import", "decompose"} => u \in proc[p].old.units[d]
      PROVE  u \in units'[d]
    <2>1. Typed /\ FilesFollow /\ Sound(metadata, units, registry, present, audit, Loose)
          /\ units \in [Docs -> SUBSET Units]
        BY <1>1 DEF IInv, Typed, FilesTyped
    <2>2. ASSUME NEW p \in Procs, MakeDirectory(p) PROVE u \in units'[d]
        <3>1. proc[p].doc \in Docs /\ proc[p].doc \notin present
            BY <2>1, <2>2, WriterIsAt DEF MakeDirectory, Follow, CommandTyped
        <3>2. units[proc[p].doc] = {}
            BY <2>1, <3>1 DEF Sound
        <3>3. QED
            BY <1>1, <2>1, <2>2, <3>1, <3>2 DEF MakeDirectory
    <2>3. ASSUME NEW p \in Procs, SaveUnits(p) PROVE u \in units'[d]
        <3>1. proc[p].op = "decompose" /\ proc[p].doc \in Docs
            <4>1. At(proc[p], "units") /\ CommandTyped(proc[p]) /\ Works(proc[p])
                BY <2>1, <2>3, WriterIsAt DEF SaveUnits
            <4>2. QED
                BY <4>1 DEF At, CommandTyped
        <3>2. CASE d = proc[p].doc
            <4>1. u \in LinkedUnits(d)
                BY <1>1, <2>1 DEF LinkedUnits, Sound, Own
            <4>2. LinkedUnits(d) \subseteq proc[p].new
                BY <1>1, <3>1, <3>2 DEF IInv, KeepsCited
            <4>3. QED
                BY <2>1, <2>3, <3>2, <4>1, <4>2 DEF SaveUnits
        <3>3. CASE d # proc[p].doc
            BY <1>1, <2>1, <2>3, <3>3 DEF SaveUnits
        <3>4. QED
            BY <3>2, <3>3
    <2>4. ASSUME NEW p \in Procs, UndoFiles(p) PROVE u \in units'[d]
        <3>1. UndoesFrom(p, "undo files")
            BY <1>1, <2>4, RollbackIsAt DEF UndoFiles, UndoNames
        <3>2. d # proc[p].doc
            BY <1>1, <3>1 DEF UndoesFrom, UndoAt, Works
        <3>3. QED
            BY <1>1, <2>1, <2>4, <3>2 DEF UndoFiles
    <2>5. ASSUME NEW p \in Procs, UndoUnits(p) PROVE u \in units'[d]
        <3>1. UndoesFrom(p, "undo units")
            BY <1>1, <2>5, RollbackIsAt DEF UndoUnits, UndoNames
        <3>2. u \in proc[p].old.units[d]
            BY <1>1, <3>1 DEF UndoesFrom, Works
        <3>3. QED
            BY <1>1, <2>1, <2>5, <3>2 DEF UndoUnits
    <2>6. CASE UNCHANGED vars
        BY <1>1, <2>6 DEF vars, files
    <2>7. CASE Next
        <3>1. ASSUME NEW q \in Procs,
                     \/ \E e \in Docs : \E prev \in Previous(e) : BeginImport(q, e, prev)
                     \/ \E e \in Docs, s \in Strategies : BeginDecompose(q, e, s)
                     \/ BeginRebuild(q) \/ SavePrevious(q) \/ SavePreviousUnits(q)
                     \/ SaveMetadata(q) \/ SaveRegistry(q)
              PROVE  units' = units
            BY <3>1, Zenon DEF BeginImport, BeginDecompose, BeginRebuild, SavePrevious,
               SavePreviousUnits, SaveMetadata, SaveRegistry, files
        <3>2. ASSUME NEW q \in Procs,
                     \/ ListDocuments(q) \/ ResetIndex(q) \/ ReadUnits(q)
                     \/ PublishIndex(q) \/ RecordTransaction(q)
                     \/ WriteProjections(q) \/ RebuildFails(q) \/ Crash(q)
              PROVE  units' = units
            BY <3>2, Zenon DEF ListDocuments, ResetIndex, ReadUnits, PublishIndex,
               RecordTransaction, WriteProjections, RebuildFails, Crash, files
        <3>3. ASSUME NEW q \in Procs,
                     \/ (\E v \in Units : FindUnit(q, v)) \/ LinkEvidence(q)
                     \/ ShowEvidence(q) \/ ShowFails(q)
              PROVE  units' = units
            BY <3>3, Zenon DEF FindUnit, LinkEvidence, ShowEvidence, ShowFails, files
        <3>4. ASSUME NEW q \in Procs,
                     \/ BeginRollback(q) \/ UndoDirectory(q) \/ UndoPrevious(q)
                     \/ UndoPreviousUnits(q) \/ UndoMetadata(q) \/ UndoRegistry(q)
                     \/ UndoIndex(q) \/ RollbackFails(q)
              PROVE  units' = units
            BY <3>4, Zenon DEF BeginRollback, UndoDirectory, UndoPrevious, UndoPreviousUnits,
               UndoMetadata, UndoRegistry, UndoIndex, RollbackFails, files
        <3>5. RebuildProjections => units' = units
            BY Zenon DEF RebuildProjections, files
        <3>6. QED
            BY <1>1, <2>2, <2>3, <2>4, <2>5, <2>7, <3>1, <3>2, <3>3, <3>4, <3>5 DEF Next
    <2>8. QED
        BY <1>1, <2>6, <2>7
<1> DEFINE Stays == \A u \in shown, d \in Docs :
                        /\ u \in units[d]
                        /\ \A p \in Procs : proc[p].op \in {"import", "decompose"} =>
                                                u \in proc[p].old.units[d]
                        => u \in units'[d]
<1>2. IInv /\ [Next]_vars => [Stays]_vars
    BY <1>1
<1>3. QED
    BY <1>2, Invariance, PTL DEF Spec, LinkedUnitsStay

\* The files are of their types, and whoever changes them holds the lock.
THEOREM SourceTypeCorrect == Spec => []TypeOK
<1>1. IInv => TypeOK
    <2> SUFFICES ASSUME IInv PROVE TypeOK
        OBVIOUS
    <2>1. Typed
        BY DEF IInv
    <2>2. ASSUME NEW p \in Procs
          PROVE  proc[p].op \in {"import", "decompose"} \/ Doing(p, "show") <=> lock = p
        <3>1. Shows(proc[p]) => Doing(p, "show")
            BY DEF Shows, Doing
        <3>2. Doing(p, "show") => Works(proc[p]) \/ Shows(proc[p])
            BY <2>1, DoingIsAt DEF IInv
        <3>3. QED
            BY <2>1, <3>1, <3>2 DEF Typed, Works
    <2>3. QED
        BY <2>1, <2>2 DEF Typed, FilesTyped, Registries, TypeOK, Range
<1>2. QED
    BY <1>1, Invariance, PTL

-----------------------------------------------------------------------------
(* What show-source-impact reaches from a version.                           *)

\* seen is what PreviousSourceIds has seen after each of the replacements r.
Scans(seen, d, r) ==
    seen = [i \in Nat |-> IF i = 0 THEN {d}
                          ELSE IF r[i][1] \in seen[i - 1] THEN seen[i - 1] \cup {r[i][2]}
                          ELSE seen[i - 1]]

LEMMA ScanExists ==
    ASSUME NEW d, NEW r
    PROVE  \E seen : Scans(seen, d, r)
<1> DEFINE D == {d} \cup {r[i][2] : i \in Nat}
           S == SUBSET D
           more(i, X) == IF r[i][1] \in X THEN X \cup {r[i][2]} ELSE X
           step == [q \in Nat \X S |-> more(q[1], q[2])]
<1>1. {d} \in S /\ step \in [Nat \X S -> S]
    <2>1. \A i \in Nat, X \in S : more(i, X) \in S
        OBVIOUS
    <2> HIDE DEF S, more
    <2>2. QED
        BY <2>1 DEF S
<1>2. PICK f \in [Nat -> S] : Counts(f, {d}, step)
    <2> HIDE DEF S, step
    <2>1. QED
        BY <1>1, IndexedRecursionIsDefined, Zenon
<1>3. ASSUME NEW n \in Nat, n # 0 PROVE f[n] = more(n, f[n - 1])
    <2>1. n - 1 \in Nat /\ (n - 1) + 1 = n /\ f[n - 1] \in S
        BY <1>2, <1>3
    <2>2. f[n] = step[<< n, f[n - 1] >>]
        <3> HIDE DEF step, S
        <3>1. QED
            BY <1>2, <2>1 DEF Counts
    <2>3. << n, f[n - 1] >> \in Nat \X S
        BY <2>1
    <2> HIDE DEF S, more
    <2>4. QED
        BY <2>2, <2>3
<1>4. f = [i \in Nat |-> IF i = 0 THEN {d} ELSE more(i, f[i - 1])]
    <2> HIDE DEF more, S, step
    <2>1. f = [i \in Nat |-> f[i]]
        BY <1>2
    <2>2. \A i \in Nat : f[i] = IF i = 0 THEN {d} ELSE more(i, f[i - 1])
        BY <1>2, <1>3 DEF Counts
    <2>3. QED
        BY <2>1, <2>2
<1>5. Scans(f, d, r)
    BY <1>4 DEF Scans
<1>6. QED
    BY <1>5

LEMMA ReachedIsScanned ==
    ASSUME NEW d, NEW r
    PROVE  \E seen : Scans(seen, d, r) /\ Reached(d, r) = seen[Len(r)] \ {d}
<1> DEFINE seen == CHOOSE f : Scans(f, d, r)
<1>1. Scans(seen, d, r)
    BY ScanExists
<1>2. Reached(d, r) = seen[Len(r)] \ {d}
    BY DEF Reached, Scans
<1>3. QED
    BY <1>1, <1>2

LEMMA ScanStep ==
    ASSUME NEW d, NEW r, NEW seen, Scans(seen, d, r)
    PROVE  /\ seen[0] = {d}
           /\ \A n \in Nat : seen[n + 1] = IF r[n + 1][1] \in seen[n] THEN seen[n] \cup {r[n + 1][2]}
                                           ELSE seen[n]
<1>1. seen[0] = {d}
    BY DEF Scans
<1>2. ASSUME NEW n \in Nat
      PROVE  seen[n + 1] = IF r[n + 1][1] \in seen[n] THEN seen[n] \cup {r[n + 1][2]} ELSE seen[n]
    <2>1. n + 1 \in Nat /\ n + 1 # 0 /\ (n + 1) - 1 = n
        OBVIOUS
    <2>2. QED
        BY <2>1 DEF Scans
<1>3. QED
    BY <1>1, <1>2

\* The scan goes from the newest replacement back.
LEMMA NewestFirst ==
    ASSUME NEW versions \in Seq(Docs \X Docs), OlderFirst(versions), NEW r, r = Reverse(versions)
    PROVE  /\ Len(r) = Len(versions) /\ Len(r) \in Nat
           /\ \A i \in 1..Len(versions) : /\ Len(versions) - i + 1 \in 1..Len(r)
                                          /\ r[Len(versions) - i + 1] = versions[i]
           /\ \A k \in 1..Len(r) : r[k][1] # r[k][2]
           /\ \A j, k \in 1..Len(r) : j < k => r[j][1] \notin {r[k][1], r[k][2]}
<1> DEFINE n == Len(versions)
<1>1. n \in Nat /\ DOMAIN versions = 1..n
    OBVIOUS
<1>2. r = [i \in 1..n |-> versions[(n - i) + 1]]
    BY DEF Reverse
<1> HIDE DEF n
<1>3. \A k \in 1..n : r[k] = versions[n - k + 1] /\ n - k + 1 \in 1..n
    BY <1>1, <1>2
<1>4. Len(r) = n
    <2>1. DOMAIN r = 1..n /\ r \in [1..n -> Docs \X Docs]
        BY <1>1, <1>2, <1>3
    <2>2. r \in Seq(Docs \X Docs)
        BY <1>1, <2>1
    <2>3. Len(r) \in Nat /\ DOMAIN r = 1..Len(r)
        BY <2>2
    <2>4. QED
        BY <1>1, <2>1, <2>3
<1>5. ASSUME NEW i \in 1..n PROVE n - i + 1 \in 1..n /\ r[n - i + 1] = versions[i]
    <2>1. n - i + 1 \in 1..n /\ n - (n - i + 1) + 1 = i
        BY <1>1
    <2>2. QED
        BY <1>3, <2>1
<1>6. \A k \in 1..n : r[k][1] # r[k][2]
    BY <1>1, <1>3 DEF OlderFirst
<1>7. ASSUME NEW j \in 1..n, NEW k \in 1..n, j < k PROVE r[j][1] \notin {r[k][1], r[k][2]}
    <2>1. n - k + 1 < n - j + 1
        BY <1>1, <1>7
    <2>2. /\ n - k + 1 \in DOMAIN versions /\ r[k] = versions[n - k + 1]
          /\ n - j + 1 \in DOMAIN versions /\ r[j] = versions[n - j + 1]
        BY <1>1, <1>3
    <2> DEFINE x == n - k + 1  y == n - j + 1
    <2>3. x \in DOMAIN versions /\ y \in DOMAIN versions /\ x < y
        BY <2>1, <2>2
    <2>4. r[k] = versions[x] /\ r[j] = versions[y]
        BY <2>2
    <2> HIDE DEF x, y
    <2>5. versions[y][1] \notin {versions[x][1], versions[x][2]}
        BY <2>3 DEF OlderFirst
    <2>6. QED
        BY <2>4, <2>5
<1>8. QED
    BY <1>1, <1>4, <1>5, <1>6, <1>7 DEF n

\* What replaced d reaches d and all that d reaches.
ReachesBack(versions) ==
    \A i \in DOMAIN versions :
        {versions[i][2]} \cup Reached(versions[i][2], Reverse(versions))
            \subseteq Reached(versions[i][1], Reverse(versions))

LEMMA ReplacementReachesBack ==
    ASSUME NEW versions \in Seq(Docs \X Docs), OlderFirst(versions)
    PROVE  ReachesBack(versions)
<1> SUFFICES ASSUME NEW i \in DOMAIN versions
             PROVE  {versions[i][2]} \cup Reached(versions[i][2], Reverse(versions))
                        \subseteq Reached(versions[i][1], Reverse(versions))
    BY DEF ReachesBack
<1> DEFINE d == versions[i][2]  e == versions[i][1]
<1> DEFINE r == Reverse(versions)  k == Len(versions) - i + 1  n == Len(r)
<1>1. /\ n \in Nat /\ k \in 1..n /\ r[k][1] = e /\ r[k][2] = d /\ d # e
      /\ \A j \in 1..n : j < k => r[j][1] # e /\ r[j][1] # d
      /\ \A j \in 1..n : k < j => r[j][2] # e
    <2>1. i \in 1..Len(versions)
        OBVIOUS
    <2>2. /\ Len(r) = Len(versions) /\ Len(r) \in Nat
          /\ \A x \in 1..Len(versions) : /\ Len(versions) - x + 1 \in 1..Len(r)
                                         /\ r[Len(versions) - x + 1] = versions[x]
          /\ \A x \in 1..Len(r) : r[x][1] # r[x][2]
          /\ \A j, x \in 1..Len(r) : j < x => r[j][1] \notin {r[x][1], r[x][2]}
        BY NewestFirst, Zenon DEF r
    <2> HIDE DEF r
    <2>3. k \in 1..n /\ r[k] = versions[i] /\ n \in Nat
        BY <2>1, <2>2
    <2> HIDE DEF k
    <2>4. QED
        BY <2>2, <2>3
<1>2. PICK a : Scans(a, d, r) /\ Reached(d, r) = a[n] \ {d}
    BY ReachedIsScanned
<1>3. PICK b : Scans(b, e, r) /\ Reached(e, r) = b[n] \ {e}
    BY ReachedIsScanned
<1> HIDE DEF r, k, n, d, e
<1>4. /\ a[0] = {d} /\ b[0] = {e}
      /\ \A m \in Nat : a[m + 1] = IF r[m + 1][1] \in a[m] THEN a[m] \cup {r[m + 1][2]} ELSE a[m]
      /\ \A m \in Nat : b[m + 1] = IF r[m + 1][1] \in b[m] THEN b[m] \cup {r[m + 1][2]} ELSE b[m]
    BY <1>2, <1>3, ScanStep
<1> DEFINE Apart(m) == /\ m < k => a[m] = {d} /\ b[m] = {e}
                       /\ k <= m => a[m] \subseteq b[m] /\ d \in b[m] /\ e \notin a[m]
           T == {m \in Nat : m <= n => Apart(m)}
<1>5. 0 \in T
    BY <1>1, <1>4
<1>6. ASSUME NEW m \in Nat, m \in T PROVE m + 1 \in T
    <2> SUFFICES ASSUME m + 1 <= n PROVE Apart(m + 1)
        OBVIOUS
    <2>1. Apart(m) /\ m + 1 \in 1..n /\ k \in Nat
        BY <1>1, <1>6
    <2>2. /\ a[m + 1] = IF r[m + 1][1] \in a[m] THEN a[m] \cup {r[m + 1][2]} ELSE a[m]
          /\ b[m + 1] = IF r[m + 1][1] \in b[m] THEN b[m] \cup {r[m + 1][2]} ELSE b[m]
        BY <1>4, <1>6
    <2>3. CASE m + 1 < k
        <3>1. a[m] = {d} /\ b[m] = {e} /\ r[m + 1][1] # e /\ r[m + 1][1] # d
            BY <1>1, <2>1, <2>3
        <3>2. QED
            BY <2>1, <2>3, <2>2, <3>1
    <2>4. CASE m + 1 = k
        <3>1. a[m] = {d} /\ b[m] = {e} /\ r[m + 1][1] = e /\ r[m + 1][2] = d /\ d # e
            BY <1>1, <2>1, <2>4
        <3>2. a[m + 1] = {d} /\ b[m + 1] = {e, d}
            BY <2>2, <3>1
        <3>3. QED
            BY <2>1, <2>4, <3>1, <3>2
    <2>5. CASE k < m + 1
        <3>1. a[m] \subseteq b[m] /\ d \in b[m] /\ e \notin a[m] /\ r[m + 1][2] # e
            BY <1>1, <2>1, <2>5
        <3>2. a[m + 1] \subseteq b[m + 1] /\ d \in b[m + 1] /\ e \notin a[m + 1]
            BY <2>2, <3>1
        <3>3. QED
            BY <2>1, <2>5, <3>2
    <2>6. QED
        BY <2>1, <2>3, <2>4, <2>5
<1>7. Nat \subseteq T
    <2> HIDE DEF T
    <2>1. QED
        BY <1>5, <1>6, SetInduction
<1>8. a[n] \subseteq b[n] /\ d \in b[n] /\ e \notin a[n]
    <2>1. n \in T
        BY <1>1, <1>7
    <2>2. QED
        BY <1>1, <2>1
<1>9. QED
    BY <1>1, <1>2, <1>3, <1>8 DEF r, d, e

\* Whatever replaced what and whoever died, the impact of a version includes the
\* one it replaced and all that one includes.
THEOREM ImpactStaysComplete == Spec => []ImpactReachesBack
<1>1. IInv => ImpactReachesBack
    <2> DEFINE versions == audit.versions
    <2> SUFFICES ASSUME IInv, NEW d \in Docs, NEW e \in audit.imported,
                        \/ << e, d >> \in Range(versions)
                        \/ metadata[d].until = e /\ << "import", e >> \notin interrupted
                 PROVE  {d} \cup PreviousSourceIds(d) \subseteq PreviousSourceIds(e)
        BY DEF ImpactReachesBack
    <2>1. versions \in Seq(Docs \X Docs) /\ OlderFirst(versions) /\ Typed /\ audit.imported \subseteq Docs
        BY DEF IInv, Typed
    <2>2. \E i \in DOMAIN versions : versions[i][1] = e /\ versions[i][2] = d
        <3>1. CASE << e, d >> \in Range(versions)
            BY <3>1 DEF Range
        <3>2. CASE metadata[d].until = e /\ << "import", e >> \notin interrupted
            <4>1. e \notin Left
                BY <3>2 DEF Left, LeftBy
            <4>2. ASSUME NEW p \in Procs PROVE e \notin Importing(proc[p])
                <5> SUFFICES ASSUME proc[p].op = "import", proc[p].todo # ToProject, e = proc[p].doc
                             PROVE  FALSE
                    BY DEF Importing
                <5>1. OldSound(proc[p], present, audit, Left)
                    BY DEF IInv, OldIsSound, Works
                <5>2. e \in PresentBefore(proc[p], present)
                    BY <5>1 DEF OldSound, Sound
                <5>3. QED
                    BY <5>2 DEF PresentBefore
            <4>3. e \notin Loose
                BY <4>1, <4>2 DEF Loose, LooseIn, Left
            <4>4. QED
                BY <3>2, <4>3 DEF IInv, Sound
        <3>3. QED
            BY <3>1, <3>2
    <2>3. PICK i \in DOMAIN versions : versions[i][1] = e /\ versions[i][2] = d
        BY <2>2
    <2>4. ReachesBack(versions)
        <3> HIDE DEF versions
        <3>1. QED
            BY <2>1, ReplacementReachesBack
    <2>5. {d} \cup Reached(d, Reverse(versions)) \subseteq Reached(e, Reverse(versions))
        BY <2>3, <2>4 DEF ReachesBack
    <2>6. QED
        BY <2>5 DEF PreviousSourceIds
<1>2. QED
    BY <1>1, Invariance, PTL
=============================================================================
