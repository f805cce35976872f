------------------------- MODULE EventLogProofs -------------------------
(***************************************************************************)
(* The store keeps its promise for every set of processes, sessions and    *)
(* objects and any number of crashes: files are written ahead by the log,  *)
(* what a command returned is never lost, what load_runtime accepts is one *)
(* whole valid version, the incremental projections are a full replay, the *)
(* index implements the ledger, and who reads without the lock is shown a  *)
(* committed version at least as new as what was returned before.          *)
(*                                                                         *)
(* Branches of the log, for every set of branches: only resolutions that   *)
(* were made without knowledge of each other clash, and projections that   *)
(* account for their log are its replay; a conflict that two rejections in *)
(* one session repair is reported unless an object lost what created it.   *)
(* Requirement numbers are only shared by branches that worked in          *)
(* parallel.                                                               *)
(*                                                                         *)
(* First come facts about histories, the canonical order and the content   *)
(* of the projection files; then the store; its readers; the branches; the *)
(* numbers.                                                                *)
(***************************************************************************)
EXTENDS RuntimeReaders, MergeConflicts, RequirementIds, RecursionProofs,
        FiniteSetTheorems, SequenceTheorems

\* The canonical order is transitive: _canonical_event_sort_key compares
\* tuples lexicographically.
LEMMA BeforeTransitive ==
    ASSUME NEW t \in Tx, NEW u \in Tx, NEW v \in Tx, Before(t, u), Before(u, v)
    PROVE  Before(t, v)
<1>1. /\ t.ts \in Int /\ u.ts \in Int /\ v.ts \in Int
      /\ t.id \in Int /\ u.id \in Int /\ v.id \in Int
    <2>1. \A x \in Tx : x.ts \in 0..MaxTime /\ x.id \in Ids
        BY DEF Tx
    <2>2. Ids \subseteq Int /\ 0..MaxTime \subseteq Int
        BY EventLogAssumption
    <2>3. QED
        BY <2>1, <2>2
<1>2. Rank(t) \in 0..1 /\ Rank(u) \in 0..1 /\ Rank(v) \in 0..1
    BY DEF Rank
<1>3. QED
    BY <1>1, <1>2, SMT DEF Before

\* A transaction is not before itself.
LEMMA BeforeIrreflexive ==
    ASSUME NEW t \in Tx
    PROVE  ~Before(t, t)
<1>1. t.ts \in Int /\ t.id \in Int
    <2>1. t.ts \in 0..MaxTime /\ t.id \in Ids
        BY DEF Tx
    <2>2. Ids \subseteq Int /\ 0..MaxTime \subseteq Int
        BY EventLogAssumption
    <2>3. QED
        BY <2>1, <2>2
<1>2. Rank(t) \in 0..1
    BY DEF Rank
<1>3. QED
    BY <1>1, <1>2, SMT DEF Before

\* A transaction stamped after the last one of a sorted history keeps the
\* history sorted (_validate_incremental_events).
LEMMA AppendSorted ==
    ASSUME NEW h \in Seq(Tx), NEW t \in Tx, Sorted(h), AfterCheckpoint(h, t)
    PROVE  Sorted(Append(h, t))
<1> DEFINE g == Append(h, t)
<1>1. /\ Len(h) \in Nat /\ DOMAIN h = 1..Len(h) /\ DOMAIN g = 1..(Len(h) + 1)
      /\ \A i \in 1..Len(h) : g[i] = h[i] /\ h[i] \in Tx
      /\ g[Len(h) + 1] = t
    BY AppendProperties, LenProperties, ElementOfSeq
<1>2. SUFFICES ASSUME NEW i \in DOMAIN g, NEW j \in DOMAIN g, i < j
               PROVE  Before(g[i], g[j])
    BY DEF Sorted
<1>3. CASE j \in 1..Len(h)
    BY <1>1, <1>2, <1>3 DEF Sorted
<1>4. CASE j = Len(h) + 1
    <2>1. h # << >> /\ i \in 1..Len(h)
        BY <1>1, <1>2, <1>4
    <2>2. Before(h[Len(h)], t)
        BY <2>1 DEF AfterCheckpoint
    <2>3. CASE i = Len(h)
        BY <2>1, <2>2, <2>3, <1>1, <1>4
    <2>4. CASE i < Len(h)
        <3>1. Len(h) \in 1..Len(h)
            BY <2>1, <1>1
        <3>2. Before(h[i], h[Len(h)])
            BY <2>1, <2>4, <1>1, <3>1 DEF Sorted
        <3>3. h[i] \in Tx /\ h[Len(h)] \in Tx
            BY <2>1, <3>1, <1>1
        <3>4. Before(h[i], t)
            BY <2>2, <3>2, <3>3, BeforeTransitive
        <3>5. QED
            BY <3>4, <2>1, <1>1, <1>4
    <2>5. QED
        BY <2>1, <2>3, <2>4, <1>1
<1>5. QED
    BY <1>1, <1>3, <1>4

\* Replay is incremental: appending an admissible transaction to a valid
\* history gives a valid history.
LEMMA AppendValid ==
    ASSUME NEW h \in Seq(Tx), NEW t \in Tx,
           ValidHistory(h), Admissible(h, t.change)
    PROVE  ValidHistory(Append(h, t))
<1> DEFINE g == Append(h, t)
<1>1. /\ Len(h) \in Nat /\ DOMAIN h = 1..Len(h) /\ DOMAIN g = 1..(Len(h) + 1)
      /\ \A i \in 1..Len(h) : g[i] = h[i] /\ h[i] \in Tx
      /\ g[Len(h) + 1] = t
    BY AppendProperties, LenProperties, ElementOfSeq
<1>2. ASSUME NEW n \in 0..Len(h)
      PROVE  SubSeq(g, 1, n) = SubSeq(h, 1, n)
    <2>1. \A i \in 1..n : g[i] \in Tx /\ h[i] \in Tx /\ g[i] = h[i]
        BY <1>1, <1>2
    <2>2. /\ SubSeq(g, 1, n) \in Seq(Tx) /\ SubSeq(h, 1, n) \in Seq(Tx)
          /\ Len(SubSeq(g, 1, n)) = n /\ Len(SubSeq(h, 1, n)) = n
          /\ \A i \in 1..n : SubSeq(g, 1, n)[i] = g[i] /\ SubSeq(h, 1, n)[i] = h[i]
        BY <1>1, <2>1, SubSeqProperties
    <2>3. QED
        BY <2>1, <2>2, SeqEqual
<1>3. SUFFICES ASSUME NEW i \in DOMAIN g
               PROVE  Admissible(SubSeq(g, 1, i - 1), g[i].change)
    BY DEF ValidHistory
<1>4. SubSeq(g, 1, i - 1) = SubSeq(h, 1, i - 1)
    <2>1. i - 1 \in 0..Len(h)
        BY <1>1
    <2>2. QED
        BY <1>2, <2>1
<1>5. CASE i \in 1..Len(h)
    BY <1>1, <1>4, <1>5 DEF ValidHistory
<1>6. CASE i = Len(h) + 1
    <2>1. SubSeq(h, 1, Len(h)) = h
        BY SubSeqFull
    <2>2. i - 1 = Len(h)
        BY <1>1, <1>6
    <2>3. SubSeq(g, 1, i - 1) = h
        BY <1>4, <2>1, <2>2
    <2>4. g[i] = t
        BY <1>1, <1>6
    <2>5. QED
        BY <2>3, <2>4
<1>7. QED
    BY <1>1, <1>5, <1>6

\* A projection file holds a prefix of its history, so it accounts for no
\* transaction the history does not have.
LEMMA ContentType ==
    ASSUME NEW h \in Seq(Tx), h # << >>, NEW f \in Files
    PROVE  Content(h, f) \in Seq(Tx) /\ Range(Content(h, f)) \subseteq Range(h)
<1>1. Len(h) \in Nat /\ Len(h) >= 1 /\ DOMAIN h = 1..Len(h)
    BY EmptySeq, LenProperties
<1>2. ASSUME NEW m \in 1..Len(h), NEW n \in 0..Len(h)
      PROVE  SubSeq(h, m, n) \in Seq(Tx) /\ Range(SubSeq(h, m, n)) \subseteq Range(h)
    <2>1. \A i \in m..n : h[i] \in Tx
        BY <1>1, <1>2, ElementOfSeq
    <2>2. /\ SubSeq(h, m, n) \in Seq(Tx)
          /\ Len(SubSeq(h, m, n)) = IF m <= n THEN n - m + 1 ELSE 0
          /\ \A i \in 1..n - m + 1 : SubSeq(h, m, n)[i] = h[m + i - 1]
        BY <1>1, <1>2, <2>1, SubSeqProperties
    <2>3. ASSUME NEW i \in DOMAIN SubSeq(h, m, n)
          PROVE  SubSeq(h, m, n)[i] \in Range(h)
        <3>1. DOMAIN SubSeq(h, m, n) = 1..Len(SubSeq(h, m, n))
            BY <2>2, LenProperties
        <3>2. m <= n /\ i \in 1..n - m + 1
            BY <2>2, <3>1, <2>3, <1>1, <1>2
        <3>3. m + i - 1 \in DOMAIN h
            BY <1>1, <1>2, <3>2
        <3>4. QED
            BY <2>2, <3>2, <3>3 DEF Range
    <2>4. QED
        BY <2>2, <2>3 DEF Range
<1>3. Seen(h, f) \in 0..Len(h)
    <2> DEFINE T == { i \in DOMAIN h :
                        \E j \in DOMAIN h : i <= j /\ h[j].change.scope = f }
    <2>1. IsFiniteSet(1..Len(h)) /\ Cardinality(1..Len(h)) = Len(h)
        BY <1>1, FS_Interval
    <2>2. T \in SUBSET (1..Len(h))
        BY <1>1
    <2>3. IsFiniteSet(T) /\ Cardinality(T) <= Len(h)
        BY <2>1, <2>2, FS_Subset
    <2>4. Cardinality(T) \in Nat
        BY <2>3, FS_CardinalityType
    <2>5. QED
        BY <1>1, <2>3, <2>4 DEF Seen
<1>4. CASE f = "project-state"
    BY <1>4 DEF Content
<1>5. CASE f = "taxonomy-state"
    BY <1>1, <1>2, <1>5 DEF Content
<1>6. CASE f \in Sessions /\ f # "project-state" /\ f # "taxonomy-state"
    BY <1>1, <1>2, <1>3, <1>6 DEF Content
<1>7. QED
    BY <1>4, <1>5, <1>6 DEF Files

\* The order a rebuild replays is a history of exactly the transactions of
\* the log.
LEMMA OrdersAreHistories ==
    ASSUME NEW S \in SUBSET Tx, IsFiniteSet(S), NEW h \in CanonicalOrders(S)
    PROVE  h \in Seq(Tx) /\ Range(h) = S /\ Sorted(h)
<1>1. Cardinality(S) \in Nat
    BY FS_CardinalityType
<1>2. h \in [1..Cardinality(S) -> S] /\ Range(h) = S /\ Sorted(h)
    BY DEF CanonicalOrders
<1>3. h \in [1..Cardinality(S) -> Tx]
    BY <1>2
<1>4. QED
    BY <1>1, <1>2, <1>3

\* In a sorted history a transaction stands where the number of those before
\* it says: no transaction is there twice, and there is one canonical order.
LEMMA PositionIsRank ==
    ASSUME NEW h \in Seq(Tx), Sorted(h), NEW i \in 1..Len(h)
    PROVE  Cardinality({ t \in Range(h) : Before(t, h[i]) }) = i - 1
<1> DEFINE earlier == { t \in Range(h) : Before(t, h[i]) }
<1>1. Len(h) \in Nat /\ DOMAIN h = 1..Len(h) /\ \A j \in 1..Len(h) : h[j] \in Tx
    BY LenProperties, ElementOfSeq
<1>2. \A t, u \in Tx : ~(Before(t, u) /\ Before(u, t))
    BY BeforeIrreflexive, BeforeTransitive
<1>3. \A j, k \in 1..Len(h) : j < k => Before(h[j], h[k])
    BY <1>1 DEF Sorted
<1>4. \A j \in 1..Len(h) : h[j] \in earlier <=> j < i
    <2> SUFFICES ASSUME NEW j \in 1..Len(h)
                 PROVE  Before(h[j], h[i]) <=> j < i
        BY <1>1 DEF Range
    <2>1. j < i \/ j = i \/ i < j
        BY <1>1
    <2>2. CASE j = i
        BY <2>2, <1>1, BeforeIrreflexive
    <2>3. QED
        BY <1>1, <1>2, <1>3, <2>1, <2>2
<1>5. i - 1 \in Nat /\ \A j \in 1..(i - 1) : j \in 1..Len(h) /\ j < i
    BY <1>1
<1> DEFINE f == [j \in 1..(i - 1) |-> h[j]]
<1>6. f \in Bijection(1..(i - 1), earlier)
    <2>1. f \in [1..(i - 1) -> earlier]
        BY <1>4, <1>5
    <2>2. ASSUME NEW j \in 1..(i - 1), NEW k \in 1..(i - 1), f[j] = f[k]
          PROVE  j = k
        <3>1. j < k \/ j = k \/ k < j
            BY <1>1
        <3>2. h[j] = h[k] /\ h[j] \in Tx
            BY <2>2, <1>1, <1>5
        <3>3. ~Before(h[j], h[k]) /\ ~Before(h[k], h[j])
            BY <3>2, BeforeIrreflexive
        <3>4. QED
            BY <3>1, <3>3, <1>3, <1>5
    <2>3. ASSUME NEW t \in earlier
          PROVE  \E j \in 1..(i - 1) : f[j] = t
        <3>1. PICK j \in 1..Len(h) : h[j] = t
            BY <1>1 DEF Range
        <3>2. j \in 1..(i - 1)
            BY <3>1, <1>1, <1>4
        <3>3. QED
            BY <3>1, <3>2
    <2> HIDE DEF f, earlier
    <2>4. f \in Injection(1..(i - 1), earlier)
        BY <2>1, <2>2 DEF Injection, IsInjective
    <2>5. f \in Surjection(1..(i - 1), earlier)
        BY <2>1, <2>3 DEF Surjection
    <2>6. QED
        BY <2>4, <2>5 DEF Bijection
<1>7. QED
    BY <1>5, <1>6, FS_CountingElements DEF ExistsBijection

\* The canonical order of a set of transactions is unique: whatever order the
\* files are discovered in, a replay gives one history.
LEMMA CanonicalOrderIsUnique ==
    ASSUME NEW h \in Seq(Tx), NEW g \in Seq(Tx),
           Sorted(h), Sorted(g), Range(h) = Range(g)
    PROVE  h = g
<1>1. /\ Len(h) \in Nat /\ DOMAIN h = 1..Len(h)
      /\ Len(g) \in Nat /\ DOMAIN g = 1..Len(g)
    BY LenProperties
<1>2. ASSUME NEW i \in 1..Len(h)
      PROVE  i \in 1..Len(g) /\ g[i] = h[i]
    <2>1. PICK k \in 1..Len(g) : g[k] = h[i]
        BY <1>1 DEF Range
    <2>2. k - 1 = i - 1
        BY <2>1, PositionIsRank
    <2>3. QED
        BY <2>1, <2>2, <1>1
<1>3. ASSUME NEW i \in 1..Len(g)
      PROVE  i \in 1..Len(h)
    <2>1. PICK k \in 1..Len(h) : h[k] = g[i]
        BY <1>1 DEF Range
    <2>2. k - 1 = i - 1
        BY <2>1, PositionIsRank
    <2>3. QED
        BY <2>2, <1>1
<1>4. Len(h) = Len(g)
    <2>1. \A m, n \in Nat : (\A i \in 1..m : i \in 1..n) => m <= n
        OBVIOUS
    <2>2. Len(h) <= Len(g) /\ Len(g) <= Len(h)
        BY <2>1, <1>1, <1>2, <1>3
    <2>3. \A m, n \in Nat : m <= n /\ n <= m => m = n
        OBVIOUS
    <2>4. QED
        BY <2>2, <2>3, <1>1
<1>5. QED
    BY <1>1, <1>2, <1>4, SeqEqual

\* A sorted history is the canonical order of its transactions.
LEMMA SortedIsCanonical ==
    ASSUME NEW h \in Seq(Tx), Sorted(h)
    PROVE  CanonicalOrders(Range(h)) = {h}
<1>1. Len(h) \in Nat /\ DOMAIN h = 1..Len(h) /\ \A j \in 1..Len(h) : h[j] \in Tx
    BY LenProperties, ElementOfSeq
<1>2. IsFiniteSet(Range(h)) /\ Cardinality(Range(h)) = Len(h)
    <2>1. \A j, k \in 1..Len(h) : h[j] = h[k] => j = k
        <3>1. SUFFICES ASSUME NEW j \in 1..Len(h), NEW k \in 1..Len(h), h[j] = h[k]
                       PROVE  j - 1 = k - 1
            BY <1>1
        <3>2. QED
            BY <3>1, PositionIsRank
    <2>2. h \in [1..Len(h) -> Range(h)]
        BY <1>1 DEF Range
    <2>3. h \in Injection(1..Len(h), Range(h))
        BY <2>1, <2>2 DEF Injection, IsInjective
    <2>4. h \in Surjection(1..Len(h), Range(h))
        BY <2>2, <1>1 DEF Surjection, Range
    <2>5. ExistsBijection(1..Len(h), Range(h))
        BY <2>3, <2>4 DEF Bijection, ExistsBijection
    <2>6. QED
        BY <2>5, <1>1, FS_CountingElements, FS_NatBijection
<1>3. h \in CanonicalOrders(Range(h))
    <2>1. h \in [1..Len(h) -> Range(h)]
        BY <1>1 DEF Range
    <2>2. QED
        BY <2>1, <1>2 DEF CanonicalOrders
<1>4. Range(h) \in SUBSET Tx
    BY <1>1 DEF Range
<1>5. ASSUME NEW g \in CanonicalOrders(Range(h))
      PROVE  g = h
    <2>1. g \in Seq(Tx) /\ Range(g) = Range(h) /\ Sorted(g)
        BY <1>2, <1>4, OrdersAreHistories
    <2>2. QED
        BY <2>1, CanonicalOrderIsUnique
<1>6. QED
    BY <1>3, <1>5

-----------------------------------------------------------------------------
(***************************************************************************)
(* The store.                                                              *)
(***************************************************************************)

\* What a command returned is in project-state.json, the index describes
\* exactly that, and taxonomy-state.json is never ahead of project-state.json.
AckedStored ==
    /\ acked \subseteq Range(History)
    /\ Range(index.head) = acked
    /\ Range(disk["taxonomy-state"]) \subseteq Range(History)

\* The index describes one valid history and, in its manifest, all its files.
IndexWhole ==
    index.head # << >> =>
        /\ ValidHistory(index.head) /\ Sorted(index.head)
        /\ \A f \in Files : index.manifest[f] = Content(index.head, f)

\* The history the lock holder persists is valid, contains everything that
\* is stored, and is in the log but for the transaction about to be written.
StageSound ==
    \A p \in Procs : pc[p] # "idle" =>
        /\ stage[p] # << >> /\ ValidHistory(stage[p]) /\ Sorted(stage[p])
        /\ Range(History) \subseteq Range(stage[p])
        /\ pc[p] = "files" => Range(stage[p]) \subseteq log
        /\ pc[p] = "log" => Range(stage[p]) \subseteq log \cup {stage[p][Len(stage[p])]}

\* The files the lock holder has replaced are those of its history.
FilesReplaced ==
    \A p \in Procs :
        /\ pc[p] = "log" => todo[p] = Files
        /\ pc[p] = "files" =>
              \A f \in Files \ todo[p] : disk[f] = Content(stage[p], f)

\* As long as nothing has crashed, the lock holder persists exactly the log
\* and leaves files and index that stand for all of it.
InStep ==
    crashes = 0 =>
        /\ lock = Nobody =>
              /\ Range(History) = log
              /\ index = [head |-> History, manifest |-> disk]
        /\ \A p \in Procs :
              /\ pc[p] = "log" => Range(stage[p]) = log \cup {stage[p][Len(stage[p])]}
              /\ pc[p] = "files" => Range(stage[p]) = log

IInv ==
    /\ TypeOK
    /\ IsFiniteSet(log)
    /\ WriteAhead
    /\ AckedStored
    /\ IndexWhole
    /\ StageSound
    /\ FilesReplaced
    /\ InStep

-----------------------------------------------------------------------------
LEMMA InitInvariant == Init => IInv
<1> SUFFICES ASSUME Init PROVE IInv
    OBVIOUS
<1>1. Range(<< >>) = {}
    BY DEF Range
<1>2. << >> \in Seq(Tx)
    BY EmptySeq
<1>3. TypeOK
    BY <1>2, RuntimeStoreAssumption DEF Init, TypeOK, NoIndex
<1>4. IsFiniteSet(log)
    BY FS_EmptySet DEF Init
<1>5. "project-state" \in Files /\ "taxonomy-state" \in Files
    BY DEF Files
<1>6. WriteAhead /\ AckedStored /\ IndexWhole
    BY <1>1, <1>5 DEF Init, WriteAhead, AckedStored, IndexWhole, History, NoIndex
<1>7. StageSound /\ FilesReplaced
    BY DEF Init, StageSound, FilesReplaced
<1>8. InStep
    BY <1>1, <1>5 DEF Init, InStep, History, NoIndex
<1>9. QED
    BY <1>3, <1>4, <1>6, <1>7, <1>8 DEF IInv

\* Taking the lock with a valid history that contains everything returned.
LEMMA EnterStep ==
    ASSUME IInv, NEW p \in Procs, NEW h \in Seq(Tx), NEW first \in {"log", "files"},
           Enter(p, h, first),
           h # << >>, ValidHistory(h), Sorted(h), Range(History) \subseteq Range(h),
           first = "files" => Range(h) = log,
           first = "log" => Range(h) \subseteq log \cup {h[Len(h)]},
           first = "log" /\ crashes = 0 => Range(h) = log \cup {h[Len(h)]}
    PROVE  IInv'
<1>1. \A q \in Procs : pc[q] = "idle"
    BY RuntimeStoreAssumption DEF IInv, TypeOK, Enter
<1>2. \A q \in Procs : pc'[q] # "idle" => q = p /\ pc'[q] = first
    BY <1>1 DEF IInv, TypeOK, Enter
<1>3. stage'[p] = h /\ todo'[p] = Files
    BY DEF IInv, TypeOK, Enter
<1>4. TypeOK'
    BY <1>2 DEF IInv, TypeOK, Enter
<1>5. IsFiniteSet(log)' /\ WriteAhead' /\ AckedStored' /\ IndexWhole'
    BY DEF IInv, Enter, WriteAhead, AckedStored, IndexWhole, History
<1>6. StageSound'
    BY <1>2, <1>3 DEF Enter, StageSound, History
<1>7. FilesReplaced'
    BY <1>2, <1>3 DEF FilesReplaced
<1>8. InStep'
    BY <1>2, <1>3, RuntimeStoreAssumption DEF Enter, InStep
<1>9. QED
    BY <1>4, <1>5, <1>6, <1>7, <1>8 DEF IInv

LEMMA BootstrapStep ==
    ASSUME IInv, NEW p \in Procs, Bootstrap(p)
    PROVE  IInv'
<1>1. PICK i \in Ids, now \in 0..MaxTime :
          Enter(p, << [id |-> i, ts |-> now, change |-> Initialise] >>, "log")
    BY DEF Bootstrap
<1> DEFINE t == [id |-> i, ts |-> now, change |-> Initialise]
           h == << t >>
<1>2. t \in Tx /\ h \in Seq(Tx)
    BY DEF Tx, Change, Initialise, ScopeChange, Scopes, Cells, Values
<1>3. h # << >> /\ DOMAIN h = 1..1 /\ h[1] = t /\ Len(h) = 1
    OBVIOUS
<1>4. ValidHistory(h)
    <2>1. SubSeq(h, 1, 0) = << >>
        BY SubSeqEmpty
    <2>2. DOMAIN << >> = {}
        OBVIOUS
    <2>3. Value(<< >>, System) = "absent"
        BY <2>2 DEF Value
    <2>4. Admissible(<< >>, t.change)
        BY <2>3 DEF Admissible, Initialise, ScopeChange
    <2>5. SUFFICES ASSUME NEW k \in DOMAIN h
                   PROVE  Admissible(SubSeq(h, 1, k - 1), h[k].change)
        BY DEF ValidHistory
    <2>6. k = 1 /\ k - 1 = 0
        BY <1>3
    <2>7. QED
        BY <2>1, <2>4, <2>6, <1>3
<1>5. Sorted(h)
    BY <1>3 DEF Sorted
<1>6. Range(History) = {} /\ log = {}
    BY DEF IInv, WriteAhead, History, Bootstrap, Files
<1>7. Range(h) = log \cup {h[Len(h)]}
    BY <1>3, <1>6 DEF Range
<1>8. QED
    BY <1>1, <1>2, <1>3, <1>4, <1>5, <1>6, <1>7, EnterStep

-----------------------------------------------------------------------------
\* A bundle load_runtime accepts is one whole valid version.
LEMMA LoadedIsWhole ==
    ASSUME IInv, Loadable
    PROVE  /\ History \in Seq(Tx) /\ History # << >>
           /\ ValidHistory(History) /\ Sorted(History)
           /\ \A f \in Files : disk[f] = Content(History, f)
<1>1. index.head = History /\ History # << >> /\ index.manifest = disk
    BY DEF Loadable, Accepted, History
<1>2. "project-state" \in Files
    BY DEF Files
<1>3. QED
    BY <1>1, <1>2 DEF IInv, TypeOK, IndexWhole, History

\* What the incremental checks let through on a bootstrapped runtime, a full
\* replay accepts.
LEMMA IncrementalIsAdmissible ==
    ASSUME NEW h, h # << >>, NEW c \in Changes, PassesIncremental(h, c)
    PROVE  Admissible(h, c)
<1>1. \/ c.cell \in Sessions /\ c.scope = c.cell /\ c.from = "absent"
      \/ c.cell \in Sessions /\ c.scope = c.cell /\ c.from = "open"
      \/ c.cell \in Objects
    BY DEF Changes, ScopeChange
<1>2. Sessions \cap Objects = {}
    BY EventLogAssumption
<1>3. QED
    BY <1>1, <1>2 DEF PassesIncremental, Admissible

LEMMA NextTimestampIsLater ==
    ASSUME NEW h \in Seq(Tx), h # << >>, NEW t \in Tx, NEW now \in 0..MaxTime,
           t.ts = NextTimestamp(h, now)
    PROVE  t.ts > h[Len(h)].ts
<1>1. h[Len(h)] \in Tx
    BY EmptySeq, ElementOfSeq
<1>2. h[Len(h)].ts \in 0..MaxTime
    BY <1>1 DEF Tx
<1>3. QED
    BY <1>2 DEF NextTimestamp

LEMMA TransactStep ==
    ASSUME IInv, NEW p \in Procs, Transact(p)
    PROVE  IInv'
<1>1. /\ History \in Seq(Tx) /\ History # << >>
      /\ ValidHistory(History) /\ Sorted(History)
    BY LoadedIsWhole DEF Transact
<1>2. PICK i \in Ids \ UsedIds, now \in 0..MaxTime, c \in Requests :
          LET t == [id |-> i, ts |-> NextTimestamp(History, now), change |-> c]
          IN  /\ t.ts <= MaxTime
              /\ PassesIncremental(History, c)
              /\ AfterCheckpoint(History, t)
              /\ Enter(p, Append(History, t), "log")
    BY DEF Transact
<1> DEFINE t == [id |-> i, ts |-> NextTimestamp(History, now), change |-> c]
           h == Append(History, t)
<1>3. t \in Tx
    <2>1. c \in Change
        BY DEF Requests, Changes, Change, ScopeChange, Scopes, Cells, Values
    <2>2. History[Len(History)] \in Tx
        BY <1>1, EmptySeq, ElementOfSeq
    <2>3. History[Len(History)].ts \in 0..MaxTime
        BY <2>2 DEF Tx
    <2>4. NextTimestamp(History, now) \in 0..MaxTime
        BY <1>2, <2>3, EventLogAssumption DEF NextTimestamp
    <2>5. QED
        BY <2>1, <2>4 DEF Tx
<1>4. ValidHistory(h)
    <2>1. Admissible(History, c)
        BY <1>1, <1>2, IncrementalIsAdmissible DEF Requests
    <2>2. t.change = c
        OBVIOUS
    <2>3. Admissible(History, t.change)
        BY <2>1, <2>2
    <2>4. QED
        BY <1>1, <1>3, <2>3, AppendValid
<1>5. Sorted(h)
    BY <1>1, <1>2, <1>3, AppendSorted
<1>6. /\ h \in Seq(Tx) /\ h # << >>
      /\ Range(h) = Range(History) \cup {t} /\ h[Len(h)] = t
    <2>1. /\ h \in Seq(Tx) /\ h # << >> /\ Len(h) = Len(History) + 1
          /\ \A k \in 1..Len(History) : h[k] = History[k]
          /\ h[Len(History) + 1] = t
        BY <1>1, <1>3, AppendProperties
    <2>2. /\ Len(History) \in Nat /\ DOMAIN History = 1..Len(History)
          /\ DOMAIN h = 1..Len(History) + 1
        BY <1>1, <2>1, LenProperties
    <2>3. QED
        BY <2>1, <2>2 DEF Range
<1>7. /\ Range(History) \subseteq Range(h) /\ Range(h) \subseteq log \cup {h[Len(h)]}
      /\ crashes = 0 => Range(h) = log \cup {h[Len(h)]}
    BY <1>2, <1>6 DEF IInv, WriteAhead, InStep, History, Files, Enter
<1>8. QED
    BY <1>2, <1>4, <1>5, <1>6, <1>7, EnterStep

\* A rebuild or a compaction takes the lock with a replay of the whole log.
LEMMA ReplayStep ==
    ASSUME IInv, NEW p \in Procs, NEW h \in CanonicalOrders(log),
           h # << >>, ValidHistory(h), Enter(p, h, "files")
    PROVE  IInv'
<1>1. h \in Seq(Tx) /\ Range(h) = log /\ Sorted(h)
    BY OrdersAreHistories DEF IInv, TypeOK
<1>2. Range(History) \subseteq log
    BY DEF IInv, WriteAhead, History, Files
<1>3. QED
    BY <1>1, <1>2, EnterStep

-----------------------------------------------------------------------------
LEMMA WriteTransactionStep ==
    ASSUME IInv, NEW p \in Procs, WriteTransaction(p)
    PROVE  IInv'
<1> DEFINE t == stage[p][Len(stage[p])]
<1>1. stage[p] \in Seq(Tx) /\ stage[p] # << >>
    BY DEF IInv, TypeOK, StageSound, WriteTransaction
<1>2. t \in Tx
    BY <1>1, EmptySeq, ElementOfSeq
<1>3. log' = log \cup {t} /\ log \subseteq log'
    BY DEF WriteTransaction
<1>4. /\ pc \in [Procs -> {"idle", "log", "files"}] /\ pc[p] = "log"
      /\ pc' = [pc EXCEPT ![p] = "files"]
    BY DEF IInv, TypeOK, WriteTransaction
<1>5. TypeOK'
    BY <1>2, <1>3, <1>4 DEF IInv, TypeOK, WriteTransaction
<1>6. IsFiniteSet(log)'
    BY <1>3, FS_AddElement DEF IInv
<1>7. WriteAhead' /\ AckedStored' /\ IndexWhole'
    BY <1>3 DEF IInv, WriteTransaction, WriteAhead, AckedStored, IndexWhole, History
<1>8. StageSound'
    BY <1>3, <1>4 DEF IInv, WriteTransaction, StageSound, History
<1>9. FilesReplaced'
    BY <1>4 DEF IInv, WriteTransaction, FilesReplaced
<1>10. InStep'
    <2>1. lock = p /\ \A q \in Procs : pc[q] # "idle" => q = p
        BY <1>4 DEF IInv, TypeOK
    <2>2. pc'[p] = "files" /\ \A q \in Procs : q # p => pc'[q] = "idle"
        BY <1>4, <2>1 DEF IInv, TypeOK
    <2>3. crashes = 0 => Range(stage[p]) = log'
        BY <1>3, <1>4 DEF IInv, InStep
    <2>4. QED
        BY <2>1, <2>2, <2>3, RuntimeStoreAssumption DEF InStep, WriteTransaction
<1>11. QED
    BY <1>5, <1>6, <1>7, <1>8, <1>9, <1>10 DEF IInv

LEMMA WriteProjectionStep ==
    ASSUME IInv, NEW p \in Procs, WriteProjection(p)
    PROVE  IInv'
<1>1. PICK f \in NextFiles(todo[p]) :
          /\ disk' = [disk EXCEPT ![f] = Content(stage[p], f)]
          /\ todo' = [todo EXCEPT ![p] = @ \ {f}]
    BY DEF WriteProjection
<1>2. f \in Files /\ todo[p] \subseteq Files
    BY <1>1 DEF IInv, TypeOK, NextFiles
<1>3. /\ pc[p] = "files" /\ stage[p] \in Seq(Tx) /\ stage[p] # << >>
      /\ Range(stage[p]) \subseteq log /\ Range(History) \subseteq Range(stage[p])
      /\ lock = p
    BY DEF IInv, TypeOK, StageSound, WriteProjection
<1>4. /\ Content(stage[p], f) \in Seq(Tx)
      /\ Range(Content(stage[p], f)) \subseteq Range(stage[p])
    BY <1>2, <1>3, ContentType
<1>5. \A g \in Files : disk'[g] = IF g = f THEN Content(stage[p], f) ELSE disk[g]
    BY <1>1, <1>2 DEF IInv, TypeOK
<1>6. \A q \in Procs : todo'[q] = IF q = p THEN todo[p] \ {f} ELSE todo[q]
    BY <1>1 DEF IInv, TypeOK
<1>7. TypeOK'
    BY <1>1, <1>2, <1>4 DEF IInv, TypeOK, WriteProjection
<1>8. IsFiniteSet(log)' /\ IndexWhole' /\ InStep'
    BY <1>3, RuntimeStoreAssumption DEF IInv, WriteProjection, IndexWhole, InStep
<1>9. WriteAhead'
    BY <1>3, <1>4, <1>5 DEF IInv, WriteProjection, WriteAhead
<1>10. Range(History') \subseteq Range(stage[p]) /\ Range(History) \subseteq Range(History')
    <2>1. "project-state" \in Files /\ Content(stage[p], "project-state") = stage[p]
        BY DEF Files, Content
    <2>2. History' = IF f = "project-state" THEN stage[p] ELSE History
        BY <1>5, <2>1 DEF History
    <2>3. QED
        BY <1>3, <2>2
<1>11. AckedStored'
    <2>1. "taxonomy-state" \in Files
        BY DEF Files
    <2>2. CASE f = "taxonomy-state"
        <3>1. "project-state" \notin todo[p]
            BY <1>1, <2>2 DEF NextFiles
        <3>2. History = stage[p]
            BY <1>3, <3>1 DEF IInv, FilesReplaced, Files, History, Content
        <3>3. QED
            BY <1>4, <1>5, <1>10, <2>1, <2>2, <3>2 DEF IInv, AckedStored, WriteProjection
    <2>3. CASE f # "taxonomy-state"
        BY <1>5, <1>10, <2>1, <2>3 DEF IInv, AckedStored, WriteProjection
    <2>4. QED
        BY <2>2, <2>3
<1>12. FilesReplaced'
    <2>1. ASSUME NEW q \in Procs, pc[q] # "idle"
          PROVE  q = p
        BY <1>3, <2>1 DEF IInv, TypeOK
    <2>2. pc' = pc /\ stage' = stage
        BY DEF WriteProjection
    <2>3. QED
        BY <1>3, <1>5, <1>6, <2>1, <2>2 DEF IInv, FilesReplaced
<1>13. StageSound'
    <2>1. \A q \in Procs : pc[q] # "idle" => q = p
        BY <1>3 DEF IInv, TypeOK
    <2>2. pc' = pc /\ stage' = stage /\ log' = log
        BY DEF WriteProjection
    <2>3. QED
        BY <1>10, <2>1, <2>2 DEF IInv, StageSound
<1>14. QED
    BY <1>7, <1>8, <1>9, <1>11, <1>12, <1>13 DEF IInv

LEMMA WriteIndexStep ==
    ASSUME IInv, NEW p \in Procs, WriteIndex(p)
    PROVE  IInv'
<1>1. /\ pc[p] = "files" /\ stage[p] \in Seq(Tx) /\ stage[p] # << >>
      /\ ValidHistory(stage[p]) /\ Sorted(stage[p])
      /\ Range(stage[p]) \subseteq log /\ acked \subseteq Range(stage[p])
      /\ crashes = 0 => Range(stage[p]) = log
    BY DEF IInv, TypeOK, StageSound, AckedStored, InStep, WriteIndex
<1>2. \A f \in Files : disk[f] = Content(stage[p], f)
    BY <1>1 DEF IInv, FilesReplaced, WriteIndex
<1>3. History = stage[p]
    BY <1>2 DEF History, Content, Files
<1>4. /\ index'.head = stage[p] /\ index'.manifest = disk
      /\ acked' = Range(stage[p]) /\ disk' = disk /\ log' = log
    BY <1>1 DEF WriteIndex
<1>5. \A q \in Procs : pc'[q] = "idle"
    BY <1>1 DEF IInv, TypeOK, WriteIndex
<1>6. TypeOK'
    <2>1. Range(stage[p]) \subseteq Tx
        BY <1>1 DEF IInv, TypeOK
    <2>2. << >> \in Seq(Tx)
        BY EmptySeq
    <2>3. QED
        BY <1>1, <1>5, <2>1, <2>2 DEF IInv, TypeOK, WriteIndex
<1>7. IsFiniteSet(log)' /\ WriteAhead'
    BY <1>1, <1>4 DEF IInv, WriteAhead
<1>8. AckedStored'
    BY <1>3, <1>4 DEF IInv, AckedStored, History
<1>9. IndexWhole'
    BY <1>1, <1>2, <1>4 DEF IndexWhole
<1>10. StageSound' /\ FilesReplaced'
    BY <1>5 DEF StageSound, FilesReplaced
<1>11. InStep'
    <2>1. index' = [head |-> History, manifest |-> disk] /\ History' = History
        BY <1>3 DEF WriteIndex, History
    <2>2. crashes' = crashes /\ log' = log
        BY DEF WriteIndex
    <2>3. QED
        BY <1>1, <1>3, <1>4, <1>5, <2>1, <2>2 DEF InStep
<1>12. QED
    BY <1>6, <1>7, <1>8, <1>9, <1>10, <1>11 DEF IInv

LEMMA CrashStep ==
    ASSUME IInv, NEW p \in Procs, Crash(p)
    PROVE  IInv'
<1>1. \A q \in Procs : pc'[q] = "idle"
    BY DEF IInv, TypeOK, Crash
<1>2. TypeOK'
    <2>1. << >> \in Seq(Tx)
        BY EmptySeq
    <2>2. crashes' \in 0..MaxCrashes
        BY RuntimeStoreAssumption DEF IInv, TypeOK, Crash
    <2>3. QED
        BY <1>1, <2>1, <2>2 DEF IInv, TypeOK, Crash
<1>3. IsFiniteSet(log)' /\ WriteAhead' /\ AckedStored' /\ IndexWhole'
    BY DEF IInv, Crash, WriteAhead, AckedStored, IndexWhole, History
<1>4. StageSound' /\ FilesReplaced'
    BY <1>1 DEF StageSound, FilesReplaced
<1>5. InStep'
    BY DEF IInv, TypeOK, InStep, Crash
<1>6. QED
    BY <1>2, <1>3, <1>4, <1>5 DEF IInv

LEMMA StutterStep ==
    ASSUME IInv, UNCHANGED vars
    PROVE  IInv'
BY DEF IInv, TypeOK, WriteAhead, AckedStored, IndexWhole, StageSound,
       FilesReplaced, InStep, History, vars

-----------------------------------------------------------------------------
\* The strengthened invariant is inductive.
LEMMA InvarianceStep ==
    ASSUME IInv, [Next]_vars
    PROVE  IInv'
<1>1. CASE UNCHANGED vars
    BY <1>1, StutterStep
<1>2. CASE Next
    <2>1. PICK p \in Procs :
              \/ Bootstrap(p) \/ Transact(p) \/ Rebuild(p) \/ Compact(p)
              \/ WriteTransaction(p) \/ WriteProjection(p) \/ WriteIndex(p)
              \/ Crash(p)
        BY <1>2 DEF Next
    <2>2. CASE Rebuild(p) \/ Compact(p)
        BY <2>2, ReplayStep DEF Rebuild, Compact
    <2>3. QED
        BY <2>1, <2>2, BootstrapStep, TransactStep,
           WriteTransactionStep, WriteProjectionStep, WriteIndexStep, CrashStep
<1>3. QED
    BY <1>1, <1>2

\* The strengthened invariant holds always.
THEOREM Invariance == Spec => []IInv
<1>1. IInv /\ [Next]_vars => IInv'
    BY InvarianceStep
<1>2. QED
    BY InitInvariant, <1>1, PTL DEF Spec

\* The variables are well typed and only the lock holder is in the critical
\* section, for every set of processes.
THEOREM TypeCorrect == Spec => []TypeOK
<1>1. IInv => TypeOK
    BY DEF IInv
<1>2. QED
    BY <1>1, Invariance, PTL

\* Files and index never get ahead of the durable log.
THEOREM LogIsAhead == Spec => []WriteAhead
<1>1. IInv => WriteAhead
    BY DEF IInv
<1>2. QED
    BY <1>1, Invariance, PTL

\* No later writer, crash or rebuild takes back what a command returned.
THEOREM NothingAckedIsLost == Spec => []AckedNeverLost
<1>1. IInv => AckedNeverLost
    BY DEF IInv, AckedStored, AckedNeverLost
<1>2. QED
    BY <1>1, Invariance, PTL

\* load_runtime accepts only whole valid versions.
THEOREM OnlyWholeIsAccepted == Spec => []AcceptedIsWhole
<1>1. IInv => AcceptedIsWhole
    BY LoadedIsWhole DEF AcceptedIsWhole
<1>2. QED
    BY <1>1, Invariance, PTL

-----------------------------------------------------------------------------
\* As long as nothing has crashed, what the commands left behind one by one is
\* what load_runtime accepts and what a full replay of the log gives.
LEMMA InStepIsReplay ==
    ASSUME IInv, crashes = 0, lock = Nobody, log # {}
    PROVE  /\ Loadable /\ ValidHistory(History)
           /\ CanonicalOrders(log) = {History}
<1>1. /\ Range(History) = log /\ index.head = History /\ index.manifest = disk
      /\ History \in Seq(Tx)
    BY DEF IInv, InStep, TypeOK, History, Files
<1>2. History # << >>
    BY <1>1 DEF Range
<1>3. /\ ValidHistory(History) /\ Sorted(History)
      /\ \A f \in Files : disk[f] = Content(History, f)
    BY <1>1, <1>2 DEF IInv, IndexWhole
<1>4. disk["taxonomy-state"] # << >>
    <2>1. Len(History) \in Nat /\ Len(History) >= 1 /\ DOMAIN History = 1..Len(History)
        BY <1>1, <1>2, EmptySeq, LenProperties
    <2>2. \A i \in Len(History)..Len(History) : History[i] \in Tx
        BY <1>1, <2>1, ElementOfSeq
    <2>3. Len(SubSeq(History, Len(History), Len(History))) # 0
        BY <2>1, <2>2, SubSeqProperties
    <2>4. SubSeq(History, Len(History), Len(History)) # << >>
        BY <2>3, Zenon, EmptySeq
    <2>5. QED
        BY <1>3, <2>3, <2>4 DEF Files, Content
<1>5. Loadable
    BY <1>1, <1>2, <1>3, <1>4 DEF Loadable, Accepted, SessionsMatch, History, Files
<1>6. QED
    BY <1>1, <1>3, <1>5, SortedIsCanonical

\* As long as nothing has crashed, the incremental projections are exactly what
\* a full replay of the log gives, whatever the clocks of the writers read.
THEOREM IncrementalEqualsReplay == Spec => []IncrementalIsReplay
<1>1. IInv => IncrementalIsReplay
    BY InStepIsReplay DEF IncrementalIsReplay
<1>2. QED
    BY <1>1, Invariance, PTL

\* No step takes a transaction out of project-state.json: not a rebuild, not
\* the retry after a crash, not a writer that started from older files.
LEMMA HistoryGrows ==
    ASSUME IInv, [Next]_vars
    PROVE  /\ acked \subseteq acked'
           /\ Range(History) \subseteq Range(History')
<1>1. CASE \E p \in Procs : WriteProjection(p)
    <2>1. PICK p \in Procs : WriteProjection(p)
        BY <1>1
    <2>2. PICK f \in Files : disk' = [disk EXCEPT ![f] = Content(stage[p], f)]
        BY <2>1 DEF IInv, TypeOK, WriteProjection, NextFiles
    <2>3. Range(History) \subseteq Range(stage[p])
        BY <2>1 DEF IInv, StageSound, WriteProjection
    <2>4. History' = IF f = "project-state" THEN stage[p] ELSE History
        BY <2>2 DEF IInv, TypeOK, History, Content, Files
    <2>5. QED
        BY <2>1, <2>3, <2>4 DEF WriteProjection
<1>2. CASE \E p \in Procs : WriteIndex(p)
    BY <1>2 DEF WriteIndex, History
<1>3. CASE UNCHANGED << disk, acked >>
    BY <1>3 DEF History
<1>4. QED
    BY <1>1, <1>2, <1>3 DEF Next, vars, Bootstrap, Transact, Rebuild, Compact, Enter,
       WriteTransaction, Crash

-----------------------------------------------------------------------------
\* The ledger's data is the store's: it instantiates the same event log.
LEMMA SameData ==
    /\ Promise!Tx = Tx
    /\ \A h : Promise!ValidHistory(h) = ValidHistory(h)
    /\ \A h : Promise!Sorted(h) = Sorted(h)
    /\ \A h : Promise!Range(h) = Range(h)
<1>1. Promise!Tx = Tx
    BY DEF Promise!Tx, Promise!Change, Promise!Scopes, Promise!Cells, Promise!Values,
           Tx, Change, Scopes, Cells, Values
<1>2. \A h, c : Promise!Value(h, c) = Value(h, c)
    BY Zenon DEF Promise!Value, Value
<1>3. \A h, c : Promise!Admissible(h, c) = Admissible(h, c)
    BY <1>2, Zenon DEF Promise!Admissible, Admissible
<1>4. \A h : Promise!ValidHistory(h) = ValidHistory(h)
    BY <1>3, Zenon DEF Promise!ValidHistory, ValidHistory
<1>5. \A t, u : Promise!Before(t, u) = Before(t, u)
    BY DEF Promise!Before, Promise!Rank, Before, Rank
<1>6. \A h : Promise!Sorted(h) = Sorted(h)
    BY <1>5, Zenon DEF Promise!Sorted, Sorted
<1>7. \A h : Promise!Range(h) = Range(h)
    BY Zenon DEF Promise!Range, Range
<1>8. QED
    BY <1>1, <1>4, <1>6, <1>7

\* Only writing the index changes the committed history, and it commits a
\* valid one that contains the one before.
LEMMA StepCommits ==
    ASSUME IInv, [Next]_vars
    PROVE  [Promise!Commit]_(index.head)
<1>1. CASE \E p \in Procs : WriteIndex(p)
    <2>1. PICK p \in Procs : WriteIndex(p)
        BY <1>1
    <2>2. /\ stage[p] \in Seq(Tx) /\ ValidHistory(stage[p]) /\ Sorted(stage[p])
          /\ acked \subseteq Range(stage[p]) /\ Range(index.head) \subseteq acked
        BY <2>1 DEF IInv, TypeOK, StageSound, AckedStored, WriteIndex
    <2>3. index'.head = stage[p]
        BY <2>1 DEF WriteIndex
    <2>4. Promise!Commit
        BY <2>2, <2>3, SameData DEF Promise!Commit
    <2>5. QED
        BY <2>4
<1>2. CASE UNCHANGED index
    BY <1>2
<1>3. QED
    BY <1>1, <1>2 DEF Next, vars, Bootstrap, Transact, Rebuild, Compact, Enter,
       WriteTransaction, WriteProjection, Crash

\* The store implements the ledger: whatever the processes, their crashes and
\* their rebuilds do, the indexed history changes by atomic commits only.
THEOREM StoreImplementsLedger == Spec => ImplementsLedger
<1>1. Init => Promise!LedgerInit
    BY DEF Init, NoIndex, Promise!LedgerInit
<1>2. IInv /\ [Next]_vars => [Promise!Commit]_(index.head)
    BY StepCommits
<1>3. QED
    BY <1>1, <1>2, Invariance, PTL DEF Spec, ImplementsLedger, Promise!LedgerSpec

-----------------------------------------------------------------------------
(***************************************************************************)
(* The readers.                                                            *)
(***************************************************************************)

\* A reader has read the index.
IndexRead(r) == rpc[r] \in {"manifest", "returned", "failed"}

\* The index a reader has read covers what was returned before it started, and
\* nothing that was not returned; what it accepted matches that index.
IndexSeen ==
    \A r \in Readers :
        /\ before[r] \subseteq acked
        /\ IndexRead(r) =>
              /\ before[r] \subseteq Range(seenIndex[r].head)
              /\ Range(seenIndex[r].head) \subseteq acked
              /\ seenIndex[r].head # << >> =>
                    /\ ValidHistory(seenIndex[r].head) /\ Sorted(seenIndex[r].head)
                    /\ seenIndex[r].manifest["project-state"] = seenIndex[r].head
        /\ Returned(r) => ReadSucceeds(r)

\* The taxonomy a reader has read is no newer than the project state of the
\* moment, nor than the one it hashes afterwards.
TaxonomySeen ==
    \A r \in Readers :
        /\ rpc[r] = "start" => seen[r]["taxonomy-state"] = << >>
        /\ Range(seen[r]["taxonomy-state"]) \subseteq Range(History)
        /\ \/ rpc[r] = "manifest" /\ "project-state" \notin rtodo[r]
           \/ rpc[r] \in {"returned", "failed"}
           => Range(seen[r]["taxonomy-state"]) \subseteq Range(hashed[r]["project-state"])

RInv ==
    /\ IInv
    /\ RTypeOK
    /\ IndexSeen
    /\ TaxonomySeen

LEMMA FilesTyped ==
    ASSUME IInv
    PROVE  /\ "project-state" \in Files /\ "taxonomy-state" \in Files
           /\ \A f \in Files : disk[f] \in Seq(Tx)
           /\ index \in [head : Seq(Tx), manifest : [Files -> Seq(Tx)]]
           /\ acked \subseteq Tx
BY DEF IInv, TypeOK, Files

LEMMA InitReaders == RInit => RInv
<1> SUFFICES ASSUME RInit PROVE RInv
    OBVIOUS
<1>1. IInv
    BY InitInvariant DEF RInit
<1>2. Range(<< >>) = {}
    BY DEF Range
<1>3. << >> \in Seq(Tx)
    BY EmptySeq
<1>4. RTypeOK
    BY <1>1, <1>3 DEF RInit, RTypeOK, IInv, NoFiles, NoIndex
<1>5. IndexSeen
    BY DEF RInit, IndexSeen, IndexRead, Returned
<1>6. TaxonomySeen
    BY <1>2 DEF RInit, TaxonomySeen, NoFiles, Files
<1>7. QED
    BY <1>1, <1>4, <1>5, <1>6 DEF RInv

\* Whatever a writer does, what the readers have seen stays right.
LEMMA WriterStep ==
    ASSUME RInv, [Next]_vars, UNCHANGED rvars
    PROVE  RInv'
<1>1. IInv'
    BY InvarianceStep DEF RInv
<1>2. acked \subseteq acked' /\ Range(History) \subseteq Range(History')
    BY HistoryGrows DEF RInv
<1>3. RTypeOK'
    BY <1>1 DEF RInv, RTypeOK, IInv, rvars
<1>4. IndexSeen'
    <2>1. \A r \in Readers : ReadSucceeds(r)' = ReadSucceeds(r)
        BY DEF rvars, ReadSucceeds, Accepted, SessionsMatch
    <2>2. QED
        BY <1>2, <2>1 DEF RInv, IndexSeen, IndexRead, Returned, rvars
<1>5. TaxonomySeen'
    BY <1>2 DEF RInv, TaxonomySeen, rvars
<1>6. QED
    BY <1>1, <1>3, <1>4, <1>5 DEF RInv

-----------------------------------------------------------------------------
\* What does not change for the other readers.
LEMMA StartReadStep ==
    ASSUME RInv, NEW r \in Readers, StartRead(r)
    PROVE  RInv'
<1>1. vars' = vars /\ acked' = acked /\ History' = History
    BY DEF StartRead, vars, History
<1>2. IInv'
    BY <1>1, StutterStep DEF RInv
<1>3. RTypeOK'
    BY <1>2, FilesTyped DEF RInv, RTypeOK, IInv, StartRead
<1>4. /\ rpc[r] = "start" /\ rpc'[r] = "bundle" /\ before'[r] = acked
      /\ \A q \in Readers : q # r => rpc'[q] = rpc[q] /\ rtodo'[q] = rtodo[q] /\ before'[q] = before[q]
      /\ seen' = seen /\ seenIndex' = seenIndex /\ hashed' = hashed
    BY DEF RInv, RTypeOK, StartRead
<1>5. IndexSeen'
    <2>1. \A q \in Readers : ReadSucceeds(q)' = ReadSucceeds(q)
        BY <1>4 DEF ReadSucceeds, Accepted, SessionsMatch
    <2>2. QED
        BY <1>1, <1>4, <2>1 DEF RInv, IndexSeen, IndexRead, Returned
<1>6. TaxonomySeen'
    BY <1>1, <1>4 DEF RInv, TaxonomySeen
<1>7. QED
    BY <1>2, <1>3, <1>5, <1>6 DEF RInv

LEMMA ReadFileStep ==
    ASSUME RInv, NEW r \in Readers, ReadFile(r)
    PROVE  RInv'
<1>1. vars' = vars /\ acked' = acked /\ History' = History
    BY DEF ReadFile, vars, History
<1>2. IInv'
    BY <1>1, StutterStep DEF RInv
<1>3. PICK f \in NextFiles(rtodo[r]) :
          /\ seen' = [seen EXCEPT ![r][f] = disk[f]]
          /\ rtodo' = [rtodo EXCEPT ![r] = @ \ {f}]
    BY DEF ReadFile
<1>4. f \in Files
    BY <1>3 DEF RInv, RTypeOK, NextFiles
<1>5. RTypeOK'
    BY <1>2, <1>3, <1>4, FilesTyped DEF RInv, RTypeOK, IInv, ReadFile
<1>6. /\ rpc' = rpc /\ rpc[r] = "bundle" /\ before' = before /\ seenIndex' = seenIndex
      /\ hashed' = hashed
      /\ \A q \in Readers : q # r => seen'[q] = seen[q] /\ rtodo'[q] = rtodo[q]
      /\ \A g \in Files : seen'[r][g] = IF g = f THEN disk[f] ELSE seen[r][g]
    BY <1>3, <1>4 DEF RInv, RTypeOK, ReadFile
<1>7. IndexSeen'
    <2>1. ASSUME NEW q \in Readers, Returned(q)'
          PROVE  ReadSucceeds(q)' = ReadSucceeds(q)
        BY <1>6, <2>1 DEF Returned, ReadSucceeds, Accepted, SessionsMatch
    <2>2. QED
        BY <1>1, <1>6, <2>1 DEF RInv, IndexSeen, IndexRead, Returned
<1>8. TaxonomySeen'
    <2>1. Range(disk["taxonomy-state"]) \subseteq Range(History)
        BY DEF RInv, IInv, AckedStored
    <2>2. QED
        BY <1>1, <1>6, <2>1, FilesTyped DEF RInv, TaxonomySeen
<1>9. QED
    BY <1>2, <1>5, <1>7, <1>8 DEF RInv

\* The index read covers at least what was returned when the reader started.
LEMMA ReadIndexStep ==
    ASSUME RInv, NEW r \in Readers, ReadIndex(r)
    PROVE  RInv'
<1>1. vars' = vars /\ acked' = acked /\ History' = History
    BY DEF ReadIndex, vars, History
<1>2. IInv'
    BY <1>1, StutterStep DEF RInv
<1>3. RTypeOK'
    BY <1>2, FilesTyped DEF RInv, RTypeOK, IInv, ReadIndex
<1>4. /\ rpc[r] = "bundle" /\ rpc'[r] = "manifest" /\ rtodo'[r] = Files
      /\ seenIndex'[r] = index
      /\ \A q \in Readers : q # r =>
            rpc'[q] = rpc[q] /\ rtodo'[q] = rtodo[q] /\ seenIndex'[q] = seenIndex[q]
      /\ seen' = seen /\ hashed' = hashed /\ before' = before
    BY DEF RInv, RTypeOK, ReadIndex
<1>5. IndexSeen'
    <2>1. ASSUME NEW q \in Readers, Returned(q)'
          PROVE  ReadSucceeds(q)' = ReadSucceeds(q)
        BY <1>4, <2>1 DEF Returned, ReadSucceeds, Accepted, SessionsMatch
    <2>2. Range(index.head) = acked
        BY DEF RInv, IInv, AckedStored
    <2>3. index.head # << >> =>
            /\ ValidHistory(index.head) /\ Sorted(index.head)
            /\ index.manifest["project-state"] = index.head
        BY FilesTyped DEF RInv, IInv, IndexWhole, Content
    <2>4. QED
        BY <1>1, <1>4, <2>1, <2>2, <2>3 DEF RInv, IndexSeen, IndexRead, Returned
<1>6. TaxonomySeen'
    BY <1>1, <1>4, FilesTyped DEF RInv, TaxonomySeen
<1>7. QED
    BY <1>2, <1>3, <1>5, <1>6 DEF RInv

\* The project state is hashed after the taxonomy was read: it can only have
\* grown since.
LEMMA HashFileStep ==
    ASSUME RInv, NEW r \in Readers, HashFile(r)
    PROVE  RInv'
<1>1. vars' = vars /\ acked' = acked /\ History' = History
    BY DEF HashFile, vars, History
<1>2. IInv'
    BY <1>1, StutterStep DEF RInv
<1>3. PICK f \in NextFiles(rtodo[r]) :
          /\ hashed' = [hashed EXCEPT ![r][f] = disk[f]]
          /\ rtodo' = [rtodo EXCEPT ![r] = @ \ {f}]
    BY DEF HashFile
<1>4. f \in Files
    BY <1>3 DEF RInv, RTypeOK, NextFiles
<1>5. RTypeOK'
    BY <1>2, <1>3, <1>4, FilesTyped DEF RInv, RTypeOK, IInv, HashFile
<1>6. /\ rpc' = rpc /\ rpc[r] = "manifest" /\ before' = before /\ seenIndex' = seenIndex
      /\ seen' = seen
      /\ \A q \in Readers : q # r => hashed'[q] = hashed[q] /\ rtodo'[q] = rtodo[q]
      /\ \A g \in Files : hashed'[r][g] = IF g = f THEN disk[f] ELSE hashed[r][g]
      /\ rtodo'[r] = rtodo[r] \ {f}
    BY <1>3, <1>4 DEF RInv, RTypeOK, HashFile
<1>7. IndexSeen'
    <2>1. ASSUME NEW q \in Readers, Returned(q)'
          PROVE  ReadSucceeds(q)' = ReadSucceeds(q)
        BY <1>6, <2>1 DEF Returned, ReadSucceeds, Accepted, SessionsMatch
    <2>2. QED
        BY <1>1, <1>6, <2>1 DEF RInv, IndexSeen, IndexRead, Returned
<1>8. TaxonomySeen'
    <2>1. "project-state" \notin rtodo'[r] =>
             Range(seen[r]["taxonomy-state"]) \subseteq Range(hashed'[r]["project-state"])
        <3>1. CASE f = "project-state"
            BY <1>6, <3>1, FilesTyped DEF RInv, TaxonomySeen, History
        <3>2. CASE f # "project-state"
            BY <1>6, <3>2, FilesTyped DEF RInv, TaxonomySeen
        <3>3. QED
            BY <3>1, <3>2
    <2>2. QED
        BY <1>1, <1>6, <2>1 DEF RInv, TaxonomySeen
<1>9. QED
    BY <1>2, <1>5, <1>7, <1>8 DEF RInv

LEMMA FinishReadStep ==
    ASSUME RInv, NEW r \in Readers, FinishRead(r)
    PROVE  RInv'
<1>1. vars' = vars /\ acked' = acked /\ History' = History
    BY DEF FinishRead, vars, History
<1>2. IInv'
    BY <1>1, StutterStep DEF RInv
<1>3. RTypeOK'
    BY <1>2 DEF RInv, RTypeOK, IInv, FinishRead
<1>4. /\ rpc[r] = "manifest" /\ rtodo[r] = {}
      /\ rpc'[r] \in {"returned", "failed"} /\ (rpc'[r] = "returned" => ReadSucceeds(r))
      /\ \A q \in Readers : q # r => rpc'[q] = rpc[q]
      /\ seen' = seen /\ seenIndex' = seenIndex /\ hashed' = hashed /\ before' = before
      /\ rtodo' = rtodo
    BY DEF RInv, RTypeOK, FinishRead
<1>5. IndexSeen'
    <2>1. \A q \in Readers : ReadSucceeds(q)' = ReadSucceeds(q)
        BY <1>4 DEF ReadSucceeds, Accepted, SessionsMatch
    <2>2. QED
        BY <1>1, <1>4, <2>1 DEF RInv, IndexSeen, IndexRead, Returned
<1>6. TaxonomySeen'
    BY <1>1, <1>4 DEF RInv, TaxonomySeen
<1>7. QED
    BY <1>2, <1>3, <1>5, <1>6 DEF RInv

\* What the readers know is right whatever readers and writers do.
THEOREM ReaderInvariance == RSpec => []RInv
<1>1. ASSUME RInv, [RNext]_allvars
      PROVE  RInv'
    <2>1. CASE Next /\ UNCHANGED rvars
        BY <1>1, <2>1, WriterStep
    <2>2. CASE UNCHANGED allvars
        BY <1>1, <2>2, WriterStep DEF allvars
    <2>3. CASE \E r \in Readers : Read(r)
        BY <1>1, <2>3, StartReadStep, ReadFileStep, ReadIndexStep, HashFileStep,
           FinishReadStep DEF Read
    <2>4. QED
        BY <1>1, <2>1, <2>2, <2>3 DEF RNext
<1>2. QED
    BY InitReaders, <1>1, PTL DEF RSpec

\* What load_runtime returned to a reader is what one index describes.
LEMMA ReturnedIsIndexed ==
    ASSUME RInv, NEW r \in Readers, Returned(r)
    PROVE  /\ Result(r) = seenIndex[r].head /\ Result(r) # << >>
           /\ before[r] \subseteq Range(Result(r)) /\ Range(Result(r)) \subseteq acked
           /\ ValidHistory(Result(r)) /\ Sorted(Result(r))
           /\ hashed[r]["project-state"] = Result(r)
<1>1. ReadSucceeds(r) /\ IndexRead(r)
    BY DEF RInv, IndexSeen, Returned, IndexRead
<1>2. Result(r) = seenIndex[r].head /\ Result(r) # << >> /\ seenIndex[r].manifest = hashed[r]
    BY <1>1 DEF ReadSucceeds, Accepted, Result
<1>3. QED
    BY <1>1, <1>2 DEF RInv, IndexSeen

\* A read without the lock is never older than what was returned before.
THEOREM ReadsAreFresh == RSpec => []ReadIsFresh
<1>1. RInv => ReadIsFresh
    BY ReturnedIsIndexed DEF ReadIsFresh
<1>2. QED
    BY <1>1, ReaderInvariance, PTL

\* A read without the lock shows only what some command has returned.
THEOREM ReadsAreCommitted == RSpec => []ReadIsCommitted
<1>1. RInv => ReadIsCommitted
    BY ReturnedIsIndexed DEF ReadIsCommitted
<1>2. QED
    BY <1>1, ReaderInvariance, PTL

\* The taxonomy of a read is never newer than its project state, although no
\* check compares the two.
THEOREM TaxonomyIsNeverAhead == RSpec => []TaxonomyNotAhead
<1>1. RInv => TaxonomyNotAhead
    BY ReturnedIsIndexed DEF TaxonomyNotAhead, RInv, TaxonomySeen, Returned
<1>2. QED
    BY <1>1, ReaderInvariance, PTL

-----------------------------------------------------------------------------
(***************************************************************************)
(* Branches of the log.  Only resolutions made without knowledge of each   *)
(* other can make a merged log unreadable.  The invariant behind it        *)
(* compares controls across branches: a control never clashes with one its *)
(* author had seen.  It is kept because a new control is checked against   *)
(* all that its branch holds, and no control can have seen one that does   *)
(* not exist yet.                                                          *)
(***************************************************************************)

AllControls == UNION { controls[b] : b \in Branches }

\* Every branch has its files.
Typed == DOMAIN txs = Branches /\ DOMAIN controls = Branches

\* An id names one control of the repository.
IdsAreUnique == \A c, d \in AllControls : c.id = d.id => c = d

\* A control only knows of ids that were drawn.
SeenIsUsed == \A c \in AllControls : c.seen \subseteq BranchIds

\* A branch that has a control has the transactions it is about.
TargetsArePresent ==
    \A b \in Branches : \A c \in controls[b] : \A t \in Targets(c) :
        t \in txs[b] /\ t.change.scope = c.scope /\ ~Opens(t)

\* Whoever resolves contradicts nothing he can see.
SeenNeverClash ==
    \A c, d \in AllControls :
        c # d /\ c.id \in d.seen => ~Clash(c, d) /\ ~Clash(d, c)

BInv ==
    Typed /\ IdsAreUnique /\ SeenIsUsed /\ TargetsArePresent /\ SeenNeverClash

-----------------------------------------------------------------------------
\* The properties of controls alone survive a step that only moves controls
\* between branches and takes no id back: commit, merge and rebuild.
LEMMA NoNewControl ==
    ASSUME BInv, AllControls' \subseteq AllControls, BranchIds \subseteq BranchIds'
    PROVE  IdsAreUnique' /\ SeenIsUsed' /\ SeenNeverClash'
  BY DEF BInv, IdsAreUnique, SeenIsUsed, SeenNeverClash, Clash, Earlier

\* Before anything is merged there is no control.
LEMMA InitBInv == ASSUME BInit PROVE BInv
  <1>1. Typed
    BY MergeConflictsAssumption DEF BInit, Typed
  <1>2. AllControls = {} /\ \A b \in Branches : controls[b] = {}
    BY DEF BInit, AllControls
  <1> QED
    BY <1>1, <1>2
    DEF BInv, IdsAreUnique, SeenIsUsed, TargetsArePresent, SeenNeverClash

\* A commit adds a transaction to its branch and no control.
LEMMA CommitKeepsControls ==
    ASSUME BInv, NEW b \in Branches, Commit(b) PROVE BInv'
  <1>1. PICK t : txs' = [txs EXCEPT ![b] = @ \cup {t}]
    BY DEF Commit
  <1>2. controls' = controls
    BY DEF Commit
  <1>3. Typed'
    BY <1>1, <1>2 DEF BInv, Typed
  <1>4. \A a \in Branches : txs[a] \subseteq txs'[a]
    BY <1>1 DEF BInv, Typed
  <1>5. AllControls' = AllControls /\ BranchIds \subseteq BranchIds'
    BY <1>2, <1>4 DEF AllControls, BranchIds
  <1>6. TargetsArePresent'
    BY <1>2, <1>4 DEF BInv, TargetsArePresent
  <1> QED
    BY <1>3, <1>5, <1>6, NoNewControl DEF BInv

\* A merge brings the transactions a control is about along with it.
LEMMA MergeKeepsControls ==
    ASSUME BInv, NEW b \in Branches, NEW other \in Branches, Merge(b, other)
    PROVE  BInv'
  <1>1. /\ txs' = [txs EXCEPT ![b] = @ \cup txs[other]]
        /\ controls' = [controls EXCEPT ![b] = @ \cup controls[other]]
    BY DEF Merge
  <1>2. Typed'
    BY <1>1 DEF BInv, Typed
  <1>3. \A a \in Branches :
          /\ txs'[a] = IF a = b THEN txs[b] \cup txs[other] ELSE txs[a]
          /\ controls'[a] =
                IF a = b THEN controls[b] \cup controls[other] ELSE controls[a]
    BY <1>1 DEF BInv, Typed
  <1>4. AllControls' \subseteq AllControls
    BY <1>3 DEF AllControls
  <1>5. BranchIds \subseteq BranchIds'
    BY <1>3 DEF BranchIds
  <1>6. TargetsArePresent'
    BY <1>3 DEF BInv, TargetsArePresent
  <1> QED
    BY <1>2, <1>4, <1>5, <1>6, NoNewControl DEF BInv

\* A resolution adds one control, with a fresh id, that the log of its branch
\* can be read with.
LEMMA ResolveKeepsControls ==
    ASSUME BInv, NEW b \in Branches, Resolve(b) PROVE BInv'
  <1>1. PICK c :
          /\ c.id \notin BranchIds
          /\ c.seen = { d.id : d \in controls[b] }
          /\ Readable(txs[b], controls[b] \cup {c})
          /\ controls' = [controls EXCEPT ![b] = controls[b] \cup {c}]
          /\ txs' = txs
    <2>1. PICK s, o, k, i, now :
            /\ i \in NewIds
            /\ Readable(txs[b], controls[b] \cup {NewControl(b, s, o, k, i, now)})
            /\ AddControl(b, NewControl(b, s, o, k, i, now))
      BY DEF Resolve
    <2> DEFINE new == NewControl(b, s, o, k, i, now)
    <2>2. new.id \notin BranchIds /\ new.seen = { d.id : d \in controls[b] }
      BY <2>1 DEF NewIds, NewControl
    <2>3. controls' = [controls EXCEPT ![b] = controls[b] \cup {new}] /\ txs' = txs
      BY <2>1 DEF AddControl
    <2> QED
      BY <2>1, <2>2, <2>3
  <1>2. \A a \in Branches :
          controls'[a] = IF a = b THEN controls[b] \cup {c} ELSE controls[a]
    BY <1>1 DEF BInv, Typed
  <1>3. AllControls' = AllControls \cup {c}
    BY <1>2 DEF AllControls
  <1>4. \A d \in AllControls : d.id \in BranchIds
    BY DEF AllControls, BranchIds
  <1>5. BranchIds' = BranchIds \cup {c.id}
    BY <1>1, <1>2 DEF BranchIds
  <1>6. Typed'
    BY <1>1 DEF BInv, Typed
  <1>7. IdsAreUnique'
    BY <1>1, <1>3, <1>4 DEF BInv, IdsAreUnique
  <1>8. SeenIsUsed'
    <2>1. c.seen \subseteq BranchIds
      BY <1>1 DEF BranchIds
    <2> QED
      BY <1>3, <1>5, <2>1 DEF BInv, SeenIsUsed
  <1>9. TargetsArePresent'
    <2>1. \A t \in Targets(c) : t \in txs[b] /\ t.change.scope = c.scope /\ ~Opens(t)
      BY <1>1 DEF Readable
    <2> QED
      BY <1>1, <1>2, <2>1 DEF BInv, TargetsArePresent
  <1>10. SeenNeverClash'
    <2> SUFFICES ASSUME NEW d \in AllControls', NEW e \in AllControls',
                        d # e, d.id \in e.seen
                 PROVE  ~Clash(d, e) /\ ~Clash(e, d)
      BY DEF SeenNeverClash, Clash, Earlier
    <2>1. CASE d # c /\ e # c
      BY <1>3, <2>1 DEF BInv, SeenNeverClash
    <2>2. CASE e = c
      <3>1. PICK f \in controls[b] : f.id = d.id
        BY <1>1, <2>2
      <3>2. f = d
        BY <1>3, <2>2, <3>1 DEF BInv, IdsAreUnique, AllControls
      <3> QED
        BY <1>1, <2>2, <3>1, <3>2 DEF Readable
    <2>3. CASE d = c
      BY <1>1, <1>3, <2>3 DEF BInv, SeenIsUsed
    <2> QED
      BY <2>1, <2>2, <2>3
  <1> QED
    BY <1>6, <1>7, <1>8, <1>9, <1>10 DEF BInv

LEMMA NextBInv == ASSUME BInv, [BNext]_bvars PROVE BInv'
  <1>1. CASE UNCHANGED << txs, controls >>
    <2>1. AllControls' = AllControls /\ BranchIds' = BranchIds
      BY <1>1 DEF AllControls, BranchIds
    <2>2. Typed' /\ TargetsArePresent'
      BY <1>1 DEF BInv, Typed, TargetsArePresent
    <2> QED
      BY <2>1, <2>2, NoNewControl DEF BInv
  <1>2. CASE UNCHANGED bvars
    BY <1>1, <1>2 DEF bvars
  <1>3. ASSUME NEW b \in Branches, RebuildBranch(b) PROVE BInv'
    BY <1>1, <1>3 DEF RebuildBranch
  <1> QED
    BY <1>2, <1>3, CommitKeepsControls, MergeKeepsControls, ResolveKeepsControls DEF BNext

\* The invariant rules a contradiction out between any two controls of which
\* one was made in sight of the other.
LEMMA ClashIsConcurrent ==
    ASSUME BInv PROVE OnlyConcurrentResolutionsClash
  <1> SUFFICES ASSUME NEW b \in Branches, ~BranchReadable(b)
               PROVE  \E c, d \in controls[b] :
                        /\ c # d /\ Clash(c, d)
                        /\ c.id \notin d.seen /\ d.id \notin c.seen
    BY DEF OnlyConcurrentResolutionsClash
  <1>1. PICK c \in controls[b], d \in controls[b] : c # d /\ Clash(c, d)
    BY DEF BInv, TargetsArePresent, BranchReadable, Readable
  <1>2. c \in AllControls /\ d \in AllControls
    BY DEF AllControls
  <1> QED
    BY <1>1, <1>2 DEF BInv, SeenNeverClash

\* Two controls contradict each other, and make a log unreadable, only when
\* they come from branches that had not merged each other's: no order of
\* commits, merges and resolutions, and no clock, does it otherwise.
THEOREM OnlyStrangersClash == BSpec => []OnlyConcurrentResolutionsClash
  <1>1. BInit => BInv
    BY InitBInv
  <1>2. BInv /\ [BNext]_bvars => BInv'
    BY NextBInv
  <1>3. BInv => OnlyConcurrentResolutionsClash
    BY ClashIsConcurrent
  <1> QED
    BY <1>1, <1>2, <1>3, PTL DEF BSpec

-----------------------------------------------------------------------------
(***************************************************************************)
(* Replaying a set of transactions.                                        *)
(***************************************************************************)

\* Two transactions of different ids have an order.
LEMMA BeforeTotal ==
    ASSUME NEW t \in Tx, NEW u \in Tx, t.id # u.id
    PROVE  Before(t, u) \/ Before(u, t)
<1>1. t.ts \in Int /\ u.ts \in Int /\ t.id \in Int /\ u.id \in Int
    <2>1. \A x \in Tx : x.ts \in 0..MaxTime /\ x.id \in Ids
        BY DEF Tx
    <2>2. Ids \subseteq Int /\ 0..MaxTime \subseteq Int
        BY EventLogAssumption
    <2>3. QED
        BY <2>1, <2>2
<1>2. Rank(t) \in 0..1 /\ Rank(u) \in 0..1
    BY DEF Rank
<1>3. QED
    BY <1>1, <1>2, SMT DEF Before

UniqueIds(S) == \A t, u \in S : t.id = u.id => t = u

\* Replay orders any finite set of transactions canonically.
LEMMA ReplayIsCanonical ==
    ASSUME NEW S \in SUBSET Tx, IsFiniteSet(S), UniqueIds(S)
    PROVE  Replay(S) \in Seq(Tx) /\ Range(Replay(S)) = S /\ Sorted(Replay(S))
<1> DEFINE n == Cardinality(S)
           earlier(t) == { u \in S : Before(u, t) }
           place == [t \in S |-> Cardinality(earlier(t)) + 1]
<1>1. n \in Nat
    BY FS_CardinalityType
<1>2. \A t, u \in S : t # u => Before(t, u) \/ Before(u, t)
    BY BeforeTotal DEF UniqueIds
<1>3. ASSUME NEW t \in S
      PROVE  /\ IsFiniteSet(earlier(t)) /\ t \notin earlier(t)
             /\ Cardinality(earlier(t)) \in Nat /\ place[t] \in 1..n
    <2>1. t \notin earlier(t)
        BY BeforeIrreflexive
    <2>2. earlier(t) \in SUBSET (S \ {t})
        BY <2>1
    <2>3. IsFiniteSet(S \ {t}) /\ Cardinality(S \ {t}) = n - 1
        BY FS_RemoveElement
    <2> HIDE DEF earlier
    <2>4. IsFiniteSet(earlier(t)) /\ Cardinality(earlier(t)) <= n - 1
        BY <2>2, <2>3, FS_Subset
    <2>5. Cardinality(earlier(t)) \in Nat
        BY <2>4, FS_CardinalityType
    <2>6. QED
        BY <1>1, <2>1, <2>4, <2>5
<1>4. ASSUME NEW t \in S, NEW u \in S, Before(t, u) PROVE place[t] < place[u]
    <2>1. earlier(t) \cup {t} \in SUBSET earlier(u)
        BY <1>4, BeforeTransitive
    <2>2. /\ IsFiniteSet(earlier(t)) /\ t \notin earlier(t) /\ Cardinality(earlier(t)) \in Nat
          /\ IsFiniteSet(earlier(u)) /\ Cardinality(earlier(u)) \in Nat
        BY <1>3
    <2> HIDE DEF earlier
    <2>3. Cardinality(earlier(t) \cup {t}) = Cardinality(earlier(t)) + 1
        BY <2>2, FS_AddElement
    <2>4. Cardinality(earlier(t) \cup {t}) <= Cardinality(earlier(u))
        BY <2>1, <2>2, FS_Subset
    <2>5. QED
        BY <2>2, <2>3, <2>4
<1> HIDE DEF place, earlier
<1>5. place \in [S -> 1..n]
    BY <1>3 DEF place
<1>6. \A t, u \in S : place[t] = place[u] => t = u
    BY <1>1, <1>2, <1>4, <1>5
<1>7. \A i \in 1..n : \E t \in S : place[t] = i
    <2>1. IsFiniteSet(1..n) /\ Cardinality(1..n) = n
        <3>1. IsFiniteSet(1..n) /\ Cardinality(1..n) = IF 1 > n THEN 0 ELSE n - 1 + 1
            BY <1>1, FS_Interval
        <3>2. QED
            BY <1>1, <3>1
    <2>2. place \in Injection(S, 1..n)
        BY <1>5, <1>6 DEF Injection, IsInjective
    <2>3. place \in Surjection(S, 1..n)
        BY <2>1, <2>2, FS_Injection
    <2>4. QED
        BY <2>3 DEF Surjection
<1> DEFINE at(i) == CHOOSE t \in S : place[t] = i
<1>8. ASSUME NEW i \in 1..n PROVE at(i) \in S /\ place[at(i)] = i
    BY <1>7
<1>9. Replay(S) = [i \in 1..n |-> at(i)]
    BY DEF Replay, place, earlier
<1> HIDE DEF at
<1>10. Replay(S) \in Seq(Tx) /\ DOMAIN Replay(S) = 1..n
    BY <1>1, <1>8, <1>9
<1>11. Range(Replay(S)) = S
    <2>1. \A t \in S : place[t] \in 1..n /\ at(place[t]) = t
        BY <1>5, <1>6, <1>8
    <2>2. QED
        BY <1>8, <1>9, <1>10, <2>1 DEF Range
<1>12. Sorted(Replay(S))
    <2>1. SUFFICES ASSUME NEW i \in 1..n, NEW j \in 1..n, i < j PROVE Before(at(i), at(j))
        BY <1>9, <1>10 DEF Sorted
    <2>2. at(i) \in S /\ at(j) \in S /\ place[at(i)] = i /\ place[at(j)] = j
        BY <1>8
    <2>3. at(i) # at(j)
        BY <1>1, <2>1, <2>2
    <2>4. ~ Before(at(j), at(i))
        <3>1. Before(at(j), at(i)) => j < i
            BY <1>4, <2>2
        <3>2. QED
            BY <1>1, <2>1, <3>1
    <2>5. QED
        BY <1>2, <2>2, <2>3, <2>4
<1>13. QED
    BY <1>10, <1>11, <1>12

\* LatestTime is the latest timestamp.
LEMMA LatestTimeIsLatest ==
    ASSUME NEW S, NEW C, S # {}, \A t \in S \cup C : t.ts \in 0..MaxTime
    PROVE  LatestTime(S, C) \in 0..MaxTime /\ \A t \in S : t.ts <= LatestTime(S, C)
<1> DEFINE D == { t.ts : t \in S \cup C }
<1>1. D \in SUBSET Nat /\ D # {} /\ MaxTime \in Nat /\ D \subseteq 0..MaxTime
    BY EventLogAssumption
<1>2. \A x \in D : x <= MaxTime
    BY <1>1
<1>3. \A t \in S : t.ts \in D
    OBVIOUS
<1>4. LatestTime(S, C) = Max(D)
    BY DEF LatestTime
<1> HIDE DEF D
<1>5. PICK m \in D : \A x \in D : x <= m
    BY <1>1, <1>2, BoundedHasGreatest
<1>6. Max(D) \in D /\ \A x \in D : Max(D) >= x
    <2>1. \A x \in D : m >= x
        BY <1>1, <1>5
    <2>2. QED
        BY <1>5, <2>1 DEF Max
<1>7. QED
    BY <1>1, <1>3, <1>4, <1>6

-----------------------------------------------------------------------------
(***************************************************************************)
(* What a branch shows.  The projections of a branch are sorted and valid  *)
(* in themselves whatever was merged since: a commit appends after the     *)
(* last event it knows of, and a rebuild or a resolution writes a valid    *)
(* replay.  So once they account for just the transactions of the log,     *)
(* they are its only canonical order.                                      *)
(***************************************************************************)

\* Every branch has the transaction that opened its project.
LogsAreFinite ==
    \A b \in Branches : IsFiniteSet(txs[b]) /\ \E t \in txs[b] : Opens(t)

IsHistory(h, bound) ==
    /\ h # << >> /\ Sorted(h) /\ ValidHistory(h)
    /\ \A t \in Range(h) : t.ts <= bound

ViewsAreHistories == \A b \in Branches : IsHistory(view[b], last[b])

ViewInv == BTypeOK /\ LogsAreFinite /\ ViewsAreHistories

\* The transactions and controls of the repository.
Records == UNION { txs[b] \cup controls[b] : b \in Branches }

-----------------------------------------------------------------------------
\* A valid log has a replay, which opens the project first.
LEMMA BaseIsHistory ==
    ASSUME NEW base \in Bases
    PROVE  /\ base \in SUBSET Tx /\ IsFiniteSet(base) /\ UniqueIds(base)
           /\ Replay(base) \in Seq(Tx) /\ Replay(base) # << >>
           /\ Sorted(Replay(base)) /\ ValidHistory(Replay(base))
           /\ Range(Replay(base)) = base
           /\ \E t \in base : Opens(t)
<1>1. /\ base \in SUBSET Tx /\ IsFiniteSet(base) /\ UniqueIds(base)
      /\ LogIsValid(base)
    BY MergeConflictsAssumption DEF UniqueIds
<1>2. PICK h \in CanonicalOrders(base) : h # << >> /\ ValidHistory(h)
    BY <1>1 DEF LogIsValid
<1>3. h \in Seq(Tx) /\ Range(h) = base /\ Sorted(h)
    BY <1>1, <1>2, OrdersAreHistories
<1>4. Replay(base) \in Seq(Tx) /\ Range(Replay(base)) = base /\ Sorted(Replay(base))
    BY <1>1, ReplayIsCanonical
<1>5. Replay(base) = h
    BY <1>3, <1>4, CanonicalOrderIsUnique
<1>6. \E t \in base : Opens(t)
    <2>1. 1 \in DOMAIN h /\ h[1] \in base
        BY <1>2, <1>3, EmptySeq, LenProperties DEF Range
    <2>2. SubSeq(h, 1, 1 - 1) = << >>
        BY <1>3, SubSeqProperties, EmptySeq
    <2>3. Admissible(<< >>, h[1].change)
        BY <1>2, <2>1, <2>2 DEF ValidHistory
    <2>4. \A c : Value(<< >>, c) = "absent"
        BY DEF Value
    <2>5. Opens(h[1])
        BY <2>3, <2>4 DEF Admissible, Opens
    <2>6. QED
        BY <2>1, <2>5
<1>7. QED
    BY <1>1, <1>2, <1>4, <1>5, <1>6

LEMMA InitViews == ASSUME BInit PROVE ViewInv
<1>1. PICK base \in Bases :
          /\ txs = [b \in Branches |-> base]
          /\ view = [b \in Branches |-> Replay(base)]
          /\ last = [b \in Branches |-> LatestTime(base, {})]
    BY DEF BInit
<1>2. controls = [b \in Branches |-> {}]
    BY DEF BInit
<1>3. /\ base \in SUBSET Tx /\ IsFiniteSet(base) /\ UniqueIds(base)
      /\ Replay(base) \in Seq(Tx) /\ Replay(base) # << >>
      /\ Sorted(Replay(base)) /\ ValidHistory(Replay(base))
      /\ Range(Replay(base)) = base
      /\ \E t \in base : Opens(t)
    BY BaseIsHistory
<1>4. LatestTime(base, {}) \in 0..MaxTime /\ \A t \in base : t.ts <= LatestTime(base, {})
    <2>1. base # {} /\ \A t \in base \cup {} : t.ts \in 0..MaxTime
        BY <1>3 DEF Tx
    <2>2. QED
        BY <2>1, LatestTimeIsLatest
<1>5. BTypeOK
    <2>1. \A t \in Records : t \in base
        BY <1>1, <1>2 DEF Records
    <2>2. \A t, u \in Records : t.id = u.id => t = u
        BY <1>3, <2>1 DEF UniqueIds
    <2>3. QED
        BY <1>1, <1>2, <1>3, <1>4, <2>2 DEF BTypeOK, Records
<1>6. LogsAreFinite
    BY <1>1, <1>3 DEF LogsAreFinite
<1>7. ViewsAreHistories
    BY <1>1, <1>3, <1>4 DEF ViewsAreHistories, IsHistory
<1>8. QED
    BY <1>5, <1>6, <1>7 DEF ViewInv

\* A commit appends a transaction that is later than all the branch knows of
\* and that a replay accepts.
LEMMA CommitKeepsViews ==
    ASSUME ViewInv, NEW b \in Branches, Commit(b) PROVE ViewInv'
<1> USE DEF ViewInv
<1>1. PICK c \in { d \in Changes : PassesIncremental(view[b], d) },
           i \in NewIds, now \in 0..MaxTime :
          LET ts == IF now > last[b] THEN now ELSE last[b] + 1
              t  == [id |-> i, ts |-> ts, change |-> c]
          IN  /\ ts <= MaxTime
              /\ txs' = [txs EXCEPT ![b] = @ \cup {t}]
              /\ view' = [view EXCEPT ![b] = Append(@, t)]
              /\ last' = [last EXCEPT ![b] = ts]
              /\ UNCHANGED controls
    BY DEF Commit
<1> DEFINE ts == IF now > last[b] THEN now ELSE last[b] + 1
           t  == [id |-> i, ts |-> ts, change |-> c]
           h  == view[b]
<1>2. /\ txs' = [txs EXCEPT ![b] = @ \cup {t}]
      /\ view' = [view EXCEPT ![b] = Append(@, t)]
      /\ last' = [last EXCEPT ![b] = ts]
      /\ controls' = controls
    BY <1>1
<1>3. /\ h \in Seq(Tx) /\ h # << >> /\ Sorted(h) /\ ValidHistory(h)
      /\ \A u \in Range(h) : u.ts <= last[b]
      /\ last[b] \in 0..MaxTime
    BY DEF BTypeOK, ViewsAreHistories, IsHistory
<1>4. ts \in 0..MaxTime /\ ts > last[b]
    BY <1>1, <1>3, EventLogAssumption
<1>5. c \in Changes /\ PassesIncremental(h, c) /\ i \in Ids \ BranchIds
    BY <1>1 DEF NewIds
<1>6. t \in Tx /\ t.ts = ts /\ t.change = c /\ t.id = i
    <2>1. c \in Change
        BY <1>5 DEF Changes, Change, ScopeChange, Scopes, Cells, Values
    <2>2. QED
        BY <1>4, <1>5, <2>1 DEF Tx
<1> HIDE DEF t, ts
<1>7. ValidHistory(Append(h, t))
    <2>1. Admissible(h, c)
        BY <1>3, <1>5, IncrementalIsAdmissible
    <2>2. QED
        BY <1>3, <1>6, <2>1, AppendValid
<1>8. Sorted(Append(h, t))
    <2>1. h[Len(h)] \in Range(h) /\ h[Len(h)] \in Tx
        BY <1>3, EmptySeq, LenProperties, ElementOfSeq DEF Range
    <2>2. h[Len(h)].ts \in 0..MaxTime
        BY <2>1 DEF Tx
    <2>3. h[Len(h)].ts < t.ts
        BY <1>3, <1>4, <1>6, <2>1, <2>2
    <2>4. t.change.cell # System
        BY <1>5, <1>6 DEF PassesIncremental
    <2>5. Before(h[Len(h)], t)
        BY <2>3, <2>4 DEF Before, Rank
    <2>6. QED
        BY <1>3, <1>6, <2>5, AppendSorted DEF AfterCheckpoint
<1>9. /\ Append(h, t) \in Seq(Tx) /\ Append(h, t) # << >>
      /\ Range(Append(h, t)) = Range(h) \cup {t}
    <2>1. /\ Append(h, t) \in Seq(Tx) /\ Append(h, t) # << >>
          /\ Len(Append(h, t)) = Len(h) + 1
          /\ \A k \in 1..Len(h) : Append(h, t)[k] = h[k]
          /\ Append(h, t)[Len(h) + 1] = t
        BY <1>3, <1>6, AppendProperties
    <2>2. /\ Len(h) \in Nat /\ DOMAIN h = 1..Len(h)
          /\ DOMAIN Append(h, t) = 1..Len(h) + 1
        BY <1>3, <2>1, LenProperties
    <2>3. QED
        BY <2>1, <2>2 DEF Range
<1>10. \A a \in Branches :
          /\ txs'[a] = IF a = b THEN txs[b] \cup {t} ELSE txs[a]
          /\ view'[a] = IF a = b THEN Append(h, t) ELSE view[a]
          /\ last'[a] = IF a = b THEN ts ELSE last[a]
    BY <1>2 DEF BTypeOK
<1>11. BTypeOK'
    <2>1. Records' = Records \cup {t}
        BY <1>2, <1>10 DEF Records
    <2>2. \A u \in Records : u.id \in BranchIds
        BY DEF Records, BranchIds
    <2>3. \A u, v \in Records' : u.id = v.id => u = v
        BY <1>5, <1>6, <2>1, <2>2 DEF BTypeOK, Records
    <2>4. /\ txs' \in [Branches -> SUBSET Tx]
          /\ controls' \in [Branches -> SUBSET Control]
        BY <1>2, <1>6 DEF BTypeOK
    <2>5. view' \in [Branches -> Seq(Tx)] /\ last' \in [Branches -> 0..MaxTime]
        BY <1>2, <1>4, <1>9 DEF BTypeOK
    <2>6. QED
        BY <2>3, <2>4, <2>5 DEF BTypeOK, Records
<1>12. LogsAreFinite'
    BY <1>10, FS_AddElement DEF LogsAreFinite
<1>13. ViewsAreHistories'
    <2>1. IsHistory(Append(h, t), ts)
        <3>1. SUFFICES ASSUME NEW u \in Range(Append(h, t)) PROVE u.ts <= ts
            BY <1>7, <1>8, <1>9 DEF IsHistory
        <3>2. CASE u = t
            BY <1>4, <1>6, <3>2
        <3>3. CASE u \in Range(h)
            <4>1. u \in Tx
                BY <1>3, <3>3, LenProperties, ElementOfSeq DEF Range
            <4>2. u.ts \in 0..MaxTime
                BY <4>1 DEF Tx
            <4>3. QED
                BY <1>3, <1>4, <3>3, <4>2
        <3>4. QED
            BY <1>9, <3>2, <3>3
    <2>2. QED
        BY <1>10, <2>1 DEF ViewsAreHistories
<1>14. QED
    BY <1>11, <1>12, <1>13

\* A merge moves transactions and controls between branches.
LEMMA MergeKeepsViews ==
    ASSUME ViewInv, NEW b \in Branches, NEW other \in Branches, Merge(b, other)
    PROVE  ViewInv'
<1> USE DEF ViewInv
<1>1. /\ txs' = [txs EXCEPT ![b] = @ \cup txs[other]]
      /\ controls' = [controls EXCEPT ![b] = @ \cup controls[other]]
      /\ view' = view /\ last' = last
    BY DEF Merge
<1>2. \A a \in Branches :
          /\ txs'[a] = IF a = b THEN txs[b] \cup txs[other] ELSE txs[a]
          /\ controls'[a] =
                IF a = b THEN controls[b] \cup controls[other] ELSE controls[a]
    BY <1>1 DEF BTypeOK
<1>3. BTypeOK'
    <2>1. Records' \subseteq Records
        BY <1>2 DEF Records
    <2>2. \A u, v \in Records' : u.id = v.id => u = v
        BY <2>1 DEF BTypeOK, Records
    <2>3. /\ txs' \in [Branches -> SUBSET Tx]
          /\ controls' \in [Branches -> SUBSET Control]
        BY <1>1 DEF BTypeOK
    <2>4. QED
        BY <1>1, <2>2, <2>3 DEF BTypeOK, Records
<1>4. ASSUME NEW a \in Branches
      PROVE  IsFiniteSet(txs'[a]) /\ \E t \in txs'[a] : Opens(t)
    <2>1. /\ IsFiniteSet(txs[a]) /\ IsFiniteSet(txs[other])
          /\ \E t \in txs[a] : Opens(t)
        BY DEF LogsAreFinite
    <2>2. IsFiniteSet(txs[a] \cup txs[other])
        BY <2>1, FS_Union
    <2>3. txs'[a] = txs[a] \/ txs'[a] = txs[a] \cup txs[other]
        BY <1>2
    <2>4. IsFiniteSet(txs'[a])
        BY <2>1, <2>2, <2>3
    <2>5. \E t \in txs'[a] : Opens(t)
        BY <2>1, <2>3
    <2>6. QED
        BY <2>4, <2>5
<1>5. LogsAreFinite'
    BY <1>4, Zenon DEF LogsAreFinite
<1>6. ViewsAreHistories'
    BY <1>1 DEF ViewsAreHistories
<1>7. QED
    BY <1>3, <1>5, <1>6

\* The replay of a readable valid log that still opens its project is a
\* history, and LatestTime bounds it.
LEMMA WrittenViewIsHistory ==
    ASSUME ViewInv, NEW b \in Branches, NEW C, \A c \in C : c.ts \in 0..MaxTime,
           Readable(txs[b], C), IsValid(Effective(txs[b], C), C)
    PROVE  /\ Replay(Effective(txs[b], C)) \in Seq(Tx)
           /\ LatestTime(Effective(txs[b], C), C) \in 0..MaxTime
           /\ IsHistory(Replay(Effective(txs[b], C)), LatestTime(Effective(txs[b], C), C))
<1> DEFINE S == Effective(txs[b], C)
<1>1. txs[b] \in SUBSET Tx /\ IsFiniteSet(txs[b]) /\ UniqueIds(txs[b])
    BY DEF ViewInv, BTypeOK, LogsAreFinite, UniqueIds
<1>2. S \in SUBSET Tx /\ IsFiniteSet(S) /\ UniqueIds(S)
    BY <1>1, FS_Subset DEF Effective, UniqueIds
<1>3. S # {}
    <2>1. PICK t \in txs[b] : Opens(t)
        BY DEF ViewInv, LogsAreFinite
    <2>2. t \in S
        BY <2>1 DEF Effective, Readable, Targets
    <2>3. QED
        BY <2>2
<1>4. ValidHistory(Replay(S))
    BY DEF IsValid
<1> HIDE DEF S
<1>5. Replay(S) \in Seq(Tx) /\ Range(Replay(S)) = S /\ Sorted(Replay(S))
    BY <1>2, ReplayIsCanonical
<1>6. Replay(S) # << >>
    <2>1. Replay(S) = << >> => DOMAIN Replay(S) = {}
        BY EmptySeq
    <2>2. QED
        BY <1>3, <1>5, <2>1 DEF Range
<1>7. LatestTime(S, C) \in 0..MaxTime /\ \A t \in S : t.ts <= LatestTime(S, C)
    <2>1. \A t \in S \cup C : t.ts \in 0..MaxTime
        BY <1>2 DEF Tx
    <2>2. QED
        BY <1>3, <2>1, LatestTimeIsLatest
<1>8. QED
    BY <1>4, <1>5, <1>6, <1>7 DEF IsHistory, S

\* A rebuild writes the replay of the log.
LEMMA RebuildKeepsViews ==
    ASSUME ViewInv, NEW b \in Branches, RebuildBranch(b) PROVE ViewInv'
<1> USE DEF ViewInv
<1> DEFINE C == controls[b]
           S == Effective(txs[b], C)
<1>1. /\ view' = [view EXCEPT ![b] = Replay(S)]
      /\ last' = [last EXCEPT ![b] = LatestTime(S, C)]
      /\ txs' = txs /\ controls' = controls
    BY DEF RebuildBranch, WriteProjections, Log
<1>2. Readable(txs[b], C) /\ IsValid(S, C)
    BY DEF RebuildBranch, BranchReadable, BranchValid, Log
<1>3. \A c \in C : c.ts \in 0..MaxTime
    BY DEF BTypeOK, Control
<1> HIDE DEF C
<1>4. /\ Replay(S) \in Seq(Tx) /\ LatestTime(S, C) \in 0..MaxTime
      /\ IsHistory(Replay(S), LatestTime(S, C))
    BY <1>2, <1>3, WrittenViewIsHistory
<1> HIDE DEF S
<1>5. BTypeOK'
    <2>1. view' \in [Branches -> Seq(Tx)] /\ last' \in [Branches -> 0..MaxTime]
        BY <1>1, <1>4 DEF BTypeOK
    <2>2. Records' = Records
        BY <1>1 DEF Records
    <2>3. QED
        BY <1>1, <2>1, <2>2 DEF BTypeOK, Records
<1>6. LogsAreFinite'
    BY <1>1 DEF LogsAreFinite
<1>7. ViewsAreHistories'
    BY <1>1, <1>4 DEF ViewsAreHistories, BTypeOK
<1>8. QED
    BY <1>5, <1>6, <1>7

\* A resolution adds a control and writes the replay of what is left.
LEMMA ResolveKeepsViews ==
    ASSUME ViewInv, NEW b \in Branches, Resolve(b) PROVE ViewInv'
<1> USE DEF ViewInv
<1>1. PICK c :
          /\ c \in [id : Ids \ BranchIds, ts : 0..MaxTime, scope : Sessions,
                    kept : Tx, rejected : SUBSET Tx, seen : SUBSET Ids]
          /\ Readable(txs[b], controls[b] \cup {c})
          /\ AddControl(b, c)
    <2>1. PICK s, o, k, i, now :
            /\ s \in ConflictSessions(Log(b), controls[b])
            /\ i \in NewIds /\ now \in 0..MaxTime
            /\ Readable(txs[b], controls[b] \cup {NewControl(b, s, o, k, i, now)})
            /\ AddControl(b, NewControl(b, s, o, k, i, now))
        BY DEF Resolve
    <2> DEFINE c == NewControl(b, s, o, k, i, now)
    <2>2. \A t \in Targets(c) : t \in txs[b]
        BY <2>1 DEF Readable
    <2>3. c.kept \in Tx /\ c.rejected \in SUBSET Tx
        BY <2>2 DEF Targets, BTypeOK
    <2>4. { d.id : d \in controls[b] } \in SUBSET Ids
        BY DEF BTypeOK, Control
    <2>5. k \in Tx /\ o.reject \in SUBSET Tx
        BY <2>3 DEF NewControl
    <2>6. s \in Sessions /\ i \in Ids \ BranchIds /\ now \in 0..MaxTime
        BY <2>1 DEF ConflictSessions, NewIds
    <2>7. c \in [id : Ids \ BranchIds, ts : 0..MaxTime, scope : Sessions,
                 kept : Tx, rejected : SUBSET Tx, seen : SUBSET Ids]
        BY <2>4, <2>5, <2>6 DEF NewControl
    <2>8. QED
        BY <2>1, <2>7
<1> DEFINE C == controls[b] \cup {c}
           S == Effective(txs[b], C)
<1>2. /\ IsValid(S, C) /\ txs' = txs
      /\ controls' = [controls EXCEPT ![b] = C]
      /\ view' = [view EXCEPT ![b] = Replay(S)]
      /\ last' = [last EXCEPT ![b] = LatestTime(S, C)]
    BY <1>1 DEF AddControl, WriteProjections
<1>3. c \in Control /\ c.id \notin BranchIds
    BY <1>1 DEF Control
<1>4. \A d \in C : d.ts \in 0..MaxTime
    BY <1>3 DEF BTypeOK, Control
<1>5. Readable(txs[b], C)
    BY <1>1
<1>6. \A a \in Branches :
          controls'[a] = IF a = b THEN controls[b] \cup {c} ELSE controls[a]
    BY <1>2 DEF BTypeOK
<1>7. controls' \in [Branches -> SUBSET Control]
    BY <1>2, <1>3 DEF BTypeOK
<1> HIDE DEF C
<1>8. /\ Replay(S) \in Seq(Tx) /\ LatestTime(S, C) \in 0..MaxTime
      /\ IsHistory(Replay(S), LatestTime(S, C))
    BY <1>2, <1>4, <1>5, WrittenViewIsHistory
<1> HIDE DEF S
<1>9. BTypeOK'
    <2>1. Records' = Records \cup {c}
        BY <1>2, <1>6 DEF Records
    <2>2. \A u \in Records : u.id \in BranchIds
        BY DEF Records, BranchIds
    <2>3. \A u, v \in Records' : u.id = v.id => u = v
        BY <1>3, <2>1, <2>2 DEF BTypeOK, Records
    <2>4. view' \in [Branches -> Seq(Tx)] /\ last' \in [Branches -> 0..MaxTime]
        BY <1>2, <1>8 DEF BTypeOK
    <2>5. QED
        BY <1>2, <1>7, <2>3, <2>4 DEF BTypeOK, Records
<1>10. LogsAreFinite'
    BY <1>2 DEF LogsAreFinite
<1>11. ViewsAreHistories'
    BY <1>2, <1>8 DEF ViewsAreHistories, BTypeOK
<1>12. QED
    BY <1>9, <1>10, <1>11

LEMMA NextViews == ASSUME ViewInv, [BNext]_bvars PROVE ViewInv'
<1>1. CASE UNCHANGED bvars
    BY <1>1 DEF bvars, ViewInv, BTypeOK, LogsAreFinite, ViewsAreHistories
<1>2. CASE BNext
    BY <1>2, CommitKeepsViews, MergeKeepsViews, RebuildKeepsViews, ResolveKeepsViews
    DEF BNext
<1>3. QED
    BY <1>1, <1>2

\* However branches commit, merge and resolve, each projects a history of
\* transactions, and an id names one transaction of the repository.
THEOREM BranchesTyped == BSpec => []BTypeOK
<1>1. BInit => ViewInv
    BY InitViews
<1>2. ViewInv /\ [BNext]_bvars => ViewInv'
    BY NextViews
<1>3. ViewInv => BTypeOK
    BY DEF ViewInv
<1>4. QED
    BY <1>1, <1>2, <1>3, PTL DEF BSpec

\* A branch whose projections account for the transactions of its log and no
\* others shows what rebuild_and_persist would write, and its log is valid:
\* the incremental projections of a branch never have to be repaired unless
\* something was merged.
THEOREM UpToDateViewsAreReplays == BSpec => []UpToDateIsReplay
<1>1. BInit => ViewInv
    BY InitViews
<1>2. ViewInv /\ [BNext]_bvars => ViewInv'
    BY NextViews
<1>3. ASSUME ViewInv PROVE UpToDateIsReplay
    <2>1. SUFFICES ASSUME NEW b \in Branches, Range(view[b]) = Log(b)
                   PROVE  view[b] = Replay(Log(b)) /\ ValidHistory(view[b])
        BY DEF UpToDateIsReplay
    <2>2. view[b] \in Seq(Tx) /\ Sorted(view[b]) /\ ValidHistory(view[b])
        BY <1>3 DEF ViewInv, BTypeOK, ViewsAreHistories, IsHistory
    <2>3. txs[b] \in SUBSET Tx /\ IsFiniteSet(txs[b]) /\ UniqueIds(txs[b])
        <3>1. txs[b] \in SUBSET Tx /\ IsFiniteSet(txs[b])
            BY <1>3 DEF ViewInv, BTypeOK, LogsAreFinite
        <3>2. \A t \in txs[b] : t \in Records
            BY DEF Records
        <3>3. UniqueIds(txs[b])
            BY <1>3, <3>2 DEF ViewInv, BTypeOK, UniqueIds, Records
        <3>4. QED
            BY <3>1, <3>3
    <2>4. Log(b) \in SUBSET Tx /\ IsFiniteSet(Log(b)) /\ UniqueIds(Log(b))
        BY <2>3, FS_Subset DEF Log, Effective, UniqueIds
    <2>5. /\ Replay(Log(b)) \in Seq(Tx) /\ Sorted(Replay(Log(b)))
          /\ Range(Replay(Log(b))) = Log(b)
        BY <2>4, ReplayIsCanonical
    <2>6. QED
        BY <2>1, <2>2, <2>5, CanonicalOrderIsUnique
<1>4. QED
    BY <1>1, <1>2, <1>3, PTL DEF BSpec

-----------------------------------------------------------------------------
(***************************************************************************)
(* What is reported.  A transaction of a log is admitted or not by the     *)
(* transactions of the log that come before it; a rejection takes some of  *)
(* those away.                                                             *)
(***************************************************************************)

\* A log as events/ has it: finite, an id names one transaction.
IsLog(S) == S \in SUBSET Tx /\ IsFiniteSet(S) /\ UniqueIds(S)

\* What the log S wrote to cell c before t, the last of a set of writes, and
\* whether t finds v there.
WritesBefore(S, t, c) == { u \in S : u.change.cell = c /\ Before(u, t) }

IsLast(W, w) == w \in W /\ \A u \in W : u = w \/ Before(u, w)

Sees(S, t, c, v) ==
    \/ WritesBefore(S, t, c) = {} /\ v = "absent"
    \/ \E w \in WritesBefore(S, t, c) :
          IsLast(WritesBefore(S, t, c), w) /\ w.change.to = v

\* Admissible, in terms of the log.
Admits(S, t) ==
    /\ t.change.cell = System <=> \A u \in S : ~Before(u, t)
    /\ t.change.cell # t.change.scope => Sees(S, t, t.change.scope, "open")
    /\ Sees(S, t, t.change.cell, t.change.from)

\* In a sorted history the places are the order.
LEMMA PlaceIsOrder ==
    ASSUME NEW h \in Seq(Tx), Sorted(h), NEW i \in 1..Len(h), NEW j \in 1..Len(h)
    PROVE  Before(h[j], h[i]) <=> j < i
<1>1. Len(h) \in Nat /\ DOMAIN h = 1..Len(h) /\ h[i] \in Tx /\ h[j] \in Tx
    BY LenProperties, ElementOfSeq
<1>2. ~(Before(h[j], h[i]) /\ Before(h[i], h[j]))
    BY <1>1, BeforeIrreflexive, BeforeTransitive
<1>3. (j < i => Before(h[j], h[i])) /\ (i < j => Before(h[i], h[j]))
    BY <1>1 DEF Sorted
<1>4. j = i => ~Before(h[j], h[i])
    BY <1>1, BeforeIrreflexive
<1>5. j < i \/ j = i \/ i < j
    BY <1>1
<1>6. QED
    BY <1>2, <1>3, <1>4, <1>5

\* A set of transactions has one last.
LEMMA OneLast ==
    ASSUME NEW W \in SUBSET Tx, NEW v, NEW w, IsLast(W, v), IsLast(W, w)
    PROVE  v = w
<1>1. v \in Tx /\ w \in Tx /\ (v = w \/ (Before(v, w) /\ Before(w, v)))
    BY DEF IsLast
<1>2. QED
    BY <1>1, BeforeTransitive, BeforeIrreflexive

\* The value of a cell is what is seen there.
LEMMA ValueIsSeen ==
    ASSUME NEW h \in Seq(Tx), Sorted(h), NEW i \in 1..Len(h), NEW c, NEW v
    PROVE  Value(SubSeq(h, 1, i - 1), c) = v <=> Sees(Range(h), h[i], c, v)
<1> DEFINE p == SubSeq(h, 1, i - 1)
           W == WritesBefore(Range(h), h[i], c)
           places == { j \in 1..(i - 1) : h[j].change.cell = c }
<1>1. Len(h) \in Nat /\ DOMAIN h = 1..Len(h) /\ \A j \in 1..Len(h) : h[j] \in Tx
    BY LenProperties, ElementOfSeq
<1>2. i - 1 \in Nat /\ \A j \in 1..(i - 1) : j \in 1..Len(h) /\ j < i
    BY <1>1
<1>3. /\ DOMAIN p = 1..(i - 1)
      /\ \A j \in 1..(i - 1) : p[j] = h[j]
    <2>1. Len(p) = i - 1 /\ p \in Seq(Tx) /\ \A j \in 1..(i - 1) : p[j] = h[1 + j - 1]
        BY <1>1, <1>2, SubSeqProperties
    <2>2. \A j \in 1..(i - 1) : 1 + j - 1 = j
        BY <1>2
    <2>3. QED
        BY <2>1, <2>2, LenProperties
<1>4. W = { h[j] : j \in places }
    <2>1. \A j \in 1..Len(h) : h[j] \in W <=> j \in places
        <3>1. TAKE j \in 1..Len(h)
        <3>2. Before(h[j], h[i]) <=> j < i
            BY PlaceIsOrder
        <3>3. j < i <=> j \in 1..(i - 1)
            BY <1>1
        <3>4. h[j] \in Range(h)
            BY <1>1 DEF Range
        <3>5. QED
            BY <3>2, <3>3, <3>4 DEF WritesBefore
    <2>2. \A u \in W : \E j \in 1..Len(h) : u = h[j]
        BY <1>1 DEF WritesBefore, Range
    <2>3. \A j \in places : j \in 1..Len(h)
        BY <1>2
    <2> HIDE DEF W, places
    <2>4. QED
        BY <2>1, <2>2, <2>3
<1>5. Value(p, c) = IF places = {} THEN "absent"
                    ELSE h[CHOOSE k \in places : \A j \in places : j <= k].change.to
    <2>1. { j \in DOMAIN p : p[j].change.cell = c } = places
        BY <1>3
    <2> DEFINE lastOf(X) == IF X = {} THEN "absent"
                            ELSE p[CHOOSE k \in X : \A j \in X : j <= k].change.to
    <2> HIDE DEF p
    <2>2. Value(p, c) = lastOf(places)
        <3>1. Value(p, c) = lastOf({ j \in DOMAIN p : p[j].change.cell = c })
            BY Zenon DEF Value
        <3> HIDE DEF lastOf
        <3>2. QED
            BY <2>1, <3>1
    <2>3. ASSUME places # {}
          PROVE  (CHOOSE k \in places : \A j \in places : j <= k) \in places
        <3>1. places \in SUBSET Nat /\ \A j \in places : j <= i - 1
            BY <1>2
        <3>2. \E k \in places : \A j \in places : j <= k
            BY <1>2, <2>3, <3>1, BoundedHasGreatest
        <3>3. QED
            BY <3>2
    <2>4. places \subseteq 1..(i - 1)
        OBVIOUS
    <2> HIDE DEF places
    <2>5. QED
        BY <1>3, <2>2, <2>3, <2>4
<1> HIDE DEF p
<1>6. CASE places = {}
    <2>1. W = {}
        BY <1>4, <1>6
    <2>2. Value(p, c) = "absent"
        BY <1>5, <1>6
    <2> HIDE DEF places, W
    <2>3. Sees(Range(h), h[i], c, v) <=> v = "absent"
        BY <2>1 DEF Sees, W
    <2>4. QED
        BY <2>2, <2>3 DEF p
<1>7. CASE places # {}
    <2>1. places \in SUBSET Nat /\ \A j \in places : j <= i - 1
        BY <1>2
    <2>2. PICK k \in places : \A j \in places : j <= k
        BY <1>2, <1>7, <2>1, BoundedHasGreatest
    <2>3. (CHOOSE m \in places : \A j \in places : j <= m) = k
        BY <2>1, <2>2
    <2>4. Value(p, c) = h[k].change.to
        BY <1>5, <1>7, <2>3
    <2>5. \A j \in places : j \in 1..Len(h)
        BY <1>2
    <2>6. W \in SUBSET Tx
        BY <1>1, <1>4, <2>5
    <2>7. IsLast(W, h[k])
        <3>1. h[k] \in W
            BY <1>4
        <3>2. ASSUME NEW j \in places PROVE h[j] = h[k] \/ Before(h[j], h[k])
            <4>1. j < k \/ j = k
                BY <2>1, <2>2
            <4>2. j < k => Before(h[j], h[k])
                BY <2>5, PlaceIsOrder
            <4>3. QED
                BY <4>1, <4>2
        <3> HIDE DEF W, places
        <3>3. QED
            BY <1>4, <3>1, <3>2 DEF IsLast
    <2>8. W # {} /\ h[k] \in W
        BY <2>7 DEF IsLast
    <2> HIDE DEF W, places
    <2>9. \A w \in W : IsLast(W, w) <=> w = h[k]
        BY <2>6, <2>7, OneLast
    <2>10. Sees(Range(h), h[i], c, v) <=> h[k].change.to = v
        BY <2>8, <2>9 DEF Sees, W
    <2>11. QED
        BY <2>4, <2>10 DEF p
<1>8. QED
    BY <1>6, <1>7

\* Whether the replay of a log accepts a transaction depends on the log.
LEMMA AdmissibleIsAdmitted ==
    ASSUME NEW h \in Seq(Tx), Sorted(h), NEW i \in 1..Len(h)
    PROVE  Admissible(SubSeq(h, 1, i - 1), h[i].change) <=> Admits(Range(h), h[i])
<1> DEFINE p == SubSeq(h, 1, i - 1)
<1>1. Len(h) \in Nat /\ DOMAIN h = 1..Len(h)
    BY LenProperties
<1>2. p = << >> <=> \A u \in Range(h) : ~Before(u, h[i])
    <2>1. p \in Seq(Tx) /\ Len(p) = i - 1
        BY <1>1, SubSeqProperties
    <2>2. p = << >> <=> i = 1
        BY <1>1, <2>1, EmptySeq
    <2>3. i = 1 => \A j \in 1..Len(h) : ~(j < i)
        BY <1>1
    <2>4. i # 1 => 1 \in 1..Len(h) /\ 1 < i
        BY <1>1
    <2>5. \A u \in Range(h) : \E j \in 1..Len(h) : u = h[j]
        BY <1>1 DEF Range
    <2>6. \A j \in 1..Len(h) : h[j] \in Range(h)
        BY <1>1 DEF Range
    <2> HIDE DEF p
    <2>7. i = 1 => \A u \in Range(h) : ~Before(u, h[i])
        BY <2>3, <2>5, PlaceIsOrder
    <2>8. i # 1 => h[1] \in Range(h) /\ Before(h[1], h[i])
        BY <2>4, <2>6, PlaceIsOrder
    <2>9. QED
        BY <2>2, <2>7, <2>8
<1>3. \A c, v : Value(p, c) = v <=> Sees(Range(h), h[i], c, v)
    BY ValueIsSeen
<1> HIDE DEF p
<1>4. Admissible(p, h[i].change) <=> Admits(Range(h), h[i])
    BY <1>2, <1>3, Zenon DEF Admissible, Admits
<1>5. QED
    BY <1>4 DEF p

\* A log is a valid history just when it admits each of its transactions.
LEMMA ValidIsAdmitted ==
    ASSUME NEW S, IsLog(S)
    PROVE  ValidHistory(Replay(S)) <=> \A t \in S : Admits(S, t)
<1> DEFINE h == Replay(S)
<1>1. h \in Seq(Tx) /\ Range(h) = S /\ Sorted(h)
    BY ReplayIsCanonical DEF IsLog
<1> HIDE DEF h
<1>2. DOMAIN h = 1..Len(h)
    BY <1>1, LenProperties
<1>3. \A i \in 1..Len(h) :
          Admissible(SubSeq(h, 1, i - 1), h[i].change) <=> Admits(S, h[i])
    BY <1>1, AdmissibleIsAdmitted
<1>4. ValidHistory(h) <=> \A i \in 1..Len(h) : Admits(S, h[i])
    BY <1>2, <1>3 DEF ValidHistory
<1>5. (\A i \in 1..Len(h) : Admits(S, h[i])) <=> \A t \in S : Admits(S, t)
    BY <1>1, <1>2 DEF Range
<1>6. QED
    BY <1>4, <1>5 DEF h

\* The first transaction that a log does not admit, which names the conflict.
LEMMA FirstNotAdmitted ==
    ASSUME NEW S, IsLog(S), ~ValidHistory(Replay(S))
    PROVE  LET u == Replay(S)[Failure(Replay(S))]
           IN  /\ u \in S /\ ~Admits(S, u)
               /\ \A t \in S : Before(t, u) => Admits(S, t)
               /\ IsLifecycleConflict(Replay(S)) <=> Sees(S, u, u.change.scope, "closed")
<1> DEFINE h == Replay(S)
           fits(i) == Admissible(SubSeq(h, 1, i - 1), h[i].change)
           bad == { i \in 1..Len(h) : ~fits(i) }
           f == Failure(h)
<1>1. h \in Seq(Tx) /\ Range(h) = S /\ Sorted(h)
    BY ReplayIsCanonical DEF IsLog
<1>2. ~ValidHistory(h)
    OBVIOUS
<1> HIDE DEF h
<1>3. DOMAIN h = 1..Len(h) /\ Len(h) \in Nat
    BY <1>1, LenProperties
<1>4. bad # {} /\ bad \in SUBSET Nat
    BY <1>2, <1>3 DEF ValidHistory
<1>5. PICK m \in bad : \A i \in bad : m <= i
    BY <1>4, NaturalsHaveLeast
<1>6. m \in 1..Len(h) /\ ~fits(m) /\ \A j \in 1..(m - 1) : fits(j)
    <2>1. m \in 1..Len(h) /\ ~fits(m)
        OBVIOUS
    <2>2. \A j \in 1..(m - 1) : j \in 1..Len(h) /\ ~(m <= j)
        BY <1>3, <2>1
    <2> HIDE DEF fits
    <2>3. QED
        BY <1>5, <2>1, <2>2
<1>7. f \in DOMAIN h /\ ~fits(f) /\ \A j \in 1..(f - 1) : fits(j)
    BY <1>3, <1>6 DEF Failure
<1>8. f \in 1..Len(h)
    BY <1>3, <1>7
<1> HIDE DEF f
<1>9. ~Admits(S, h[f])
    BY <1>1, <1>7, <1>8, AdmissibleIsAdmitted
<1>10. ASSUME NEW t \in S, Before(t, h[f]) PROVE Admits(S, t)
    <2>1. PICK j \in 1..Len(h) : h[j] = t
        BY <1>1, <1>3 DEF Range
    <2>2. j < f
        BY <1>1, <1>8, <1>10, <2>1, PlaceIsOrder
    <2>3. j \in 1..(f - 1)
        BY <1>3, <1>8, <2>2
    <2>4. fits(j)
        BY <1>7, <2>3
    <2>5. QED
        BY <1>1, <2>1, <2>4, AdmissibleIsAdmitted
<1>11. h[f] \in S
    BY <1>1, <1>7 DEF Range
<1>12. IsLifecycleConflict(h) <=> Sees(S, h[f], h[f].change.scope, "closed")
    <2>1. IsLifecycleConflict(h)
              <=> Value(SubSeq(h, 1, f - 1), h[f].change.scope) = "closed"
        BY DEF IsLifecycleConflict, f
    <2>2. QED
        BY <1>1, <1>8, <2>1, ValueIsSeen
<1>13. QED
    BY <1>9, <1>10, <1>11, <1>12 DEF h, f

\* The order of a log is linear.
LEMMA LogIsOrdered ==
    ASSUME NEW S, IsLog(S)
    PROVE  /\ \A t \in S : ~Before(t, t)
           /\ \A t, u \in S : ~(Before(t, u) /\ Before(u, t))
           /\ \A t, u, v \in S : Before(t, u) /\ Before(u, v) => Before(t, v)
           /\ \A t, u \in S : t = u \/ Before(t, u) \/ Before(u, t)
<1>1. S \in SUBSET Tx /\ \A t, u \in S : t.id = u.id => t = u
    BY DEF IsLog, UniqueIds
<1>2. \A t \in S : ~Before(t, t)
    BY <1>1, BeforeIrreflexive
<1>3. \A t, u, v \in S : Before(t, u) /\ Before(u, v) => Before(t, v)
    BY <1>1, BeforeTransitive
<1>4. \A t, u \in S : t = u \/ Before(t, u) \/ Before(u, t)
    BY <1>1, BeforeTotal
<1>5. \A t, u \in S : ~(Before(t, u) /\ Before(u, t))
    BY <1>2, <1>3
<1>6. QED
    BY <1>2, <1>3, <1>4, <1>5

\* What is left of a log is one.
LEMMA PartOfLog ==
    ASSUME NEW S, IsLog(S), NEW X \in SUBSET S PROVE IsLog(X)
<1>1. IsFiniteSet(X)
    BY FS_Subset DEF IsLog
<1>2. QED
    BY <1>1 DEF IsLog, UniqueIds

\* A log that is not empty has a last transaction.
LEMMA LogHasLast ==
    ASSUME NEW S, IsLog(S), S # {} PROVE \E w \in S : IsLast(S, w)
<1> DEFINE h == Replay(S)
<1>1. h \in Seq(Tx) /\ Range(h) = S /\ Sorted(h)
    BY ReplayIsCanonical DEF IsLog
<1> HIDE DEF h
<1>2. DOMAIN h = 1..Len(h) /\ Len(h) \in Nat
    BY <1>1, LenProperties
<1>3. Len(h) # 0
    <2>1. PICK j \in 1..Len(h) : TRUE
        BY <1>1, <1>2 DEF Range
    <2>2. QED
        BY <1>2, <2>1
<1>4. Len(h) \in 1..Len(h) /\ h[Len(h)] \in S
    BY <1>1, <1>2, <1>3 DEF Range
<1>5. ASSUME NEW j \in 1..Len(h) PROVE h[j] = h[Len(h)] \/ Before(h[j], h[Len(h)])
    <2>1. j = Len(h) \/ j < Len(h)
        <3>1. \A n \in Nat : \A k \in 1..n : k = n \/ k < n
            OBVIOUS
        <3>2. QED
            BY <1>2, <3>1
    <2>2. QED
        BY <1>1, <1>4, <2>1, PlaceIsOrder
<1>6. IsLast(S, h[Len(h)])
    BY <1>1, <1>2, <1>4, <1>5 DEF IsLast, Range
<1>7. QED
    BY <1>4, <1>6

\* What a cell shows is one value.
LEMMA SeenOnce ==
    ASSUME NEW X \in SUBSET Tx, NEW t, NEW c, NEW v, NEW w,
           Sees(X, t, c, v), Sees(X, t, c, w)
    PROVE  v = w
<1> DEFINE W == WritesBefore(X, t, c)
<1>1. W \in SUBSET Tx
    BY DEF WritesBefore
<1> HIDE DEF W
<1>2. \A x, y : IsLast(W, x) /\ IsLast(W, y) => x = y
    BY <1>1, OneLast
<1>3. QED
    BY <1>2 DEF Sees, W

\* Only the writes to a cell matter for what it shows.
LEMMA SameWritesShowTheSame ==
    ASSUME NEW X, NEW Y, NEW t, NEW c,
           \A u : u.change.cell = c /\ Before(u, t) => (u \in X <=> u \in Y)
    PROVE  \A v : Sees(X, t, c, v) <=> Sees(Y, t, c, v)
<1>1. WritesBefore(X, t, c) = WritesBefore(Y, t, c)
    BY DEF WritesBefore
<1>2. QED
    BY <1>1 DEF Sees

-----------------------------------------------------------------------------
(***************************************************************************)
(* The logs of branches.                                                   *)
(***************************************************************************)

\* Transactions do what the operations ask for.
Known(S) == \A t \in S : t.change \in Changes \cup {Initialise}

\* A session is created before it is worked in.
Founded(S) ==
    \A t \in S : t.change.scope \in Sessions /\ ~Opens(t) =>
        \E o \in S : Opens(o) /\ o.change.scope = t.change.scope /\ Before(o, t)

\* A session is created once.
OpenedOnce(S) ==
    \A o, q \in S :
        Opens(o) /\ Opens(q) /\ o.change.scope = q.change.scope => o = q

WellMade(S) == IsLog(S) /\ Known(S) /\ Founded(S) /\ OpenedOnce(S)

IsSystem(t)  == t.change.cell = System
WritesObject(t) == t.change.cell \in Objects

\* What each kind of change looks like: a session is opened or closed in its own
\* cell, an object is written from a session.
LEMMA ChangeShapes ==
    ASSUME NEW t, t.change \in Changes \cup {Initialise}
    PROVE  /\ IsSystem(t) \/ t.change.scope \in Sessions
           /\ IsSystem(t) => Opens(t) /\ t.change.scope = System /\ t.change.to = "open"
           /\ t.change.cell = t.change.scope => Opens(t) \/ Closes(t)
           /\ t.change.cell # t.change.scope => WritesObject(t)
           /\ WritesObject(t) => ~Opens(t) /\ ~Closes(t) /\ t.change.cell # t.change.scope
           /\ Opens(t) => t.change.to = "open" /\ t.change.from = "absent" /\ ~Closes(t)
           /\ Closes(t) => /\ t.change.cell = t.change.scope /\ t.change.from = "open"
                           /\ t.change.to = "closed"
           /\ t.change.cell \notin Sessions => ~Closes(t)
           /\ t.change.to # "absent"
           /\ t.change.cell \in Scopes => t.change.cell = t.change.scope
<1> USE DEF Opens, Closes, IsSystem, WritesObject, Scopes
<1>1. System \notin Sessions /\ System \notin Objects /\ Sessions \cap Objects = {}
    BY EventLogAssumption
<1>2. CASE t.change = Initialise
    <2>1. /\ t.change.scope = System /\ t.change.cell = System
          /\ t.change.from = "absent" /\ t.change.to = "open"
        BY <1>2 DEF Initialise, ScopeChange
    <2>2. QED
        BY <1>1, <2>1
<1>3. CASE \E s \in Sessions : t.change = ScopeChange(s, "absent", "open")
    BY <1>1, <1>3 DEF ScopeChange
<1>4. CASE \E s \in Sessions : t.change = ScopeChange(s, "open", "closed")
    BY <1>1, <1>4 DEF ScopeChange
<1>5. CASE t.change \in [scope : Sessions, cell : Objects,
                         from : Statuses \cup {"absent"}, to : Statuses]
    <2>1. /\ t.change.scope \in Sessions /\ t.change.cell \in Objects
          /\ t.change.to \in Statuses
        BY <1>5
    <2>2. t.change.to # "absent"
        BY <2>1, EventLogAssumption
    <2>3. QED
        BY <1>1, <2>1, <2>2
<1>6. QED
    BY <1>2, <1>3, <1>4, <1>5 DEF Changes

\* A session shows itself open to those that are not after one of its closings.
NoneCloses(X, t) ==
    \A z \in X : Closes(z) /\ z.change.scope = t.change.scope => ~Before(z, t)

\* Who works in a session of a well-made log finds it open unless it was closed
\* before, as long as the openings are there.
LEMMA OpenUnlessClosed ==
    ASSUME NEW S, WellMade(S), NEW X \in SUBSET S, \A o \in S : Opens(o) => o \in X,
           NEW t \in S, t.change.scope \in Sessions, ~Opens(t)
    PROVE  /\ Sees(X, t, t.change.scope, "open") <=> NoneCloses(X, t)
           /\ Sees(X, t, t.change.scope, "closed") <=> ~NoneCloses(X, t)
<1> DEFINE s == t.change.scope
           W == WritesBefore(X, t, s)
<1>1. PICK o \in S : Opens(o) /\ o.change.scope = s /\ Before(o, t)
    BY DEF WellMade, Founded
<1>2. /\ IsLog(S) /\ S \in SUBSET Tx
      /\ \A u, v \in S : ~(Before(u, v) /\ Before(v, u))
    BY LogIsOrdered DEF WellMade, IsLog
<1>3. \A u \in W : u \in X /\ u \in S /\ u.change.cell = s /\ Before(u, t)
    BY DEF WritesBefore
<1>4. o \in W
    BY <1>1 DEF WritesBefore, Opens
<1>5. ASSUME NEW u \in W
      PROVE  /\ u.change.scope = s
             /\ u = o \/ (Closes(u) /\ u.change.to = "closed" /\ Before(o, u))
    <2>1. u \in S /\ u.change.cell = s /\ s \in Scopes
        BY <1>3 DEF Scopes
    <2>2. /\ u.change.scope = s /\ (Opens(u) \/ Closes(u))
          /\ Closes(u) => u.change.to = "closed" /\ ~Opens(u)
        BY <2>1, ChangeShapes DEF WellMade, Known
    <2>3. Opens(u) => u = o
        BY <1>1, <2>1, <2>2 DEF WellMade, OpenedOnce
    <2>4. ASSUME Closes(u) PROVE Before(o, u)
        <3>1. PICK q \in S : Opens(q) /\ q.change.scope = s /\ Before(q, u)
            BY <2>1, <2>2, <2>4 DEF WellMade, Founded
        <3>2. q = o
            BY <1>1, <3>1 DEF WellMade, OpenedOnce
        <3>3. QED
            BY <3>1, <3>2
    <2>5. QED
        BY <2>2, <2>3, <2>4
<1>6. W \in SUBSET S /\ W # {}
    BY <1>3, <1>4
<1> HIDE DEF W
<1>7. IsLog(W)
    BY <1>2, <1>6, PartOfLog
<1>8. PICK w \in W : IsLast(W, w)
    BY <1>6, <1>7, LogHasLast
<1>9. X \in SUBSET Tx
    BY <1>2
<1>10. Sees(X, t, s, w.change.to)
    BY <1>8 DEF Sees, W
<1>11. \A v : Sees(X, t, s, v) => v = w.change.to
    BY <1>9, <1>10, SeenOnce
<1>12. CASE NoneCloses(X, t)
    <2>1. ~Closes(w)
        BY <1>3, <1>5, <1>12 DEF NoneCloses
    <2>2. w.change.to = "open"
        <3>1. w = o
            BY <1>5, <2>1
        <3>2. QED
            BY <1>1, <3>1, ChangeShapes DEF WellMade, Known
    <2>3. QED
        BY <1>10, <1>11, <1>12, <2>2
<1>13. CASE ~NoneCloses(X, t)
    <2>1. PICK z \in X : Closes(z) /\ z.change.scope = s /\ Before(z, t)
        BY <1>13 DEF NoneCloses
    <2>2. z \in S /\ z.change.cell = s /\ ~Opens(z)
        BY <2>1, ChangeShapes DEF WellMade, Known
    <2>3. z \in W
        BY <2>1, <2>2 DEF W, WritesBefore
    <2>4. z # o
        BY <1>1, <2>2
    <2>5. Before(o, z)
        BY <1>5, <2>3, <2>4
    <2>6. w # o
        BY <1>2, <1>8, <2>2, <2>3, <2>4, <2>5 DEF IsLast
    <2>7. w.change.to = "closed"
        BY <1>5, <2>6
    <2>8. QED
        BY <1>10, <1>11, <1>13, <2>7
<1>14. QED
    BY <1>12, <1>13

-----------------------------------------------------------------------------
(***************************************************************************)
(* Repairs.  A rejection of candidates leaves the openings, so a log is    *)
(* mended when it admits all that is left.                                 *)
(***************************************************************************)

\* Every transaction finds what it expects.
Good(S) == \A t \in S : Admits(S, t)

\* Once a rejection is known to mend the log, other rejections in the session
\* do when all that they leave is admitted: the controls keep their session.
LEMMA RejectionKeepsControls ==
    ASSUME NEW S, IsLog(S), NEW C, NEW s, NEW Q \in SUBSET Candidates(S, s),
           IsValid(S \ Q, C)
    PROVE  /\ IsValid(S, C) <=> Good(S)
           /\ \A R \in SUBSET Candidates(S, s) : IsValid(S \ R, C) <=> Good(S \ R)
<1> DEFINE begun(X) == \A c \in C : \E t \in X : Opens(t) /\ t.change.scope = c.scope
                                                /\ Earlier(t, c)
<1>1. \A X \in SUBSET S : IsValid(X, C) <=> Good(X) /\ begun(X)
    <2>1. ASSUME NEW X \in SUBSET S PROVE ValidHistory(Replay(X)) <=> Good(X)
        BY PartOfLog, ValidIsAdmitted DEF Good
    <2>2. QED
        BY <2>1 DEF IsValid
<1>2. begun(S \ Q)
    BY <1>1
<1>3. \A R \in SUBSET Candidates(S, s) : begun(S \ R)
    <2>1. ASSUME NEW R \in SUBSET Candidates(S, s), NEW c \in C
          PROVE  \E t \in S \ R : Opens(t) /\ t.change.scope = c.scope /\ Earlier(t, c)
        <3>1. PICK t \in S \ Q : Opens(t) /\ t.change.scope = c.scope /\ Earlier(t, c)
            BY <1>2
        <3>2. t \notin R
            BY <3>1 DEF Candidates
        <3>3. QED
            BY <3>1, <3>2
    <2>2. QED
        BY <2>1
<1>4. begun(S)
    BY <1>2
<1> HIDE DEF begun
<1>5. \A R \in SUBSET Candidates(S, s) : S \ R \in SUBSET S
    OBVIOUS
<1>6. QED
    BY <1>1, <1>3, <1>4, <1>5

\* The smallest repairs have one size, one or two, and are all of that size.
LEMMA RepairSizes ==
    ASSUME NEW S, IsFiniteSet(S), NEW C, NEW s, SmallestRepairs(S, C, s) # {}
    PROVE  \E k \in 1..2 : /\ SmallestRepairs(S, C, s) = Repairs(S, C, s, k)
                           /\ k = 2 => Repairs(S, C, s, 1) = {}
<1> DEFINE n == Cardinality(Candidates(S, s))
           sizes == { k \in 1..MAX_REJECTION_SET_SIZE :
                        k <= n /\ Repairs(S, C, s, k) # {} }
<1>1. SmallestRepairs(S, C, s) =
          IF sizes = {} THEN {} ELSE Repairs(S, C, s, Min(sizes))
    BY Zenon DEF SmallestRepairs
<1>2. sizes # {} /\ SmallestRepairs(S, C, s) = Repairs(S, C, s, Min(sizes))
    BY <1>1
<1>3. sizes \in SUBSET Nat /\ sizes \subseteq 1..2
    BY DEF MAX_REJECTION_SET_SIZE
<1>4. n \in Nat
    <2>1. Candidates(S, s) \in SUBSET S
        BY DEF Candidates
    <2>2. QED
        BY <2>1, FS_Subset, FS_CardinalityType
<1>5. \A k \in sizes : k <= n
    OBVIOUS
<1>6. 1 <= n /\ Repairs(S, C, s, 1) # {} => 1 \in sizes
    BY DEF MAX_REJECTION_SET_SIZE
<1> HIDE DEF sizes, n
<1>7. PICK m \in sizes : \A k \in sizes : m <= k
    BY <1>2, <1>3, NaturalsHaveLeast
<1>8. Min(sizes) = m
    <2>1. \A x \in sizes : (\A y \in sizes : x =< y) => x = m
        BY <1>3, <1>7
    <2>2. QED
        BY <1>7, <2>1 DEF Min
<1>9. m = 2 => Repairs(S, C, s, 1) = {}
    BY <1>3, <1>4, <1>5, <1>6, <1>7
<1>10. QED
    BY <1>2, <1>3, <1>7, <1>8, <1>9

\* Two things are two.
LEMMA PairHasTwo ==
    ASSUME NEW a, NEW b, a # b
    PROVE  IsFiniteSet({a, b}) /\ Cardinality({a, b}) = 2
<1> DEFINE A == {a}
<1>1. IsFiniteSet(A) /\ Cardinality(A) = 1 /\ b \notin A
    BY FS_Singleton
<1>2. A \cup {b} = {a, b}
    OBVIOUS
<1> HIDE DEF A
<1>3. IsFiniteSet(A \cup {b})
    BY <1>1, FS_AddElement
<1>4. Cardinality(A \cup {b}) = Cardinality(A) + 1
    BY <1>1, FS_AddElement
<1>5. QED
    BY <1>1, <1>2, <1>3, <1>4

\* A repair of two leaves no repair of one, and any two that mend the log are
\* among the smallest repairs.
LEMMA RepairShapes ==
    ASSUME NEW S, IsFiniteSet(S), NEW C, NEW s
    PROVE  LET SR == SmallestRepairs(S, C, s)
               cand == Candidates(S, s)
           IN  /\ \A R \in SR : R \in SUBSET cand /\ IsValid(S \ R, C)
               /\ \A R \in SR : \A x, y \in R : x # y =>
                     /\ R = {x, y}
                     /\ \A t \in cand : ~IsValid(S \ {t}, C)
                     /\ \A a, b \in cand : a # b /\ IsValid(S \ {a, b}, C) => {a, b} \in SR
<1> DEFINE SR == SmallestRepairs(S, C, s)
           cand == Candidates(S, s)
<1>1. IsFiniteSet(cand)
    <2>1. cand \in SUBSET S
        BY DEF Candidates
    <2>2. QED
        BY <2>1, FS_Subset
<1>2. \A k : \A R : R \in Repairs(S, C, s, k) <=>
                 R \in SUBSET cand /\ Cardinality(R) = k /\ IsValid(S \ R, C)
    BY DEF Repairs, kSubset
<1> SUFFICES ASSUME SR # {}
             PROVE  /\ \A R \in SR : R \in SUBSET cand /\ IsValid(S \ R, C)
                    /\ \A R \in SR : \A x, y \in R : x # y =>
                          /\ R = {x, y}
                          /\ \A t \in cand : ~IsValid(S \ {t}, C)
                          /\ \A a, b \in cand : a # b /\ IsValid(S \ {a, b}, C) => {a, b} \in SR
    OBVIOUS
<1>3. PICK k \in 1..2 : /\ SR = Repairs(S, C, s, k)
                        /\ k = 2 => Repairs(S, C, s, 1) = {}
    BY RepairSizes
<1> HIDE DEF SR, cand
<1>4. \A R \in SR : R \in SUBSET cand /\ IsValid(S \ R, C) /\ Cardinality(R) = k
    BY <1>2, <1>3
<1>5. ASSUME NEW R \in SR, NEW x \in R, NEW y \in R, x # y
      PROVE  k = 2 /\ R = {x, y}
    <2>1. IsFiniteSet(R) /\ Cardinality(R) = k
        BY <1>1, <1>4, FS_Subset
    <2>2. IsFiniteSet({x, y}) /\ Cardinality({x, y}) = 2
        BY <1>5, PairHasTwo
    <2>3. {x, y} \in SUBSET R
        OBVIOUS
    <2>4. 2 <= k /\ (k = 2 => {x, y} = R)
        BY <2>1, <2>2, <2>3, FS_Subset
    <2>5. k = 2
        BY <2>4
    <2>6. QED
        BY <2>4, <2>5
<1>6. ASSUME k = 2, NEW t \in cand PROVE ~IsValid(S \ {t}, C)
    <2>1. {t} \in SUBSET cand /\ Cardinality({t}) = 1
        BY FS_Singleton
    <2>2. {t} \notin Repairs(S, C, s, 1)
        BY <1>3, <1>6
    <2>3. QED
        BY <1>2, <2>1, <2>2
<1>7. ASSUME k = 2, NEW a \in cand, NEW b \in cand, a # b, IsValid(S \ {a, b}, C)
      PROVE  {a, b} \in SR
    <2>1. {a, b} \in SUBSET cand
        OBVIOUS
    <2>2. Cardinality({a, b}) = 2
        BY <1>7, PairHasTwo
    <2>3. {a, b} \in Repairs(S, C, s, k)
        BY <1>2, <1>7, <2>1, <2>2
    <2>4. QED
        BY <1>3, <2>3
<1>8. QED
    BY <1>4, <1>5, <1>6, <1>7

\* A session without an offer rejects, in each of its repairs, all that takes part.
LEMMA NoOfferRejectsAll ==
    ASSUME NEW S, NEW C, NEW s, Offers(S, C, s) = {}, NEW R \in SmallestRepairs(S, C, s)
    PROVE  Participants(S, Candidates(S, s)) \subseteq R
<1> DEFINE repairs == SmallestRepairs(S, C, s)
           touched(Q) == Q \cup Participants(S, Candidates(S, s))
           involved(Q) == IF Cardinality(touched(Q)) < 2 /\ IsLifecycleConflict(Replay(S))
                          THEN touched(Q) \cup UNION repairs ELSE touched(Q)
           taken == { Q \in repairs : involved(Q) \ Q # {} }
<1>1. Offers(S, C, s) = { [reject |-> Q, survivors |-> involved(Q) \ Q] : Q \in taken }
    BY Zenon DEF Offers
<1>2. R \notin taken
    <2> HIDE DEF taken, involved
    <2>1. QED
        BY <1>1
<1>3. involved(R) \ R = {}
    BY <1>2
<1>4. touched(R) \subseteq involved(R)
    <2> HIDE DEF touched
    <2>1. QED
        OBVIOUS
<1> HIDE DEF involved
<1>5. QED
    BY <1>3, <1>4

\* No conflict is reported only when no session has an offer.
LEMMA NothingReported ==
    ASSUME NEW S, NEW C, ConflictSessions(S, C) = {}, NEW s \in Sessions
    PROVE  Offers(S, C, s) = {}
<1> DEFINE places == { i \in DOMAIN SessionOrder : Offers(S, C, SessionOrder[i]) # {} }
<1>1. /\ SessionOrder \in Seq(Sessions) /\ Range(SessionOrder) = Sessions
      /\ DOMAIN SessionOrder = 1..Len(SessionOrder) /\ Len(SessionOrder) \in Nat
    BY MergeConflictsAssumption, LenProperties
<1>2. SUFFICES ASSUME Offers(S, C, s) # {} PROVE FALSE
    OBVIOUS
<1>3. PICK i \in DOMAIN SessionOrder : SessionOrder[i] = s
    BY <1>1 DEF Range
<1>4. places # {} /\ places \in SUBSET Nat
    BY <1>1, <1>2, <1>3
<1>5. PICK m \in places : \A j \in places : m <= j
    BY <1>4, NaturalsHaveLeast
<1>6. /\ m \in DOMAIN SessionOrder /\ Offers(S, C, SessionOrder[m]) # {}
      /\ \A j \in 1..(m - 1) : Offers(S, C, SessionOrder[j]) = {}
    <2>1. m \in DOMAIN SessionOrder /\ Offers(S, C, SessionOrder[m]) # {}
        OBVIOUS
    <2>2. ASSUME NEW j \in 1..(m - 1) PROVE j \in DOMAIN SessionOrder /\ ~(m <= j)
        BY <1>1, <2>1
    <2>3. QED
        BY <1>5, <2>1, <2>2
<1>7. SessionOrder[m] \in Sessions
    BY <1>1, <1>6
<1>8. SessionOrder[m] \in ConflictSessions(S, C)
    BY <1>6, <1>7 DEF ConflictSessions
<1>9. QED
    BY <1>8

-----------------------------------------------------------------------------
\* i opens the project, before all else.
Begins(S, i) ==
    /\ i \in S /\ IsSystem(i)
    /\ \A t \in S : t = i \/ (~IsSystem(t) /\ Before(i, t))

\* If what a rejection leaves is admitted, the project was opened once, first.
LEMMA GoodBegins ==
    ASSUME NEW S, IsLog(S), Known(S), \E i \in S : IsSystem(i),
           NEW G \in SUBSET S, Good(G), \A o \in S : Opens(o) => o \in G
    PROVE  \E i \in S : Begins(S, i)
<1>1. \A t, u \in S : t = u \/ Before(t, u) \/ Before(u, t)
    BY LogIsOrdered
<1>2. PICK i \in S : IsSystem(i)
    OBVIOUS
<1>3. \A t \in S : IsSystem(t) => t \in G
    BY ChangeShapes DEF Known
<1>4. \A t \in S : IsSystem(t) => \A u \in G : ~Before(u, t)
    BY <1>3 DEF Good, Admits, IsSystem
<1>5. ASSUME NEW t \in S, t # i PROVE ~IsSystem(t) /\ Before(i, t)
    <2>1. ~IsSystem(t)
        BY <1>1, <1>2, <1>3, <1>4, <1>5
    <2>2. Rank(i) = 0 /\ Rank(t) = 1
        BY <1>2, <2>1 DEF Rank, IsSystem
    <2>3. QED
        BY <2>1, <2>2 DEF Before
<1>6. QED
    BY <1>2, <1>5 DEF Begins

\* If what a rejection leaves is admitted, each session was opened once.
LEMMA GoodOpensOnce ==
    ASSUME NEW S, IsLog(S), Known(S),
           NEW G \in SUBSET S, Good(G), \A o \in S : Opens(o) => o \in G
    PROVE  OpenedOnce(S)
<1>1. \A t, u \in S : t = u \/ Before(t, u) \/ Before(u, t)
    BY LogIsOrdered
<1>2. ASSUME NEW o \in S, NEW q \in S, Opens(o), Opens(q), o.change.scope = q.change.scope
      PROVE  ~Before(o, q)
    <2>1. o \in WritesBefore(G, q, q.change.cell) \/ ~Before(o, q)
        BY <1>2 DEF WritesBefore, Opens
    <2>2. Sees(G, q, q.change.cell, "absent")
        BY <1>2 DEF Good, Admits, Opens
    <2>3. \A w \in WritesBefore(G, q, q.change.cell) : w.change.to # "absent"
        BY ChangeShapes DEF WritesBefore, Known
    <2>4. QED
        BY <2>1, <2>2, <2>3 DEF Sees
<1>3. QED
    BY <1>1, <1>2 DEF OpenedOnce

\* The openings of a log stand whatever is rejected.
LEMMA Admitted ==
    ASSUME NEW S, IsLog(S), NEW i, Begins(S, i),
           NEW X \in SUBSET S, i \in X, NEW t \in X,
           t.change.cell # t.change.scope => Sees(X, t, t.change.scope, "open"),
           Sees(X, t, t.change.cell, t.change.from)
    PROVE  Admits(X, t)
<1>1. \A u, v \in S : ~(Before(u, v) /\ Before(v, u))
    BY LogIsOrdered
<1>2. \A u \in S : ~Before(u, u)
    BY LogIsOrdered
<1>3. IsSystem(t) => \A u \in X : ~Before(u, t)
    BY <1>1, <1>2 DEF Begins
<1>4. ~IsSystem(t) => Before(i, t)
    BY DEF Begins
<1>5. QED
    BY <1>3, <1>4 DEF Admits, IsSystem

\* A log goes on admitting what still finds the writes it found.
LEMMA StillAdmitted ==
    ASSUME NEW S, IsLog(S), NEW i, Begins(S, i),
           NEW X \in SUBSET S, i \in X, NEW t \in X, NEW Y, Admits(Y, t),
           \A u : /\ u.change.cell = t.change.cell \/ u.change.cell = t.change.scope
                  /\ Before(u, t)
                  => (u \in X <=> u \in Y)
    PROVE  Admits(X, t)
<1>1. Sees(X, t, t.change.cell, t.change.from)
    <2>1. \A v : Sees(X, t, t.change.cell, v) <=> Sees(Y, t, t.change.cell, v)
        BY SameWritesShowTheSame
    <2>2. QED
        BY <2>1 DEF Admits
<1>2. t.change.cell # t.change.scope => Sees(X, t, t.change.scope, "open")
    <2>1. \A v : Sees(X, t, t.change.scope, v) <=> Sees(Y, t, t.change.scope, v)
        BY SameWritesShowTheSame
    <2>2. QED
        BY <2>1 DEF Admits
<1>3. QED
    BY <1>1, <1>2, Admitted

\* Who works in a session is admitted only if nothing closes it before.
LEMMA AdmittedIsOpen ==
    ASSUME NEW S, WellMade(S), NEW X \in SUBSET S, \A o \in S : Opens(o) => o \in X,
           NEW t \in S, t.change.scope \in Sessions, ~Opens(t), Admits(X, t)
    PROVE  NoneCloses(X, t)
<1>1. Sees(X, t, t.change.scope, "open")
    <2>1. CASE t.change.cell # t.change.scope
        BY <2>1 DEF Admits
    <2>2. CASE t.change.cell = t.change.scope
        <3>1. t.change.from = "open"
            BY <2>2, ChangeShapes DEF WellMade, Known
        <3>2. QED
            BY <2>2, <3>1 DEF Admits
    <2>3. QED
        BY <2>1, <2>2
<1>2. QED
    BY <1>1, OpenUnlessClosed

-----------------------------------------------------------------------------
(***************************************************************************)
(* The first transaction u that a log does not admit, and the smallest     *)
(* repairs SR in session s, when each of them rejects all of P, which      *)
(* takes part.                                                             *)
(***************************************************************************)
Fails(S, u) == u \in S /\ ~Admits(S, u) /\ \A t \in S : Before(t, u) => Admits(S, t)

Hidden(S, s, SR, P) ==
    /\ SR # {}
    /\ \A R \in SR : R \in SUBSET Candidates(S, s) /\ Good(S \ R) /\ P \subseteq R
    /\ \A R \in SR : \A x, y \in R : x # y =>
          /\ R = {x, y}
          /\ \A t \in Candidates(S, s) : ~Good(S \ {t})
          /\ \A a, b \in Candidates(S, s) : a # b /\ Good(S \ {a, b}) => {a, b} \in SR

\* A conflict about a closed session is never hidden: the closing and the first
\* that comes too late both take part, and rejecting the latter would do.
LEMMA LateIsReported ==
    ASSUME NEW S, WellMade(S), NEW i, Begins(S, i), NEW s \in Sessions, NEW SR,
           NEW u, Fails(S, u), ~NoneCloses(S, u),
           Hidden(S, s, SR,
                  { t \in Candidates(S, s) :
                      \/ Closes(t)
                      \/ \E z \in S : Closes(z) /\ z.change.scope = t.change.scope
                                      /\ Before(z, t) })
    PROVE  FALSE
<1> DEFINE cand == Candidates(S, s)
           P == { t \in cand :
                    \/ Closes(t)
                    \/ \E z \in S : Closes(z) /\ z.change.scope = t.change.scope
                                    /\ Before(z, t) }
<1>1. /\ IsLog(S) /\ u \in S
      /\ \A x, y \in S : ~(Before(x, y) /\ Before(y, x))
      /\ \A x, y, w \in S : Before(x, y) /\ Before(y, w) => Before(x, w)
      /\ \A x, y \in S : x = y \/ Before(x, y) \/ Before(y, x)
    BY LogIsOrdered DEF WellMade, Fails
<1>2. PICK z \in S : Closes(z) /\ z.change.scope = u.change.scope /\ Before(z, u)
    BY DEF NoneCloses
<1>3. /\ z.change.cell = z.change.scope /\ ~Opens(z) /\ z.change.scope \in Sessions
    BY <1>2, ChangeShapes DEF WellMade, Known, Closes
<1>4. \A o \in S : Opens(o) /\ o.change.scope = z.change.scope => Before(o, z)
    BY <1>2, <1>3 DEF WellMade, Founded, OpenedOnce
<1>5. ~Opens(u)
    BY <1>1, <1>2, <1>4
<1>6. PICK R \in SR : TRUE
    BY DEF Hidden
<1>7. R \in SUBSET cand /\ Good(S \ R) /\ P \subseteq R
    BY DEF Hidden
<1>8. \A o \in S : Opens(o) => o \in S \ R
    BY <1>7 DEF Candidates
<1>9. u.change.scope = s
    <2>1. SUFFICES ASSUME u.change.scope # s PROVE FALSE
        OBVIOUS
    <2>2. z \in S \ R /\ u \in S \ R
        BY <1>1, <1>2, <1>7, <2>1 DEF Candidates
    <2>3. Admits(S \ R, u)
        BY <1>7, <2>2 DEF Good
    <2>4. NoneCloses(S \ R, u)
        BY <1>1, <1>2, <1>3, <1>5, <1>8, <2>3, AdmittedIsOpen
    <2>5. QED
        BY <1>2, <2>2, <2>4 DEF NoneCloses
<1>10. u \in cand /\ z \in cand /\ u \in P /\ z \in P /\ u # z
    BY <1>1, <1>2, <1>3, <1>5, <1>9 DEF Candidates
<1>11. R = {z, u} /\ ~Good(S \ {u})
    BY <1>7, <1>10 DEF Hidden
<1>12. i \in S \ {u} /\ IsSystem(i)
    <2>1. i \in S /\ IsSystem(i) /\ Opens(i)
        BY ChangeShapes DEF Begins, WellMade, Known
    <2>2. QED
        BY <1>5, <2>1
<1>13. ASSUME NEW t \in S \ {u} PROVE Admits(S \ {u}, t)
    <2>1. CASE Before(t, u)
        <3>1. Admits(S, t)
            BY <2>1 DEF Fails
        <3>2. ~Before(u, t)
            BY <1>1, <2>1
        <3>3. QED
            BY <1>1, <1>12, <3>1, <3>2, StillAdmitted
    <2>2. CASE ~Before(t, u)
        <3>1. Before(u, t) /\ Before(z, t)
            BY <1>1, <1>2, <2>2
        <3>2. t.change.scope # s
            <4>1. SUFFICES ASSUME t.change.scope = s PROVE FALSE
                OBVIOUS
            <4>2. ~Opens(t)
                BY <1>1, <1>2, <1>4, <1>9, <3>1, <4>1
            <4>3. t \in P
                BY <1>2, <1>9, <3>1, <4>1, <4>2 DEF Candidates
            <4>4. t = z
                BY <1>7, <1>11, <4>3
            <4>5. QED
                BY <1>1, <3>1, <4>4
        <3>3. t \in S \ R
            BY <1>9, <1>2, <1>11, <3>2
        <3>4. Admits(S \ R, t)
            BY <1>7, <3>3 DEF Good
        <3>5. t.change.cell # s
            <4>1. t.change.cell \in Scopes => t.change.cell = t.change.scope
                BY ChangeShapes DEF WellMade, Known
            <4>2. QED
                BY <3>2, <4>1 DEF Scopes
        <3>6. z.change.cell = s
            BY <1>2, <1>3, <1>9
        <3>7. \A x : /\ x.change.cell = t.change.cell \/ x.change.cell = t.change.scope
                     /\ Before(x, t)
                     => (x \in S \ {u} <=> x \in S \ R)
            BY <1>11, <3>2, <3>5, <3>6
        <3>8. QED
            BY <1>1, <1>12, <3>4, <3>7, StillAdmitted
    <2>3. QED
        BY <2>1, <2>2
<1>14. QED
    BY <1>11, <1>13 DEF Good

\* A first failure that is not about a closed session is about the value of an
\* object.
LEMMA FailureIsAboutAnObject ==
    ASSUME NEW S, WellMade(S), NEW i, Begins(S, i), NEW u, Fails(S, u), NoneCloses(S, u)
    PROVE  /\ WritesObject(u) /\ u.change.scope \in Sessions /\ ~Opens(u)
           /\ ~Sees(S, u, u.change.cell, u.change.from)
<1>1. /\ IsLog(S) /\ u \in S /\ i \in S
      /\ \A x, y \in S : ~(Before(x, y) /\ Before(y, x))
      /\ \A x, y, w \in S : Before(x, y) /\ Before(y, w) => Before(x, w)
      /\ \A x \in S : ~Before(x, x)
    BY LogIsOrdered DEF WellMade, Fails, Begins
<1>2. ~Opens(u)
    <2>1. SUFFICES ASSUME Opens(u) PROVE FALSE
        OBVIOUS
    <2>2. /\ u.change.cell = u.change.scope /\ u.change.from = "absent"
          /\ u.change.cell \in Scopes
        <3>1. u.change.cell = u.change.scope /\ u.change.from = "absent"
            BY <2>1 DEF Opens
        <3>2. u.change.scope \in Scopes
            BY <1>1, <3>1, ChangeShapes DEF WellMade, Known, Scopes, IsSystem
        <3>3. QED
            BY <3>1, <3>2
    <2>3. WritesBefore(S, u, u.change.cell) = {}
        <3>1. SUFFICES ASSUME NEW w \in S, w.change.cell = u.change.cell, Before(w, u)
                       PROVE  FALSE
            BY DEF WritesBefore
        <3>2. /\ w.change.cell = w.change.scope /\ (Opens(w) \/ Closes(w))
              /\ Closes(w) => ~Opens(w)
            BY <2>2, <3>1, ChangeShapes DEF WellMade, Known
        <3>3. Opens(w) => w = u
            BY <1>1, <2>1, <2>2, <3>1, <3>2 DEF WellMade, OpenedOnce
        <3>4. CASE Closes(w)
            <4>1. w.change.scope \in Sessions /\ ~Opens(w)
                BY <3>2, <3>4 DEF Closes
            <4>2. PICK o \in S : Opens(o) /\ o.change.scope = w.change.scope /\ Before(o, w)
                BY <4>1 DEF WellMade, Founded
            <4>3. o = u
                BY <1>1, <2>1, <2>2, <3>1, <3>2, <4>2 DEF WellMade, OpenedOnce
            <4>4. QED
                BY <1>1, <3>1, <4>2, <4>3
        <3>5. QED
            BY <1>1, <3>1, <3>2, <3>3, <3>4
    <2>4. Sees(S, u, u.change.cell, u.change.from)
        BY <2>2, <2>3 DEF Sees
    <2>5. Admits(S, u)
        BY <1>1, <2>2, <2>4, Admitted
    <2>6. QED
        BY <2>5 DEF Fails
<1>3. u.change.scope \in Sessions
    BY <1>1, <1>2, ChangeShapes DEF WellMade, Known
<1>4. Sees(S, u, u.change.scope, "open")
    BY <1>1, <1>2, <1>3, OpenUnlessClosed
<1>5. ~Sees(S, u, u.change.cell, u.change.from)
    BY <1>1, <1>4, Admitted DEF Fails
<1>6. u.change.cell # u.change.scope
    <2>1. u.change.cell = u.change.scope => u.change.from = "open"
        BY <1>1, <1>2, ChangeShapes DEF WellMade, Known
    <2>2. QED
        BY <1>4, <1>5, <2>1
<1>7. QED
    BY <1>1, <1>2, <1>3, <1>5, <1>6, ChangeShapes DEF WellMade, Known

\* When all that write the object are rejected by each of the smallest repairs,
\* none of them created it.
LEMMA HiddenIsOrphan ==
    ASSUME NEW S, WellMade(S), SessionsDisjoint(S), NEW i, Begins(S, i),
           NEW s \in Sessions, NEW SR, NEW u, Fails(S, u), NoneCloses(S, u),
           Hidden(S, s, SR, { t \in Candidates(S, s) : t.change.cell = u.change.cell })
    PROVE  WritesObject(u) /\ \A v \in S : v.change.cell = u.change.cell => v.change.from # "absent"
<1> DEFINE cand == Candidates(S, s)
           P == { t \in cand : t.change.cell = u.change.cell }
           c == u.change.cell
<1>1. /\ IsLog(S) /\ u \in S /\ i \in S
      /\ \A x, y \in S : ~(Before(x, y) /\ Before(y, x))
      /\ \A x, y, w \in S : Before(x, y) /\ Before(y, w) => Before(x, w)
      /\ \A x, y \in S : x = y \/ Before(x, y) \/ Before(y, x)
      /\ \A x \in S : ~Before(x, x)
    BY LogIsOrdered DEF WellMade, Fails, Begins
<1>2. /\ WritesObject(u) /\ u.change.scope \in Sessions /\ ~Opens(u)
      /\ ~Sees(S, u, c, u.change.from)
    BY FailureIsAboutAnObject
<1>3. PICK R \in SR : TRUE
    BY DEF Hidden
<1>4. R \in SUBSET cand /\ Good(S \ R) /\ P \subseteq R
    BY DEF Hidden
<1>5. \A o \in S : Opens(o) => o \in S \ R
    BY <1>4 DEF Candidates
<1>6. \A t \in S : t.change.cell = c => t.change.scope = u.change.scope /\ ~Opens(t)
    BY <1>1, <1>2, ChangeShapes DEF SessionsDisjoint, WritesObject, WellMade, Known
<1>7. u.change.scope = s
    <2>1. SUFFICES ASSUME u.change.scope # s PROVE FALSE
        OBVIOUS
    <2>2. \A t \in S : t.change.cell = c => t \in S \ R
        BY <1>4, <1>6, <2>1 DEF Candidates
    <2>3. Sees(S \ R, u, c, u.change.from)
        BY <1>1, <1>4, <2>2 DEF Good, Admits
    <2>4. \A x : x.change.cell = c /\ Before(x, u) => (x \in S \ R <=> x \in S)
        BY <2>2
    <2>5. Sees(S, u, c, u.change.from)
        BY <2>3, <2>4, SameWritesShowTheSame
    <2>6. QED
        BY <1>2, <2>5
<1>8. \A t \in S : t.change.cell = c => t \in cand /\ t \in P
    BY <1>6, <1>7 DEF Candidates
<1> SUFFICES ASSUME NEW v \in S, v.change.cell = c, v.change.from = "absent" PROVE FALSE
    BY <1>2
<1>9. \E w \in S : w.change.cell = c /\ w # u
    <2>1. SUFFICES ASSUME \A w \in S : w.change.cell = c => w = u PROVE FALSE
        OBVIOUS
    <2>2. WritesBefore(S, u, c) = {}
        BY <1>1, <2>1 DEF WritesBefore
    <2>3. u.change.from = "absent"
        BY <2>1
    <2>4. QED
        BY <1>2, <2>2, <2>3 DEF Sees
<1>10. PICK w \in S : w.change.cell = c /\ w # u
    BY <1>9
<1>11. /\ R = {u, w} /\ u \in cand /\ w \in cand /\ u \in P /\ w \in P
       /\ \A t \in cand : ~Good(S \ {t})
       /\ \A a, b \in cand : a # b /\ Good(S \ {a, b}) => {a, b} \in SR
    <2>1. u \in R /\ w \in R /\ u \in cand /\ w \in cand /\ u \in P /\ w \in P
        BY <1>1, <1>4, <1>8, <1>10
    <2> HIDE DEF P
    <2>2. QED
        BY <1>10, <2>1 DEF Hidden
<1>12. \A t \in S : t.change.cell = c => t = u \/ t = w
    BY <1>4, <1>8, <1>11
<1>13. ~Opens(w) /\ w.change.scope = s /\ w.change.cell # w.change.scope
    BY <1>2, <1>6, <1>7, <1>10, ChangeShapes DEF WellMade, Known
<1>14. IsSystem(i) /\ i \in S /\ Opens(i)
    BY ChangeShapes DEF Begins, WellMade, Known
<1>15. ASSUME NEW t \in S, t # u, t # w
       PROVE  t.change.cell # c /\ t.change.scope # c
    <2>1. t.change.cell # c
        BY <1>12, <1>15
    <2>2. t.change.scope \in Scopes
        BY ChangeShapes DEF WellMade, Known, Scopes, IsSystem
    <2>3. c \notin Scopes
        BY <1>2, EventLogAssumption DEF WritesObject, Scopes
    <2>4. QED
        BY <2>1, <2>2, <2>3
\* It would do to reject u, if w could be left.
<1>16. ~Admits(S \ {u}, w)
    <2>1. SUFFICES ASSUME Admits(S \ {u}, w) PROVE FALSE
        OBVIOUS
    <2>2. ASSUME NEW t \in S \ {u} PROVE Admits(S \ {u}, t)
        <3>1. CASE t = w
            BY <2>1, <3>1
        <3>2. CASE t # w
            <4>1. Admits(S \ R, t)
                BY <1>4, <1>11, <3>2 DEF Good
            <4>2. \A x : /\ x.change.cell = t.change.cell \/ x.change.cell = t.change.scope
                         /\ Before(x, t)
                         => (x \in S \ {u} <=> x \in S \ R)
                BY <1>10, <1>11, <1>15, <3>2
            <4>3. i \in S \ {u}
                BY <1>2, <1>14
            <4>4. QED
                BY <1>1, <4>1, <4>2, <4>3, StillAdmitted
        <3>3. QED
            BY <3>1, <3>2
    <2>3. Good(S \ {u})
        BY <2>2 DEF Good
    <2>4. QED
        BY <1>11, <2>3
\* So w comes after u and creates the object, too late.
<1>17. Before(u, w)
    <2>1. SUFFICES ASSUME Before(w, u) PROVE FALSE
        BY <1>1, <1>10
    <2>2. Admits(S, w) /\ ~Before(u, w)
        BY <1>1, <2>1 DEF Fails
    <2>3. i \in S \ {u} /\ w \in S \ {u}
        BY <1>2, <1>10, <1>14
    <2>4. Admits(S \ {u}, w)
        BY <1>1, <2>2, <2>3, StillAdmitted
    <2>5. QED
        BY <1>16, <2>4
<1>18. v = w
    <2>1. SUFFICES ASSUME v = u PROVE FALSE
        BY <1>12
    <2>2. WritesBefore(S, u, c) = {}
        BY <1>1, <1>12, <1>17 DEF WritesBefore
    <2>3. QED
        BY <1>2, <2>1, <2>2 DEF Sees
<1>19. ASSUME NEW X \in SUBSET S, u \notin X PROVE Sees(X, w, c, w.change.from)
    <2>1. WritesBefore(X, w, c) = {}
        BY <1>1, <1>12, <1>19 DEF WritesBefore
    <2>2. QED
        BY <1>18, <2>1 DEF Sees
<1>20. PICK z \in S \ {u} : Closes(z) /\ z.change.scope = s /\ Before(z, w)
    <2>1. SUFFICES ASSUME NoneCloses(S \ {u}, w) PROVE FALSE
        BY <1>13 DEF NoneCloses
    <2>2. \A o \in S : Opens(o) => o \in S \ {u}
        BY <1>2
    <2>3. Sees(S \ {u}, w, s, "open")
        BY <1>13, <2>1, <2>2, OpenUnlessClosed
    <2>4. Sees(S \ {u}, w, c, w.change.from)
        BY <1>19
    <2>5. i \in S \ {u} /\ w \in S \ {u}
        BY <1>2, <1>10, <1>14
    <2>6. QED
        BY <1>1, <1>10, <1>13, <1>16, <2>3, <2>4, <2>5, Admitted
<1>21. /\ z \in cand /\ z # u /\ z # w /\ z.change.cell = s /\ ~Opens(z)
    <2>1. /\ ~Opens(z) /\ z.change.cell = s
        BY <1>20, ChangeShapes DEF WellMade, Known
    <2>2. QED
        BY <1>1, <1>20, <2>1 DEF Candidates
\* Rejecting u and that closing would do as well, and leaves w.
<1>22. ~Good(S \ {u, z})
    <2>1. SUFFICES ASSUME Good(S \ {u, z}) PROVE FALSE
        OBVIOUS
    <2>2. {u, z} \in SR
        BY <1>11, <1>21, <2>1
    <2>3. P \subseteq {u, z}
        BY <2>2 DEF Hidden
    <2>4. QED
        BY <1>10, <1>11, <1>21, <2>3
<1>23. ASSUME NEW t \in S \ R, t.change.scope = s
       PROVE  ~Before(z, t)
    <2>1. z \in S \ R
        BY <1>11, <1>20, <1>21
    <2>2. CASE Opens(t)
        <3>1. Before(t, z)
            BY <1>20, <1>21, <1>23, <2>2 DEF WellMade, Founded, OpenedOnce
        <3>2. QED
            BY <1>1, <1>20, <3>1
    <2>3. CASE ~Opens(t)
        <3>1. Admits(S \ R, t)
            BY <1>4 DEF Good
        <3>2. NoneCloses(S \ R, t)
            BY <1>5, <1>23, <2>3, <3>1, AdmittedIsOpen
        <3>3. QED
            BY <1>20, <1>23, <2>1, <3>2 DEF NoneCloses
    <2>4. QED
        BY <2>2, <2>3
<1> DEFINE Y == S \ {u, z}
<1>24. i \in Y /\ w \in Y /\ \A o \in S : Opens(o) => o \in Y
    BY <1>2, <1>10, <1>14, <1>21
<1>25. Admits(Y, w)
    <2>1. NoneCloses(Y, w)
        <3>1. SUFFICES ASSUME NEW y \in Y, Closes(y), y.change.scope = s, Before(y, w)
                       PROVE  FALSE
            BY <1>13 DEF NoneCloses
        <3>2. y \in S /\ y # z /\ y.change.cell = s /\ ~Opens(y) /\ y # u /\ y # w
            BY <1>1, <3>1, ChangeShapes DEF WellMade, Known
        <3>3. y \in S \ R /\ z \in S \ R
            BY <1>11, <1>20, <1>21, <3>2
        <3>4. ~Before(z, y)
            BY <1>23, <3>1, <3>3
        <3>5. Before(y, z)
            BY <1>1, <1>20, <3>2, <3>4
        <3>6. Admits(S \ R, z)
            BY <1>4, <3>3 DEF Good
        <3>7. NoneCloses(S \ R, z)
            BY <1>5, <1>20, <1>21, <3>3, <3>6, AdmittedIsOpen
        <3>8. QED
            BY <1>20, <3>1, <3>3, <3>5, <3>7 DEF NoneCloses
    <2>2. Sees(Y, w, s, "open")
        BY <1>13, <1>24, <2>1, OpenUnlessClosed
    <2>3. Sees(Y, w, c, w.change.from)
        BY <1>19
    <2>4. QED
        BY <1>1, <1>10, <1>13, <1>24, <2>2, <2>3, Admitted
<1>26. ASSUME NEW t \in Y, t # w PROVE Admits(Y, t)
    <2>1. t \in S \ R /\ t # u
        BY <1>11, <1>26
    <2>2. Admits(S \ R, t)
        BY <1>4, <2>1 DEF Good
    <2>3. t.change.cell # c /\ t.change.scope # c
        BY <1>15, <1>26, <2>1
    <2>4. t.change.cell = s => t.change.scope = s
        BY ChangeShapes DEF WellMade, Known, Scopes
    <2>5. t.change.cell = s \/ t.change.scope = s => ~Before(z, t)
        BY <1>23, <2>1, <2>4
    <2>6. ASSUME NEW x, x.change.cell = t.change.cell \/ x.change.cell = t.change.scope,
                 Before(x, t)
          PROVE  x \in Y <=> x \in S \ R
        <3>1. x # w /\ x # u
            BY <1>10, <2>3, <2>6
        <3>2. x # z
            BY <1>21, <2>5, <2>6
        <3>3. QED
            BY <1>11, <3>1, <3>2
    <2> HIDE DEF Y
    <2>7. Y \in SUBSET S
        BY DEF Y
    <2>8. QED
        BY <1>1, <1>24, <2>2, <2>6, <2>7, StillAdmitted
<1>27. Good(Y)
    BY <1>25, <1>26 DEF Good
<1>28. QED
    BY <1>22, <1>27

-----------------------------------------------------------------------------
\* The log names a closed session just when the first transaction it does not
\* admit comes after a closing of its session.
LEMMA LifecycleIsLate ==
    ASSUME NEW S, WellMade(S), NEW u \in S
    PROVE  Sees(S, u, u.change.scope, "closed") <=> ~NoneCloses(S, u)
<1>1. /\ IsLog(S) /\ Known(S)
      /\ \A x, y \in S : ~(Before(x, y) /\ Before(y, x))
    BY LogIsOrdered DEF WellMade
<1>2. CASE u.change.scope \in Sessions /\ ~Opens(u)
    BY <1>2, OpenUnlessClosed
<1>3. CASE Opens(u)
    <2>1. ASSUME NEW z \in S, Closes(z), z.change.scope = u.change.scope, Before(z, u)
          PROVE  FALSE
        <3>1. z.change.scope \in Sessions /\ ~Opens(z)
            BY <1>1, <2>1, ChangeShapes DEF Known, Closes
        <3>2. PICK o \in S : Opens(o) /\ o.change.scope = z.change.scope /\ Before(o, z)
            BY <3>1 DEF WellMade, Founded
        <3>3. o = u
            BY <1>3, <2>1, <3>2 DEF WellMade, OpenedOnce
        <3>4. QED
            BY <1>1, <2>1, <3>2, <3>3
    <2>2. NoneCloses(S, u)
        BY <2>1 DEF NoneCloses
    <2>3. ASSUME Sees(S, u, u.change.scope, "closed") PROVE FALSE
        <3>1. PICK w \in S : /\ w.change.cell = u.change.scope /\ Before(w, u)
                             /\ w.change.to = "closed"
            BY <2>3 DEF Sees, WritesBefore
        <3>2. u.change.scope \in Scopes
            BY <1>1, ChangeShapes DEF Known, Scopes, IsSystem
        <3>3. w.change.cell = w.change.scope /\ (Opens(w) => w.change.to = "open")
            BY <1>1, <3>1, <3>2, ChangeShapes DEF Known
        <3>4. Closes(w)
            BY <1>1, <3>1, <3>3, ChangeShapes DEF Known
        <3>5. QED
            BY <2>1, <3>1, <3>3, <3>4
    <2>4. QED
        BY <2>2, <2>3
<1>4. QED
    BY <1>1, <1>2, <1>3, ChangeShapes DEF Known

\* When rejections in one session mend a log and nothing is reported, although
\* the message tells what the conflict is about, some transaction builds on an object whose creation the log lacks.
LEMMA UnreportedIsOrphan ==
    ASSUME NEW S, IsLog(S), Known(S), Founded(S), SessionsDisjoint(S),
           \E i \in S : IsSystem(i),
           NEW C, ~IsValid(S, C), ConflictSessions(S, C) = {},
           NEW s \in Sessions, SmallestRepairs(S, C, s) # {},
           ConflictIsNamed(S)
    PROVE  \E u \in S : /\ WritesObject(u)
                        /\ \A v \in S : v.change.cell = u.change.cell
                                            => v.change.from # "absent"
<1> DEFINE SR == SmallestRepairs(S, C, s)
           cand == Candidates(S, s)
           P == Participants(S, cand)
           u == Replay(S)[Failure(Replay(S))]
<1>1. PICK R \in SR : TRUE
    OBVIOUS
<1>2. /\ \A Q \in SR : Q \in SUBSET cand /\ IsValid(S \ Q, C)
      /\ \A Q \in SR : \A x, y \in Q : x # y =>
            /\ Q = {x, y}
            /\ \A t \in cand : ~IsValid(S \ {t}, C)
            /\ \A a, b \in cand : a # b /\ IsValid(S \ {a, b}, C) => {a, b} \in SR
    BY RepairShapes DEF IsLog
<1>3. /\ IsValid(S, C) <=> Good(S)
      /\ \A Q \in SUBSET cand : IsValid(S \ Q, C) <=> Good(S \ Q)
    BY <1>1, <1>2, RejectionKeepsControls
<1>4. Good(S \ R) /\ S \ R \in SUBSET S /\ \A o \in S : Opens(o) => o \in S \ R
    BY <1>1, <1>2, <1>3 DEF Candidates
<1>5. PICK i \in S : Begins(S, i)
    BY <1>4, GoodBegins
<1>6. WellMade(S)
    BY <1>4, GoodOpensOnce DEF WellMade
<1>7. ~ValidHistory(Replay(S))
    BY <1>3, ValidIsAdmitted DEF Good
<1>8. /\ Fails(S, u)
      /\ IsLifecycleConflict(Replay(S)) <=> Sees(S, u, u.change.scope, "closed")
    BY <1>7, FirstNotAdmitted DEF Fails
<1>9. \A Q \in SR : P \subseteq Q
    BY NothingReported, NoOfferRejectsAll
<1>10. IsLifecycleConflict(Replay(S)) => P = { t \in cand :
           \/ Closes(t)
           \/ \E z \in S : Closes(z) /\ z.change.scope = t.change.scope /\ Before(z, t) }
    BY DEF Participants
<1>11. ~IsLifecycleConflict(Replay(S)) => P = { t \in cand : t.change.cell = u.change.cell }
    BY DEF Participants, ConflictIsNamed
<1> HIDE DEF SR, cand, P, u
<1>12. \A t \in cand : {t} \in SUBSET cand
    OBVIOUS
<1>13. \A a, b \in cand : {a, b} \in SUBSET cand
    OBVIOUS
<1>14. Hidden(S, s, SR, P)
    BY <1>1, <1>2, <1>3, <1>9, <1>12, <1>13, Zenon DEF Hidden, cand
<1>15. IsLifecycleConflict(Replay(S)) <=> ~NoneCloses(S, u)
    BY <1>6, <1>8, LifecycleIsLate DEF Fails
<1>16. CASE IsLifecycleConflict(Replay(S))
    <2>1. ~NoneCloses(S, u) /\ Fails(S, u)
        BY <1>8, <1>15, <1>16
    <2>2. Hidden(S, s, SR, { t \in Candidates(S, s) :
              \/ Closes(t)
              \/ \E z \in S : Closes(z) /\ z.change.scope = t.change.scope /\ Before(z, t) })
        BY <1>10, <1>14, <1>16 DEF cand
    <2>3. QED
        BY <1>5, <1>6, <2>1, <2>2, LateIsReported
<1>17. CASE ~IsLifecycleConflict(Replay(S))
    <2>1. NoneCloses(S, u) /\ Fails(S, u) /\ u \in S
        BY <1>8, <1>15, <1>17 DEF Fails
    <2>2. Hidden(S, s, SR, { t \in Candidates(S, s) : t.change.cell = u.change.cell })
        BY <1>11, <1>14, <1>17 DEF cand
    <2>3. /\ WritesObject(u)
          /\ \A v \in S : v.change.cell = u.change.cell => v.change.from # "absent"
        BY <1>5, <1>6, <2>1, <2>2, HiddenIsOrphan
    <2>4. QED
        BY <2>1, <2>3
<1>18. QED
    BY <1>16, <1>17

-----------------------------------------------------------------------------
(***************************************************************************)
(* What a branch writes rests on what it has.  A branch holds, of every    *)
(* transaction, what its author had found in the projections: the opening  *)
(* of the session, earlier, and a creation of the object; a merge brings   *)
(* all of it along.  Rejections can take creations away and never an       *)
(* opening.                                                                *)
(***************************************************************************)

\* An object is created by whoever, in whatever order the clocks put it.
Created(S) ==
    \A t \in S : WritesObject(t) =>
        \E v \in S : v.change.cell = t.change.cell /\ v.change.from = "absent"

WellCaused(S) ==
    Known(S) /\ Founded(S) /\ Created(S) /\ \E i \in S : IsSystem(i)

CausalInv ==
    \A b \in Branches : WellCaused(txs[b]) /\ Range(view[b]) \subseteq txs[b]

\* A log that is not empty has a first transaction.
LEMMA LogHasFirst ==
    ASSUME NEW S, IsLog(S), S # {} PROVE \E w \in S : \A u \in S : u = w \/ Before(w, u)
<1> DEFINE h == Replay(S)
<1>1. h \in Seq(Tx) /\ Range(h) = S /\ Sorted(h)
    BY ReplayIsCanonical DEF IsLog
<1> HIDE DEF h
<1>2. DOMAIN h = 1..Len(h) /\ Len(h) \in Nat
    BY <1>1, LenProperties
<1>3. PICK k \in 1..Len(h) : TRUE
    BY <1>1, <1>2 DEF Range
<1>4. 1 \in 1..Len(h)
    BY <1>2, <1>3
<1>5. h[1] \in S
    BY <1>1, <1>2, <1>4 DEF Range
<1>6. ASSUME NEW j \in 1..Len(h) PROVE h[j] = h[1] \/ Before(h[1], h[j])
    <2>1. j = 1 \/ 1 < j
        BY <1>2
    <2>2. QED
        BY <1>1, <1>4, <2>1, PlaceIsOrder
<1>7. \A u \in S : u = h[1] \/ Before(h[1], u)
    BY <1>1, <1>2, <1>6 DEF Range
<1>8. QED
    BY <1>5, <1>7

\* What a valid log holds rests on what it holds.
LEMMA ValidIsCaused ==
    ASSUME NEW S, IsLog(S), S # {}, Known(S), Good(S)
    PROVE  WellCaused(S)
<1>1. \A x, y \in S : ~(Before(x, y) /\ Before(y, x))
    BY LogIsOrdered
<1>2. \A x \in S : ~Before(x, x)
    BY LogIsOrdered
<1>3. \E i \in S : IsSystem(i)
    <2>1. PICK i \in S : \A u \in S : u = i \/ Before(i, u)
        BY LogHasFirst
    <2>2. \A u \in S : ~Before(u, i)
        BY <1>1, <1>2, <2>1
    <2>3. QED
        BY <2>2 DEF Good, Admits, IsSystem
<1>4. Founded(S)
    <2>1. SUFFICES ASSUME NEW t \in S, t.change.scope \in Sessions, ~Opens(t)
                   PROVE  \E o \in S : /\ Opens(o) /\ o.change.scope = t.change.scope
                                       /\ Before(o, t)
        BY DEF Founded
    <2>2. Sees(S, t, t.change.scope, "open")
        <3>1. t.change.cell = t.change.scope => t.change.from = "open"
            BY <2>1, ChangeShapes DEF Known
        <3>2. QED
            BY <3>1 DEF Good, Admits
    <2>3. PICK w \in S : /\ w.change.cell = t.change.scope /\ Before(w, t)
                         /\ w.change.to = "open"
        BY <2>2 DEF Sees, WritesBefore
    <2>4. w.change.cell \in Scopes
        BY <2>1, <2>3 DEF Scopes
    <2>5. w.change.scope = t.change.scope /\ Opens(w)
        BY <2>3, <2>4, ChangeShapes DEF Known
    <2>6. QED
        BY <2>3, <2>5
<1>5. Created(S)
    <2>1. SUFFICES ASSUME NEW t \in S
                   PROVE  \E v \in S : /\ v.change.cell = t.change.cell
                                       /\ v.change.from = "absent"
        BY DEF Created
    <2> DEFINE W == { x \in S : x.change.cell = t.change.cell }
    <2>2. W \in SUBSET S /\ t \in W
        OBVIOUS
    <2>3. IsLog(W) /\ W # {}
        BY <2>2, PartOfLog
    <2>4. PICK v \in W : \A u \in W : u = v \/ Before(v, u)
        BY <2>3, LogHasFirst
    <2>5. v \in S /\ v.change.cell = t.change.cell
        OBVIOUS
    <2>6. WritesBefore(S, v, v.change.cell) = {}
        BY <1>1, <1>2, <2>4, <2>5 DEF WritesBefore
    <2>7. v.change.from = "absent"
        BY <2>5, <2>6 DEF Good, Admits, Sees
    <2>8. QED
        BY <2>5, <2>7
<1>6. QED
    BY <1>3, <1>4, <1>5 DEF WellCaused

\* A cell has a value because a transaction of the history wrote it.
LEMMA ValueWasWritten ==
    ASSUME NEW h \in Seq(Tx), NEW c, Value(h, c) # "absent"
    PROVE  \E w \in Range(h) : w.change.cell = c /\ w.change.to = Value(h, c)
<1> DEFINE writes == { i \in DOMAIN h : h[i].change.cell = c }
<1>1. DOMAIN h = 1..Len(h) /\ Len(h) \in Nat
    BY LenProperties
<1>2. writes # {} /\ Value(h, c) = h[CHOOSE i \in writes : \A j \in writes : j <= i].change.to
    BY DEF Value
<1>3. writes \in SUBSET Nat /\ \A j \in writes : j <= Len(h)
    BY <1>1
<1>4. \A i \in writes : h[i] \in Range(h) /\ h[i].change.cell = c
    BY DEF Range
<1> HIDE DEF writes
<1>5. \E i \in writes : \A j \in writes : j <= i
    BY <1>1, <1>2, <1>3, BoundedHasGreatest
<1>6. (CHOOSE i \in writes : \A j \in writes : j <= i) \in writes
    BY <1>5
<1>7. QED
    BY <1>2, <1>4, <1>6

-----------------------------------------------------------------------------
\* The transactions of a branch are a log.
LEMMA BranchIsLog == ASSUME ViewInv, NEW b \in Branches PROVE IsLog(txs[b])
<1>1. txs[b] \in SUBSET Tx /\ IsFiniteSet(txs[b])
    BY DEF ViewInv, BTypeOK, LogsAreFinite
<1>2. \A t \in txs[b] : t \in Records
    BY DEF Records
<1>3. \A t, u \in Records : t.id = u.id => t = u
    BY DEF ViewInv, BTypeOK, Records
<1>4. QED
    BY <1>1, <1>2, <1>3 DEF IsLog, UniqueIds

\* A valid log rests on itself.
LEMMA InitCaused == ASSUME BInit PROVE CausalInv
<1>1. PICK base \in Bases :
          /\ txs = [b \in Branches |-> base]
          /\ view = [b \in Branches |-> Replay(base)]
    BY DEF BInit
<1>2. /\ IsLog(base) /\ base # {} /\ ValidHistory(Replay(base))
      /\ Range(Replay(base)) = base
    BY BaseIsHistory DEF IsLog
<1>3. Good(base)
    BY <1>2, ValidIsAdmitted DEF Good
<1>4. Known(base)
    BY MergeConflictsAssumption DEF Known
<1>5. WellCaused(base)
    BY <1>2, <1>3, <1>4, ValidIsCaused
<1>6. QED
    BY <1>1, <1>2, <1>5 DEF CausalInv

\* A commit rests on what the projections of its branch show.
LEMMA CommitKeepsCaused ==
    ASSUME ViewInv, CausalInv, NEW b \in Branches, Commit(b) PROVE CausalInv'
<1>1. PICK c \in { d \in Changes : PassesIncremental(view[b], d) },
           i \in NewIds, now \in 0..MaxTime :
          LET ts == IF now > last[b] THEN now ELSE last[b] + 1
              t  == [id |-> i, ts |-> ts, change |-> c]
          IN  /\ ts <= MaxTime
              /\ txs' = [txs EXCEPT ![b] = @ \cup {t}]
              /\ view' = [view EXCEPT ![b] = Append(@, t)]
              /\ last' = [last EXCEPT ![b] = ts]
              /\ UNCHANGED controls
    BY DEF Commit
<1> DEFINE ts == IF now > last[b] THEN now ELSE last[b] + 1
           t  == [id |-> i, ts |-> ts, change |-> c]
           h  == view[b]
           S  == txs[b]
           T  == S \cup {t}
<1>2. /\ txs' = [txs EXCEPT ![b] = @ \cup {t}]
      /\ view' = [view EXCEPT ![b] = Append(@, t)]
    BY <1>1
<1>3. /\ h \in Seq(Tx) /\ \A u \in Range(h) : u.ts <= last[b]
      /\ last[b] \in 0..MaxTime /\ now \in 0..MaxTime
    BY <1>1 DEF ViewInv, BTypeOK, ViewsAreHistories, IsHistory
<1>4. ts \in Int /\ ts > last[b]
    BY <1>3
<1>5. c \in Changes /\ PassesIncremental(h, c) /\ i \in Ids
    BY <1>1 DEF NewIds
<1>6. t.ts = ts /\ t.change = c
    OBVIOUS
<1>7. t \in Tx
    <2>1. c \in Change
        BY <1>5 DEF Changes, Change, ScopeChange, Scopes, Cells, Values
    <2>2. ts \in 0..MaxTime
        BY <1>1, <1>3, EventLogAssumption
    <2>3. QED
        BY <1>5, <2>1, <2>2 DEF Tx
<1>8. WellCaused(S) /\ Range(h) \subseteq S
    BY DEF CausalInv
<1>9. \A a \in Branches :
          /\ txs'[a] = IF a = b THEN T ELSE txs[a]
          /\ view'[a] = IF a = b THEN Append(h, t) ELSE view[a]
    BY <1>2 DEF ViewInv, BTypeOK
<1> HIDE DEF t, ts, h, S, T
<1>10. t.change \in Changes \cup {Initialise}
    BY <1>5, <1>6
<1>11. Range(Append(h, t)) \subseteq T
    <2>1. /\ Len(Append(h, t)) = Len(h) + 1 /\ Append(h, t) \in Seq(Tx)
          /\ \A k \in 1..Len(h) : Append(h, t)[k] = h[k]
          /\ Append(h, t)[Len(h) + 1] = t
        BY <1>3, <1>7, AppendProperties
    <2>2. /\ Len(h) \in Nat /\ DOMAIN h = 1..Len(h)
          /\ DOMAIN Append(h, t) = 1..Len(h) + 1
        BY <1>3, <2>1, LenProperties
    <2>3. Range(Append(h, t)) \subseteq Range(h) \cup {t}
        BY <2>1, <2>2 DEF Range
    <2>4. QED
        BY <1>8, <2>3 DEF T
<1>12. Known(T)
    BY <1>8, <1>10 DEF WellCaused, Known, T
<1>13. Founded(T)
    <2>1. ASSUME t.change.scope \in Sessions, ~Opens(t)
          PROVE  \E o \in S : Opens(o) /\ o.change.scope = t.change.scope /\ Before(o, t)
        <3>1. Value(h, c.scope) = "open"
            <4>1. ~(c.cell \in Sessions /\ c.from = "absent")
                BY <1>6, <1>10, <2>1, ChangeShapes DEF Scopes, Opens
            <4>2. QED
                BY <1>5, <4>1 DEF PassesIncremental
        <3>2. PICK w \in Range(h) : w.change.cell = c.scope /\ w.change.to = "open"
            BY <1>3, <3>1, ValueWasWritten
        <3>3. w \in S /\ w \in Tx /\ w.ts <= last[b] /\ w.change.cell \in Sessions
            BY <1>3, <1>6, <1>8, <2>1, <3>2, LenProperties, ElementOfSeq DEF Range
        <3>4. Opens(w) /\ w.change.scope = c.scope
            BY <1>8, <3>2, <3>3, ChangeShapes DEF WellCaused, Known, Scopes
        <3>5. Before(w, t)
            <4>1. w.ts \in Int /\ w.ts < t.ts
                BY <1>3, <1>4, <1>6, <3>3 DEF Tx
            <4>2. w.change.cell # System /\ t.change.cell # System
                BY <1>5, <1>6, <3>3, EventLogAssumption DEF PassesIncremental
            <4>3. QED
                BY <4>1, <4>2 DEF Before, Rank
        <3>6. QED
            BY <1>6, <3>3, <3>4, <3>5
    <2>2. Founded(S)
        BY <1>8 DEF WellCaused
    <2>3. QED
        BY <2>1, <2>2 DEF Founded, T
<1>14. Created(T)
    <2>1. ASSUME WritesObject(t)
          PROVE  \E v \in T : v.change.cell = t.change.cell /\ v.change.from = "absent"
        <3>1. CASE c.from = "absent"
            BY <1>6, <3>1 DEF T
        <3>2. CASE c.from # "absent"
            <4>1. Value(h, c.cell) = c.from
                BY <1>5, <1>6, <2>1, EventLogAssumption DEF PassesIncremental, WritesObject
            <4>2. PICK w \in Range(h) : w.change.cell = c.cell
                BY <1>3, <3>2, <4>1, ValueWasWritten
            <4>3. w \in S /\ WritesObject(w)
                BY <1>6, <1>8, <2>1, <4>2 DEF WritesObject
            <4>4. PICK v \in S : v.change.cell = w.change.cell /\ v.change.from = "absent"
                BY <1>8, <4>3 DEF WellCaused, Created
            <4>5. QED
                BY <1>6, <4>2, <4>4 DEF T
        <3>3. QED
            BY <3>1, <3>2
    <2>2. Created(S)
        BY <1>8 DEF WellCaused
    <2>3. QED
        BY <2>1, <2>2 DEF Created, T
<1>15. WellCaused(T)
    BY <1>8, <1>12, <1>13, <1>14 DEF WellCaused, T
<1>16. \A a \in Branches : WellCaused(txs'[a]) /\ Range(view'[a]) \subseteq txs'[a]
    BY <1>9, <1>11, <1>15 DEF CausalInv
<1>17. QED
    BY <1>16 DEF CausalInv

\* A merge brings along what the transactions of the other branch rest on.
LEMMA MergeKeepsCaused ==
    ASSUME ViewInv, CausalInv, NEW b \in Branches, NEW other \in Branches,
           Merge(b, other)
    PROVE  CausalInv'
<1>1. view' = view /\ \A a \in Branches :
          txs'[a] = IF a = b THEN txs[b] \cup txs[other] ELSE txs[a]
    BY DEF Merge, ViewInv, BTypeOK
<1>2. \A a \in Branches : WellCaused(txs[a]) /\ Range(view[a]) \subseteq txs[a]
    BY DEF CausalInv
<1>3. WellCaused(txs[b] \cup txs[other])
    <2>1. WellCaused(txs[b]) /\ WellCaused(txs[other])
        BY <1>2
    <2> DEFINE X == txs[b]
               Y == txs[other]
    <2> HIDE DEF X, Y
    <2>2. Known(X \cup Y)
        BY <2>1 DEF WellCaused, Known, X, Y
    <2>3. Founded(X) /\ Founded(Y) /\ Created(X) /\ Created(Y) /\ \E i \in X : IsSystem(i)
        BY <2>1 DEF WellCaused, X, Y
    <2>4. Founded(X \cup Y)
        BY <2>3 DEF Founded
    <2>5. Created(X \cup Y)
        BY <2>3 DEF Created
    <2>6. QED
        BY <2>2, <2>3, <2>4, <2>5 DEF WellCaused, X, Y
<1>4. \A a \in Branches : WellCaused(txs'[a]) /\ Range(view'[a]) \subseteq txs'[a]
    BY <1>1, <1>2, <1>3
<1>5. QED
    BY <1>4 DEF CausalInv

\* A branch that writes its projections anew projects transactions it has.
LEMMA WrittenViewIsLogged ==
    ASSUME ViewInv, CausalInv, NEW b \in Branches, NEW C,
           txs' = txs, view' = [view EXCEPT ![b] = Replay(Effective(txs[b], C))]
    PROVE  CausalInv'
<1>1. IsLog(txs[b])
    BY BranchIsLog
<1>2. Effective(txs[b], C) \in SUBSET txs[b]
    BY DEF Effective
<1>3. Range(Replay(Effective(txs[b], C))) = Effective(txs[b], C)
    BY <1>1, <1>2, PartOfLog, ReplayIsCanonical DEF IsLog
<1>4. \A a \in Branches :
          view'[a] = IF a = b THEN Replay(Effective(txs[b], C)) ELSE view[a]
    BY DEF ViewInv, BTypeOK
<1> DEFINE E == Effective(txs[b], C)
<1> HIDE DEF E
<1>5. ASSUME NEW a \in Branches
      PROVE  WellCaused(txs'[a]) /\ Range(view'[a]) \subseteq txs'[a]
    <2>1. txs'[a] = txs[a] /\ WellCaused(txs[a]) /\ Range(view[a]) \subseteq txs[a]
        BY DEF CausalInv
    <2>2. view'[a] = view[a] \/ (a = b /\ view'[a] = Replay(E))
        BY <1>4 DEF E
    <2>3. Range(Replay(E)) \subseteq txs[b]
        BY <1>2, <1>3 DEF E
    <2>4. QED
        BY <2>1, <2>2, <2>3
<1>6. QED
    BY <1>5 DEF CausalInv

\* No step lets a branch rest on what it does not have.
LEMMA NextCaused == ASSUME ViewInv, CausalInv, [BNext]_bvars PROVE CausalInv'
<1>1. CASE UNCHANGED bvars
    BY <1>1 DEF bvars, CausalInv
<1>2. ASSUME NEW b \in Branches, RebuildBranch(b) PROVE CausalInv'
    <2>1. /\ txs' = txs
          /\ view' = [view EXCEPT ![b] = Replay(Effective(txs[b], controls[b]))]
        BY <1>2 DEF RebuildBranch, WriteProjections, Log
    <2>2. QED
        BY <2>1, WrittenViewIsLogged
<1>3. ASSUME NEW b \in Branches, Resolve(b) PROVE CausalInv'
    <2>1. PICK c : AddControl(b, c)
        BY <1>3 DEF Resolve
    <2>2. /\ txs' = txs
          /\ view' = [view EXCEPT ![b] = Replay(Effective(txs[b], controls[b] \cup {c}))]
        BY <2>1 DEF AddControl, WriteProjections
    <2>3. QED
        BY <2>2, WrittenViewIsLogged
<1>4. ASSUME NEW b \in Branches, NEW other \in Branches, Merge(b, other) PROVE CausalInv'
    BY <1>4, MergeKeepsCaused
<1>5. ASSUME NEW b \in Branches, Commit(b) PROVE CausalInv'
    BY <1>5, CommitKeepsCaused
<1>6. QED
    BY <1>1, <1>2, <1>3, <1>4, <1>5 DEF BNext

\* A conflict that two rejections inside one session can repair is reported, if
\* its message names a closed session or an object whose id is searched for,
\* however many sessions, objects and transactions there are and however often
\* branches were resolved, unless an object lost all its creations:
\* detect_merge_conflicts shows the user every option but those that reject all
\* that takes part.
THEOREM RepairableConflictsAreReported == BSpec => []RepairableIsReported
<1>1. BInit => ViewInv /\ CausalInv
    BY InitViews, InitCaused
<1>2. ViewInv /\ CausalInv /\ [BNext]_bvars => ViewInv' /\ CausalInv'
    BY NextViews, NextCaused
<1>3. ASSUME ViewInv, CausalInv PROVE RepairableIsReported
    <2>1. SUFFICES ASSUME NEW b \in Branches, BranchReadable(b), ~BranchValid(b),
                          SessionsDisjoint(Log(b)), Orphans(b) = {},
                          NEW s \in Sessions,
                          SmallestRepairs(Log(b), controls[b], s) # {},
                          ConflictIsNamed(Log(b)),
                          ConflictSessions(Log(b), controls[b]) = {}
                   PROVE  FALSE
        BY DEF RepairableIsReported
    <2> DEFINE S == Log(b)
    <2>2. WellCaused(txs[b])
        BY <1>3 DEF CausalInv
    <2>3. S \in SUBSET txs[b] /\ \A o \in txs[b] : Opens(o) => o \in S
        <3>1. \A c \in controls[b] : \A o \in c.rejected : ~Opens(o)
            BY <2>1 DEF BranchReadable, Readable, Targets
        <3>2. QED
            BY <3>1 DEF Log, Effective
    <2>4. IsLog(S)
        BY <1>3, <2>3, BranchIsLog, PartOfLog
    <2>5. Known(S)
        BY <2>2, <2>3 DEF WellCaused, Known
    <2>6. Founded(S)
        BY <2>2, <2>3 DEF WellCaused, Founded
    <2>7. \E i \in S : IsSystem(i)
        BY <2>2, <2>3, ChangeShapes DEF WellCaused, Known
    <2>8. ~IsValid(S, controls[b])
        BY <2>1 DEF BranchValid
    <2>9. PICK u \in S : /\ WritesObject(u)
                         /\ \A v \in S : v.change.cell = u.change.cell
                                             => v.change.from # "absent"
        BY <2>1, <2>4, <2>5, <2>6, <2>7, <2>8, UnreportedIsOrphan
    <2>10. PICK v \in txs[b] : v.change.cell = u.change.cell /\ v.change.from = "absent"
        BY <2>2, <2>3, <2>9 DEF WellCaused, Created
    <2>11. u.change.cell \in Orphans(b)
        BY <2>9, <2>10 DEF Orphans, Creations, WritesObject
    <2>12. QED
        BY <2>1, <2>11
<1>4. QED
    BY <1>1, <1>2, <1>3, PTL DEF BSpec

-----------------------------------------------------------------------------
(*****************************************************************************)
(* Requirement numbers.                                                      *)
(*****************************************************************************)

NTypeOK ==
    /\ has \in [Worktrees -> SUBSET Decisions]
    /\ rejected \in [Worktrees -> SUBSET Decisions]
    /\ basis \in [Worktrees -> SUBSET Decisions]
    /\ shown \in [Worktrees -> SUBSET Decisions]
    /\ number \in [Decisions -> Nat]
    /\ had \in [Decisions -> SUBSET Decisions]

\* Only numbered decisions are known anywhere.
KnownIsNumbered ==
    /\ \A b \in Worktrees : \A d \in has[b] : number[d] # 0
    /\ \A d \in Decisions : \A e \in had[d] : number[e] # 0

\* What the projections were computed from and do not show was rejected.
LeftOutIsRejected ==
    \A b \in Worktrees :
        /\ basis[b] \subseteq has[b]
        /\ basis[b] \ shown[b] \subseteq rejected[b]

\* Whoever has a decision has what was known where it got its number: with a
\* smaller number or rejected there, and then rejected here.
PastComesAlong ==
    \A b \in Worktrees : \A d \in has[b] : \A e \in had[d] :
        number[e] < number[d] \/ e \in rejected[b]

NInv == NTypeOK /\ KnownIsNumbered /\ LeftOutIsRejected /\ PastComesAlong

\* Whether the command writes its projections or dies before.
LEMMA AppliedOrNot ==
    ASSUME NInv, NEW b \in Worktrees, NEW d \in Decisions,
           AppliesToProjections(b, d),
           has' = [has EXCEPT ![b] = @ \cup {d}], rejected' = rejected
    PROVE  /\ basis' \in [Worktrees -> SUBSET Decisions]
           /\ shown' \in [Worktrees -> SUBSET Decisions]
           /\ LeftOutIsRejected'
<1>1. /\ basis \in [Worktrees -> SUBSET Decisions]
      /\ shown \in [Worktrees -> SUBSET Decisions]
      /\ has \in [Worktrees -> SUBSET Decisions]
    BY DEF NInv, NTypeOK
<1>2. \A c \in Worktrees : basis[c] \subseteq has[c] /\ basis[c] \ shown[c] \subseteq rejected[c]
    BY DEF NInv, LeftOutIsRejected
<1>3. CASE UNCHANGED << basis, shown >>
    BY <1>1, <1>2, <1>3 DEF LeftOutIsRejected
<1>4. CASE /\ basis' = [basis EXCEPT ![b] = @ \cup {d}]
           /\ shown' = [shown EXCEPT ![b] = @ \cup {d}]
    <2>1. /\ basis' \in [Worktrees -> SUBSET Decisions]
          /\ shown' \in [Worktrees -> SUBSET Decisions]
        BY <1>1, <1>4
    <2>2. ASSUME NEW c \in Worktrees
          PROVE  basis'[c] \subseteq has'[c] /\ basis'[c] \ shown'[c] \subseteq rejected'[c]
        <3>1. CASE c = b
            BY <1>1, <1>2, <1>4, <3>1
        <3>2. CASE c # b
            BY <1>1, <1>2, <1>4, <3>2
        <3>3. QED
            BY <3>1, <3>2
    <2>3. QED
        BY <2>1, <2>2 DEF LeftOutIsRejected
<1>5. QED
    BY <1>3, <1>4 DEF AppliesToProjections

\* Projections of the whole log leave out what is rejected.
LEMMA WrittenOrNot ==
    ASSUME NInv, NEW b \in Worktrees, has' = has,
           rejected' \in [Worktrees -> SUBSET Decisions],
           \A c \in Worktrees : rejected[c] \subseteq rejected'[c],
           WritesProjections(b) \/ UNCHANGED << basis, shown >>
    PROVE  /\ basis' \in [Worktrees -> SUBSET Decisions]
           /\ shown' \in [Worktrees -> SUBSET Decisions]
           /\ LeftOutIsRejected'
<1>1. /\ basis \in [Worktrees -> SUBSET Decisions]
      /\ shown \in [Worktrees -> SUBSET Decisions]
      /\ has \in [Worktrees -> SUBSET Decisions]
    BY DEF NInv, NTypeOK
<1>2. \A c \in Worktrees : basis[c] \subseteq has[c] /\ basis[c] \ shown[c] \subseteq rejected[c]
    BY DEF NInv, LeftOutIsRejected
<1>3. CASE UNCHANGED << basis, shown >>
    <2>1. \A c \in Worktrees : basis[c] \subseteq has[c] /\ basis[c] \ shown[c] \subseteq rejected'[c]
        BY <1>2
    <2>2. QED
        BY <1>1, <1>3, <2>1 DEF LeftOutIsRejected
<1>4. CASE WritesProjections(b)
    <2>1. /\ basis' = [basis EXCEPT ![b] = has[b]]
          /\ shown' = [shown EXCEPT ![b] = has[b] \ rejected'[b]]
        BY <1>4 DEF WritesProjections
    <2>2. has[b] \in SUBSET Decisions
        BY <1>1
    <2>3. /\ basis' \in [Worktrees -> SUBSET Decisions]
          /\ shown' \in [Worktrees -> SUBSET Decisions]
        BY <1>1, <2>1, <2>2
    <2>4. ASSUME NEW c \in Worktrees
          PROVE  basis'[c] \subseteq has'[c] /\ basis'[c] \ shown'[c] \subseteq rejected'[c]
        <3>1. CASE c = b
            BY <1>1, <2>1, <3>1
        <3>2. CASE c # b
            BY <1>1, <1>2, <2>1, <3>2
        <3>3. QED
            BY <3>1, <3>2
    <2>5. QED
        BY <2>3, <2>4 DEF LeftOutIsRejected
<1>5. QED
    BY <1>3, <1>4

LEMMA DiscoverStep ==
    ASSUME NInv, NEW b \in Worktrees, NEW d \in Decisions, DiscoverDecision(b, d)
    PROVE  NInv'
<1>1. PICK n \in 1..Cardinality(Decisions) :
          IsNextRequirementId(n, shown[b]) /\ number' = [number EXCEPT ![d] = n]
    BY DEF DiscoverDecision
<1>2. n \in Nat \ {0}
    BY <1>1, FS_CardinalityType, RequirementIdsAssumption
<1>3. /\ LeftOutIsRejected'
      /\ basis' \in [Worktrees -> SUBSET Decisions]
      /\ shown' \in [Worktrees -> SUBSET Decisions]
    BY AppliedOrNot DEF DiscoverDecision
<1>4. number[d] = 0 /\ \A e \in Decisions : e # d => number'[e] = number[e]
    BY <1>1 DEF NInv, NTypeOK, DiscoverDecision
<1>5. number'[d] = n /\ had'[d] = basis[b]
      /\ \A e \in Decisions : e # d => had'[e] = had[e]
    BY <1>1 DEF NInv, NTypeOK, DiscoverDecision
<1>6. /\ has'[b] = has[b] \cup {d} /\ rejected' = rejected
      /\ \A c \in Worktrees : c # b => has'[c] = has[c]
    BY DEF NInv, NTypeOK, DiscoverDecision
<1>7. NTypeOK'
    <2>1. has' \in [Worktrees -> SUBSET Decisions] /\ rejected' \in [Worktrees -> SUBSET Decisions]
        BY DEF NInv, NTypeOK, DiscoverDecision
    <2>2. number' \in [Decisions -> Nat]
        BY <1>1, <1>2 DEF NInv, NTypeOK
    <2>3. had' \in [Decisions -> SUBSET Decisions]
        BY DEF NInv, NTypeOK, DiscoverDecision
    <2>4. QED
        BY <1>3, <2>1, <2>2, <2>3 DEF NTypeOK
<1>8. KnownIsNumbered'
    <2>1. \A e \in basis[b] : number[e] # 0
        BY DEF NInv, KnownIsNumbered, LeftOutIsRejected
    <2>2. QED
        BY <1>2, <1>4, <1>5, <1>6, <2>1 DEF NInv, NTypeOK, KnownIsNumbered
<1>9. PastComesAlong'
    <2> SUFFICES ASSUME NEW c \in Worktrees, NEW x \in has'[c], NEW e \in had'[x]
                 PROVE  number'[e] < number'[x] \/ e \in rejected'[c]
        BY DEF PastComesAlong
    <2>1. x \in Decisions /\ e \in Decisions
        BY <1>7 DEF NTypeOK
    <2>2. CASE x = d
        <3>1. e \in basis[b] /\ e # d
            BY <1>4, <1>5, <2>2 DEF NInv, KnownIsNumbered, LeftOutIsRejected
        <3>2. c = b
            BY <1>4, <1>6, <2>2 DEF NInv, KnownIsNumbered
        <3>3. e \in rejected[b] \/ number[e] < n
            BY <1>1, <3>1 DEF IsNextRequirementId, NInv, LeftOutIsRejected
        <3>4. QED
            BY <1>4, <1>5, <1>6, <2>1, <2>2, <3>1, <3>2, <3>3
    <2>3. CASE x # d
        <3>1. x \in has[c] /\ e \in had[x]
            BY <1>5, <1>6, <2>1, <2>3
        <3>2. e # d
            BY <1>4, <2>1, <3>1 DEF NInv, KnownIsNumbered
        <3>3. number[e] < number[x] \/ e \in rejected[c]
            BY <3>1 DEF NInv, PastComesAlong
        <3>4. QED
            BY <1>4, <1>6, <2>1, <2>3, <3>2, <3>3
    <2>4. QED
        BY <2>2, <2>3
<1>10. QED
    BY <1>3, <1>7, <1>8, <1>9 DEF NInv

LEMMA RejectStep ==
    ASSUME NInv, NEW b \in Worktrees, NEW d \in Decisions, RejectDecision(b, d)
    PROVE  NInv'
<1>1. /\ rejected' \in [Worktrees -> SUBSET Decisions]
      /\ \A c \in Worktrees : rejected[c] \subseteq rejected'[c]
    BY DEF NInv, NTypeOK, RejectDecision
<1>2. /\ LeftOutIsRejected'
      /\ basis' \in [Worktrees -> SUBSET Decisions]
      /\ shown' \in [Worktrees -> SUBSET Decisions]
    BY <1>1, WrittenOrNot DEF RejectDecision
<1>3. NTypeOK'
    BY <1>1, <1>2 DEF NInv, NTypeOK, RejectDecision
<1>4. KnownIsNumbered' /\ PastComesAlong'
    BY <1>1 DEF NInv, KnownIsNumbered, PastComesAlong, RejectDecision
<1>5. QED
    BY <1>2, <1>3, <1>4 DEF NInv

LEMMA RebuildStep ==
    ASSUME NInv, NEW b \in Worktrees, RebuildDecisions(b)
    PROVE  NInv'
<1>1. /\ LeftOutIsRejected'
      /\ basis' \in [Worktrees -> SUBSET Decisions]
      /\ shown' \in [Worktrees -> SUBSET Decisions]
    BY WrittenOrNot DEF RebuildDecisions, NInv, NTypeOK
<1>2. NTypeOK' /\ KnownIsNumbered' /\ PastComesAlong'
    BY <1>1 DEF NInv, NTypeOK, KnownIsNumbered, PastComesAlong, RebuildDecisions
<1>3. QED
    BY <1>1, <1>2 DEF NInv

LEMMA MergeStep ==
    ASSUME NInv, NEW b \in Worktrees, NEW c \in Worktrees, MergeDecisions(b, c)
    PROVE  NInv'
<1>1. NTypeOK'
    BY DEF NInv, NTypeOK, MergeDecisions
<1>2. /\ has'[b] = has[b] \cup has[c] /\ rejected'[b] = rejected[b] \cup rejected[c]
      /\ \A x \in Worktrees : x # b => has'[x] = has[x] /\ rejected'[x] = rejected[x]
      /\ UNCHANGED << basis, shown, number, had >>
    BY DEF NInv, NTypeOK, MergeDecisions
<1>3. KnownIsNumbered'
    BY <1>2 DEF NInv, KnownIsNumbered
<1>4. PastComesAlong'
    BY <1>2 DEF NInv, PastComesAlong
<1>5. LeftOutIsRejected'
    <2>1. \A x \in Worktrees : has[x] \subseteq has'[x] /\ rejected[x] \subseteq rejected'[x]
        BY <1>2
    <2>2. QED
        BY <1>2, <2>1 DEF NInv, LeftOutIsRejected
<1>6. QED
    BY <1>1, <1>3, <1>4, <1>5 DEF NInv

\* Two decisions a branch shows under one number were numbered in parallel:
\* neither was in what the number of the other was counted from, whatever was
\* discovered, rejected, merged and rebuilt before, or died on the way.
THEOREM SharedNumbersAreParallel == NSpec => []SharedMeansParallel
<1>1. NInit => NInv
    BY DEF NInit, NInv, NTypeOK, KnownIsNumbered, LeftOutIsRejected, PastComesAlong
<1>2. NInv /\ [NNext]_nvars => NInv'
    <2> SUFFICES ASSUME NInv, [NNext]_nvars PROVE NInv'
        OBVIOUS
    <2>1. CASE UNCHANGED nvars
        BY <2>1 DEF nvars, NInv, NTypeOK, KnownIsNumbered, LeftOutIsRejected, PastComesAlong
    <2>2. CASE NNext
        BY <2>2, DiscoverStep, RejectStep, MergeStep, RebuildStep DEF NNext
    <2>3. QED
        BY <2>1, <2>2
<1>3. NInv => SharedMeansParallel
    <2> SUFFICES ASSUME NInv, NEW b \in Worktrees, NEW d \in EffectiveDecisions(b),
                        NEW e \in EffectiveDecisions(b), d # e, number[d] = number[e]
                 PROVE  d \notin had[e] /\ e \notin had[d]
        BY DEF SharedMeansParallel
    <2>1. number[d] \in Nat /\ number[e] \in Nat
        BY DEF NInv, NTypeOK, EffectiveDecisions
    <2>2. QED
        BY <2>1 DEF NInv, PastComesAlong, EffectiveDecisions
<1>4. QED
    BY <1>1, <1>2, <1>3, PTL DEF NSpec
=============================================================================
