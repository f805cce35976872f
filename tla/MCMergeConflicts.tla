-------------------------- MODULE MCMergeConflicts --------------------------
(***************************************************************************)
(* TLC instance of MergeConflicts.  A base log initialises the project,    *)
(* creates the sessions and may record the objects: an option in each and, *)
(* in the first one, a decision, whose id no message is searched for.      *)
(***************************************************************************)
EXTENDS MergeConflicts, TLC

CONSTANTS b1, b2, s1, s2, o1, o2, d1

MCSession == << s1, s2 >>
MCObject  == << o1, o2 >>

\* Two transactions for each session: its creation and its option.
MCBase ==
    { [id |-> 0, ts |-> 0, change |-> Initialise] }
    \cup { [id |-> 2 * i - 1, ts |-> i - 1,
            change |-> ScopeChange(MCSession[i], "absent", "open")] :
             i \in 1..Cardinality(Sessions) }
    \cup { [id |-> 2 * i, ts |-> i - 1,
            change |-> [scope |-> MCSession[i], cell |-> MCObject[i],
                        from |-> "absent", to |-> "unresolved"]] :
             i \in 1..Cardinality(Sessions) }
    \cup { [id |-> 2 * Cardinality(Sessions) + 1, ts |-> 0,
            change |-> [scope |-> MCSession[1], cell |-> o,
                        from |-> "absent", to |-> "unresolved"]] :
             o \in Objects \ NamedObjects }

\* The same without the objects: the branches record them, under one id.
MCEmptyBase == { t \in MCBase : t.change.cell \notin Objects }

MCBases == { MCBase, MCEmptyBase }

MCSessionOrder == SubSeq(MCSession, 1, Cardinality(Sessions))

\* A change to the status an object already has conflicts with nothing, and
\* on the log without objects the branches only record what, like evidence, has
\* an id derived from its source.
Interesting ==
    /\ \A t \in UNION Range(txs) : t.change.from # t.change.to
    /\ \/ \A b \in Branches : MCBase \subseteq txs[b]
       \/ \A t \in UNION Range(txs) :
             t.change.cell \in Objects =>
                 t.change.to = "unresolved" /\ t.change.cell \in NamedObjects

Symmetry == Permutations(Branches)
=============================================================================
