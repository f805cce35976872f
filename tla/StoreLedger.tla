---- MODULE StoreLedger ----
(***************************************************************************)
(* What the runtime store promises to the rest of the program: one         *)
(* committed history, always valid and in canonical order, that changes    *)
(* atomically and never loses a transaction.  A transaction that was       *)
(* written durably but never acknowledged may join it later, at its place  *)
(* in the canonical order.                                                 *)
(***************************************************************************)
EXTENDS EventLog

VARIABLE committed

LedgerInit == committed = << >>

Commit ==
    /\ committed' \in Seq(Tx)
    /\ ValidHistory(committed') /\ Sorted(committed')
    /\ Range(committed) \subseteq Range(committed')

LedgerSpec == LedgerInit /\ [][Commit]_committed
====
