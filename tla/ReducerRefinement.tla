------------------------- MODULE ReducerRefinement -------------------------
(***************************************************************************)
(* Reducer implements CompactView: the completed lines, without their dots *)
(* and times, are the ledger, and the open run's count is what is pending. *)
(***************************************************************************)
EXTENDS Reducer

LineLedger == [i \in DOMAIN view |-> [record |-> view[i].record, count |-> view[i].count]]
SimilarPairs == {er \in Records \X Records : Repeats(er[1], er[2])}

Compact == INSTANCE CompactView
    WITH ledger <- LineLedger, pending <- run.count, done <- finished,
         Similar <- SimilarPairs

\* Each step of the reducer is a step of the abstract view or leaves it alone:
\* a record is shown after the pending count or joins it, and only a record
\* like a shown one joins it.
ImplementsCompactView == Compact!AbstractSpec
=============================================================================
