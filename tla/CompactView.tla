---------------------------- MODULE CompactView ----------------------------
(***************************************************************************)
(* What a reader of qurtail's output is promised (docs/interleaved.md and  *)
(* README.md, "What counts as repetition?"), stated without dots, timers   *)
(* or a bounded index: every source record is either printed in full, at   *)
(* once and after any pending count, or hidden in a count; a record may be *)
(* hidden only when a record it repeats has been printed in full; a count  *)
(* line says exactly how many records were hidden since the last one.      *)
(* Reducer.tla is the implementation of this specification.                *)
(***************************************************************************)
EXTENDS Naturals, Sequences

CONSTANTS
    Records,   \* the distinguishable source records
    NoRecord,  \* marks a ledger entry that is a count
    Similar    \* the pairs <<shown, hidden>> for which hiding is acceptable

VARIABLES
    source,    \* the records received, in order
    ledger,    \* the completed lines printed: full records and counts
    pending,   \* the number of records hidden since the last count line
    done       \* the stream is closed

abstractVars == <<source, ledger, pending, done>>

FullEntry(r) == [record |-> r, count |-> 0]
CountEntry(n) == [record |-> NoRecord, count |-> n]

\* The ledger once the pending records have been closed by a count line.
Settled(n) == IF n = 0 THEN ledger ELSE Append(ledger, CountEntry(n))

Exemplified(r) ==
    \E i \in DOMAIN ledger : /\ ledger[i].record # NoRecord
                             /\ <<ledger[i].record, r>> \in Similar

AbstractInit ==
    /\ source = <<>>
    /\ ledger = <<>>
    /\ pending = 0
    /\ done = FALSE

Show(r) ==
    /\ ~done
    /\ source' = Append(source, r)
    /\ ledger' = Append(Settled(pending), FullEntry(r))
    /\ pending' = 0
    /\ UNCHANGED done

\* A hidden record joins the pending ones; its arrival may also be what
\* closes the count, when the summary interval has passed.
Hide(r) ==
    /\ ~done
    /\ Exemplified(r)
    /\ source' = Append(source, r)
    /\ \/ pending' = pending + 1 /\ UNCHANGED ledger
       \/ pending' = 0 /\ ledger' = Settled(pending + 1)
    /\ UNCHANGED done

Close ==
    /\ ~done
    /\ ledger' = Settled(pending)
    /\ pending' = 0
    /\ UNCHANGED <<source, done>>

Stop ==
    /\ ~done
    /\ done' = TRUE
    /\ ledger' = Settled(pending)
    /\ pending' = 0
    /\ UNCHANGED source

AbstractNext ==
    \/ \E r \in Records : Show(r) \/ Hide(r)
    \/ Close
    \/ Stop

AbstractSpec == AbstractInit /\ [][AbstractNext]_abstractVars
=============================================================================
