------------------------------ MODULE Reducer ------------------------------
(***************************************************************************)
(* _StreamReducer of qurtail.py: the matcher's bounded index, the run of   *)
(* hidden records, its dots and closing counts, and the timer threads that *)
(* make them appear while no record arrives.                               *)
(*                                                                         *)
(* process, tick, finish and _on_timer run under one lock, so each is one  *)
(* action.  What interleaves with them is the passing of time, the expiry  *)
(* of a timer's wait, and the moment the callback of an expired timer gets *)
(* the lock, which may be after the run it was armed for has closed.       *)
(*                                                                         *)
(* A record is its class: the signature _signature computes for it, the    *)
(* compiled matchers that accept it and the diagnostic traits of its text. *)
(* The clock is read only in differences, so _run_started and              *)
(* _last_dot_flush are the ages of the run and of its last dot flush, each *)
(* saturating one timer period after the last value the code compares with. *)
(***************************************************************************)
EXTENDS Naturals, Sequences

CONSTANTS
    Records, NoRecord,
    Patterns, NoPattern,
    Signature,        \* [Records -> Patterns \cup {NoPattern}]: _signature
    FastMatches,      \* [Patterns -> SUBSET Records]: what a compiled matcher accepts
    Traits,           \* [Records -> SUBSET TraitNames]: diagnostic shape of the text
    PatternLimit, DotEvery, DotBatchSize, DotFlushInterval, SummaryInterval,
    Interleaving, LiveTimer,
    Timers, NoTimer,
    MaxRecords        \* bound of a model: records in one stream

TraitNames == {"indented", "frame", "start", "boundary", "opener"}

ASSUME RecordAssumption ==
    /\ NoRecord \notin Records
    /\ NoPattern \notin Patterns
    /\ Signature \in [Records -> Patterns \cup {NoPattern}]
    /\ FastMatches \in [Patterns -> SUBSET Records]
    /\ Traits \in [Records -> SUBSET TraitNames]
ASSUME SizeAssumption ==
    /\ PatternLimit \in Nat \ {0}
    /\ DotEvery \in Nat \ {0}
    /\ DotBatchSize \in Nat \ {0}
    /\ DotFlushInterval \in Nat \ {0}
    /\ SummaryInterval \in Nat \ {0}
    /\ MaxRecords \in Nat
ASSUME ModeAssumption ==
    /\ Interleaving \in BOOLEAN
    /\ LiveTimer \in BOOLEAN
    /\ NoTimer \notin Timers

VARIABLES
    source,           \* the records handed to process so far
    view,             \* the completed lines of the output
    column,           \* the dots on the output's last, unfinished line
    patterns,         \* _patterns: the index, oldest first
    recent,           \* _recent_signature
    matcher,          \* _fast_matcher_signature
    diagnosticOpen,   \* _diagnostic_open
    run,              \* _run_count, _run_started, _last_dot_flush, _dots_written
    timer,            \* _timer: the timer thread the reducer refers to
    wait,             \* the timer threads that exist, referred to or not
    finished          \* _finished

vars == <<source, view, column, patterns, recent, matcher, diagnosticOpen,
          run, timer, wait, finished>>
indexVars == <<patterns, recent, matcher, diagnosticOpen>>

-----------------------------------------------------------------------------
(* Runs, dots and lines.                                                   *)

TimerDelay ==
    IF DotFlushInterval <= SummaryInterval THEN DotFlushInterval ELSE SummaryInterval
AgeCap == SummaryInterval + TimerDelay
QuietCap == 2 * DotFlushInterval

NoRun == [count |-> 0, age |-> 0, quiet |-> 0, dots |-> 0]
Runs == [count : Nat, age : 0 .. AgeCap, quiet : 0 .. QuietCap, dots : Nat]

DotsDue(rn) == (rn.count \div DotEvery) - rn.dots

\* Mutant of WritePendingDots: dots are written only in full batches.
DotsInBatchesOnly(rn, force) ==
    IF force \/ DotsDue(rn) >= DotBatchSize
    THEN [rn EXCEPT !.dots = rn.count \div DotEvery, !.quiet = 0]
    ELSE rn

WritePendingDots(rn, force) ==
    IF /\ rn.count \div DotEvery > rn.dots
       /\ force \/ DotsDue(rn) >= DotBatchSize \/ rn.quiet >= DotFlushInterval
    THEN [rn EXCEPT !.dots = rn.count \div DotEvery, !.quiet = 0]
    ELSE rn

IntervalOver(rn) == rn.age >= SummaryInterval

\* Dots on the unfinished line after writing what takes run to rn.
Written(rn) == column + (rn.dots - run.dots)

\* An output line; at is the number of records that had arrived when it was
\* written, dots what stood on the line before its text.
Lines == [record : Records \cup {NoRecord}, count : Nat, dots : Nat, at : Nat]

FullLine(r, dots) ==
    [record |-> r, count |-> 0, dots |-> dots, at |-> Len(source) + 1]
SummaryLine(rn, at) ==
    [record |-> NoRecord, count |-> rn.count,
     dots |-> Written(WritePendingDots(rn, TRUE)), at |-> at]

-----------------------------------------------------------------------------
(* Timer threads.  An idle thread is one that does not exist.              *)

Idle == [stage |-> "idle", left |-> 0]
Armed == [stage |-> "armed", left |-> TimerDelay]
Firing == [stage |-> "firing", left |-> 0]

\* The threads after cancel() on the one referred to: a wait that has not
\* been answered ends, a callback already past it still comes.
CancelTimer(ref, w) ==
    IF ref # NoTimer /\ w[ref].stage = "armed" THEN [w EXCEPT ![ref] = Idle] ELSE w

ScheduleTimer(ref, w) ==
    IF LiveTimer /\ ref = NoTimer
    THEN \E t \in Timers : /\ w[t] = Idle
                           /\ timer' = t
                           /\ wait' = [w EXCEPT ![t] = Armed]
    ELSE timer' = ref /\ wait' = w

-----------------------------------------------------------------------------
(* The bounded index and the record classes.                               *)

\* Mutant of Remember: the bound is tested before the insertion, off by one.
RememberOneMore(p) ==
    IF Len(patterns) > PatternLimit THEN Append(Tail(patterns), p)
    ELSE Append(patterns, p)

Remember(p) ==
    IF Len(patterns) >= PatternLimit THEN Append(Tail(patterns), p)
    ELSE Append(patterns, p)

\* Mutant of Known: a record like the last one needs no index entry.
KnownOrRecent(p) == p = recent \/ \E i \in DOMAIN patterns : patterns[i] = p

Known(p) == p # NoPattern /\ \E i \in DOMAIN patterns : patterns[i] = p

\* Mutant of LoadedMatcher: a compiled matcher is never replaced.
FirstMatcher == IF matcher = NoPattern THEN recent ELSE matcher

\* The matcher a record is tried with first: process reloads it when the
\* recent signature is no longer the one it was compiled for.
LoadedMatcher == IF recent # matcher THEN recent ELSE matcher

FastMatch(r) ==
    /\ LoadedMatcher # NoPattern
    /\ r \in FastMatches[LoadedMatcher]

\* Mutant of KeepDiagnostic: an open diagnostic keeps only recognised lines.
KeepRecognised(r) == Traits[r] \cap {"indented", "opener", "start", "frame"} # {}

KeepDiagnostic(r) ==
    IF diagnosticOpen
    THEN "boundary" \notin Traits[r] \/ Traits[r] \cap {"start", "frame"} # {}
    ELSE Traits[r] \cap {"indented", "opener"} # {}

\* _diagnostic_open after a record that was kept.
DiagnosticAfter(r) ==
    diagnosticOpen \/ (IF "indented" \in Traits[r] THEN "frame" \in Traits[r] ELSE TRUE)

-----------------------------------------------------------------------------
(* Closing and counting.                                                   *)

\* Mutant of CloseRun: _dots_written survives the run.
CloseRunKeepingDots(rn, at, ref, w) ==
    /\ view' = Append(view, SummaryLine(rn, at))
    /\ column' = 0
    /\ run' = [NoRun EXCEPT !.dots = WritePendingDots(rn, TRUE).dots]
    /\ timer' = NoTimer
    /\ wait' = CancelTimer(ref, w)

CloseRun(rn, at, ref, w) ==
    /\ view' = Append(view, SummaryLine(rn, at))
    /\ column' = 0
    /\ run' = NoRun
    /\ timer' = NoTimer
    /\ wait' = CancelTimer(ref, w)

\* Mutant of WriteVisible: the record is printed before the run is closed.
WriteBeforeClosing(r) ==
    /\ view' = IF run.count = 0 THEN Append(view, FullLine(r, column))
               ELSE view \o <<FullLine(r, column), SummaryLine(run, Len(source))>>
    /\ run' = NoRun
    /\ timer' = NoTimer
    /\ wait' = CancelTimer(timer, wait)
    /\ column' = 0

\* Close the run if there is one, then print the record in full.
WriteVisible(r) ==
    /\ IF run.count = 0
       THEN /\ view' = Append(view, FullLine(r, column))
            /\ UNCHANGED <<run, timer, wait>>
       ELSE /\ view' = Append(Append(view, SummaryLine(run, Len(source))), FullLine(r, 0))
            /\ run' = NoRun
            /\ timer' = NoTimer
            /\ wait' = CancelTimer(timer, wait)
    /\ column' = 0

Counted ==
    IF run.count = 0 THEN [NoRun EXCEPT !.count = 1] ELSE [run EXCEPT !.count = @ + 1]

Suppress ==
    LET counted == WritePendingDots(Counted, FALSE)
    IN  IF IntervalOver(counted)
        THEN CloseRun(counted, Len(source) + 1, timer, wait)
        ELSE /\ run' = counted
             /\ column' = Written(counted)
             /\ ScheduleTimer(timer, wait)
             /\ UNCHANGED view

TickLocked(ref, w, rearm) ==
    LET flushed == WritePendingDots(run, FALSE)
    IN  IF run.count = 0
        THEN timer' = ref /\ wait' = w /\ UNCHANGED <<run, view, column>>
        ELSE IF IntervalOver(flushed)
             THEN CloseRun(flushed, Len(source), ref, w)
             ELSE /\ run' = flushed
                  /\ column' = Written(flushed)
                  /\ IF rearm THEN ScheduleTimer(ref, w) ELSE timer' = ref /\ wait' = w
                  /\ UNCHANGED view

-----------------------------------------------------------------------------
(* process(line), one action per way it can end.                           *)

Take(r) ==
    /\ ~finished
    /\ Len(source) < MaxRecords
    /\ source' = Append(source, r)
    /\ UNCHANGED finished

ProcessDiagnostic(r) ==
    /\ Take(r)
    /\ KeepDiagnostic(r)
    /\ diagnosticOpen' = DiagnosticAfter(r)
    /\ recent' = NoPattern
    /\ WriteVisible(r)
    /\ UNCHANGED <<patterns, matcher>>

Ordinary(r) ==
    /\ Take(r)
    /\ ~KeepDiagnostic(r)
    /\ diagnosticOpen' = FALSE
    /\ matcher' = LoadedMatcher

ProcessFastMatch(r) ==
    /\ Ordinary(r)
    /\ FastMatch(r)
    /\ Suppress
    /\ UNCHANGED <<patterns, recent>>

ProcessFamiliar(r) ==
    /\ Ordinary(r)
    /\ ~FastMatch(r)
    /\ Known(Signature[r])
    /\ Interleaving \/ Signature[r] = recent
    /\ recent' = Signature[r]
    /\ Suppress
    /\ UNCHANGED patterns

\* Without interleaving a familiar pattern that returns is printed again.
ProcessReturning(r) ==
    /\ Ordinary(r)
    /\ ~FastMatch(r)
    /\ Known(Signature[r])
    /\ ~Interleaving /\ Signature[r] # recent
    /\ recent' = Signature[r]
    /\ WriteVisible(r)
    /\ UNCHANGED patterns

\* Mutant of ProcessNew: a record without a signature is remembered too.
ProcessNewUnchecked(r) ==
    /\ Ordinary(r)
    /\ ~FastMatch(r)
    /\ ~Known(Signature[r])
    /\ patterns' = Remember(Signature[r])
    /\ recent' = Signature[r]
    /\ WriteVisible(r)

ProcessNew(r) ==
    /\ Ordinary(r)
    /\ ~FastMatch(r)
    /\ ~Known(Signature[r])
    /\ patterns' = IF Signature[r] = NoPattern THEN patterns ELSE Remember(Signature[r])
    /\ recent' = Signature[r]
    /\ WriteVisible(r)

-----------------------------------------------------------------------------
(* tick, finish, the timer threads and the clock.                          *)

Tick ==
    /\ ~finished
    /\ run.count > 0
    /\ TickLocked(timer, wait, FALSE)
    /\ UNCHANGED <<source, finished>> /\ UNCHANGED indexVars

Finish ==
    /\ ~finished
    /\ finished' = TRUE
    /\ IF run.count = 0
       THEN /\ timer' = NoTimer
            /\ wait' = CancelTimer(timer, wait)
            /\ UNCHANGED <<run, view, column>>
       ELSE CloseRun(run, Len(source), timer, wait)
    /\ UNCHANGED source /\ UNCHANGED indexVars

\* The wait of a timer ends before anything cancels it: its callback will run.
Expire(t) ==
    /\ wait[t].stage = "armed" /\ wait[t].left = 0
    /\ wait' = [wait EXCEPT ![t] = Firing]
    /\ UNCHANGED <<source, view, column, run, timer, finished>> /\ UNCHANGED indexVars

\* Mutants of OnTimer: the callback does not schedule the next one, or
\* schedules it without looking at the run.
OnTimerOnce(t) ==
    /\ wait[t].stage = "firing"
    /\ TickLocked(NoTimer, [wait EXCEPT ![t] = Idle], FALSE)
    /\ UNCHANGED <<source, finished>> /\ UNCHANGED indexVars
OnTimerForever(t) ==
    /\ wait[t].stage = "firing"
    /\ timer' = t
    /\ wait' = [wait EXCEPT ![t] = Armed]
    /\ UNCHANGED <<source, view, column, run, finished>> /\ UNCHANGED indexVars

OnTimer(t) ==
    /\ wait[t].stage = "firing"
    /\ IF finished
       THEN /\ timer' = NoTimer
            /\ wait' = [wait EXCEPT ![t] = Idle]
            /\ UNCHANGED <<run, view, column>>
       ELSE TickLocked(NoTimer, [wait EXCEPT ![t] = Idle], TRUE)
    /\ UNCHANGED <<source, finished>> /\ UNCHANGED indexVars

Older(n, cap) == IF n < cap THEN n + 1 ELSE n

\* One unit of time passes.
Advance ==
    /\ run.count > 0 \/ \E t \in Timers : wait[t].left > 0
    /\ run' = IF run.count = 0 THEN run
              ELSE [run EXCEPT !.age = Older(@, AgeCap), !.quiet = Older(@, QuietCap)]
    /\ wait' = [t \in Timers |-> IF wait[t].left > 0 THEN [wait[t] EXCEPT !.left = @ - 1]
                                 ELSE wait[t]]
    /\ UNCHANGED <<source, view, column, timer, finished>> /\ UNCHANGED indexVars

Init ==
    /\ source = <<>>
    /\ view = <<>>
    /\ column = 0
    /\ patterns = <<>>
    /\ recent = NoPattern
    /\ matcher = NoPattern
    /\ diagnosticOpen = FALSE
    /\ run = NoRun
    /\ timer = NoTimer
    /\ wait = [t \in Timers |-> Idle]
    /\ finished = FALSE

Process(r) ==
    \/ ProcessDiagnostic(r)
    \/ ProcessFastMatch(r)
    \/ ProcessFamiliar(r)
    \/ ProcessReturning(r)
    \/ ProcessNew(r)

TimerStep(t) == Expire(t) \/ OnTimer(t)

Next ==
    \/ \E r \in Records : Process(r)
    \/ Tick
    \/ Finish
    \/ \E t \in Timers : TimerStep(t)
    \/ Advance

Spec == Init /\ [][Next]_vars

\* Time passes and an expired wait or a waiting callback is not put off for
\* ever: threading.Timer waits with a timeout, and the lock is released after
\* every record.  Nothing is assumed of the source.
FairSpec == Spec /\ WF_vars(Advance) /\ \A t \in Timers : WF_vars(TimerStep(t))

-----------------------------------------------------------------------------
(* Properties.                                                             *)

TimerStates == [stage : {"idle", "armed", "firing"}, left : 0 .. TimerDelay]

\* Every variable has its type.
TypeOK ==
    /\ source \in Seq(Records)
    /\ view \in Seq(Lines)
    /\ column \in Nat
    /\ patterns \in Seq(Patterns)
    /\ recent \in Patterns \cup {NoPattern}
    /\ matcher \in Patterns \cup {NoPattern}
    /\ diagnosticOpen \in BOOLEAN
    /\ run \in Runs
    /\ timer \in Timers \cup {NoTimer}
    /\ wait \in [Timers -> TimerStates]
    /\ finished \in BOOLEAN

Full(i) == view[i].record # NoRecord
Before(i) == IF i = 1 THEN 0 ELSE view[i - 1].at
LastAt == IF view = <<>> THEN 0 ELSE view[Len(view)].at

LineCovers(i) ==
    view[i].at = Before(i) + IF Full(i) THEN 1 ELSE view[i].count
LineFaithful(i) ==
    Full(i) => view[i].at \in DOMAIN source /\ source[view[i].at] = view[i].record

\* The output partitions the input, in order: each full line is the record
\* that arrived then, each count covers exactly the records hidden since the
\* line before it, the open run covers the rest, and a finished reducer
\* leaves nothing uncounted, whichever of process, tick, timer and finish
\* wrote the line.
Accounting ==
    /\ \A i \in DOMAIN view : LineCovers(i) /\ LineFaithful(i)
    /\ LastAt + run.count = Len(source)
    /\ finished => run.count = 0

\* r repeats e for the matcher: the same signature, or accepted by the
\* matcher compiled from e's.
Repeats(e, r) ==
    /\ Signature[e] # NoPattern
    /\ Signature[r] = Signature[e] \/ r \in FastMatches[Signature[e]]

Hidden(k) == \A i \in DOMAIN view : Full(i) => view[i].at # k

\* A record is hidden only after a record it repeats was printed in full,
\* however the index was filled, evicted, or bypassed by the compiled matcher.
EveryHiddenHasExemplar ==
    \A k \in DOMAIN source : Hidden(k) =>
        \E i \in DOMAIN view : /\ Full(i) /\ view[i].at < k
                               /\ Repeats(view[i].record, source[k])

\* The index is bounded, holds a pattern once, holds the recent one (the
\* matcher is stored there), and only patterns whose record was printed.
IndexInv ==
    /\ Len(patterns) <= PatternLimit
    /\ \A i, j \in DOMAIN patterns : patterns[i] = patterns[j] => i = j
    /\ recent # NoPattern => \E i \in DOMAIN patterns : patterns[i] = recent
    /\ \A i \in DOMAIN patterns :
           \E j \in DOMAIN view : Full(j) /\ Signature[view[j].record] = patterns[i]

\* With live timers an open run always has a timer that will come: a stale
\* callback of an earlier run that clears _timer must leave another.
RunHasTimer ==
    LiveTimer => /\ (run.count > 0) <=> (timer # NoTimer)
                 /\ timer # NoTimer => wait[timer].stage # "idle"

\* The dots on a count line are one per DotEvery records, never more or fewer
\* for batches and timers in between, and no record is glued to dots.
DotsExact ==
    /\ column = run.dots
    /\ run.dots <= run.count \div DotEvery
    /\ \A i \in DOMAIN view : view[i].dots = view[i].count \div DotEvery

\* Without interleaving a hidden record repeats the last record printed
\* before it, not just some earlier one.
AdjacentOnly ==
    ~Interleaving => \A k \in DOMAIN source : Hidden(k) =>
        \E i \in DOMAIN view :
            /\ Full(i) /\ view[i].at < k
            /\ \A j \in DOMAIN view : Full(j) /\ view[j].at < k => j <= i
            /\ Repeats(view[i].record, source[k])

EndsDiagnostic(r) == "boundary" \in Traits[r] /\ Traits[r] \cap {"start", "frame"} = {}
\* An indented line opens a diagnostic only as a frame, whatever it names.
OpensDiagnostic(r) == (IF "indented" \in Traits[r] THEN "frame" ELSE "opener") \in Traits[r]

\* The records of the diagnostics in the source: each from one that opens it,
\* when none is open, to the one before that which ends it.  A record that ends
\* one opens none, whatever it names.
Diagnostic(inside) ==
    \A k \in DOMAIN source :
        k \in inside <=> IF k - 1 \in inside THEN ~EndsDiagnostic(source[k])
                         ELSE OpensDiagnostic(source[k])

\* A diagnostic is printed whole, even what repeats an indexed pattern, and its
\* lines one directly after the other: no count of a run that process or a
\* timer closes comes between them.
DiagnosticsIntact ==
    \E inside \in SUBSET DOMAIN source :
        /\ Diagnostic(inside)
        /\ \A k \in inside : \E i \in DOMAIN view :
               /\ Full(i) /\ view[i].at = k
               /\ k - 1 \in inside => i > 1 /\ Full(i - 1)

\* A run is late only by what its timer is: until that is due, and whichever
\* callback, record or stale timer armed it, dots have waited less than a
\* flush interval and a timer period in all, and the run closes in time.
Latency ==
    (LiveTimer /\ run.count > 0 /\ wait[timer].left > 0) =>
        /\ run.age + wait[timer].left < SummaryInterval + TimerDelay
        /\ DotsDue(run) > 0 => run.quiet + wait[timer].left < DotFlushInterval + TimerDelay

\* Every record taken is on a completed line of the output in the end, even
\* if no record ever follows it and nobody calls finish.
EventuallyAccounted == \A k \in 1 .. MaxRecords : Len(source) >= k ~> LastAt >= k

\* No timer thread outlives a finished reducer for ever.
TimersEnd == finished ~> \A t \in Timers : wait[t] = Idle

\* benchmarks/run_interleaved.py:39 rejects a transcript in which a hidden
\* record's own pattern was never printed ("Counts may cover only known,
\* fully printed patterns").  The compiled matcher hides such records.
CountsCoverKnownPatterns ==
    \A k \in DOMAIN source : Hidden(k) =>
        \E i \in DOMAIN view : /\ Full(i) /\ view[i].at < k
                               /\ Signature[view[i].record] = Signature[source[k]]
=============================================================================
