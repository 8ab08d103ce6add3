------------------------------- MODULE Session -------------------------------
(***************************************************************************)
(* One invocation of qurtail.py: main, _main and _run_mode around a        *)
(* reducer that is taken apart into its statements.  process, finish and   *)
(* the timer callbacks are sequences of statements under the reducer's     *)
(* lock.  Between any two of them Ctrl+C may raise in the main thread, and *)
(* a write to an output whose reader has gone raises in its own thread.    *)
(*                                                                         *)
(* A record is its pattern; diagnostics and the index limit are left out,  *)
(* of the dots only their write is kept, and whether dots are due and the  *)
(* summary interval is over are free choices (Reducer has all of them).    *)
(* In run mode a first Ctrl+C (or SIGTERM) makes _run_child_command drain  *)
(* the child's output through the same reducer, a second one ends the      *)
(* drain.                                                                  *)
(***************************************************************************)
EXTENDS Naturals, Sequences, FiniteSets

CONSTANTS
    Patterns, NoPattern,
    Timers, NoTimer, Main,
    Modes,             \* "stream": stdin or a file; "run": a command
    MaxRecords, MaxInterrupts   \* bounds

ASSUME SessionAssumption ==
    /\ NoPattern \notin Patterns
    /\ NoTimer \notin Timers /\ Main \notin Timers
    /\ Modes \subseteq {"stream", "run"}
    /\ MaxRecords \in Nat /\ MaxInterrupts \in Nat

Threads == Timers \cup {Main}
NoStatus == 1000
Uncaught == 1001       \* the interpreter's, for an exception nobody catches
Lost == 1002           \* a FINISH that was attempted and not written

VARIABLES
    mode, at,          \* where the main thread is
    work,              \* the statements each thread has left under the lock
    hand,              \* the record process has been called with
    source, written,   \* records taken; lines and counts written
    hidden,            \* patterns of the records counted so far
    index,             \* _patterns
    count,             \* _run_count
    timer, wait,       \* _timer and the timer threads
    finished,          \* _finished
    open, failed,      \* the output has a reader; a write has failed
    draining,          \* the runner is in _interrupt_and_drain
    interrupts,        \* Ctrl+C so far
    torn,              \* patterns of the records being processed then
    started, logged,   \* START is in the command log; the status in FINISH
    status             \* the exit status

reducerVars == <<written, hidden, index, count, timer, wait, finished>>
mainVars == <<mode, hand, source, draining, status>>
tellVars == <<started, logged>>
vars == <<reducerVars, mainVars, tellVars, at, work, open, failed, interrupts, torn>>

LockFree == \A t \in Threads : work[t] = <<>>

-----------------------------------------------------------------------------
(* The statements of the reducer's locked sections.                        *)

Statements == {"summary", "cancel", "reset", "assign", "start", "count", "index", "print",
               "dots", "clear", "mark", "flush"}

\* Mutant of Close: the count is forgotten before it is written.
CloseResetFirst == <<"reset", "summary", "cancel">>

\* _close_run, if there is a run; "summary" also writes the dots still pending.
Close == <<"summary", "cancel", "reset">>
CloseOpen == IF count = 0 THEN <<>> ELSE Close

\* _schedule_timer.
Schedule == <<"assign", "start">>

\* The output that is due: dots, and the count when the interval is over.
Tick(due, over) == (IF due THEN <<"dots">> ELSE <<>>) \o (IF over THEN Close ELSE <<>>)

\* process, for a known pattern and for a new one.
ProcessBody(p, due, over) ==
    IF p \in index
    THEN <<"count">> \o (IF timer = NoTimer THEN Schedule ELSE <<>>) \o Tick(due, over)
    ELSE CloseOpen \o <<"index", "print">>

\* _on_timer.
TimerBody(due, over) ==
    <<"clear">> \o (IF finished \/ count = 0 THEN <<>>
                    ELSE Tick(due, over) \o (IF over THEN <<>> ELSE Schedule))

\* finish.
FinishBody == <<"mark">> \o CloseOpen \o <<"cancel", "flush">>

Record(p) == [pattern |-> p, count |-> 1]
Summary == [pattern |-> NoPattern, count |-> count]

Writes(s) == s \in {"summary", "print", "dots"}

\* What was written before to an output without a reader is still buffered.
Fails(s) == (Writes(s) /\ ~open) \/ (s = "flush" /\ failed)

\* A thread for a new Timer; a step that would need one more than Timers has is
\* not taken.
Fresh == {t \in Timers : wait[t] = "idle" /\ work[t] = <<>>}

Do(s) ==
    /\ written' = CASE s = "summary" -> Append(written, Summary)
                    [] s = "print" -> Append(written, Record(hand))
                    [] OTHER -> written
    /\ count' = CASE s = "count" -> count + 1 [] s = "reset" -> 0 [] OTHER -> count
    /\ hidden' = IF s = "count" THEN hidden \cup {hand} ELSE hidden
    /\ index' = IF s = "index" THEN index \cup {hand} ELSE index
    /\ finished' = (finished \/ s = "mark")
    /\ CASE s = "assign" ->
                /\ Fresh # {} /\ timer' = (CHOOSE t \in Fresh : TRUE)
                /\ wait' = [wait EXCEPT ![timer'] = "created"]
         [] s = "start" -> wait' = [wait EXCEPT ![timer] = "armed"] /\ timer' = timer
         [] s = "clear" -> timer' = NoTimer /\ wait' = wait
         [] s = "cancel" ->
                /\ timer' = NoTimer
                /\ wait' = [t \in Timers |->
                       IF t = timer /\ wait[t] \in {"created", "armed"} THEN "idle" ELSE wait[t]]
         [] OTHER -> UNCHANGED <<timer, wait>>

-----------------------------------------------------------------------------
(* The timer threads.                                                      *)

Others == <<mainVars, tellVars, at, open, interrupts, torn>>

Expire(t) ==
    /\ at # "gone" /\ wait[t] = "armed"
    /\ wait' = [wait EXCEPT ![t] = "firing"]
    /\ UNCHANGED <<Others, work, failed, written, hidden, index, count, timer, finished>>

Callback(t) ==
    /\ at # "gone" /\ wait[t] = "firing" /\ LockFree
    /\ \E due, over \in BOOLEAN : work' = [work EXCEPT ![t] = TimerBody(due, over)]
    /\ wait' = [wait EXCEPT ![t] = "idle"]
    /\ UNCHANGED <<Others, failed, written, hidden, index, count, timer, finished>>

TimerStep(t) ==
    /\ at # "gone" /\ work[t] # <<>> /\ ~Fails(Head(work[t]))
    /\ Do(Head(work[t]))
    /\ work' = [work EXCEPT ![t] = Tail(@)]
    /\ UNCHANGED <<Others, failed>>

\* Mutant of TimerRaises: the lock is not released.
TimerRaisesLocked(t) ==
    /\ at # "gone" /\ work[t] # <<>> /\ Fails(Head(work[t]))
    /\ work' = [work EXCEPT ![t] = <<"summary">>]
    /\ failed' = TRUE
    /\ UNCHANGED <<Others, reducerVars>>

\* The thread ends with the exception: the run stays open, without a timer.
TimerRaises(t) ==
    /\ at # "gone" /\ work[t] # <<>> /\ Fails(Head(work[t]))
    /\ work' = [work EXCEPT ![t] = <<>>]
    /\ failed' = TRUE
    /\ UNCHANGED <<Others, reducerVars>>

-----------------------------------------------------------------------------
(* The main thread: start_session, the arguments, the records.             *)

Go(from, to) == at = from /\ at' = to

\* The command log may be off, busy or broken.
Start ==
    /\ Go("start", "parse")
    /\ started' \in BOOLEAN
    /\ UNCHANGED <<reducerVars, mainVars, logged, work, open, failed, interrupts, torn>>

\* Help and version end with 0, errors in the arguments with 2.
ParseExits ==
    /\ Go("parse", "log")
    /\ status' \in {0, 2}
    /\ UNCHANGED <<reducerVars, tellVars, mode, hand, source, draining, work, open, failed,
                   interrupts, torn>>

Parse ==
    /\ Go("parse", "idle")
    /\ UNCHANGED <<reducerVars, mainVars, tellVars, work, open, failed, interrupts, torn>>

\* The next record has been read; process waits for the lock.
Read(p) ==
    /\ Go("idle", "waiting")
    /\ Len(source) < MaxRecords
    /\ source' = Append(source, p)
    /\ hand' = p
    /\ UNCHANGED <<reducerVars, tellVars, mode, draining, status, work, open, failed,
                   interrupts, torn>>

Process ==
    /\ Go("waiting", "processing") /\ LockFree
    /\ \E due, over \in BOOLEAN : work' = [work EXCEPT ![Main] = ProcessBody(hand, due, over)]
    /\ UNCHANGED <<reducerVars, mainVars, tellVars, open, failed, interrupts, torn>>

MainStep ==
    /\ work[Main] # <<>> /\ ~Fails(Head(work[Main]))
    /\ Do(Head(work[Main]))
    /\ work' = [work EXCEPT ![Main] = Tail(@)]
    /\ UNCHANGED <<Others, failed>>

Processed ==
    /\ Go("processing", "idle") /\ work[Main] = <<>>
    /\ UNCHANGED <<reducerVars, mainVars, tellVars, work, open, failed, interrupts, torn>>

\* The source has ended, or its file fails; what _main has set out to return.
EndOfSource ==
    /\ Go("idle", "finally")
    /\ status' \in IF draining THEN {1, 130} ELSE {0, 1}
    /\ UNCHANGED <<reducerVars, tellVars, mode, hand, source, draining, work, open, failed,
                   interrupts, torn>>

\* Mutant of MainRaises: the exception out of finish is caught as well.
MainRaisesQuietly ==
    /\ work[Main] # <<>> /\ Fails(Head(work[Main]))
    /\ work' = [work EXCEPT ![Main] = <<>>]
    /\ failed' = TRUE
    /\ at' = IF at = "processing" THEN "finally" ELSE "log"
    /\ status' = IF at = "processing" THEN 1 ELSE status
    /\ UNCHANGED <<reducerVars, tellVars, mode, hand, source, draining, open, interrupts, torn>>

\* except OSError: parser.exit(1); out of finish it replaces that exit.
MainRaises ==
    /\ work[Main] # <<>> /\ Fails(Head(work[Main]))
    /\ work' = [work EXCEPT ![Main] = <<>>]
    /\ failed' = TRUE
    /\ at' = IF at = "processing" THEN "finally" ELSE "gone"
    /\ status' = IF at = "processing" THEN 1 ELSE Uncaught
    /\ UNCHANGED <<reducerVars, tellVars, mode, hand, source, draining, open, interrupts, torn>>

-----------------------------------------------------------------------------
(* finally: reducer.finish(), and telemetry.finish.                        *)

EnterFinish ==
    /\ Go("finally", "finishing") /\ LockFree
    /\ work' = [work EXCEPT ![Main] = FinishBody]
    /\ UNCHANGED <<reducerVars, mainVars, tellVars, open, failed, interrupts, torn>>

\* An exception that finish was called under goes past telemetry.finish.
FinishDone ==
    /\ Go("finishing", IF status = Uncaught THEN "gone" ELSE "log") /\ work[Main] = <<>>
    /\ UNCHANGED <<reducerVars, mainVars, tellVars, work, open, failed, interrupts, torn>>

\* Without a START nothing is attempted; an append that fails, waits too long for
\* the lock or is interrupted loses FINISH, and no one hears of it.
Attempted == IF started THEN {status, Lost} ELSE {NoStatus}

\* main returns the status whatever became of FINISH.
LogFinish ==
    /\ Go("log", "gone")
    /\ logged' \in Attempted
    /\ UNCHANGED <<reducerVars, mainVars, started, work, open, failed, interrupts, torn>>

Leave(to, with) == at' = to /\ status' = with /\ draining' = draining
Drain == at' = "idle" /\ draining' = TRUE /\ status' = status

\* Mutant of CatchInterrupt: the records after it are read in either mode.
CatchAndRead == Drain

\* except KeyboardInterrupt of _main and of _run_child_command.
CatchInterrupt ==
    IF mode = "stream" THEN Leave("finally", 0)
    ELSE IF draining THEN \E s \in {1, 130} : Leave("finally", s)
    ELSE Drain

\* Ctrl+C in the main thread.  What it interrupts inside the append is part of
\* LogFinish; before and after it the exception leaves main.  Where a handler or
\* the runner's own code is interrupted the exception goes through finally.
Interrupt ==
    /\ interrupts < MaxInterrupts
    /\ interrupts' = interrupts + 1
    /\ \/ at = "start" /\ Leave("gone", 130)
       \/ at \in {"parse", "finally", "finishing", "log"} /\ Leave("gone", Uncaught)
       \/ at \in {"idle", "waiting", "processing"} /\ CatchInterrupt
       \/ (at = "finally" \/ (at = "idle" /\ mode = "run")) /\ Leave("finally", Uncaught)
    /\ work' = [work EXCEPT ![Main] = <<>>]
    /\ torn' = IF at \in {"waiting", "processing"} THEN Append(torn, hand) ELSE torn
    /\ IF at = "start" THEN started' \in BOOLEAN ELSE started' = started
    /\ IF at = "log" THEN logged' \in Attempted \cup {NoStatus} ELSE logged' = logged
    /\ UNCHANGED <<reducerVars, mode, hand, source, open, failed>>

LoseReader ==
    /\ open /\ at # "gone"
    /\ open' = FALSE
    /\ UNCHANGED <<reducerVars, mainVars, tellVars, at, work, failed, interrupts, torn>>

-----------------------------------------------------------------------------
Init ==
    /\ mode \in Modes
    /\ at = "start"
    /\ work = [t \in Threads |-> <<>>]
    /\ hand = NoPattern
    /\ source = <<>> /\ written = <<>> /\ hidden = {} /\ index = {}
    /\ count = 0
    /\ timer = NoTimer /\ wait = [t \in Timers |-> "idle"]
    /\ finished = FALSE
    /\ open = TRUE /\ failed = FALSE
    /\ draining = FALSE
    /\ interrupts = 0 /\ torn = <<>>
    /\ started = FALSE /\ logged = NoStatus
    /\ status = NoStatus

Timing(t) == Expire(t) \/ Callback(t) \/ TimerStep(t) \/ TimerRaises(t)
Ending == MainStep \/ MainRaises \/ EnterFinish \/ FinishDone \/ LogFinish

Next ==
    \/ Start \/ ParseExits \/ Parse
    \/ \E p \in Patterns : Read(p)
    \/ Process \/ Processed \/ EndOfSource
    \/ Ending \/ Interrupt \/ LoseReader
    \/ \E t \in Timers : Timing(t)

Spec == Init /\ [][Next]_vars

\* The threads are scheduled, and one that waits for the lock gets it in the
\* end.  Nothing is assumed of the source, the reader or Ctrl+C.
FairSpec == Spec /\ SF_vars(Ending) /\ \A t \in Timers : WF_vars(Timing(t))

-----------------------------------------------------------------------------
(* Properties.                                                             *)

TypeOK ==
    /\ mode \in Modes
    /\ at \in {"start", "parse", "idle", "waiting", "processing", "finally", "finishing",
               "log", "gone"}
    /\ work \in [Threads -> Seq(Statements)]
    /\ hand \in Patterns \cup {NoPattern}
    /\ source \in Seq(Patterns)
    /\ written \in Seq([pattern : Patterns \cup {NoPattern}, count : Nat \ {0}])
    /\ hidden \subseteq Patterns /\ index \subseteq Patterns
    /\ count \in Nat
    /\ timer \in Timers \cup {NoTimer}
    /\ wait \in [Timers -> {"idle", "created", "armed", "firing"}]
    /\ finished \in BOOLEAN /\ open \in BOOLEAN /\ failed \in BOOLEAN
    /\ draining \in BOOLEAN /\ started \in BOOLEAN
    /\ interrupts \in 0 .. MaxInterrupts
    /\ torn \in Seq(Patterns) /\ Len(torn) <= interrupts
    /\ status \in {0, 1, 2, 130, Uncaught, NoStatus}
    /\ logged \in {0, 1, 2, 130, Lost, Uncaught, NoStatus}

\* The records that what is written stands for: line i for each k up to its count.
Lines == UNION {{i} \X (1 .. written[i].count) : i \in DOMAIN written}
Covered == Cardinality(Lines)

\* When the program has finished its output, and nothing failed, the lines and
\* counts in it cover every record it took but those Ctrl+C fell on, and
\* without one exactly: the statement it interrupts never loses a count that
\* was made before.
CountsSurvive ==
    (finished /\ at = "log" /\ ~failed) =>
        /\ Covered + Len(torn) >= Len(source)
        /\ torn = <<>> => Covered = Len(source)

\* The patterns of the records that were torn and the reading went on after.
TornPatterns == IF mode = "run" THEN {torn[i] : i \in DOMAIN torn} ELSE {}

\* A record is only hidden when one of its pattern has been printed, also after
\* Ctrl+C between the index and the line: it ends the reading of a file or
\* stdin.  A command's output is read on after it, and of the records hidden
\* then only those of the pattern it tore may be without an exemplar.
ExemplarPrinted == hidden \subseteq {written[i].pattern : i \in DOMAIN written} \cup TornPatterns

\* The exit status is told the truth: output that could not be written, also
\* by a timer thread, never ends with success; every exit but that of an
\* exception nobody catches and of Ctrl+C during START attempts a FINISH, only
\* one with a START; and a FINISH that is written carries the very status,
\* unless Ctrl+C came between it and the exit.
ExitTold ==
    at = "gone" =>
        /\ failed => status # 0
        /\ logged \in {status, Lost, NoStatus} \/ status = Uncaught
        /\ (started /\ logged = NoStatus) =>
               (status = Uncaught \/ (status = 130 /\ ~finished))
        /\ logged # NoStatus => started

\* Once reading is over the program ends, whatever its timer threads are in
\* the middle of and also when one of them died in a write.
SessionEnds == (at = "finally") ~> (at = "gone")
=============================================================================
