# A TLA+ model of qurtail

qurtail reads a stream of text records, prints the first record of each
pattern in full and replaces the records that repeat one by dots and counts. It
reads standard input, a file (once, or followed like `tail -F`), or the output
of a command that it runs, and it can keep a small log of its own invocations.
These modules model its code, `qurtail.py` and `_qurtail_telemetry.py`; TLC
checks them on small instances. TLAPS proves every safety property that holds,
and that the reducer implements its abstract view, for every value of the
constants.

## The system

| component | state it keeps | operations | interacts with |
|---|---|---|---|
| stream reducer (`_StreamReducer`, qurtail.py 555-826) | bounded index of patterns, most recent pattern, its compiled matcher, open diagnostic, open run of hidden records (count, start, dots), timer | `process`, `tick`, `finish`, timer callback | a timer thread calls back under the reducer's lock; everything below calls `process` |
| signatures (`_signature` and its regular expressions, 36-554) | none | record to pattern; compiling a matcher from a pattern | the reducer |
| file follower (`_follow_file`, `_read_file_once`, `_tail_existing`, checkpoints, 829-1056) | open file, its identity, offset, eight checkpoints and a tail window | tail the last lines, poll, notice truncation, replacement and rotation | the file's writers; the reducer |
| command runner (`_run_child_command` and helpers, 1058-1271) | child process, pipe, raw log, requested signal, interrupter thread | stream, log, interrupt, drain, escalate, reap | the child's process group; the reducer; signals |
| session (`_main`, `_run_mode`, `main`, 1275-1472) | parsed arguments, exit status | dispatch, map exceptions to a status, call `finish` | all of the above; telemetry |
| telemetry (`_qurtail_telemetry.py`) | `commands.log`, numbered archives, lock file, one session per process | START, FINISH: lock, prune, rotate, append | other qurtail processes |
| benchmarks (`benchmarks/*.py`) | corpora and result files | measuring, auditing transcripts | run qurtail from outside |
| packaging, tests, docs, skills | - | - | - |

What is hard in each, and what makes it correct:

* **Reducer.** A record is hidden on the strength of state built by earlier
  records (an index that evicts, a compiled matcher that bypasses the index)
  while another thread closes runs. It is correct if the output accounts for
  every record in order, hides nothing the reader has not seen an example of,
  keeps diagnostics whole, and shows progress without further input.
* **Runner.** Signals arrive between any two steps, the pipe has a bounded
  capacity, processes ignore signals, fork and outlive their parent. It is
  correct if the transcript is complete and in order, a signal always ends the
  run with no process of the group left, and no failure reads as success.
* **Telemetry.** Processes with different settings share the files, and any of
  them can die between two file operations. It is correct if the history stays
  in order, loses only its oldest end, and no process waits for a dead one.
* **Follower.** The file changes between the calls that examine it. It is
  correct if each record written to a file that is only appended to, truncated,
  or rotated is delivered once, in order.
* **Session.** Ctrl+C raises between any two statements, a write can fail in the
  main thread or in a timer's, and `finish` runs while an exception is under
  way. It is correct if counts survive, nothing is hidden without an example,
  and status and FINISH tell what happened.
* **Signatures.** Passes work on each other's output and short cuts skip them.
  They are correct if two records with one signature differ only in volatile
  values, and if the compiled matcher and the short cuts agree with the passes.

## Modules

| module | models | status |
|---|---|---|
| `Reducer` | the reducer with its timer threads and the clock | done |
| `CompactView` | what the reducer promises, abstractly | done |
| `ReducerRefinement` | the mapping from `Reducer` to `CompactView` | done |
| `Reducer_proofs`, `ReducerRefinement_proofs` | TLAPS proofs about them | done |
| `Runner` | `qurtail run` on POSIX | done |
| `Runner_proofs`, `RunnerTranscript_proofs` | TLAPS proofs about it | done |
| `Telemetry` | the command log | done |
| `Telemetry_proofs` | TLAPS proofs about it | done |
| `Follower` | the file follower and a file's writers | done |
| `Follower_proofs` | TLAPS proofs about it | done |
| `Session` | `main`, `_main`, `_run_mode` around a reducer taken apart into statements | done |
| `Session_proofs` | TLAPS proofs about it | done |
| `Signatures` | `_signature`, its short cuts, `_stable_json`, the compiled matcher: operators only | done |
| `RecordPairs` | records one after the other, so that the properties of `Signatures` can be stated | done |
| `RecordPairs_proofs` | TLAPS proofs about them, for records of any length | done |
| `MCReducer`, `MCRunner`, `MCTelemetry`, `MCFollower`, `MCSession`, `MCRecordPairs` | instances for TLC | done |

`MCReducer` composes `Reducer` with `Signatures`: its record classes have texts,
and `TextAssumption`, which TLC evaluates, says that the signatures and the
matchers given to `Reducer` are what `Signatures` computes for them. So the record
that the matcher takes although it has no signature (`long`) is a real one. The
traits are computed from the same texts (`TraitsOf`): what begins with a timestamp
or a level ends a diagnostic, and `tagged` ("ERROR SomeError: text") ends one or
opens one, as the flag is.

### Reducer

`process`, `tick`, `finish` and `_on_timer` run under one re-entrant lock, so
each is one action. `process` is five actions, one for each way its control can
go: `ProcessDiagnostic` (kept because of its text), `ProcessFastMatch` (hidden by
the compiled matcher), `ProcessFamiliar` (hidden by the index),
`ProcessReturning` (familiar, but printed without interleaving), `ProcessNew`.
The variables have the code's names without underscore; `run` holds
`_run_count`, `_run_started`, `_last_dot_flush` and `_dots_written`; `source`
and `view` are the input and the completed output lines, `column` the dots on
the unfinished one.

A record is a model value. What the code reads off its text is given by three
constants: `Signature` (what `_signature` returns), `FastMatches` (what the
matcher compiled from a pattern accepts) and `Traits` (which of the diagnostic
expressions match). Nothing relates `FastMatches` to `Signature`, so the model
covers records that the compiled matcher accepts although their signature
differs (the instances take both from `Signatures`). The clock is read only in differences, so times are ages that saturate
just above the values the code compares them with.

A timer is a thread that sleeps (`armed`), has woken and waits for the lock
(`firing`), or does not exist (`idle`). `cancel()` stops only an armed one.
`timer` is the one `_timer` refers to; more may exist. `_first_record` and the
byte-order mark, and the wording of summaries, are left out. Without
`live_timer` the code takes no lock; the model then has no timers and the same
actions (`main` always asks for live timers, so only the proofs cover it).

### Runner

The main thread is a program counter with one state for each place where a
signal handler's exception is handled differently; `Interrupt` raises there.
The interrupter thread is `stopper`. Processes of the command are `Members`:
each may write, close its output, fork, leave the group (`Daemons`), exit or be
killed. Lines are cut into numbered chunks, since the pipe is unbuffered and a
line is assembled in `hand`, which a raised exception drops (`lost` remembers
it). A signal lets any part of the group die, any part stop its work, and the
rest ignore it; SIGKILL kills all. A grace period may end at any time.

A `Fault` is the log that cannot be opened, the command that cannot be started,
or a write to the log or the view that fails; `Abort` is the handler that kills
the group unless the leader is gone. The Windows branches, reuse of a
process-group number and processes qurtail may not signal are left out. The
constant `Running` stands for Popen's `None`.

### Telemetry

One step per file operation: each unlink, each rename, the open and the write.
The lock is `flock`'s: it is free again when its holder dies. A descriptor names
a file by identity and follows it through renames. `Fault`s are kills, failed
operations and Ctrl+C; a write under way may leave part of its record. The
configuration is what `_load_config` returns; disabled telemetry takes no steps
and is left out, as are permissions and the text of the records. A record has
a size, chosen from `Sizes` for its event; a write under way leaves a smaller
part of it. A file's `size` is the sum of what was written to it, and `Full`
compares it with the `MaxSize` of the process before the write, as the code does,
so that a record can take a file past the limit.

### Follower

The path leads to a file or to none; a file is a sequence of pieces of text,
and writers append to a file they have open under any name, truncate the named
one, and rename, delete or create. The program counter tells the loops of
`_follow_file` and `_tail_existing` apart and stops between every two system
calls whose order matters: open, each `readline`, `stat`, the comparison of the
checkpoints, seeks. `tail` reads the context lines into a window and `show`
hands them to the reducer one by one, as `_tail_existing` does. `before` and
`after` are the two places that look at the path, before reading on and after
the end was reached, and `checkBefore` and `checkAfter` compare the checkpoints
there; the size compared is
that of the `stat`, which the file may have outgrown. The reader is buffered as
in Python: a `readline` that needs more fetches all that is left of the file
(files are shorter than a buffer, a named abstraction) and later lines are
handed out from `ahead` although the file may have been rewritten meanwhile.
The comparison of all checkpoints is one step. `trail`, `begun` and `due` are
history. `options` is what `-n` and `-f` say; without `-f` this is
`_read_file_once`. Decoding, sharing modes on Windows and a piece of a
character at the end of a file are left out; `tick` belongs to `Reducer`.

### Session

`Session` takes the reducer apart: `work` holds the statements a thread has left
to execute under the reducer's lock (`ProcessBody`, `TimerBody`, `FinishBody`,
with `_close_run` and `_schedule_timer` in them), and a thread starts a body only
when nobody else has work. `MainStep` and `TimerStep` execute one statement;
`MainRaises` and `TimerRaises` are the write to an output whose reader has gone,
which raises in the thread that wrote; `Interrupt` is Ctrl+C between any two
statements. `at` is the place in `main`: a handler or `finally` of the source
for each value that matters. `EnterFinish` is `reducer.finish()` in the
`finally` clause, `LogFinish` is `telemetry.finish`. In run mode the first
Ctrl+C starts the drain of `_interrupt_and_drain` and reading goes on; the
second leaves it. `torn` holds the patterns of the records that Ctrl+C hit
between their arrival and their end. What is in a record, the index limit,
diagnostics and the number of dots are in `Reducer`; here a record is its
pattern, and whether dots are due or an interval has passed is a choice. The dots
of `_tick_locked` and `_suppress` are a statement of their own, because their
write can fail like any other (those of `_close_run` are in its summary's). A
wrong argument is a choice, too (`ParseExits`). The append of FINISH may be lost
(`Lost`): it fails, waits too long for the lock or is interrupted, and `main`
ends with the same status; Ctrl+C just before or after it leaves `main`. How
the log itself behaves is in `Telemetry`. A write ends or raises: that the reader
of the output neither reads nor goes away is not modelled, and `SessionEnds`
says nothing of it.

### Signatures

A text line is a sequence of tokens; the kind of a token stands for the regular
expression that matches it, its value for what the expressions tell apart
(values that contain "id", that are UUIDs, quoted, closed by a stray quote, too
long). On these, every pass of `_text_signature` is an operator, in the order
of the code: timestamps, UUIDs, identifiers, and with `--aggressive` paths and
numbers. So are the short cuts: `ExactName` and `FoldedName` are the loops of
`_replace_single_named_id` with their counts of "id", `FastName` is the test of
`_fast_text_signature`, `Accepts` the expression of the compiled matcher.
Lengths are weighed against the limit before and after. A JSON object is a set
of leaves with their paths. `RecordPairs` lets the text of a record grow, takes
it, and lets a second one grow, so that a run visits every line, every object and
every pair of a matcher and a line in its bounds.

## Runs

| run | asks | instance |
|---|---|---|
| `reducer_interleaved` | `TypeOK`, `Accounting`, `EveryHiddenHasExemplar`, `IndexInv`, `DiagnosticsIntact`, `ImplementsCompactView` | seven record classes, five records, index of 2, three timer threads |
| `reducer_live` | `RunHasTimer`, `DotsExact`, `Latency`, `AdjacentOnly`, `EventuallyAccounted`, `TimersEnd` | three record classes, three timer threads, no interleaving; fair clock and timers |
| `reducer_known_patterns` | `CountsCoverKnownPatterns` (violated) | the compiled matcher hides an unknown pattern |
| `runner_safety` | `TypeOK`, `TranscriptInOrder`, `TranscriptComplete`, `SuccessIsWhole`, `GroupStopped`, `FailureStops` | 2 processes, one a daemon, 2 signals, 1 failed write |
| `runner_live` | `InterruptEnds`, `RunEnds` | pipe of one chunk, 2 signals, nobody leaves the group |
| `runner_reaps` | `ChildReaped` (violated) | repeated Ctrl+C |
| `runner_raw_log` | `ExactRawLog` (violated) | SIGINT amid a line |
| `telemetry_log` | `TypeOK`, `HistoryInOrder`, `RetentionBounded`, `FinishMatchesStart`, `RenamesKeep`, `AppendEnds` | max_files 3, 2, 1; limits 3, 3, 2; records of size 1, 2 and 4; one fault; one process sure to move |
| `follower` | `TypeOK`, `DeliveredOnce`, `NothingSkipped`, `SamplesKept`, `Settles` | three pieces, two files, two truncations each, two checkpoints |
| `follower_rotation` | `RotationComplete` (violated) | a line written between poll and rename |
| `session` | `TypeOK`, `CountsSurvive`, `ExemplarPrinted`, `ExitTold`, `SessionEnds` | both modes, two patterns, three records, two Ctrl+C, three timer threads |
| `record_pairs` | `OnlyVolatileErased`, `ShortCutsComplete`, `MatcherFaithful`, `JsonPayloadKept` | lines of three tokens of fifteen kinds, objects of three leaves |

Every run switches the deadlock check off, because every component really
stops: a stream, a command or an invocation ends.

**Bounds.** The reducer's streams have `MaxRecords` records (4 or 5). An index
of two patterns with three patterns evicts; a run needs two records to be
counted and one more to be closed by; a stale callback needs a run, another
run, and a third thread to be overtaken by; a step that would need a fourth
thread is not taken. Dot and summary intervals of one to
three time units distinguish "before the flush", "flushed, not closed" and
"closed". Two processes are enough for a descendant that outlives the leader,
keeps the pipe or the group, or leaves it; a pipe of one chunk blocks a writer
at its second. Two signals reach every place where a first and a second one are
handled differently; `runner_reaps` allows three. Three invocations write up to
six events. A START of size 1 leaves room in its file, one of size 4 passes the
limit at once, so files hold one to three records, whole and in part, and three
archives fill; the settings 3, 2, 1 make processes prune what others keep. Two checkpoints stand for eight:
the first record read and the latest, so that the third evicts one; with two
files and two truncations of each a rewrite meets a rotation, and three pieces
make two records and the completion of one. In `session` two Ctrl+C tell the
first from the second in the drain, in `finally` and in `finish`; three records
of two patterns make a run, a record that closes it and one that repeats it
after the interruption; three timer threads are never exhausted there. Three
tokens are a timestamp, an identifier and something that disturbs a short cut;
what needs more is covered by the proofs, which have no such bound.

**Fairness.** The reducer's: time passes, and an expired or waiting timer
thread is scheduled (`threading.Timer` waits with a timeout, the lock is freed
after each record). Nothing is assumed of the input or of `finish`. The
runner's `FairSpec`: qurtail's two threads run and a grace period ends; nothing
of the command, so the escalation has to do the work. `RunEnds` has the
premise `CommandWorks`, that the processes write and exit. Telemetry's:
only the processes in `Prompt` take their steps, the deadline included. The
follower's: it is scheduled and its sleep ends; nothing of the writers, which
stop in the instance because what they may do is bounded. The session's: weak
fairness of each timer thread and strong fairness of the main thread's `Ending`:
a thread that waits for the lock gets it in the end, although timers may take it
in between; nothing of Ctrl+C, the source or the reader of the output.

**Latency** bounds how late dots and summaries can be by what the pending timer
still has to wait, so it needs no assumption that due timers are served at once.

**Processes that leave the group.** `runner_live` has no `Daemons`. A
daemon that keeps the pipe open keeps the drain waiting until it ends or a
second signal comes: the escalation does not reach another session. This is
what the code does and it is no property of the model.

## Where documents and code disagree

* `benchmarks/run_interleaved.py:39` says counts cover only known, fully
  printed patterns. The compiled matcher may hide a record that has no signature
  or another one; `reducer_known_patterns` shows it. The weaker
  `EveryHiddenHasExemplar` is what holds.
* `README.md:97` says an interrupted qurtail reaps the child before exiting. A
  signal repeated before the drain has begun, or during the join, ends the
  interpreter with the interrupter; `runner_reaps` shows it. `GroupStopped` is
  what holds: if the call returns, the group is gone.
* `qurtail.py:1349` calls the raw log exact. A signal while a line is being
  read drops what was read of it; `runner_raw_log` shows it.
  `TranscriptComplete` is what holds.
* `README.md:61` and the help of `-f` say that following goes on across a
  rotation. It does, but what was appended to the old file after the last poll
  is not read; `follower_rotation` shows it.

Some observations without a run of their own:

* `README.md:129` promises that request, trace and span identifiers are ignored.
  The first loop of `_replace_single_named_id` (`qurtail.py:221`) counts "id"
  with its case and does not look for `traceparent`, so of
  `request_id=a traceparent=b` or `request_id=a Trace-ID: b` only the first
  is replaced. The second half of `ShortCutsComplete` is what holds: the short
  cut is complete when the identifiers of a line share a spelling.
* In run mode reading goes on after Ctrl+C. A record torn between
  `_remember` and `_write_visible` has its pattern in the index without having
  been printed, and the drain may count records of it. `ExemplarPrinted` says
  what holds: of a file or stdin nothing is hidden without an exemplar, and of a
  command's output nothing but records of a torn pattern.
* `docs/telemetry.md:31` says that every normal exit attempts one FINISH;
  line 39 allows a START without one. `ExitTold` distinguishes the two: a FINISH
  that was attempted may be lost with any status, one that was not belongs to an
  exception nobody caught, or to Ctrl+C during START.
* When the reader of the output goes away, `process` fails, the handler calls
  `parser.exit(1)`, and `reducer.finish()` in the `finally` clause fails on the
  same output. Its exception replaces the exit: the program ends with a
  traceback, and no FINISH is attempted. `ExitTold` counts this (`Uncaught`) as
  the failure it is, never as success.

## Proofs

The assumptions are those of the modules, which TLC evaluates in every run.

* `Reducer_proofs` proves `TypeOK`, `Accounting`, `IndexInv`,
  `EveryHiddenHasExemplar`, `DotsExact`, `RunHasTimer`, `DiagnosticsIntact`,
  `AdjacentOnly` and `Latency`. Types first; then `DotsExact` and `Accounting`
  are inductive with the type invariant alone, `IndexInv` needs nothing but
  types, too, because what is in the index was printed by the action that put it
  there. `EveryHiddenHasExemplar` is not inductive: that a hidden record has an
  exemplar follows from the index holding only printed patterns and from the
  loaded matcher being that of the recent pattern, so it is proved with
  `IndexInv` and `Accounting`, which says when a record just taken is hidden.
  `RunHasTimer` speaks of all timer threads: the one `timer` refers to is never
  the stale one that calls back. The other three need the history as well as the
  state. `DiagnosticsIntact` reads off the source alone which records are in a
  diagnostic: an opener starts one only when none is open, and a boundary ends
  one even if it looks like an opener. `DiagnosticInv` ties that to the flag the
  code keeps (it is set exactly if the last record is inside), and adds why no
  count comes in between: while a diagnostic is open no run is, so timers find
  nothing to close, and the last line printed is the diagnostic's.
  `AdjacentOnly` rests on `RecentInv`,
  that without interleaving the recent pattern is that of the last record
  printed in full (a diagnostic, which has no pattern, must therefore reset it).
  `Latency` is inductive with `RunHasTimer` and the types of the ages: time
  takes from the timer's wait what it adds to the run's age, and whoever arms a
  timer has looked at the dots just before.
* `ReducerRefinement_proofs` proves that every behaviour of `Reducer` is one of
  `CompactView` under the mapping; each action is shown to be one of the
  abstract steps or to leave the ledger, the pending count and the end alone.
  `SimilarPairs` is a constant of the mapping, and the exemplar it asks for
  comes from the same facts as above.
* `Runner_proofs` proves `TypeOK` and `GroupStopped`. `GroupStopped` looks at
  the moment the call returns; the invariant behind it follows the interrupter:
  once SIGKILL is delivered or the group was found gone, nothing is left in the
  group, and since only a member can fork a member, nothing returns. It also
  follows the main thread: it waits for the child itself only while no signal is
  requested, so that after a signal it returns only by the join.
* `RunnerTranscript_proofs` proves `TranscriptInOrder`, `TranscriptComplete`,
  `SuccessIsWhole` and `FailureStops`. The invariant `Flow` behind the first
  three says that the chunks written are those logged, lost, in hand and in the
  pipe, and that what is in the pipe comes after what was taken from it; what is
  in hand is in the log exactly while it is being handed on. None of the three
  is inductive: completeness adds `Whole` (no process holds the pipe any more
  when the main thread waits or joins), success adds `Processes` (the leader's
  status is set once, since only a living process dies) and `Successful` (no
  signal and no failed write lies on the way to status 0). `FailureStops`
  follows from `Undisturbed`, what every place of the program knows while no
  signal has come: there is no interrupter, only `Abort` kills, and it does so
  on its way to `wait`. Lemmas about the ranges and the order of sequences come
  first.
* `RecordPairs_proofs` proves `OnlyVolatileErased`, `MatcherFaithful`,
  `ShortCutsComplete` and `JsonPayloadKept` for every set of tokens and leaves
  and without a bound on the length of lines. `Erase` blanks what may vary; each
  pass is shown to leave `Erase` of its line as it was, position by position, so
  their composition does, and the fast signature is one more such pass. What the
  matcher accepts agrees with the first record outside the identifier by its
  definition, and inside it both are erased. The path of a JSON leaf is cut at
  its first volatile name; that there is a first one (`SmallestExists`) comes
  from the well-foundedness of the natural numbers. `ShortCutsComplete` argues
  with the number of occurrences of "id" in a line, a sum over its tokens.
  `Signatures` writes such sums as the size of a set of pairs (`SumOf`), so that
  the library's facts about finite sets say what is needed (`IdsAre`): the sum
  is at least that of two of its places, and that of one place if all others are
  zero. Then one occurrence leaves room for one identifier only
  (`ExactNameOnly`), and two of one spelling are one too many for either loop
  (`FoldedIdsAre`). The conclusions hold in every state of the right types, so
  only types are inductive there.
* `Session_proofs` proves `TypeOK`, `ExemplarPrinted`, `ExitTold` and
  `CountsSurvive` for any number of timers, interrupts and patterns. A thread's
  work is what is left of its locked section, so the invariant is about
  sequences of statements: at most one thread has any (`OneWorks`), and in each
  the statements keep their order (`Orderly`: a pattern enters the index just
  before it is printed, a count is reset only after its summary), which every
  tail of a section inherits. `ExemplarPrinted` follows because, while input is
  read, the index holds printed patterns only, but for the one whose print is
  the next statement and, in run mode, those of torn records: Ctrl+C makes the
  former one of the latter, or ends the reading. `ExitTold` follows because
  after `flush` of `finish` no timer can write any more, so that `failed` cannot
  be set on the way to status 0 (`EndInv`); only an exception leaves the program
  by another way than the attempt of FINISH. `CountsSurvive` looks at the end; its invariant `CountInv` keeps
  a balance as long as no write has failed: what is written covers, with the
  open count and the record in hand, all records taken. The count drops out of
  the balance from its summary to its reset (`Reported`), and this is sound only
  in that order, which `Closes` states of every thread's work. While a record is
  processed an interrupt between the two makes the count appear twice, one
  before the record is counted loses that record, and both add to `torn`; one in
  `finish` ends the program. What is written covers is the size of a set again
  (`Lines`).
* `Follower_proofs` proves `TypeOK`, `SamplesKept`, `NothingSkipped` and
  `DeliveredOnce` for any number of context lines, checkpoints, files,
  truncations and any texts, and for every order of the writers' steps and the
  follower's. `SamplesInv` says which record each checkpoint is of. Neither of
  the other two is inductive. `NothingSkipped` needs `FlowInv`, which holds also
  while the context is read: the lines of the window lie one after the other
  before the offset, what was delivered ends where the window begins
  (`ShownInv`), and what the reader fetched ahead is what the file has there as
  long as nobody truncated it (`AheadInv`). `DeliveredOnce` needs that a file
  never truncated passes the comparison with its checkpoints, so that it is
  never read from its beginning again: `SampledInv` relates each checkpoint to
  the file's text, including one of an unfinished last line that has been
  completed since, and `FilesInv` says that what was delivered is of the open
  file or of earlier ones.
* `Telemetry_proofs` proves `TypeOK`, `HistoryInOrder`, `RenamesKeep`,
  `RetentionBounded` and `FinishMatchesStart` for any number of processes, any
  `MaxFiles` and `MaxSize` of each, any sizes of records and any number of
  faults. To the files every step is one of
  five things (`FileStep`): nothing, an unlink, a rename into a free number, a
  creation or an append to number 0. That a rename never replaces a file is what
  the holder of the lock relies on (`PlaceInv`), not a guard; with it the order
  (`OrderInv`) is inductive by kinds of step. That the history has no gap is not
  true amid a pruning, where files outside the holder's setting go in any order:
  the invariant (`ClosedInv`) says it then only of the files inside the setting,
  and is handed over from all files to these, and back, at the lock. No file is
  bounded by its limit: `docs/telemetry.md:49` says so, and the code tests the
  size before it writes. What is proved (`SizeInv`) is that only the last record
  of a file lies past the limit of the process that wrote it, also in archives
  and after a write cut short, since the holder of the lock has seen the size of
  the very file it appends to (`PlaceInv`).

Every invariant and action property that a passing run checks is stated by one
of these theorems. Only model-checked are the liveness properties
(`EventuallyAccounted`, `TimersEnd`, `InterruptEnds`, `RunEnds`, `AppendEnds`,
`Settles`, `SessionEnds`), because liveness under fairness and ENABLED are out of
the prover's reach. That the texts of `MCReducer` have the signatures and matchers
given to `Reducer` (`TextAssumption`) is evaluated for that instance.

## Not modelled

The transcript audit of the benchmarks compares two finished transcripts and
has no state; the other benchmarks are offline measurements. Packaging, tests,
documentation and the agent skills have no behaviour of their own.

In `Reducer` actions are whole: an interrupt between two statements of `process`
is the subject of `Session`, which in turn leaves out the index limit, how many
dots are due and diagnostics. The characters of a record and the regular expressions that
classify them are taken as given (the kinds of tokens), as is the wording of
everything written. Windows is left out throughout.

The hazards list of `PROJECT.json` has four entries no property covers: a
rewrite of a followed file masked by a burst of records (877), a signal between
`Popen` and the `try` after it (1229), the reuse of a process-group number
(1104) and partial records in the command log (`_qurtail_telemetry.py:202`), each
with its reason.
