------------------------------- MODULE Runner -------------------------------
(***************************************************************************)
(* "qurtail run": _run_child_command of qurtail.py on a POSIX system.  The *)
(* main thread copies the child's pipe into the raw log and the reducer; a *)
(* signal turns it to draining the same pipe while an interrupter thread   *)
(* stops the child's process group; processes of the group write, fork,    *)
(* close their output and die at any moment.                               *)
(*                                                                         *)
(* What the processes write is a numbered chunk, complete lines being cut  *)
(* anywhere into chunks.  Reading a line from the unbuffered pipe consumes *)
(* its chunks one by one into hand, which the interpreter drops when a     *)
(* signal handler raises.  The raw log is configured.  An exception that   *)
(* is neither of the two interruptions is an OSError of a write.           *)
(***************************************************************************)
EXTENDS Integers, Sequences, Functions

CONSTANTS
    Members, Leader,   \* the processes the command may consist of
    Daemons,           \* those that may leave the group by a session of their own
    PipeSize,          \* chunks the pipe holds before a writer blocks
    Chunks,            \* chunks each process writes before it exits by itself
    MaxSignals,        \* bound: SIGINT and SIGTERM received by qurtail
    MaxFaults          \* bound: failed opening, start or write

ASSUME RunnerAssumption ==
    /\ Leader \in Members
    /\ Daemons \in SUBSET (Members \ {Leader})
    /\ PipeSize \in Nat \ {0}
    /\ Chunks \in Nat
    /\ MaxSignals \in Nat
    /\ MaxFaults \in Nat

SIGINT == 2
SIGTERM == 15
SIGKILL == 9
SIGPIPE == 13
NoSignal == 0
NoStatus == 1000       \* not a status: nothing has been returned
Running == 1000        \* not a wait status: the leader has not ended

VARIABLES
    life,              \* where each process is
    code,              \* the leader's wait status, as Popen spells it
    reaped,            \* Popen.returncode is set
    holders,           \* processes whose output is still the pipe
    todo,              \* chunks each has to write
    pipe,              \* the chunks in the pipe
    written,           \* the number of chunks written so far
    pc,                \* the main thread
    draining,          \* it is in _interrupt_and_drain
    hand,              \* the chunks of the line it is reading or handing on
    rawLog, shown,     \* chunks in the transcript, and handed to the reducer
    lost,              \* chunks it took from the pipe and dropped
    requested,         \* requested_signal
    stopper,           \* the interrupter thread
    signals, faults,   \* counters of the bounds
    status             \* what _run_child_command returned

groupVars == <<life, code, holders, todo>>
dataVars == <<pipe, written, hand, rawLog, shown, lost>>
mainVars == <<pc, draining, status>>
stopVars == <<requested, stopper, signals, faults>>
vars == <<groupVars, reaped, dataVars, mainVars, stopVars>>

-----------------------------------------------------------------------------
(* The processes.                                                          *)

Alive == {m \in Members : life[m] \in {"member", "daemon"}}
Group == {m \in Members : life[m] = "member"}
Zombie == code # Running /\ ~reaped

\* What os.killpg(pid, 0) finds: an unreaped leader keeps its group.
GroupExists == Group # {} \/ Zombie

\* The processes of D end with wait status c.
Die(D, c) ==
    /\ life' = [m \in Members |-> IF m \in D THEN "dead" ELSE life[m]]
    /\ holders' = holders \ D
    /\ code' = IF Leader \in D THEN c ELSE code

\* Signal sig reaches the group: nobody survives SIGKILL; of another, some
\* members die, some stop their work to exit by themselves, some go on.
Deliver(sig) ==
    \E D \in SUBSET Group :
        /\ sig = SIGKILL => D = Group
        /\ Die(D, 0 - sig)
        /\ \E S \in SUBSET (Group \ D) :
               todo' = [m \in Members |-> IF m \in S THEN 0 ELSE todo[m]]

StreamClosed == pc \in {"returned", "raised", "exited"}

Write(m, ends) ==
    /\ m \in holders /\ todo[m] > 0 /\ ~StreamClosed
    /\ Len(pipe) < PipeSize
    /\ pipe' = Append(pipe, [id |-> written + 1, ends |-> ends])
    /\ written' = written + 1
    /\ todo' = [todo EXCEPT ![m] = @ - 1]
    /\ UNCHANGED <<mainVars, stopVars, life, code, reaped, holders, hand, rawLog, shown,
                   lost>>

WriteClosed(m) ==
    /\ m \in holders /\ todo[m] > 0 /\ StreamClosed
    /\ Die({m}, 0 - SIGPIPE)
    /\ UNCHANGED <<dataVars, mainVars, stopVars, reaped, todo>>

\* A process redirects its output and goes on.
CloseOutput(m) ==
    /\ m \in holders
    /\ holders' = holders \ {m}
    /\ UNCHANGED <<dataVars, mainVars, stopVars, life, code, reaped, todo>>

Fork(p, m) ==
    /\ p \in Alive /\ life[m] = "unborn"
    /\ life' = [life EXCEPT ![m] = life[p]]
    /\ holders' = IF p \in holders THEN holders \cup {m} ELSE holders
    /\ UNCHANGED <<dataVars, mainVars, stopVars, code, reaped, todo>>

LeaveGroup(m) ==
    /\ m \in Daemons \cap Group
    /\ life' = [life EXCEPT ![m] = "daemon"]
    /\ UNCHANGED <<dataVars, mainVars, stopVars, code, reaped, holders, todo>>

Exit(m, c) ==
    /\ m \in Alive
    /\ m \in holders => todo[m] = 0
    /\ Die({m}, c)
    /\ UNCHANGED <<dataVars, mainVars, stopVars, reaped, todo>>

-----------------------------------------------------------------------------
(* The main thread: _run_child_command and _stream_child_output.           *)

MainStep(from, to) == pc = from /\ pc' = to

Spawn ==
    /\ MainStep("start", "spawned")
    /\ life' = [life EXCEPT ![Leader] = "member"]
    /\ holders' = {Leader}
    /\ UNCHANGED <<dataVars, stopVars, code, reaped, todo, draining, status>>

\* Mutant of EnterStream: the child is waited for before its pipe is read.
WaitFirst ==
    /\ MainStep("spawned", "wait")
    /\ UNCHANGED <<groupVars, dataVars, stopVars, reaped, draining, status>>

EnterStream ==
    /\ MainStep("spawned", "read")
    /\ UNCHANGED <<groupVars, dataVars, stopVars, reaped, draining, status>>

Read ==
    /\ pc = "read" /\ pipe # <<>>
    /\ hand' = Append(hand, Head(pipe).id)
    /\ pipe' = Tail(pipe)
    /\ pc' = IF Head(pipe).ends THEN "log" ELSE "read"
    /\ UNCHANGED <<groupVars, stopVars, reaped, written, draining, rawLog, shown, lost,
                   status>>

\* Every writer has closed the pipe: a last line may lack its newline.
ReadEnd ==
    /\ pc = "read" /\ pipe = <<>> /\ holders = {}
    /\ pc' = IF hand # <<>> THEN "log" ELSE IF draining THEN "join" ELSE "wait"
    /\ UNCHANGED <<groupVars, dataVars, stopVars, reaped, draining, status>>

Log ==
    /\ MainStep("log", "feed")
    /\ rawLog' = rawLog \o hand
    /\ UNCHANGED <<groupVars, stopVars, reaped, pipe, written, draining, hand, shown,
                   lost, status>>

\* Mutant of Feed: the record is kept for the next one.
FeedKeeping ==
    /\ MainStep("feed", "read")
    /\ shown' = shown \o hand
    /\ UNCHANGED <<groupVars, stopVars, reaped, pipe, written, draining, hand, rawLog,
                   lost, status>>

Feed ==
    /\ MainStep("feed", "read")
    /\ shown' = shown \o hand
    /\ hand' = <<>>
    /\ UNCHANGED <<groupVars, stopVars, reaped, pipe, written, draining, rawLog, lost,
                   status>>

\* Mutant of ExitStatus: the number of a fatal signal is subtracted.
ExitStatusBelow(c, req) ==
    IF c < 0 THEN 128 + c ELSE IF req # NoSignal /\ c = 0 THEN 128 + req ELSE c

\* _child_exit_status.
ExitStatus(c, req) ==
    IF c < 0 THEN 128 - c ELSE IF req # NoSignal /\ c = 0 THEN 128 + req ELSE c

WaitChild ==
    /\ MainStep("wait", "returned")
    /\ code # Running
    /\ reaped' = TRUE
    /\ status' = ExitStatus(code, NoSignal)
    /\ UNCHANGED <<groupVars, dataVars, stopVars, draining>>

\* What is in hand is dropped; it is in the raw log already once it was
\* written there.
DropHand ==
    /\ hand' = <<>>
    /\ lost' = IF pc = "feed" THEN lost ELSE lost \cup Range(hand)

\* SIGINT or SIGTERM makes the main thread raise where it stands.
Interrupt(s) ==
    /\ signals < MaxSignals
    /\ signals' = signals + 1
    /\ DropHand
    /\ \/ /\ pc \in {"read", "log", "feed", "wait"} /\ ~draining
          /\ pc' = "handler" /\ requested' = s
       \/ /\ pc \in {"read", "log", "feed"} /\ draining
          /\ pc' = "join" /\ UNCHANGED requested
       \/ /\ pc \in {"start", "spawned", "handler", "entering", "join", "abort", "abortwait"}
          /\ pc' = "raised" /\ UNCHANGED requested
    /\ UNCHANGED <<groupVars, reaped, pipe, written, draining, rawLog, shown, stopper,
                   faults, status>>

\* The raw log cannot be opened or the command not be started, or a write to
\* the log or the output fails.  While draining this leaves the interrupter
\* behind; a child that is there is killed below.
Fault ==
    /\ faults < MaxFaults
    /\ faults' = faults + 1
    /\ pc \in {"start", "log", "feed"}
    /\ DropHand
    /\ pc' = IF draining \/ pc = "start" THEN "raised" ELSE "abort"
    /\ UNCHANGED <<groupVars, reaped, pipe, written, draining, rawLog, shown, requested,
                   stopper, signals, status>>

\* Mutant of Abort: the leader alone is killed.
AbortLeader ==
    /\ MainStep("abort", "abortwait")
    /\ IF code = Running THEN Die({Leader}, 0 - SIGKILL) ELSE UNCHANGED <<life, holders, code>>
    /\ reaped' = (code # Running)
    /\ UNCHANGED <<dataVars, stopVars, draining, status, todo>>

\* except BaseException: the group is killed, if its leader has not ended.
Abort ==
    /\ MainStep("abort", "abortwait")
    /\ IF code = Running THEN Deliver(SIGKILL) ELSE UNCHANGED groupVars
    /\ reaped' = (code # Running)
    /\ UNCHANGED <<dataVars, stopVars, draining, status>>

AbortWait ==
    /\ MainStep("abortwait", "raised")
    /\ code # Running
    /\ reaped' = TRUE
    /\ UNCHANGED <<groupVars, dataVars, stopVars, draining, status>>

\* The interpreter ends, and with it the daemon thread.
ProcessExit ==
    /\ pc \in {"returned", "raised"}
    /\ pc' = "exited"
    /\ UNCHANGED <<groupVars, dataVars, stopVars, reaped, draining, status>>

-----------------------------------------------------------------------------
(* _interrupt_and_drain in the main thread.                                *)

StartInterrupter ==
    /\ MainStep("handler", "entering")
    /\ stopper' = "check"
    /\ UNCHANGED <<groupVars, dataVars, reaped, draining, requested, signals, faults,
                   status>>

\* Mutant of EnterDrain: the interrupter is joined and the pipe left alone.
JoinAtOnce ==
    /\ MainStep("entering", "join")
    /\ draining' = TRUE
    /\ UNCHANGED <<groupVars, dataVars, stopVars, reaped, status>>

EnterDrain ==
    /\ MainStep("entering", "read")
    /\ draining' = TRUE
    /\ UNCHANGED <<groupVars, dataVars, stopVars, reaped, status>>

\* Mutant of Join: the status is computed without the signal.
JoinPlainly ==
    /\ MainStep("join", "returned")
    /\ stopper = "done"
    /\ status' = ExitStatus(code, NoSignal)
    /\ UNCHANGED <<groupVars, dataVars, stopVars, reaped, draining>>

Join ==
    /\ MainStep("join", "returned")
    /\ stopper = "done"
    /\ status' = ExitStatus(code, requested)
    /\ UNCHANGED <<groupVars, dataVars, stopVars, reaped, draining>>

-----------------------------------------------------------------------------
(* _interrupt_child in the interrupter thread.                             *)

StopperStep(from, to) == pc # "exited" /\ stopper = from /\ stopper' = to

\* poll() first, so a leader that has ended no longer keeps its group.
StopCheck ==
    /\ pc # "exited" /\ stopper = "check"
    /\ reaped' = (code # Running)
    /\ stopper' = IF code # Running /\ Group = {} THEN "done" ELSE "signal"
    /\ UNCHANGED <<groupVars, dataVars, mainVars, requested, signals, faults>>

StopSignal ==
    /\ \/ StopperStep("signal", "grace1") /\ Deliver(requested)
       \/ StopperStep("term", "grace2") /\ Deliver(SIGTERM)
       \/ StopperStep("kill", "grace3") /\ Deliver(SIGKILL)
    /\ UNCHANGED <<dataVars, mainVars, reaped, requested, signals, faults>>

\* _wait_for_process_group: gone in time, polled once more, or timed out.
GroupGone ==
    /\ stopper \in {"grace1", "grace2", "grace3"}
    /\ StopperStep(stopper, "reap")
    /\ ~GroupExists
    /\ UNCHANGED <<groupVars, dataVars, mainVars, reaped, requested, signals, faults>>

GroupPoll ==
    /\ stopper \in {"grace1", "grace2", "grace3"}
    /\ StopperStep(stopper, stopper)
    /\ Zombie
    /\ reaped' = TRUE
    /\ UNCHANGED <<groupVars, dataVars, mainVars, requested, signals, faults>>

\* Mutant of GraceOver: the escalation ends with SIGTERM.
GraceOverMildly ==
    /\ \/ StopperStep("grace1", "term")
       \/ StopperStep("grace2", "reap")
       \/ StopperStep("grace3", "reap")
    /\ GroupExists
    /\ reaped' = (code # Running)
    /\ UNCHANGED <<groupVars, dataVars, mainVars, requested, signals, faults>>

GraceOver ==
    /\ \/ StopperStep("grace1", "term")
       \/ StopperStep("grace2", "kill")
       \/ StopperStep("grace3", "reap")
    /\ GroupExists
    /\ reaped' = (code # Running)
    /\ UNCHANGED <<groupVars, dataVars, mainVars, requested, signals, faults>>

StopReap ==
    /\ StopperStep("reap", "done")
    /\ code # Running
    /\ reaped' = TRUE
    /\ UNCHANGED <<groupVars, dataVars, mainVars, requested, signals, faults>>

-----------------------------------------------------------------------------
Init ==
    /\ life = [m \in Members |-> "unborn"]
    /\ code = Running
    /\ reaped = FALSE
    /\ holders = {}
    /\ todo = [m \in Members |-> Chunks]
    /\ pipe = <<>> /\ written = 0
    /\ pc = "start" /\ draining = FALSE
    /\ hand = <<>> /\ rawLog = <<>> /\ shown = <<>> /\ lost = {}
    /\ requested = NoSignal /\ stopper = "none"
    /\ signals = 0 /\ faults = 0
    /\ status = NoStatus

Stream == EnterStream \/ Read \/ ReadEnd \/ Log \/ Feed
Main ==
    \/ Spawn \/ Stream \/ WaitChild \/ Abort \/ AbortWait \/ ProcessExit
    \/ StartInterrupter \/ EnterDrain \/ Join
Stopper == StopCheck \/ StopSignal \/ GroupGone \/ GroupPoll \/ GraceOver \/ StopReap
Work(m) == (\E ends \in BOOLEAN : Write(m, ends)) \/ \E c \in {0, 1} : Exit(m, c)

Next ==
    \/ Main \/ Stopper \/ Fault
    \/ \E s \in {SIGINT, SIGTERM} : Interrupt(s)
    \/ \E m \in Members :
           Work(m) \/ WriteClosed(m) \/ CloseOutput(m) \/ LeaveGroup(m)
    \/ \E p, m \in Members : Fork(p, m)

Spec == Init /\ [][Next]_vars

\* qurtail's own threads are scheduled, and a grace period ends.  Of the
\* processes nothing is assumed.
FairSpec == Spec /\ WF_vars(Main) /\ WF_vars(Stopper)

-----------------------------------------------------------------------------
(* Properties.                                                             *)

MainStates == {"start", "spawned", "read", "log", "feed", "wait", "handler", "entering",
               "join", "abort", "abortwait", "returned", "raised", "exited"}
StopperStates == {"none", "check", "signal", "grace1", "term", "grace2", "kill", "grace3",
                  "reap", "done"}

\* Every variable has its type.
TypeOK ==
    /\ life \in [Members -> {"unborn", "member", "daemon", "dead"}]
    /\ code \in {Running, 0, 1, 0 - SIGINT, 0 - SIGTERM, 0 - SIGKILL, 0 - SIGPIPE}
    /\ reaped \in BOOLEAN
    /\ holders \in SUBSET Members
    /\ todo \in [Members -> Nat]
    /\ pipe \in Seq([id : Nat, ends : BOOLEAN])
    /\ written \in Nat
    /\ pc \in MainStates /\ stopper \in StopperStates
    /\ draining \in BOOLEAN
    /\ hand \in Seq(Nat) /\ rawLog \in Seq(Nat) /\ shown \in Seq(Nat)
    /\ lost \in SUBSET Nat
    /\ requested \in {NoSignal, SIGINT, SIGTERM}
    /\ signals \in Nat /\ faults \in Nat
    /\ status \in {NoStatus, 0, 1} \cup {128 + s : s \in {SIGINT, SIGTERM, SIGKILL, SIGPIPE}}

InOrder(s) == \A i, j \in DOMAIN s : i < j => s[i] < s[j]

\* The transcript and the compact view each get the chunks in the order they
\* were written, none twice, across the change from streaming to draining,
\* and nothing is shown that is not in the transcript yet.
TranscriptInOrder ==
    /\ InOrder(rawLog) /\ InOrder(shown)
    /\ Range(shown) \subseteq Range(rawLog)
    /\ lost \cap Range(rawLog) = {}

\* A run that ends by itself, or after one signal, has drained the pipe: all
\* the processes wrote is in the transcript but what was in hand when the
\* signal came, and with no signal at all it is also shown.
TranscriptComplete ==
    (pc = "returned" /\ faults = 0 /\ signals <= 1) =>
        /\ Range(rawLog) \cup lost = 1 .. written
        /\ requested = NoSignal => lost = {} /\ shown = rawLog

\* Status 0 means that the command ran to its own end with 0 and that its
\* whole output was copied: no signal, race with a signal, or failed write
\* is reported as a success.
SuccessIsWhole ==
    (status = 0) => /\ code = 0 /\ reaped /\ signals = 0 /\ faults = 0
                    /\ Range(rawLog) = 1 .. written

\* When the call returns after a signal, no process is left in the group,
\* whoever of it ignored which signal, and its leader is reaped.
GroupStopped ==
    (pc = "returned" /\ requested # NoSignal) => Group = {} /\ reaped

\* A call that raises because something failed, and not for a signal, leaves
\* no child behind: it has reaped the one it started, and where it had to
\* kill it, whatever the others do meanwhile, nothing of its group is left.
FailureStops ==
    (pc = "raised" /\ signals = 0) =>
        /\ life[Leader] = "unborn" \/ reaped
        /\ code = 0 - SIGKILL => Group = {}

Ended == pc \in {"returned", "raised", "exited"}

\* A signal ends the run, whatever the processes of the group do with it.
InterruptEnds == (requested # NoSignal) ~> Ended

\* A run of a command whose processes write and exit ends, also when they
\* have more to write than the pipe holds.
CommandWorks == \A m \in Members : WF_vars(Work(m))
RunEnds == CommandWorks => ((pc = "spawned") ~> Ended)

\* README.md:97 "If you interrupt qurtail, it interrupts and reaps the child
\* process before exiting": of an interruption the stream has caught, and
\* however often it is repeated.
ChildReaped == (pc = "exited" /\ requested # NoSignal) => Group = {} /\ reaped

\* qurtail.py:1349 "write exact combined output bytes to a new PATH".
ExactRawLog == (pc = "returned" /\ faults = 0) => Range(rawLog) = 1 .. written
=============================================================================
