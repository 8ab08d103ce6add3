------------------------------ MODULE Telemetry ------------------------------
(***************************************************************************)
(* The command log of _qurtail_telemetry.py: qurtail processes that share  *)
(* commands.log, its numbered archives and the lock file.  Each process    *)
(* appends a START event, works, and appends a FINISH event; an append     *)
(* prunes archives, rotates and writes, one file operation per step, and   *)
(* a process may be killed or fail between any two of them.                *)
(*                                                                         *)
(* The configuration of a process is its MaxFiles and MaxSize.  A record   *)
(* has a size, and a file's is the sum of what was written to it.  Files   *)
(* have identities, so that a descriptor follows its file through a rename.*)
(***************************************************************************)
EXTENDS Integers, Sequences, Functions

CONSTANTS
    Invocations, NoInvocation,
    Top,               \* the largest max_files in use
    MaxFiles,          \* [Invocations -> 1 .. Top]: max_files of each process
    MaxSize,           \* [Invocations -> Nat \ {0}]: max_file_bytes of each process
    Sizes,             \* for each event, the sizes its records can have
    Prompt,            \* processes that are scheduled; the others may stop anywhere
    MaxFaults          \* bound: kills, failed operations and Ctrl+C

ASSUME TelemetryAssumption ==
    /\ NoInvocation \notin Invocations
    /\ Top \in Nat \ {0}
    /\ MaxFiles \in [Invocations -> 1 .. Top]
    /\ MaxSize \in [Invocations -> Nat \ {0}]
    /\ Sizes \in [{"START", "FINISH"} -> SUBSET (Nat \ {0})]
    /\ Prompt \in SUBSET Invocations
    /\ MaxFaults \in Nat

VARIABLES
    files,             \* commands.log (0) and commands.log.n, or Absent
    lock,              \* the process that holds commands.lock
    at,                \* where each process is
    event,             \* the event it is to append next or appends
    started,           \* TelemetrySession._started
    left,              \* archives _prune_archives has still to look at
    cursor,            \* the archive _rotate moves next
    descriptor,        \* the file it has opened, by identity
    appended,          \* every record ever written, in order
    created,           \* files created so far: the next identity
    faults             \* counter of the bound

local == <<event, started, left, cursor, descriptor>>
vars == <<files, lock, at, event, started, left, cursor, descriptor, appended, created, faults>>

Numbers == 0 .. Top - 1
Absent == [id |-> 0, size |-> 0, records |-> <<>>]
Existing == {n \in Numbers : files[n] # Absent}

Appending == {"lock", "prune", "size", "drop", "shift", "open", "write", "unlock"}
Go(p, from, to) == at[p] = from /\ at' = [at EXCEPT ![p] = to]

-----------------------------------------------------------------------------
(* _exclusive_lock: a non-blocking attempt, repeated for 250 ms.           *)

Begin(p) ==
    /\ Go(p, "idle", "lock")
    /\ UNCHANGED <<files, lock, appended, created, faults>> /\ UNCHANGED local

Acquire(p) ==
    /\ Go(p, "lock", "prune")
    /\ lock = NoInvocation
    /\ lock' = p
    /\ left' = [left EXCEPT ![p] = Existing \ {0}]
    /\ UNCHANGED <<files, event, started, cursor, descriptor, appended, created, faults>>

\* Where an append leads, with its event or without: the command is run after
\* a START, the program ends after a FINISH.
AfterAppend(p) == IF event[p] = "START" THEN "working" ELSE "ended"

\* Mutant of LockTimeout: the event is written all the same.
WriteUnlocked(p) ==
    /\ Go(p, "lock", "size")
    /\ lock # NoInvocation
    /\ UNCHANGED <<files, lock, appended, created, faults>> /\ UNCHANGED local

\* Mutant of LockTimeout: there is no deadline.
WaitOn(p) ==
    /\ Go(p, "lock", "lock")
    /\ lock # NoInvocation
    /\ UNCHANGED <<files, lock, appended, created, faults>> /\ UNCHANGED local

LockTimeout(p) ==
    /\ Go(p, "lock", AfterAppend(p))
    /\ lock # NoInvocation
    /\ UNCHANGED <<files, lock, appended, created, faults>> /\ UNCHANGED local

-----------------------------------------------------------------------------
(* _append_event with the lock held: _prune_archives, _rotate, the write.  *)

Unlink(n) == files' = [files EXCEPT ![n] = Absent]
Rename(n) == files' = [files EXCEPT ![n + 1] = files[n], ![n] = Absent]

\* Mutant of Outside: the archive that makes the set one too large is kept.
OutsideByOne(p, n) == n > MaxFiles[p]

Outside(p, n) == n >= MaxFiles[p]

\* The directory is listed in no particular order.
Prune(p) ==
    /\ at[p] = "prune"
    /\ \E n \in left[p] :
           /\ left' = [left EXCEPT ![p] = @ \ {n}]
           /\ IF Outside(p, n) THEN Unlink(n) ELSE UNCHANGED files
    /\ UNCHANGED <<lock, at, event, started, cursor, descriptor, appended, created, faults>>

PruneDone(p) ==
    /\ Go(p, "prune", "size")
    /\ left[p] = {}
    /\ UNCHANGED <<files, lock, appended, created, faults>> /\ UNCHANGED local

\* Mutant of Full: a log of just the size allowed is not rotated.
PastFull(p) == files[0] # Absent /\ files[0].size > MaxSize[p]

\* The size tested is that before the write, whatever the record adds.
Full(p) == files[0] # Absent /\ files[0].size >= MaxSize[p]

CheckSize(p) ==
    /\ at[p] = "size"
    /\ at' = [at EXCEPT ![p] = IF Full(p) THEN "drop" ELSE "open"]
    /\ UNCHANGED <<files, lock, appended, created, faults>> /\ UNCHANGED local

\* Mutant of DropOldest: one file is no special case.
DropOldestAlways(p) ==
    /\ Go(p, "drop", "shift")
    /\ Unlink(MaxFiles[p] - 1)
    /\ cursor' = [cursor EXCEPT ![p] = MaxFiles[p] - 2]
    /\ UNCHANGED <<lock, event, started, left, descriptor, appended, created, faults>>

\* The last archive allowed, or the log itself when there is no archive.
DropOldest(p) ==
    /\ at[p] = "drop"
    /\ Unlink(MaxFiles[p] - 1)
    /\ at' = [at EXCEPT ![p] = IF MaxFiles[p] = 1 THEN "open" ELSE "shift"]
    /\ cursor' = [cursor EXCEPT ![p] = IF MaxFiles[p] = 1 THEN 0 ELSE MaxFiles[p] - 2]
    /\ UNCHANGED <<lock, event, started, left, descriptor, appended, created, faults>>

\* Mutant of Shift: the archives are moved from the newest to the oldest.
ShiftUpwards(p) ==
    LET n == MaxFiles[p] - 2 - cursor[p]
    IN  /\ at[p] = "shift"
        /\ IF n \in Existing THEN Rename(n) ELSE UNCHANGED files
        /\ at' = [at EXCEPT ![p] = IF cursor[p] = 0 THEN "open" ELSE "shift"]
        /\ cursor' = [cursor EXCEPT ![p] = IF @ = 0 THEN 0 ELSE @ - 1]
        /\ UNCHANGED <<lock, event, started, left, descriptor, appended, created, faults>>

\* The last file to move is the log, which exists.
Shift(p) ==
    /\ at[p] = "shift"
    /\ IF cursor[p] \in Existing THEN Rename(cursor[p]) ELSE UNCHANGED files
    /\ at' = [at EXCEPT ![p] = IF cursor[p] = 0 THEN "open" ELSE "shift"]
    /\ cursor' = [cursor EXCEPT ![p] = IF @ = 0 THEN 0 ELSE @ - 1]
    /\ UNCHANGED <<lock, event, started, left, descriptor, appended, created, faults>>

Open(p) ==
    /\ Go(p, "open", "write")
    /\ IF files[0] = Absent
       THEN /\ created' = created + 1
            /\ files' = [files EXCEPT ![0] = [Absent EXCEPT !.id = created + 1]]
            /\ descriptor' = [descriptor EXCEPT ![p] = created + 1]
       ELSE /\ descriptor' = [descriptor EXCEPT ![p] = files[0].id]
            /\ UNCHANGED <<files, created>>
    /\ UNCHANGED <<lock, event, started, left, cursor, appended, faults>>

\* A record, or its first n bytes, at the end of the file the descriptor
\* refers to.
Put(p, n, whole) ==
    /\ files' = [m \in Numbers |->
           IF m \in Existing /\ files[m].id = descriptor[p]
           THEN [id |-> files[m].id, size |-> files[m].size + n,
                 records |-> Append(files[m].records, Len(appended) + 1)]
           ELSE files[m]]
    /\ appended' = Append(appended,
                          [by |-> p, event |-> event[p], size |-> n, whole |-> whole])

WriteRecord(p) ==
    /\ Go(p, "write", "unlock")
    /\ \E n \in Sizes[event[p]] : Put(p, n, TRUE)
    /\ UNCHANGED <<lock, created, faults>> /\ UNCHANGED local

Release(p) == lock' = IF lock = p THEN NoInvocation ELSE lock

Unlock(p) ==
    /\ at[p] = "unlock"
    /\ Release(p)
    /\ at' = [at EXCEPT ![p] = AfterAppend(p)]
    /\ started' = [started EXCEPT ![p] = TRUE]
    /\ UNCHANGED <<files, event, left, cursor, descriptor, appended, created, faults>>

-----------------------------------------------------------------------------
(* The session, and what can go wrong.                                     *)

\* Mutant of Finish: the FINISH event is attempted whatever became of START.
FinishAlways(p) ==
    /\ Go(p, "working", "lock")
    /\ event' = [event EXCEPT ![p] = "FINISH"]
    /\ UNCHANGED <<files, lock, started, left, cursor, descriptor, appended, created, faults>>

\* main calls finish when the command has ended normally.
Finish(p) ==
    /\ Go(p, "working", IF started[p] THEN "lock" ELSE "ended")
    /\ event' = [event EXCEPT ![p] = "FINISH"]
    /\ UNCHANGED <<files, lock, started, left, cursor, descriptor, appended, created, faults>>

\* A write under way may have reached the file in part.
Fault(p) ==
    /\ faults < MaxFaults
    /\ faults' = faults + 1
    /\ Release(p)
    /\ \/ at[p] = "write" /\ \E m \in Sizes[event[p]] : \E n \in 1 .. m - 1 : Put(p, n, FALSE)
       \/ UNCHANGED <<files, appended>>
    /\ UNCHANGED created /\ UNCHANGED local

OperationFails(p) ==
    /\ Fault(p)
    /\ at[p] \in Appending
    /\ at' = [at EXCEPT ![p] = AfterAppend(p)]

\* Ctrl+C in start_session ends the program with status 130, in finish it is
\* dropped; a kill, or an exception in the command, ends it anywhere.
Stopped(p) ==
    /\ Fault(p)
    /\ at[p] \in Appending \cup {"working"}
    /\ at' = [at EXCEPT ![p] = "ended"]

Init ==
    /\ files = [n \in Numbers |-> Absent]
    /\ lock = NoInvocation
    /\ at = [p \in Invocations |-> "idle"]
    /\ event = [p \in Invocations |-> "START"]
    /\ started = [p \in Invocations |-> FALSE]
    /\ left = [p \in Invocations |-> {}]
    /\ cursor = [p \in Invocations |-> 0]
    /\ descriptor = [p \in Invocations |-> 0]
    /\ appended = <<>>
    /\ created = 0
    /\ faults = 0

AppendStep(p) ==
    \/ Acquire(p) \/ LockTimeout(p) \/ Prune(p) \/ PruneDone(p) \/ CheckSize(p)
    \/ DropOldest(p) \/ Shift(p) \/ Open(p) \/ WriteRecord(p) \/ Unlock(p)
Next ==
    \E p \in Invocations :
        Begin(p) \/ AppendStep(p) \/ Finish(p) \/ OperationFails(p) \/ Stopped(p)

Spec == Init /\ [][Next]_vars

\* The prompt processes take their steps, the deadline included; the others,
\* the holder of the lock among them, may stop for good at any point.
FairSpec == Spec /\ \A p \in Prompt : WF_vars(AppendStep(p))

-----------------------------------------------------------------------------
(* Properties.                                                             *)

\* Every variable has its type.
TypeOK ==
    /\ files \in [Numbers -> [id : Nat, size : Nat, records : Seq(Nat)]]
    /\ lock \in Invocations \cup {NoInvocation}
    /\ at \in [Invocations -> Appending \cup {"idle", "working", "ended"}]
    /\ event \in [Invocations -> {"START", "FINISH"}]
    /\ started \in [Invocations -> BOOLEAN]
    /\ left \in [Invocations -> SUBSET (Numbers \ {0})]
    /\ cursor \in [Invocations -> Numbers]
    /\ descriptor \in [Invocations -> Nat]
    /\ appended \in Seq([by : Invocations, event : {"START", "FINISH"},
                          size : Nat, whole : BOOLEAN])
    /\ created \in Nat /\ faults \in Nat

Kept == UNION {Range(files[n].records) : n \in Numbers}

\* At every moment, also amid a rotation, a kill or a failure, the files hold
\* records in the order they were written: within a file, and every record of
\* an archive before every record of a lower number.  Without faults no
\* rotation or pruning loses one in the middle: between two events they are
\* the last records written, whatever settings the processes have.
HistoryInOrder ==
    /\ \A n \in Numbers : \A i, j \in DOMAIN files[n].records :
           i < j => files[n].records[i] < files[n].records[j]
    /\ \A m, n \in Numbers : m < n =>
           \A r \in Range(files[m].records), s \in Range(files[n].records) : s < r
    /\ (lock = NoInvocation /\ faults = 0) =>
           \A r \in Kept : r .. Len(appended) \subseteq Kept

\* Records are removed only by unlinking what is outside the setting and the
\* oldest archive: no rename replaces a file, also after a rotation that was
\* cut short has left a gap.
RenamesKeep ==
    [][Kept \ Kept' # {} => \E p \in Invocations : at[p] \in {"prune", "drop"}]_vars

\* When a process has written its event the files are no more than its
\* setting allows, and every file, archives included, was still below the
\* limit of whoever wrote its last record: one record takes a file past it,
\* however large and also in part, never two.
RetentionBounded ==
    /\ \A p \in Invocations : at[p] = "unlock" => \A n \in Existing : n < MaxFiles[p]
    /\ \A n \in Numbers : files[n].records # <<>> =>
           LET last == appended[files[n].records[Len(files[n].records)]]
           IN  files[n].size - last.size < MaxSize[last.by]

\* A FINISH is written only after a whole START of its own invocation, and at
\* most once, also when events are skipped or cut short.
FinishMatchesStart ==
    \A j \in DOMAIN appended : appended[j].event = "FINISH" =>
        /\ \E i \in 1 .. j - 1 : /\ appended[i].event = "START" /\ appended[i].whole
                                 /\ appended[i].by = appended[j].by
        /\ \A i \in DOMAIN appended :
               appended[i].event = "FINISH" /\ appended[i].by = appended[j].by => i = j

\* A prompt process gets past its event even if the one that holds the lock
\* never moves again.
AppendEnds == \A p \in Prompt : (at[p] = "lock") ~> (at[p] \in {"working", "ended"})
=============================================================================
