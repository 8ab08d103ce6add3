-------------------------- MODULE Telemetry_proofs --------------------------
(***************************************************************************)
(* Proofs about Telemetry: the order of the history, what rotation and     *)
(* pruning may remove, the limits of the retention, and that a FINISH      *)
(* follows the START of its invocation, for any number of processes with   *)
(* any settings, and for any faults.                                       *)
(***************************************************************************)
EXTENDS Telemetry, TLAPS

USE TelemetryAssumption

-----------------------------------------------------------------------------
(* The inductive invariant.                                                *)

Critical == {"prune", "size", "drop", "shift", "open", "write", "unlock"}

\* The lock is held exactly by the process that works on the files.
LockInv == \A p \in Invocations : at[p] \in Critical <=> lock = p

\* Two files are never the same, and the next identity is a new one.
IdInv ==
    /\ \A n \in Numbers : files[n].id <= created /\ (files[n].id = 0 => files[n] = Absent)
    /\ \A m, n \in Numbers : m # n /\ files[m].id = files[n].id => files[n].id = 0

\* What the holder of the lock relies on at each place of _append_event.
PlaceInv ==
    \A p \in Invocations :
        /\ at[p] = "prune" => \A n \in Existing : n >= MaxFiles[p] => n \in left[p]
        /\ at[p] \in Critical \ {"prune"} => \A n \in Existing : n < MaxFiles[p]
        /\ at[p] = "shift" => cursor[p] + 1 < MaxFiles[p] /\ files[cursor[p] + 1] = Absent
        /\ at[p] = "open" => files[0].size < MaxSize[p]
        /\ at[p] = "write" => /\ files[0].id = descriptor[p] /\ descriptor[p] # 0
                              /\ files[0].size < MaxSize[p]

\* The last record of file f is one of those in s, and f was below the limit of
\* its writer without it.
Bounded(f, s) ==
    LET k == f.records[Len(f.records)]
    IN  f.records # <<>> => /\ k \in 1 .. Len(s)
                            /\ f.size - s[k].size < MaxSize[s[k].by]

SizeInv == \A n \in Numbers : Bounded(files[n], appended)

In(r, n) == \E i \in 1 .. Len(files[n].records) : files[n].records[i] = r

OrderInv ==
    /\ \A n \in Numbers : \A i, j \in 1 .. Len(files[n].records) :
           i < j => files[n].records[i] < files[n].records[j]
    /\ \A m, n \in Numbers : m < n => \A r, s \in Nat : In(r, m) /\ In(s, n) => s < r
    /\ \A n \in Numbers : \A r \in Nat : In(r, n) => r <= Len(appended)

\* From any record in the files N on, all are in them.
Closed(N) ==
    \A n \in N : \A r \in Nat : In(r, n) =>
        \A s \in r .. Len(appended) : \E m \in N : In(s, m)

\* Amid a pruning this holds of the files that are to stay.
ClosedInv ==
    faults = 0 =>
        /\ lock = NoInvocation => Closed(Numbers)
        /\ \A p \in Invocations : lock = p => Closed(0 .. MaxFiles[p] - 1)

HasStart(p) ==
    \E i \in 1 .. Len(appended) :
        appended[i].event = "START" /\ appended[i].whole /\ appended[i].by = p
Finished(p) ==
    \E i \in 1 .. Len(appended) : appended[i].event = "FINISH" /\ appended[i].by = p

EventInv ==
    \A p \in Invocations :
        /\ started[p] => HasStart(p)
        /\ at[p] = "unlock" => HasStart(p)
        /\ event[p] = "FINISH" => at[p] = "ended" \/ (at[p] \in Appending /\ HasStart(p))
        /\ Finished(p) => event[p] = "FINISH" /\ at[p] \in {"unlock", "ended"}

IInv == TypeOK /\ LockInv /\ IdInv /\ PlaceInv /\ SizeInv /\ OrderInv /\ ClosedInv /\ EventInv
            /\ FinishMatchesStart

-----------------------------------------------------------------------------
(* The steps, as the files see them.                                       *)

Event == [by : Invocations, event : {"START", "FINISH"}, size : Nat, whole : BOOLEAN]
File == [id : Nat, size : Nat, records : Seq(Nat)]
New == [id |-> created + 1, size |-> 0, records |-> <<>>]
RecordOf(p, n, whole) == [by |-> p, event |-> event[p], size |-> n, whole |-> whole]

Keeps == UNCHANGED <<files, appended, created>>
Unlinks(n) == Unlink(n) /\ UNCHANGED <<appended, created>>
Renames(n) == files[n + 1] = Absent /\ Rename(n) /\ UNCHANGED <<appended, created>>
Creates ==
    /\ files[0] = Absent /\ created' = created + 1
    /\ files' = [files EXCEPT ![0] = New]
    /\ UNCHANGED appended
Written(n) == [id |-> files[0].id, size |-> files[0].size + n,
               records |-> Append(files[0].records, Len(appended) + 1)]
Appends(e) ==
    /\ files[0].id # 0 /\ files[0].size < MaxSize[e.by]
    /\ files' = [files EXCEPT ![0] = Written(e.size)]
    /\ appended' = Append(appended, e)
    /\ UNCHANGED created

LEMMA NumbersAre ==
  /\ 0 \in Numbers /\ Numbers \subseteq Nat
  /\ \A p \in Invocations : /\ MaxFiles[p] \in Nat \ {0} /\ MaxFiles[p] <= Top
                            /\ 0 .. MaxFiles[p] - 1 \subseteq Numbers
                            /\ MaxFiles[p] - 1 \in Numbers
<1>1. Top \in Nat \ {0} /\ \A p \in Invocations : MaxFiles[p] \in 1 .. Top
  OBVIOUS
<1> QED
  BY <1>1 DEF Numbers

LEMMA FilesAre ==
  ASSUME TypeOK
  PROVE  /\ \A n \in Numbers : /\ files[n].id \in Nat /\ files[n].records \in Seq(Nat)
                               /\ Len(files[n].records) \in Nat /\ files[n].size \in Nat
         /\ Absent \in File /\ Len(Absent.records) = 0 /\ Absent.id = 0
         /\ Absent.records = <<>> /\ Absent.size = 0
BY DEF TypeOK, Absent, File

\* A record goes to the end of the log, whatever has been renamed meanwhile.
LEMMA PutIs ==
  ASSUME TypeOK, IdInv, NEW p \in Invocations, NEW n \in Nat, NEW whole \in BOOLEAN,
         Put(p, n, whole), files[0].id = descriptor[p], descriptor[p] # 0
  PROVE  /\ files' = [files EXCEPT ![0] = Written(n)]
         /\ appended' = Append(appended, RecordOf(p, n, whole))
<1>1. files \in [Numbers -> File] /\ 0 \in Numbers
  BY NumbersAre DEF TypeOK, File
<1>2. 0 \in Existing
  BY <1>1, FilesAre DEF Existing
<1>3. \A m \in Numbers : m # 0 => ~(m \in Existing /\ files[m].id = descriptor[p])
  BY <1>1 DEF IdInv
<1>4. files' = [m \in Numbers |->
                  IF m \in Existing /\ files[m].id = descriptor[p]
                  THEN [id |-> files[m].id, size |-> files[m].size + n,
                        records |-> Append(files[m].records, Len(appended) + 1)]
                  ELSE files[m]]
  BY DEF Put
<1>5. \A m \in Numbers : files'[m] = IF m = 0 THEN Written(n) ELSE files[m]
  BY <1>1, <1>2, <1>3, <1>4 DEF Written
<1>6. files' = [m \in Numbers |-> IF m = 0 THEN Written(n) ELSE files[m]]
  BY <1>4, <1>5
<1>7. [files EXCEPT ![0] = Written(n)] = [m \in Numbers |-> IF m = 0 THEN Written(n) ELSE files[m]]
  BY <1>1
<1> QED
  BY <1>6, <1>7 DEF Put, RecordOf

\* What a process writes, whole or in part, is a record of a size.
LEMMA SizesAre ==
  ASSUME TypeOK, NEW p \in Invocations
  PROVE  /\ \A m \in Sizes[event[p]] : m \in Nat
         /\ \A n \in Nat, w \in BOOLEAN :
              RecordOf(p, n, w) \in Event /\ RecordOf(p, n, w).by = p /\ RecordOf(p, n, w).size = n
<1>1. event[p] \in {"START", "FINISH"}
  BY DEF TypeOK
<1> QED
  BY <1>1 DEF RecordOf, Event

LEMMA PutAppends ==
  ASSUME TypeOK, IdInv, PlaceInv, NEW p \in Invocations, NEW n \in Nat, NEW w \in BOOLEAN,
         at[p] = "write", Put(p, n, w), created' = created
  PROVE  Appends(RecordOf(p, n, w))
<1>1. files[0].id = descriptor[p] /\ descriptor[p] # 0 /\ files[0].size < MaxSize[p]
  BY DEF PlaceInv
<1> QED
  BY <1>1, PutIs, SizesAre DEF Appends

LEMMA FaultIs ==
  ASSUME TypeOK, IdInv, PlaceInv, NEW p \in Invocations, Fault(p)
  PROVE  /\ Keeps \/ (at[p] = "write" /\ \E n \in Nat : Appends(RecordOf(p, n, FALSE)))
         /\ lock' = IF lock = p THEN NoInvocation ELSE lock
         /\ faults' = faults + 1
         /\ UNCHANGED <<event, started, left, cursor, descriptor>>
<1>0. /\ lock' = IF lock = p THEN NoInvocation ELSE lock
      /\ faults' = faults + 1 /\ created' = created
      /\ UNCHANGED <<event, started, left, cursor, descriptor>>
  BY DEF Fault, Release, local
<1>1. ASSUME at[p] = "write", NEW m \in Sizes[event[p]], NEW n \in 1 .. m - 1, Put(p, n, FALSE)
      PROVE  \E k \in Nat : Appends(RecordOf(p, k, FALSE))
  <2>1. n \in Nat
    BY SizesAre
  <2> QED
    BY <1>0, <1>1, <2>1, PutAppends
<1>2. CASE UNCHANGED <<files, appended>>
  BY <1>0, <1>2 DEF Keeps
<1> QED
  BY <1>0, <1>1, <1>2 DEF Fault

LEMMA WriteIs ==
  ASSUME TypeOK, IdInv, PlaceInv, NEW p \in Invocations, WriteRecord(p)
  PROVE  \E n \in Nat : Appends(RecordOf(p, n, TRUE))
<1>1. PICK n \in Sizes[event[p]] : Put(p, n, TRUE)
  BY DEF WriteRecord
<1>2. n \in Nat /\ at[p] = "write" /\ created' = created
  BY SizesAre DEF WriteRecord, Go
<1> QED
  BY <1>1, <1>2, PutAppends

LEMMA PruneIs ==
  ASSUME TypeOK, NEW p \in Invocations, Prune(p)
  PROVE  \E n \in left[p] :
           /\ n \in Numbers /\ left' = [left EXCEPT ![p] = @ \ {n}]
           /\ (n >= MaxFiles[p] /\ Unlinks(n)) \/ (n < MaxFiles[p] /\ Keeps)
           /\ at[p] = "prune" /\ UNCHANGED <<lock, at, event, started, cursor, descriptor, faults>>
<1>1. PICK n \in left[p] : /\ left' = [left EXCEPT ![p] = @ \ {n}]
                           /\ IF Outside(p, n) THEN Unlink(n) ELSE UNCHANGED files
  BY DEF Prune
<1>2. n \in Numbers /\ n \in Nat /\ MaxFiles[p] \in Nat
  BY NumbersAre DEF TypeOK
<1>3. at[p] = "prune" /\ UNCHANGED <<lock, at, event, started, cursor, descriptor, appended, created, faults>>
  BY DEF Prune
<1>4. (n >= MaxFiles[p] /\ Unlinks(n)) \/ (n < MaxFiles[p] /\ Keeps)
  BY <1>1, <1>2, <1>3 DEF Outside, Unlinks, Keeps
<1> QED
  BY <1>1, <1>2, <1>3, <1>4

LEMMA ShiftIs ==
  ASSUME TypeOK, PlaceInv, NEW p \in Invocations, Shift(p)
  PROVE  /\ at[p] = "shift" /\ cursor[p] \in Numbers /\ cursor[p] + 1 \in Numbers
         /\ cursor[p] + 1 < MaxFiles[p]
         /\ Renames(cursor[p]) \/ (files[cursor[p]] = Absent /\ Keeps)
         /\ at' = [at EXCEPT ![p] = IF cursor[p] = 0 THEN "open" ELSE "shift"]
         /\ cursor' = [cursor EXCEPT ![p] = IF @ = 0 THEN 0 ELSE @ - 1]
         /\ UNCHANGED <<lock, event, started, left, descriptor, faults>>
<1>1. /\ cursor[p] \in Numbers /\ cursor[p] + 1 < MaxFiles[p] /\ files[cursor[p] + 1] = Absent
      /\ at[p] = "shift"
  BY DEF Shift, TypeOK, PlaceInv
<1>2. cursor[p] + 1 \in Numbers
  BY <1>1, NumbersAre DEF Numbers
<1>3. cursor[p] \notin Existing => files[cursor[p]] = Absent
  BY <1>1 DEF Existing
<1> QED
  BY <1>1, <1>2, <1>3 DEF Shift, Renames, Keeps

LEMMA OpenIs ==
  ASSUME TypeOK, NEW p \in Invocations, Open(p)
  PROVE  /\ at[p] = "open" /\ at' = [at EXCEPT ![p] = "write"]
         /\ \/ Creates /\ descriptor' = [descriptor EXCEPT ![p] = created + 1]
            \/ /\ files[0] # Absent /\ Keeps
               /\ descriptor' = [descriptor EXCEPT ![p] = files[0].id]
         /\ UNCHANGED <<lock, event, started, left, cursor, faults>>
<1>1. [Absent EXCEPT !.id = created + 1] = New
  BY DEF Absent, New
<1> QED
  BY <1>1 DEF Open, Go, Creates, Keeps

\* Every step does one of five things to the files.
LEMMA FileStep ==
  ASSUME TypeOK, IdInv, PlaceInv, [Next]_vars
  PROVE  \/ Keeps
         \/ \E n \in Numbers : Unlinks(n)
         \/ \E n \in Numbers : n + 1 \in Numbers /\ Renames(n)
         \/ Creates
         \/ \E e \in Event : Appends(e)
<1>1. CASE UNCHANGED vars
  BY <1>1 DEF vars, Keeps
<1>2. ASSUME NEW p \in Invocations,
             Begin(p) \/ AppendStep(p) \/ Finish(p) \/ OperationFails(p) \/ Stopped(p)
      PROVE  \/ Keeps
             \/ \E n \in Numbers : Unlinks(n)
             \/ \E n \in Numbers : n + 1 \in Numbers /\ Renames(n)
             \/ Creates
             \/ \E e \in Event : Appends(e)
  <2>0. \A n \in Nat, w \in BOOLEAN : RecordOf(p, n, w) \in Event
    BY SizesAre
  <2>1. CASE Begin(p) \/ Finish(p) \/ Acquire(p) \/ LockTimeout(p) \/ PruneDone(p) \/ CheckSize(p)
               \/ Unlock(p)
    BY <2>1 DEF Begin, Finish, Acquire, LockTimeout, PruneDone, CheckSize, Unlock, Keeps
  <2>2. CASE Prune(p)
    BY <2>2, PruneIs
  <2>3. CASE DropOldest(p)
    BY <2>3, NumbersAre DEF DropOldest, Unlinks
  <2>4. CASE Shift(p)
    BY <2>4, ShiftIs
  <2>5. CASE Open(p)
    BY <2>5, OpenIs
  <2>6. CASE WriteRecord(p)
    BY <2>0, <2>6, WriteIs
  <2>7. CASE OperationFails(p) \/ Stopped(p)
    BY <2>0, <2>7, FaultIs DEF OperationFails, Stopped
  <2> QED
    BY <1>2, <2>1, <2>2, <2>3, <2>4, <2>5, <2>6, <2>7 DEF AppendStep
<1> QED
  BY <1>1, <1>2 DEF Next

\* What the files are after it.
LEMMA UnlinksAre ==
  ASSUME TypeOK, NEW n \in Numbers, Unlinks(n)
  PROVE  \A m \in Numbers : files'[m] = IF m = n THEN Absent ELSE files[m]
BY DEF TypeOK, Unlinks, Unlink

LEMMA RenamesAre ==
  ASSUME TypeOK, NEW n \in Numbers, n + 1 \in Numbers, Renames(n)
  PROVE  /\ \A m \in Numbers : files'[m] = IF m = n THEN Absent
                                           ELSE IF m = n + 1 THEN files[n] ELSE files[m]
         /\ n + 1 # n /\ files[n + 1] = Absent
<1>1. n \in Nat /\ n # n + 1
  BY NumbersAre
<1> QED
  BY <1>1 DEF TypeOK, Renames, Rename

LEMMA CreatesIs ==
  ASSUME TypeOK, Creates
  PROVE  \A m \in Numbers :
           files'[m] = IF m = 0 THEN New ELSE files[m]
BY NumbersAre DEF TypeOK, Creates

LEMMA AppendsAre ==
  ASSUME TypeOK, NEW e \in Event, Appends(e)
  PROVE  /\ \A m \in Numbers : m # 0 => files'[m] = files[m]
         /\ files'[0].id = files[0].id
         /\ Len(files'[0].records) = Len(files[0].records) + 1
         /\ files[0].size < MaxSize[e.by] /\ files'[0].size = files[0].size + e.size
         /\ \A i \in 1 .. Len(files[0].records) : files'[0].records[i] = files[0].records[i]
         /\ files'[0].records[Len(files[0].records) + 1] = Len(appended) + 1
         /\ files'[0].records \in Seq(Nat)
         /\ Len(appended') = Len(appended) + 1 /\ appended' \in Seq(Event)
         /\ \A i \in 1 .. Len(appended) : appended'[i] = appended[i]
         /\ appended'[Len(appended) + 1] = e
<1>1. files'[0] = Written(e.size) /\ \A m \in Numbers : m # 0 => files'[m] = files[m]
  BY NumbersAre DEF TypeOK, Appends
<1>2. files[0].records \in Seq(Nat) /\ Len(files[0].records) \in Nat
  BY FilesAre, NumbersAre
<1>3. appended \in Seq(Event) /\ Len(appended) \in Nat
  BY DEF TypeOK, Event
<1>4. Len(appended') = Len(appended) + 1 /\ appended' \in Seq(Event)
      /\ (\A i \in 1 .. Len(appended) : appended'[i] = appended[i])
      /\ appended'[Len(appended) + 1] = e
  BY <1>3 DEF Appends
<1>5. files[0].size < MaxSize[e.by]
  BY DEF Appends
<1> QED
  BY <1>1, <1>2, <1>3, <1>4, <1>5 DEF Written

-----------------------------------------------------------------------------
(* Types.                                                                  *)

LEMMA InitTypes == Init => TypeOK
<1> SUFFICES ASSUME Init PROVE TypeOK
  OBVIOUS
<1>1. Absent \in File
  BY DEF Absent, File
<1>2. files \in [Numbers -> File] /\ appended \in Seq(Event)
  BY <1>1 DEF Init
<1>3. cursor \in [Invocations -> Numbers] /\ left \in [Invocations -> SUBSET (Numbers \ {0})]
  BY NumbersAre DEF Init
<1> QED
  BY <1>2, <1>3 DEF Init, TypeOK, File, Event, Appending

LEMMA FileTypes ==
  ASSUME TypeOK, IdInv, PlaceInv, [Next]_vars
  PROVE  /\ files' \in [Numbers -> File] /\ appended' \in Seq(Event) /\ created' \in Nat
<1>1. /\ files \in [Numbers -> File] /\ appended \in Seq(Event) /\ created \in Nat
      /\ Absent \in File /\ 0 \in Numbers
  BY FilesAre, NumbersAre DEF TypeOK, File, Event
<1>2. CASE Keeps
  BY <1>1, <1>2 DEF Keeps
<1>3. ASSUME NEW n \in Numbers, Unlinks(n)
      PROVE  files' \in [Numbers -> File] /\ appended' \in Seq(Event) /\ created' \in Nat
  BY <1>1, <1>3 DEF Unlinks, Unlink
<1>4. ASSUME NEW n \in Numbers, n + 1 \in Numbers, Renames(n)
      PROVE  files' \in [Numbers -> File] /\ appended' \in Seq(Event) /\ created' \in Nat
  BY <1>1, <1>4 DEF Renames, Rename
<1>5. CASE Creates
  <2>1. New \in File
    BY <1>1 DEF New, File
  <2> QED
    BY <1>1, <1>5, <2>1 DEF Creates
<1>6. ASSUME NEW e \in Event, Appends(e)
      PROVE  files' \in [Numbers -> File] /\ appended' \in Seq(Event) /\ created' \in Nat
  <2>1. e.size \in Nat
    BY DEF Event
  <2>2. Written(e.size) \in File
    BY <1>1, <2>1 DEF Written, File
  <2> QED
    BY <1>1, <1>6, <2>2 DEF Appends
<1> QED
  BY <1>2, <1>3, <1>4, <1>5, <1>6, FileStep

LEMMA StepTypes ==
  ASSUME TypeOK, IdInv, PlaceInv, [Next]_vars
  PROVE  TypeOK'
<1>1. /\ files' \in [Numbers -> [id : Nat, size : Nat, records : Seq(Nat)]]
      /\ appended' \in Seq([by : Invocations, event : {"START", "FINISH"},
                            size : Nat, whole : BOOLEAN])
      /\ created' \in Nat
  BY FileTypes DEF File, Event
<1> DEFINE Rest ==
             /\ lock' \in Invocations \cup {NoInvocation}
             /\ at' \in [Invocations -> Appending \cup {"idle", "working", "ended"}]
             /\ event' \in [Invocations -> {"START", "FINISH"}]
             /\ started' \in [Invocations -> BOOLEAN]
             /\ left' \in [Invocations -> SUBSET (Numbers \ {0})]
             /\ cursor' \in [Invocations -> Numbers]
             /\ descriptor' \in [Invocations -> Nat]
             /\ faults' \in Nat
<1>2. CASE UNCHANGED vars
  BY <1>2, <1>1 DEF vars, TypeOK
<1>3. ASSUME NEW p \in Invocations,
             Begin(p) \/ AppendStep(p) \/ Finish(p) \/ OperationFails(p) \/ Stopped(p)
      PROVE  Rest
  <2>0. AfterAppend(p) \in {"working", "ended"}
    BY DEF AfterAppend
  <2>1. CASE Begin(p) \/ LockTimeout(p) \/ PruneDone(p) \/ CheckSize(p)
    BY <2>0, <2>1 DEF Begin, LockTimeout, PruneDone, CheckSize, Go, local, TypeOK, Appending
  <2>2. CASE Acquire(p)
    <3>1. left' = [left EXCEPT ![p] = Existing \ {0}] /\ Existing \ {0} \subseteq Numbers \ {0}
      BY <2>2 DEF Acquire, Existing
    <3> QED
      BY <2>2, <3>1 DEF Acquire, Go, TypeOK, Appending
  <2>3. CASE Prune(p)
    <3>1. PICK n \in left[p] : left' = [left EXCEPT ![p] = @ \ {n}]
      BY <2>3 DEF Prune
    <3>2. left' \in [Invocations -> SUBSET (Numbers \ {0})]
      BY <3>1 DEF TypeOK
    <3> QED
      BY <2>3, <3>2 DEF Prune, TypeOK
  <2>4. CASE DropOldest(p)
    <3>1. (IF MaxFiles[p] = 1 THEN 0 ELSE MaxFiles[p] - 2) \in Numbers
      BY NumbersAre DEF Numbers
    <3> QED
      BY <2>4, <3>1 DEF DropOldest, TypeOK, Appending
  <2>5. CASE Shift(p)
    <3>0. cursor[p] \in Numbers
      BY DEF TypeOK
    <3>1. (IF cursor[p] = 0 THEN 0 ELSE cursor[p] - 1) \in Numbers
      BY <3>0, NumbersAre DEF Numbers
    <3>2. cursor' = [cursor EXCEPT ![p] = IF cursor[p] = 0 THEN 0 ELSE cursor[p] - 1]
      BY <2>5 DEF Shift, TypeOK
    <3> QED
      BY <2>5, <3>1, <3>2 DEF Shift, TypeOK, Appending
  <2>6. CASE Open(p)
    <3>1. created + 1 \in Nat /\ files[0].id \in Nat /\ descriptor \in [Invocations -> Nat]
      <4>1. created \in Nat /\ files \in [Numbers -> File] /\ descriptor \in [Invocations -> Nat]
        BY DEF TypeOK, File
      <4> QED
        BY <4>1, NumbersAre DEF File
    <3>a. \/ descriptor' = [descriptor EXCEPT ![p] = created + 1]
          \/ descriptor' = [descriptor EXCEPT ![p] = files[0].id]
      BY <2>6, OpenIs
    <3>2. descriptor' \in [Invocations -> Nat]
      BY <3>1, <3>a
    <3> QED
      BY <2>6, <3>2 DEF Open, Go, TypeOK, Appending
  <2>7. CASE WriteRecord(p)
    BY <2>7 DEF WriteRecord, Go, local, TypeOK, Appending
  <2>8. CASE Unlock(p)
    BY <2>0, <2>8 DEF Unlock, Release, TypeOK, Appending
  <2>9. CASE Finish(p)
    BY <2>9 DEF Finish, Go, TypeOK, Appending
  <2>10. CASE OperationFails(p) \/ Stopped(p)
    <3>0. Fault(p) /\ lock \in Invocations \cup {NoInvocation} /\ faults \in Nat
      BY <2>10 DEF OperationFails, Stopped, TypeOK
    <3>1. /\ lock' \in Invocations \cup {NoInvocation} /\ faults' \in Nat
          /\ UNCHANGED <<event, started, left, cursor, descriptor>>
      BY <3>0 DEF Fault, Release, local
    <3>2. at' = [at EXCEPT ![p] = AfterAppend(p)] \/ at' = [at EXCEPT ![p] = "ended"]
      BY <2>10 DEF OperationFails, Stopped
    <3> QED
      BY <2>0, <3>1, <3>2 DEF TypeOK, Appending
  <2> QED
    BY <1>3, <2>1, <2>2, <2>3, <2>4, <2>5, <2>6, <2>7, <2>8, <2>9, <2>10 DEF AppendStep
<1>4. CASE Next
  BY <1>1, <1>3, <1>4 DEF Next, TypeOK
<1> QED
  BY <1>2, <1>4

-----------------------------------------------------------------------------
(* Identities, sizes and the order of the records: by the kinds of step.   *)

LEMMA StepId ==
  ASSUME TypeOK, IdInv, PlaceInv, [Next]_vars
  PROVE  IdInv'
<1>0. /\ created \in Nat /\ Absent.id = 0
      /\ \A n \in Numbers : files[n].id \in Nat
      /\ \A n \in Numbers : files[n].id <= created /\ (files[n].id = 0 => files[n] = Absent)
      /\ \A m, n \in Numbers : m # n /\ files[m].id = files[n].id => files[n].id = 0
  BY FilesAre DEF TypeOK, IdInv
<1>1. CASE Keeps
  BY <1>0, <1>1 DEF Keeps, IdInv
<1>2. ASSUME NEW n \in Numbers, Unlinks(n)
      PROVE  IdInv'
  <2>1. created' = created /\ \A m \in Numbers : files'[m] = IF m = n THEN Absent ELSE files[m]
    BY <1>2, UnlinksAre DEF Unlinks
  <2> QED
    BY <1>0, <2>1 DEF IdInv
<1>3. ASSUME NEW n \in Numbers, n + 1 \in Numbers, Renames(n)
      PROVE  IdInv'
  <2>1. /\ created' = created
        /\ \A m \in Numbers : files'[m] = IF m = n THEN Absent
                                          ELSE IF m = n + 1 THEN files[n] ELSE files[m]
    BY <1>3, RenamesAre DEF Renames
  <2> QED
    BY <1>0, <1>3, <2>1 DEF IdInv
<1>4. CASE Creates
  <2>1. /\ created' = created + 1 /\ 0 \in Numbers
        /\ \A m \in Numbers :
             files'[m] = IF m = 0 THEN New ELSE files[m]
    BY <1>4, CreatesIs, NumbersAre DEF Creates
  <2>2. \A m \in Numbers : files'[m].id = IF m = 0 THEN created + 1 ELSE files[m].id
    BY <2>1 DEF New
  <2> QED
    BY <1>0, <2>1, <2>2 DEF IdInv
<1>5. ASSUME NEW e \in Event, Appends(e)
      PROVE  IdInv'
  <2>1. /\ created' = created /\ 0 \in Numbers
        /\ \A m \in Numbers : m # 0 => files'[m] = files[m]
        /\ files'[0].id = files[0].id
    BY <1>5, AppendsAre, NumbersAre DEF Appends
  <2>2. files[0].id # 0
    BY <1>5 DEF Appends
  <2> QED
    BY <1>0, <2>1, <2>2 DEF IdInv
<1> QED
  BY <1>1, <1>2, <1>3, <1>4, <1>5, FileStep

LEMMA StepSize ==
  ASSUME TypeOK, IdInv, PlaceInv, SizeInv, [Next]_vars
  PROVE  SizeInv'
<1>0. /\ \A n \in Numbers : Bounded(files[n], appended)
      /\ Bounded(Absent, appended) /\ Bounded(New, appended)
  BY FilesAre DEF SizeInv, Bounded, New
<1>1. CASE Keeps
  BY <1>0, <1>1 DEF Keeps, SizeInv
<1>2. ASSUME NEW n \in Numbers, Unlinks(n)
      PROVE  SizeInv'
  <2>1. appended' = appended /\ \A m \in Numbers : files'[m] = IF m = n THEN Absent ELSE files[m]
    BY <1>2, UnlinksAre DEF Unlinks
  <2> QED
    BY <1>0, <2>1 DEF SizeInv
<1>3. ASSUME NEW n \in Numbers, n + 1 \in Numbers, Renames(n)
      PROVE  SizeInv'
  <2>1. /\ appended' = appended
        /\ \A m \in Numbers : files'[m] = IF m = n THEN Absent
                                          ELSE IF m = n + 1 THEN files[n] ELSE files[m]
    BY <1>3, RenamesAre DEF Renames
  <2> QED
    BY <1>0, <2>1 DEF SizeInv
<1>4. CASE Creates
  <2>1. appended' = appended /\ \A m \in Numbers : files'[m] = IF m = 0 THEN New ELSE files[m]
    BY <1>4, CreatesIs DEF Creates
  <2> QED
    BY <1>0, <2>1 DEF SizeInv
<1>5. ASSUME NEW e \in Event, Appends(e)
      PROVE  SizeInv'
  <2> DEFINE L == Len(appended)
             R == Len(files[0].records)
  <2>1. /\ \A m \in Numbers : m # 0 => files'[m] = files[m]
        /\ files[0].size < MaxSize[e.by] /\ files'[0].size = files[0].size + e.size
        /\ Len(files'[0].records) = R + 1 /\ files'[0].records[R + 1] = L + 1
        /\ Len(appended') = L + 1 /\ appended'[L + 1] = e
        /\ \A i \in 1 .. L : appended'[i] = appended[i]
    BY <1>5, AppendsAre
  <2>2. L \in Nat /\ e.size \in Nat
    BY DEF TypeOK, Event
  <2>3. files[0].size \in Nat
    BY FilesAre, NumbersAre
  <2>4. ASSUME NEW m \in Numbers, m # 0, files[m].records # <<>>
        PROVE  Bounded(files[m], appended')
    <3> DEFINE k == files[m].records[Len(files[m].records)]
    <3>1. k \in 1 .. L /\ files[m].size - appended[k].size < MaxSize[appended[k].by]
      BY <1>0, <2>4 DEF Bounded
    <3>2. k \in 1 .. L + 1 /\ appended'[k] = appended[k]
      BY <2>1, <2>2, <3>1
    <3> QED
      BY <2>1, <3>1, <3>2 DEF Bounded
  <2>5. \A m \in Numbers : files[m].records = <<>> => Bounded(files[m], appended')
    BY DEF Bounded
  <2> HIDE DEF L, R
  <2>6. Bounded(files'[0], appended')
    <3>1. L + 1 \in 1 .. L + 1 /\ (files[0].size + e.size) - e.size = files[0].size
      BY <2>2, <2>3
    <3> QED
      BY <2>1, <3>1 DEF Bounded
  <2> QED
    BY <2>1, <2>4, <2>5, <2>6 DEF SizeInv
<1> QED
  BY <1>1, <1>2, <1>3, <1>4, <1>5, FileStep

\* OrderInv in terms of what each file holds.
LEMMA SameOrder ==
  ASSUME TypeOK, OrderInv, Len(appended) <= Len(appended'), Len(appended') \in Nat,
         \A m \in Numbers : files'[m] = files[m] \/ Len(files'[m].records) = 0
  PROVE  OrderInv'
<1>t. Len(appended) \in Nat
  BY DEF TypeOK
<1>0. /\ \A n \in Numbers : \A i, j \in 1 .. Len(files[n].records) :
           i < j => files[n].records[i] < files[n].records[j]
      /\ \A m, n \in Numbers : m < n => \A r, s \in Nat : In(r, m) /\ In(s, n) => s < r
      /\ \A n \in Numbers : \A r \in Nat : In(r, n) => r <= Len(appended)
  BY DEF OrderInv
<1>1. \A m \in Numbers, r \in Nat : In(r, m)' => In(r, m)
  <2> TAKE m \in Numbers, r \in Nat
  <2>1. CASE files'[m] = files[m]
    BY <2>1 DEF In
  <2>2. CASE Len(files'[m].records) = 0
    BY <2>2 DEF In
  <2> QED
    BY <2>1, <2>2
<1>2. \A n \in Numbers : \A i, j \in 1 .. Len(files'[n].records) :
           i < j => files'[n].records[i] < files'[n].records[j]
  <2> TAKE n \in Numbers
  <2>1. CASE files'[n] = files[n]
    BY <1>0, <2>1
  <2>2. CASE Len(files'[n].records) = 0
    BY <2>2
  <2> QED
    BY <2>1, <2>2
<1>3. \A m, n \in Numbers : m < n => \A r, s \in Nat : In(r, m)' /\ In(s, n)' => s < r
  BY <1>t, <1>0, <1>1
<1>4. \A n \in Numbers : \A r \in Nat : In(r, n)' => r <= Len(appended')
  BY <1>t, <1>0, <1>1
<1> QED
  BY <1>2, <1>3, <1>4 DEF OrderInv

LEMMA RenameOrder ==
  ASSUME TypeOK, OrderInv, NEW n \in Numbers, n + 1 \in Numbers, Renames(n)
  PROVE  OrderInv'
<1>a. Len(appended) \in Nat
  BY DEF TypeOK
<1>t. Len(appended) \in Nat /\ n \in Nat /\ Numbers \subseteq Nat
  BY <1>a, NumbersAre
<1>0. /\ \A k \in Numbers : \A i, j \in 1 .. Len(files[k].records) :
           i < j => files[k].records[i] < files[k].records[j]
      /\ \A m, k \in Numbers : m < k => \A r, s \in Nat : In(r, m) /\ In(s, k) => s < r
      /\ \A k \in Numbers : \A r \in Nat : In(r, k) => r <= Len(appended)
  BY DEF OrderInv
<1>1. /\ \A m \in Numbers : files'[m] = IF m = n THEN Absent
                                        ELSE IF m = n + 1 THEN files[n] ELSE files[m]
      /\ Len(Absent.records) = 0 /\ appended' = appended /\ n + 1 # n
  BY RenamesAre, FilesAre DEF Renames
<1>2. \A r \in Nat : /\ ~In(r, n)' /\ (In(r, n + 1)' <=> In(r, n))
                     /\ \A m \in Numbers : m # n /\ m # n + 1 => (In(r, m)' <=> In(r, m))
  <2> TAKE r \in Nat
  <2>1. ~In(r, n)'
    BY <1>1 DEF In
  <2>2. In(r, n + 1)' <=> In(r, n)
    BY <1>1 DEF In
  <2>3. \A m \in Numbers : m # n /\ m # n + 1 => (In(r, m)' <=> In(r, m))
    BY <1>1 DEF In
  <2> QED
    BY <2>1, <2>2, <2>3
<1>3. \A k \in Numbers : \A i, j \in 1 .. Len(files'[k].records) :
           i < j => files'[k].records[i] < files'[k].records[j]
  <2> TAKE k \in Numbers
  <2>1. files'[k] = Absent \/ \E m \in Numbers : files'[k] = files[m]
    BY <1>1
  <2>2. CASE files'[k] = Absent
    BY <1>1, <2>2
  <2>3. ASSUME NEW m \in Numbers, files'[k] = files[m]
        PROVE  \A i, j \in 1 .. Len(files'[k].records) :
                 i < j => files'[k].records[i] < files'[k].records[j]
    BY <1>0, <2>3
  <2> QED
    BY <2>1, <2>2, <2>3
<1>4. ASSUME NEW m \in Numbers, NEW k \in Numbers, m < k, NEW r \in Nat, NEW s \in Nat,
             In(r, m)', In(s, k)'
      PROVE  s < r
  <2>1. m # n /\ k # n
    BY <1>2, <1>4
  <2>2. CASE m = n + 1
    BY <1>t, <1>0, <1>2, <1>4, <2>1, <2>2
  <2>3. CASE k = n + 1
    BY <1>t, <1>0, <1>2, <1>4, <2>1, <2>3
  <2>4. CASE m # n + 1 /\ k # n + 1
    BY <1>t, <1>0, <1>2, <1>4, <2>1, <2>4
  <2> QED
    BY <2>2, <2>3, <2>4
<1>5. \A k \in Numbers : \A r \in Nat : In(r, k)' => r <= Len(appended')
  BY <1>t, <1>0, <1>1, <1>2
<1> QED
  BY <1>3, <1>4, <1>5 DEF OrderInv

\* What the log holds after a record is written.
LEMMA AppendsIn ==
  ASSUME TypeOK, NEW e \in Event, Appends(e), NEW r \in Nat
  PROVE  /\ In(r, 0)' <=> In(r, 0) \/ r = Len(appended) + 1
         /\ \A m \in Numbers : m # 0 => (In(r, m)' <=> In(r, m))
<1> DEFINE n == Len(files[0].records)
<1>1. n \in Nat /\ Len(appended) \in Nat
  BY FilesAre, NumbersAre DEF TypeOK
<1>2. /\ \A m \in Numbers : m # 0 => files'[m] = files[m]
      /\ Len(files'[0].records) = n + 1
      /\ \A i \in 1 .. n : files'[0].records[i] = files[0].records[i]
      /\ files'[0].records[n + 1] = Len(appended) + 1
  BY AppendsAre
<1>3. In(r, 0)' => In(r, 0) \/ r = Len(appended) + 1
  <2> SUFFICES ASSUME NEW i \in 1 .. n + 1, files'[0].records[i] = r
               PROVE  In(r, 0) \/ r = Len(appended) + 1
    BY <1>2 DEF In
  <2>1. CASE i = n + 1
    BY <1>2, <2>1
  <2>2. CASE i # n + 1
    <3>1. i \in 1 .. n
      BY <1>1, <2>2
    <3> QED
      BY <1>2, <3>1 DEF In
  <2> QED
    BY <2>1, <2>2
<1> HIDE DEF n
<1>4. In(r, 0) => In(r, 0)'
  <2> SUFFICES ASSUME NEW i \in 1 .. n, files[0].records[i] = r
               PROVE  In(r, 0)'
    BY DEF In, n
  <2>1. i \in 1 .. n + 1 /\ files'[0].records[i] = r
    BY <1>1, <1>2
  <2> QED
    BY <1>2, <2>1 DEF In
<1>5. r = Len(appended) + 1 => In(r, 0)'
  <2>1. n + 1 \in 1 .. n + 1
    BY <1>1
  <2> QED
    BY <1>2, <2>1 DEF In
<1>6. \A m \in Numbers : m # 0 => (In(r, m)' <=> In(r, m))
  BY <1>2 DEF In
<1> QED
  BY <1>3, <1>4, <1>5, <1>6

LEMMA AppendOrder ==
  ASSUME TypeOK, OrderInv, NEW e \in Event, Appends(e)
  PROVE  OrderInv'
<1> DEFINE n == Len(files[0].records)
           L == Len(appended)
<1>a. L \in Nat
  BY DEF TypeOK
<1>b. n \in Nat /\ files[0].records \in Seq(Nat)
  BY NumbersAre, FilesAre
<1>c. /\ \A k \in Numbers : \A i, j \in 1 .. Len(files[k].records) :
           i < j => files[k].records[i] < files[k].records[j]
      /\ \A m, k \in Numbers : m < k => \A r, s \in Nat : In(r, m) /\ In(s, k) => s < r
      /\ \A k \in Numbers : \A r \in Nat : In(r, k) => r <= L
  BY DEF OrderInv
<1>0. /\ L \in Nat /\ Numbers \subseteq Nat /\ 0 \in Numbers /\ n \in Nat
      /\ files[0].records \in Seq(Nat)
      /\ \A k \in Numbers : \A i, j \in 1 .. Len(files[k].records) :
           i < j => files[k].records[i] < files[k].records[j]
      /\ \A m, k \in Numbers : m < k => \A r, s \in Nat : In(r, m) /\ In(s, k) => s < r
      /\ \A k \in Numbers : \A r \in Nat : In(r, k) => r <= L
  BY <1>a, <1>b, <1>c, NumbersAre
<1>1. /\ \A m \in Numbers : m # 0 => files'[m] = files[m]
      /\ Len(files'[0].records) = n + 1 /\ Len(appended') = L + 1
      /\ \A i \in 1 .. n : files'[0].records[i] = files[0].records[i]
      /\ files'[0].records[n + 1] = L + 1
  BY AppendsAre
<1>2. \A r \in Nat : /\ In(r, 0)' <=> In(r, 0) \/ r = L + 1
                     /\ \A m \in Numbers : m # 0 => (In(r, m)' <=> In(r, m))
  BY AppendsIn
<1>3. \A i \in 1 .. n : files[0].records[i] < L + 1
  <2> TAKE i \in 1 .. n
  <2>1. files[0].records[i] \in Nat /\ In(files[0].records[i], 0)
    BY <1>0 DEF In
  <2> QED
    BY <1>0, <2>1
<1> HIDE DEF L, n
<1>4. ASSUME NEW k \in Numbers, NEW i \in 1 .. Len(files'[k].records),
             NEW j \in 1 .. Len(files'[k].records), i < j
      PROVE  files'[k].records[i] < files'[k].records[j]
  <2>1. CASE k # 0
    <3>1. files'[k] = files[k]
      BY <1>1, <2>1
    <3>2. i \in 1 .. Len(files[k].records) /\ j \in 1 .. Len(files[k].records)
      BY <3>1
    <3>3. files[k].records[i] < files[k].records[j]
      BY <1>0, <1>4, <3>2
    <3> QED
      BY <3>1, <3>3
  <2>2. CASE k = 0 /\ j = n + 1
    <3>1. i \in 1 .. n
      BY <1>0, <1>1, <1>4, <2>2
    <3> QED
      BY <1>1, <1>3, <2>2, <3>1
  <2>3. CASE k = 0 /\ j # n + 1
    <3>1. i \in 1 .. n /\ j \in 1 .. n
      BY <1>0, <1>1, <1>4, <2>3
    <3>2. files[0].records[i] < files[0].records[j]
      BY <1>0, <1>4, <3>1 DEF n
    <3> QED
      BY <1>1, <2>3, <3>1, <3>2
  <2> QED
    BY <2>1, <2>2, <2>3
<1>5. ASSUME NEW m \in Numbers, NEW k \in Numbers, m < k, NEW r \in Nat, NEW s \in Nat,
             In(r, m)', In(s, k)'
      PROVE  s < r
  <2>1. k # 0 /\ In(s, k)
    BY <1>0, <1>2, <1>5
  <2>2. s <= L
    BY <1>0, <2>1
  <2>3. CASE m = 0 /\ r = L + 1
    BY <1>0, <2>2, <2>3
  <2>4. CASE ~(m = 0 /\ r = L + 1)
    BY <1>0, <1>2, <1>5, <2>1, <2>4
  <2> QED
    BY <2>3, <2>4
<1>6. \A k \in Numbers : \A r \in Nat : In(r, k)' => r <= Len(appended')
  <2> SUFFICES ASSUME NEW k \in Numbers, NEW r \in Nat, In(r, k)' PROVE r <= L + 1
    BY <1>1
  <2> QED
    BY <1>0, <1>2
<1> QED
  BY <1>4, <1>5, <1>6 DEF OrderInv

LEMMA StepOrder ==
  ASSUME TypeOK, IdInv, PlaceInv, OrderInv, [Next]_vars
  PROVE  OrderInv'
<1>0. Len(appended) \in Nat /\ Len(Absent.records) = 0
  BY FilesAre DEF TypeOK
<1>1. CASE Keeps
  BY <1>0, <1>1, SameOrder DEF Keeps
<1>2. ASSUME NEW n \in Numbers, Unlinks(n)
      PROVE  OrderInv'
  <2>1. \A m \in Numbers : files'[m] = files[m] \/ Len(files'[m].records) = 0
    BY <1>0, <1>2, UnlinksAre
  <2> QED
    BY <1>0, <1>2, <2>1, SameOrder DEF Unlinks
<1>3. ASSUME NEW n \in Numbers, n + 1 \in Numbers, Renames(n)
      PROVE  OrderInv'
  BY <1>3, RenameOrder
<1>4. CASE Creates
  <2>1. \A m \in Numbers : files'[m] = files[m] \/ Len(files'[m].records) = 0
    BY <1>4, CreatesIs DEF New
  <2> QED
    BY <1>0, <1>4, <2>1, SameOrder DEF Creates
<1>5. ASSUME NEW e \in Event, Appends(e)
      PROVE  OrderInv'
  BY <1>5, AppendOrder
<1> QED
  BY <1>1, <1>2, <1>3, <1>4, <1>5, FileStep

-----------------------------------------------------------------------------
(* The lock, and what its holder relies on.                                *)

Step(p) == Begin(p) \/ AppendStep(p) \/ Finish(p) \/ OperationFails(p) \/ Stopped(p)

\* A step leaves the state of the other processes alone.
LEMMA Others ==
  ASSUME TypeOK, NEW p \in Invocations, Step(p), NEW q \in Invocations, q # p
  PROVE  /\ at'[q] = at[q] /\ event'[q] = event[q] /\ started'[q] = started[q]
         /\ left'[q] = left[q] /\ cursor'[q] = cursor[q] /\ descriptor'[q] = descriptor[q]
<1>1. CASE Begin(p) \/ LockTimeout(p) \/ PruneDone(p) \/ CheckSize(p) \/ WriteRecord(p)
  <2>1. \E to : at' = [at EXCEPT ![p] = to]
    BY <1>1 DEF Begin, LockTimeout, PruneDone, CheckSize, WriteRecord, Go
  <2>2. UNCHANGED <<event, started, left, cursor, descriptor>>
    BY <1>1 DEF Begin, LockTimeout, PruneDone, CheckSize, WriteRecord, local
  <2> QED
    BY <2>1, <2>2 DEF TypeOK
<1>2. CASE Acquire(p) \/ Finish(p) \/ Unlock(p)
  BY <1>2 DEF Acquire, Finish, Unlock, Go, TypeOK
<1>3. CASE DropOldest(p) \/ Shift(p)
  BY <1>3 DEF DropOldest, Shift, TypeOK
<1>4. CASE Prune(p)
  <2>1. /\ \E n \in left[p] : left' = [left EXCEPT ![p] = @ \ {n}]
        /\ UNCHANGED <<at, event, started, cursor, descriptor>>
    BY <1>4 DEF Prune
  <2> QED
    BY <2>1 DEF TypeOK
<1>5. CASE Open(p)
  <2>1. \E d : descriptor' = [descriptor EXCEPT ![p] = d]
    BY <1>5, OpenIs
  <2>2. /\ at' = [at EXCEPT ![p] = "write"]
        /\ UNCHANGED <<event, started, left, cursor>>
    BY <1>5, OpenIs
  <2> QED
    BY <2>1, <2>2 DEF TypeOK
<1>6. CASE OperationFails(p) \/ Stopped(p)
  BY <1>6 DEF OperationFails, Stopped, Fault, local, TypeOK
<1> QED
  BY <1>1, <1>2, <1>3, <1>4, <1>5, <1>6 DEF Step, AppendStep

\* The files, and the lock when it is held, change by a step of the holder.
LEMMA OnlyHolder ==
  ASSUME TypeOK, LockInv, NEW p \in Invocations, Step(p), lock # p
  PROVE  Keeps /\ (lock = NoInvocation \/ lock' = lock)
<1>1. at[p] \notin Critical
  BY DEF LockInv
<1>2. CASE Begin(p) \/ LockTimeout(p) \/ Finish(p) \/ Acquire(p)
  BY <1>2 DEF Begin, LockTimeout, Finish, Acquire, Keeps
<1>3. CASE Prune(p) \/ PruneDone(p) \/ CheckSize(p) \/ DropOldest(p) \/ Shift(p) \/ Open(p)
             \/ WriteRecord(p) \/ Unlock(p)
  BY <1>1, <1>3 DEF Prune, PruneDone, CheckSize, DropOldest, Shift, Open, WriteRecord, Unlock, Go,
       Critical
<1>4. CASE OperationFails(p) \/ Stopped(p)
  BY <1>1, <1>4 DEF OperationFails, Stopped, Fault, Release, Critical, Keeps
<1> QED
  BY <1>2, <1>3, <1>4 DEF Step, AppendStep

\* What a step does to the place of its process and to the lock.
LEMMA HolderMoves ==
  ASSUME TypeOK, LockInv, NEW p \in Invocations, Step(p)
  PROVE  /\ at'[p] \in Critical <=> lock' = p
         /\ lock # p => lock' = lock \/ (lock = NoInvocation /\ lock' = p)
         /\ lock = p => lock' \in {p, NoInvocation}
<1>0. /\ at \in [Invocations -> Appending \cup {"idle", "working", "ended"}]
      /\ (at[p] \in Critical <=> lock = p) /\ p # NoInvocation
      /\ AfterAppend(p) \notin Critical
  BY DEF LockInv, TypeOK, AfterAppend, Critical
<1>1. CASE Begin(p) \/ LockTimeout(p) \/ PruneDone(p) \/ CheckSize(p) \/ WriteRecord(p)
  BY <1>0, <1>1 DEF Begin, LockTimeout, PruneDone, CheckSize, WriteRecord, Go, Critical
<1>2. CASE Acquire(p) \/ Finish(p) \/ DropOldest(p) \/ Shift(p) \/ Prune(p) \/ Open(p)
  BY <1>0, <1>2 DEF Acquire, Finish, DropOldest, Shift, Prune, Open, Go, Critical
<1>3. CASE Unlock(p) \/ OperationFails(p) \/ Stopped(p)
  BY <1>0, <1>3 DEF Unlock, OperationFails, Stopped, Fault, Release, Critical
<1> QED
  BY <1>1, <1>2, <1>3 DEF Step, AppendStep

LEMMA StepLock ==
  ASSUME TypeOK, LockInv, [Next]_vars
  PROVE  LockInv'
<1>1. CASE UNCHANGED vars
  BY <1>1 DEF vars, LockInv
<1>2. ASSUME NEW p \in Invocations, Step(p)
      PROVE  LockInv'
  <2> SUFFICES ASSUME NEW q \in Invocations PROVE at'[q] \in Critical <=> lock' = q
    BY DEF LockInv
  <2>1. CASE q = p
    BY <1>2, <2>1, HolderMoves
  <2>2. CASE q # p
    <3>1. at'[q] = at[q] /\ (at[q] \in Critical <=> lock = q) /\ q # NoInvocation
      BY <1>2, <2>2, Others DEF LockInv
    <3>2. lock' = q <=> lock = q
      BY <1>2, <2>2, <3>1, HolderMoves
    <3> QED
      BY <3>1, <3>2
  <2> QED
    BY <2>1, <2>2
<1> QED
  BY <1>1, <1>2 DEF Next, Step

PlaceOf(p) ==
    /\ at[p] = "prune" => \A n \in Existing : n >= MaxFiles[p] => n \in left[p]
    /\ at[p] \in Critical \ {"prune"} => \A n \in Existing : n < MaxFiles[p]
    /\ at[p] = "shift" => cursor[p] + 1 < MaxFiles[p] /\ files[cursor[p] + 1] = Absent
    /\ at[p] = "open" => files[0].size < MaxSize[p]
    /\ at[p] = "write" => /\ files[0].id = descriptor[p] /\ descriptor[p] # 0
                          /\ files[0].size < MaxSize[p]

LEMMA OwnPlace ==
  ASSUME TypeOK, LockInv, IdInv, PlaceInv, NEW p \in Invocations, Step(p)
  PROVE  PlaceOf(p)'
<1>0. /\ PlaceOf(p) /\ MaxFiles[p] \in Nat \ {0} /\ Numbers \subseteq Nat /\ 0 \in Numbers
      /\ MaxFiles[p] - 1 \in Numbers
  BY NumbersAre DEF PlaceInv, PlaceOf
<1>a. at \in [Invocations -> Appending \cup {"idle", "working", "ended"}]
  BY DEF TypeOK
<1>1. CASE Begin(p) \/ LockTimeout(p) \/ Unlock(p) \/ Finish(p) \/ OperationFails(p) \/ Stopped(p)
  <2>1. at'[p] \notin Critical
    BY <1>1, <1>a DEF Begin, LockTimeout, Unlock, Finish, OperationFails, Stopped, AfterAppend, Go,
         Critical
  <2> QED
    BY <2>1 DEF PlaceOf, Critical
<1>2. CASE Acquire(p)
  <2>1. at'[p] = "prune" /\ left'[p] = Existing \ {0} /\ Existing' = Existing
    BY <1>2, <1>a DEF Acquire, Go, TypeOK, Existing
  <2>2. \A n \in Existing : n >= MaxFiles[p] => n \in Existing \ {0}
    BY <1>0 DEF Existing
  <2> QED
    BY <2>1, <2>2 DEF PlaceOf, Critical
<1>3. CASE Prune(p)
  <2>1. PICK n \in left[p] :
           /\ n \in Numbers /\ left' = [left EXCEPT ![p] = @ \ {n}]
           /\ (n >= MaxFiles[p] /\ Unlinks(n)) \/ (n < MaxFiles[p] /\ Keeps)
           /\ at[p] = "prune" /\ UNCHANGED <<lock, at, event, started, cursor, descriptor, faults>>
    BY <1>3, PruneIs
  <2>2. at'[p] = "prune" /\ left'[p] = left[p] \ {n}
    BY <2>1 DEF TypeOK
  <2>3. \A m \in Existing : m >= MaxFiles[p] => m \in left[p]
    BY <1>0, <2>1 DEF PlaceOf
  <2>4. Existing' \subseteq Existing
    <3>1. CASE Unlinks(n)
      BY <2>1, <3>1, UnlinksAre DEF Existing
    <3>2. CASE Keeps
      BY <3>2 DEF Keeps, Existing
    <3> QED
      BY <2>1, <3>1, <3>2
  <2>5. n >= MaxFiles[p] => n \notin Existing'
    <3>1. CASE Unlinks(n)
      BY <2>1, <3>1, UnlinksAre DEF Existing
    <3>2. CASE n < MaxFiles[p]
      BY <1>0, <2>1, <3>2
    <3> QED
      BY <2>1, <3>1, <3>2
  <2>6. \A m \in Existing' : m >= MaxFiles[p] => m \in left'[p]
    BY <2>2, <2>3, <2>4, <2>5
  <2> QED
    BY <2>2, <2>6 DEF PlaceOf, Critical
<1>4. CASE PruneDone(p)
  <2>1. at[p] = "prune" /\ left[p] = {} /\ at'[p] = "size" /\ Existing' = Existing
    BY <1>4, <1>a DEF PruneDone, Go, Existing
  <2>2. \A n \in Existing : n < MaxFiles[p]
    BY <1>0, <2>1 DEF PlaceOf, Existing
  <2> QED
    BY <2>1, <2>2 DEF PlaceOf, Critical
<1>5. CASE CheckSize(p)
  <2>1. at[p] = "size" /\ at'[p] = (IF Full(p) THEN "drop" ELSE "open") /\ files' = files
    BY <1>5, <1>a DEF CheckSize
  <2>2. \A n \in Existing' : n < MaxFiles[p]
    BY <1>0, <2>1 DEF PlaceOf, Critical, Existing
  <2>3. at'[p] = "open" => files'[0].size < MaxSize[p]
    BY <2>1, FilesAre, <1>0 DEF Full
  <2> QED
    BY <2>1, <2>2, <2>3 DEF PlaceOf, Critical
<1>6. CASE DropOldest(p)
  <2>1. /\ at[p] = "drop" /\ Unlinks(MaxFiles[p] - 1)
        /\ at'[p] = IF MaxFiles[p] = 1 THEN "open" ELSE "shift"
        /\ cursor'[p] = IF MaxFiles[p] = 1 THEN 0 ELSE MaxFiles[p] - 2
    BY <1>6, <1>a DEF DropOldest, Unlinks, TypeOK
  <2>2. \A m \in Numbers : files'[m] = IF m = MaxFiles[p] - 1 THEN Absent ELSE files[m]
    BY <1>0, <2>1, UnlinksAre
  <2>3. \A n \in Existing' : n < MaxFiles[p]
    BY <1>0, <2>1, <2>2 DEF PlaceOf, Critical, Existing
  <2>4. CASE MaxFiles[p] = 1
    BY <1>0, <2>1, <2>2, <2>3, <2>4, FilesAre DEF PlaceOf, Critical
  <2>5. CASE MaxFiles[p] # 1
    <3>1. cursor'[p] + 1 = MaxFiles[p] - 1 /\ at'[p] = "shift"
      BY <1>0, <2>1, <2>5
    <3>2. cursor'[p] + 1 < MaxFiles[p] /\ files'[cursor'[p] + 1] = Absent
      BY <1>0, <2>2, <3>1
    <3> QED
      BY <2>3, <3>1, <3>2 DEF PlaceOf, Critical
  <2> QED
    BY <2>4, <2>5
<1>7. CASE Shift(p)
  <2> DEFINE c == cursor[p]
  <2>1. /\ at[p] = "shift" /\ c \in Numbers /\ c + 1 \in Numbers /\ c + 1 < MaxFiles[p]
        /\ Renames(c) \/ (files[c] = Absent /\ Keeps)
        /\ at' = [at EXCEPT ![p] = IF c = 0 THEN "open" ELSE "shift"]
        /\ cursor' = [cursor EXCEPT ![p] = IF @ = 0 THEN 0 ELSE @ - 1]
    BY <1>7, ShiftIs
  <2>2. /\ at'[p] = IF c = 0 THEN "open" ELSE "shift"
        /\ cursor'[p] = IF c = 0 THEN 0 ELSE c - 1
    BY <1>a, <2>1 DEF TypeOK
  <2>3. /\ files'[c] = Absent
        /\ \A m \in Numbers : m # c /\ m # c + 1 => files'[m] = files[m]
    <3>1. CASE Renames(c)
      BY <2>1, <3>1, RenamesAre
    <3>2. CASE files[c] = Absent /\ Keeps
      BY <2>1, <3>2 DEF Keeps
    <3> QED
      BY <2>1, <3>1, <3>2
  <2>4. \A n \in Existing' : n < MaxFiles[p]
    <3>1. \A n \in Existing : n < MaxFiles[p]
      BY <1>0, <2>1 DEF PlaceOf, Critical
    <3>2. \A n \in Numbers : files'[n] # Absent => n = c + 1 \/ files[n] # Absent
      BY <2>3
    <3> QED
      <4> SUFFICES ASSUME NEW n \in Existing' PROVE n < MaxFiles[p]
        OBVIOUS
      <4>1. n \in Numbers /\ files'[n] # Absent
        BY DEF Existing
      <4>2. CASE n = c + 1
        BY <2>1, <4>2
      <4>3. CASE files[n] # Absent
        BY <3>1, <4>1, <4>3 DEF Existing
      <4> QED
        BY <3>2, <4>1, <4>2, <4>3
  <2>5. CASE c = 0
    <3>1. at'[p] = "open" /\ files'[0].size = 0
      BY <2>2, <2>3, <2>5, FilesAre
    <3> QED
      BY <2>4, <3>1 DEF PlaceOf, Critical
  <2>6. CASE c # 0
    <3>0. c \in Nat /\ c + 1 < MaxFiles[p] /\ MaxFiles[p] \in Nat
      BY <1>0, <2>1
    <3>1. cursor'[p] + 1 = c /\ c < MaxFiles[p] /\ at'[p] = "shift"
      BY <2>2, <2>6, <3>0
    <3>2. cursor'[p] + 1 < MaxFiles[p] /\ files'[cursor'[p] + 1] = Absent
      BY <2>3, <3>1
    <3> HIDE DEF c
    <3> QED
      BY <2>4, <3>1, <3>2 DEF PlaceOf, Critical
  <2> QED
    BY <2>5, <2>6
<1>8. CASE Open(p)
  <2>1. /\ at[p] = "open" /\ at'[p] = "write"
        /\ \/ Creates /\ descriptor' = [descriptor EXCEPT ![p] = created + 1]
           \/ /\ files[0] # Absent /\ Keeps
              /\ descriptor' = [descriptor EXCEPT ![p] = files[0].id]
    BY <1>8, <1>a, OpenIs
  <2>2. /\ \A n \in Existing : n < MaxFiles[p]
        /\ files[0].size < MaxSize[p]
    BY <1>0, <2>1 DEF PlaceOf, Critical
  <2>3. CASE Creates /\ descriptor' = [descriptor EXCEPT ![p] = created + 1]
    <3>1. created \in Nat /\ descriptor'[p] = created + 1
      BY <2>3 DEF TypeOK
    <3>2. \A m \in Numbers :
            files'[m] = IF m = 0 THEN New ELSE files[m]
      BY <2>3, CreatesIs
    <3>3. \A n \in Existing' : n < MaxFiles[p]
      BY <1>0, <2>2, <3>2 DEF Existing
    <3>4. files'[0].id = created + 1 /\ files'[0].size < MaxSize[p]
      BY <1>0, <3>2 DEF New
    <3> QED
      BY <2>1, <3>1, <3>3, <3>4 DEF PlaceOf, Critical
  <2>4. CASE files[0] # Absent /\ Keeps /\ descriptor' = [descriptor EXCEPT ![p] = files[0].id]
    <3>1. files' = files /\ Existing' = Existing
      BY <2>4 DEF Keeps, Existing
    <3>2. descriptor'[p] = files[0].id /\ files[0].id # 0
      BY <1>0, <2>4 DEF TypeOK, IdInv
    <3> QED
      BY <2>1, <2>2, <2>4, <3>1, <3>2 DEF PlaceOf, Critical
  <2> QED
    BY <2>1, <2>3, <2>4
<1>9. CASE WriteRecord(p)
  <2>1. at[p] = "write" /\ at'[p] = "unlock"
    BY <1>9, <1>a DEF WriteRecord, Go
  <2>2. \A m \in Numbers : m # 0 => files'[m] = files[m]
    <3>1. \E e \in Event : Appends(e)
      BY <1>9, WriteIs, SizesAre
    <3> QED
      BY <3>1, AppendsAre
  <2>3. \A n \in Existing : n < MaxFiles[p]
    BY <1>0, <2>1 DEF PlaceOf, Critical
  <2>4. \A n \in Existing' : n < MaxFiles[p]
    BY <1>0, <2>2, <2>3 DEF Existing
  <2> QED
    BY <2>1, <2>4 DEF PlaceOf, Critical
<1> QED
  BY <1>1, <1>2, <1>3, <1>4, <1>5, <1>6, <1>7, <1>8, <1>9 DEF Step, AppendStep

LEMMA StepPlace ==
  ASSUME TypeOK, LockInv, IdInv, PlaceInv, [Next]_vars
  PROVE  PlaceInv'
<1>1. CASE UNCHANGED vars
  BY <1>1 DEF vars, PlaceInv, Existing
<1>2. ASSUME NEW p \in Invocations, Step(p)
      PROVE  PlaceInv'
  <2> SUFFICES ASSUME NEW q \in Invocations PROVE PlaceOf(q)'
    BY DEF PlaceInv, PlaceOf
  <2>1. CASE q = p
    BY <1>2, <2>1, OwnPlace
  <2>2. CASE q # p /\ at[q] \in Critical
    <3>1. lock # p
      BY <2>2 DEF LockInv
    <3>2. files' = files /\ Existing' = Existing
      BY <1>2, <3>1, OnlyHolder DEF Keeps, Existing
    <3>3. /\ at'[q] = at[q] /\ left'[q] = left[q] /\ cursor'[q] = cursor[q]
          /\ descriptor'[q] = descriptor[q]
      BY <1>2, <2>2, Others
    <3>4. PlaceOf(q)
      BY DEF PlaceInv, PlaceOf
    <3> QED
      BY <3>2, <3>3, <3>4 DEF PlaceOf
  <2>3. CASE q # p /\ at[q] \notin Critical
    <3>1. at'[q] \notin Critical
      BY <1>2, <2>3, Others
    <3> QED
      BY <3>1 DEF PlaceOf, Critical
  <2> QED
    BY <2>1, <2>2, <2>3
<1> QED
  BY <1>1, <1>2 DEF Next, Step

-----------------------------------------------------------------------------
(* No record is lost in the middle.                                        *)

\* What the files hold after a step of each kind.
LEMMA UnlinksIn ==
  ASSUME TypeOK, NEW n \in Numbers, Unlinks(n), NEW r, NEW m \in Numbers
  PROVE  In(r, m)' <=> m # n /\ In(r, m)
<1>1. files'[m] = IF m = n THEN Absent ELSE files[m]
  BY UnlinksAre
<1>2. Len(Absent.records) = 0
  BY FilesAre
<1> QED
  BY <1>1, <1>2 DEF In

LEMMA RenamesIn ==
  ASSUME TypeOK, NEW n \in Numbers, n + 1 \in Numbers, Renames(n), NEW r
  PROVE  /\ ~In(r, n)' /\ (In(r, n + 1)' <=> In(r, n)) /\ ~In(r, n + 1)
         /\ \A m \in Numbers : m # n /\ m # n + 1 => (In(r, m)' <=> In(r, m))
<1>1. /\ \A m \in Numbers : files'[m] = IF m = n THEN Absent
                                        ELSE IF m = n + 1 THEN files[n] ELSE files[m]
      /\ Len(Absent.records) = 0 /\ n + 1 # n /\ files[n + 1] = Absent
  BY RenamesAre, FilesAre
<1>2. ~In(r, n)' /\ ~In(r, n + 1)
  BY <1>1 DEF In
<1>3. In(r, n + 1)' <=> In(r, n)
  BY <1>1 DEF In
<1>4. \A m \in Numbers : m # n /\ m # n + 1 => (In(r, m)' <=> In(r, m))
  BY <1>1 DEF In
<1> QED
  BY <1>2, <1>3, <1>4

LEMMA CreatesIn ==
  ASSUME TypeOK, Creates, NEW r, NEW m \in Numbers
  PROVE  In(r, m)' <=> In(r, m)
<1>1. /\ files[0] = Absent /\ Len(Absent.records) = 0
      /\ files'[m] = IF m = 0 THEN New ELSE files[m]
  BY CreatesIs, FilesAre DEF Creates, New
<1>2. CASE m = 0
  BY <1>1, <1>2 DEF In, New
<1>3. CASE m # 0
  BY <1>1, <1>3 DEF In
<1> QED
  BY <1>2, <1>3

LEMMA KeepsIn ==
  ASSUME Keeps
  PROVE  /\ \A r, n : In(r, n)' <=> In(r, n)
         /\ \A N : Closed(N)' <=> Closed(N)
<1>1. \A r, n : In(r, n)' <=> In(r, n)
  BY DEF Keeps, In
<1> QED
  BY <1>1 DEF Closed, Keeps

\* What the invariants say, as the next steps use them.
LEMMA OrderSays ==
  ASSUME OrderInv, NEW m \in Numbers, NEW n \in Numbers, m < n,
         NEW r \in Nat, NEW s \in Nat, In(r, m), In(s, n)
  PROVE  s < r
BY DEF OrderInv

LEMMA ClosedSays ==
  ASSUME NEW N, Closed(N), NEW n \in N, NEW r \in Nat, In(r, n),
         NEW s \in Nat, r <= s, s <= Len(appended), Len(appended) \in Nat
  PROVE  \E m \in N : In(s, m)
<1>1. s \in r .. Len(appended)
  OBVIOUS
<1> QED
  BY <1>1 DEF Closed

Allowed(p) == 0 .. MaxFiles[p] - 1

LEMMA AllowedIs ==
  ASSUME TypeOK, NEW p \in Invocations
  PROVE  /\ Len(appended) \in Nat /\ Numbers \subseteq Nat /\ Allowed(p) \subseteq Numbers
         /\ MaxFiles[p] \in Nat /\ 0 \in Allowed(p)
<1>1. Len(appended) \in Nat
  BY DEF TypeOK
<1>2. Numbers \subseteq Nat /\ MaxFiles[p] \in Nat \ {0} /\ 0 .. MaxFiles[p] - 1 \subseteq Numbers
  BY NumbersAre
<1>3. 0 \in 0 .. MaxFiles[p] - 1
  BY <1>2
<1> QED
  BY <1>1, <1>2, <1>3 DEF Allowed

LEMMA ClosedAcquired ==
  ASSUME TypeOK, OrderInv, Closed(Numbers), NEW p \in Invocations
  PROVE  Closed(Allowed(p))
<1>0. /\ Len(appended) \in Nat /\ Numbers \subseteq Nat /\ Allowed(p) \subseteq Numbers
      /\ MaxFiles[p] \in Nat
  BY AllowedIs
<1> SUFFICES ASSUME NEW n \in Allowed(p), NEW r \in Nat, In(r, n), NEW s \in r .. Len(appended)
             PROVE  \E m \in Allowed(p) : In(s, m)
  BY DEF Closed
<1>1. s \in Nat /\ r <= s /\ s <= Len(appended) /\ n \in Numbers
  BY <1>0
<1>2. PICK m \in Numbers : In(s, m)
  BY <1>0, <1>1, ClosedSays
<1>3. ~(n < m)
  BY <1>1, <1>2, OrderSays
<1>4. m \in Allowed(p)
  BY <1>0, <1>1, <1>2, <1>3 DEF Allowed
<1> QED
  BY <1>2, <1>4

LEMMA ClosedReleased ==
  ASSUME TypeOK, NEW p \in Invocations, Closed(Allowed(p)), \A n \in Existing : n < MaxFiles[p]
  PROVE  Closed(Numbers)
<1>0. /\ Len(appended) \in Nat /\ Numbers \subseteq Nat /\ Allowed(p) \subseteq Numbers
      /\ MaxFiles[p] \in Nat
  BY AllowedIs
<1> SUFFICES ASSUME NEW n \in Numbers, NEW r \in Nat, In(r, n), NEW s \in r .. Len(appended)
             PROVE  \E m \in Numbers : In(s, m)
  BY DEF Closed
<1>1. s \in Nat /\ r <= s /\ s <= Len(appended)
  BY <1>0
<1>2. files[n] # Absent
  BY FilesAre DEF In
<1>3. n \in Allowed(p)
  BY <1>0, <1>2 DEF Existing, Allowed
<1> QED
  BY <1>0, <1>1, <1>3, ClosedSays

\* Unlinking what is outside the setting, or the oldest file inside it.
LEMMA ClosedUnlink ==
  ASSUME TypeOK, OrderInv, NEW p \in Invocations, Closed(Allowed(p)),
         NEW k \in Numbers, k >= MaxFiles[p] - 1, Unlinks(k)
  PROVE  Closed(Allowed(p))'
<1>0. /\ Len(appended) \in Nat /\ Numbers \subseteq Nat /\ Allowed(p) \subseteq Numbers
      /\ MaxFiles[p] \in Nat
  BY AllowedIs
<1>b. appended' = appended
  BY DEF Unlinks
<1> SUFFICES ASSUME NEW n \in Allowed(p), NEW r \in Nat, In(r, n)', NEW s \in r .. Len(appended)
             PROVE  \E m \in Allowed(p) : In(s, m)'
  BY <1>b DEF Closed, Allowed
<1>1. s \in Nat /\ r <= s /\ s <= Len(appended) /\ n \in Numbers
  BY <1>0
<1>2. n # k /\ In(r, n)
  BY <1>1, UnlinksIn
<1>3. PICK m \in Allowed(p) : In(s, m)
  BY <1>0, <1>1, <1>2, ClosedSays
<1>4. ~(n < m)
  BY <1>0, <1>1, <1>2, <1>3, OrderSays
<1>5. n < k
  BY <1>0, <1>2 DEF Allowed
<1>6. m # k
  BY <1>0, <1>4, <1>5
<1> QED
  BY <1>0, <1>3, <1>6, UnlinksIn

LEMMA ClosedRename ==
  ASSUME TypeOK, NEW p \in Invocations, Closed(Allowed(p)),
         NEW c \in Numbers, c + 1 \in Numbers, c + 1 < MaxFiles[p], Renames(c)
  PROVE  Closed(Allowed(p))'
<1>0. /\ Len(appended) \in Nat /\ Numbers \subseteq Nat /\ Allowed(p) \subseteq Numbers
      /\ MaxFiles[p] \in Nat
  BY AllowedIs
<1>b. appended' = appended
  BY DEF Renames
<1>a. c \in Allowed(p) /\ c + 1 \in Allowed(p)
  BY <1>0 DEF Allowed
<1> SUFFICES ASSUME NEW n \in Allowed(p), NEW r \in Nat, In(r, n)', NEW s \in r .. Len(appended)
             PROVE  \E m \in Allowed(p) : In(s, m)'
  BY <1>b DEF Closed, Allowed
<1>1. s \in Nat /\ r <= s /\ s <= Len(appended) /\ n \in Numbers
  BY <1>0
<1>2. \E k \in Allowed(p) : In(r, k)
  <2>1. CASE n = c + 1
    BY <1>a, <2>1, RenamesIn
  <2>2. CASE n # c + 1
    BY <1>1, <2>2, RenamesIn
  <2> QED
    BY <2>1, <2>2
<1>3. PICK m \in Allowed(p) : In(s, m)
  BY <1>0, <1>1, <1>2, ClosedSays
<1>4. m # c + 1 /\ m \in Numbers
  <2>1. ~In(s, c + 1)
    BY RenamesIn
  <2>2. m # c + 1
    BY <1>3, <2>1
  <2> QED
    BY <1>0, <2>2
<1>5. CASE m = c
  BY <1>3, <1>a, <1>5, RenamesIn
<1>6. CASE m # c
  BY <1>3, <1>4, <1>6, RenamesIn
<1> QED
  BY <1>5, <1>6

LEMMA ClosedAppend ==
  ASSUME TypeOK, OrderInv, NEW p \in Invocations, Closed(Allowed(p)), NEW e \in Event, Appends(e)
  PROVE  Closed(Allowed(p))'
<1>0. /\ Len(appended) \in Nat /\ Numbers \subseteq Nat /\ Allowed(p) \subseteq Numbers
      /\ MaxFiles[p] \in Nat /\ 0 \in Allowed(p) /\ Len(appended') = Len(appended) + 1
  BY AllowedIs, AppendsAre
<1> SUFFICES ASSUME NEW n \in Allowed(p), NEW r \in Nat, In(r, n)',
                    NEW s \in r .. Len(appended) + 1
             PROVE  \E m \in Allowed(p) : In(s, m)'
  BY <1>0 DEF Closed, Allowed
<1>1. s \in Nat /\ r <= s /\ s <= Len(appended) + 1 /\ n \in Numbers
  BY <1>0
<1>2. CASE s = Len(appended) + 1
  BY <1>0, <1>1, <1>2, AppendsIn
<1>3. CASE s # Len(appended) + 1
  <2>1. s <= Len(appended) /\ r # Len(appended) + 1
    BY <1>0, <1>1, <1>3
  <2>2. In(r, n)
    BY <1>1, <2>1, AppendsIn
  <2>3. PICK m \in Allowed(p) : In(s, m)
    BY <1>0, <1>1, <2>1, <2>2, ClosedSays
  <2>4. In(s, m)'
    BY <1>0, <1>1, <2>3, AppendsIn
  <2> QED
    BY <2>4
<1> QED
  BY <1>2, <1>3

LEMMA HolderClosed ==
  ASSUME TypeOK, IdInv, PlaceInv, OrderInv, NEW p \in Invocations, Step(p), ~Fault(p),
         Closed(Allowed(p))
  PROVE  Closed(Allowed(p))'
<1>0. MaxFiles[p] \in Nat \ {0} /\ MaxFiles[p] - 1 \in Numbers /\ Numbers \subseteq Nat
  BY NumbersAre
<1>1. CASE Begin(p) \/ Finish(p) \/ Acquire(p) \/ LockTimeout(p) \/ PruneDone(p) \/ CheckSize(p)
             \/ Unlock(p)
  <2>1. Keeps
    BY <1>1 DEF Begin, Finish, Acquire, LockTimeout, PruneDone, CheckSize, Unlock, Keeps
  <2> QED
    BY <2>1, KeepsIn DEF Allowed
<1>2. CASE Prune(p)
  <2>1. PICK n \in left[p] :
           n \in Numbers /\ ((n >= MaxFiles[p] /\ Unlinks(n)) \/ (n < MaxFiles[p] /\ Keeps))
    BY <1>2, PruneIs
  <2>2. CASE Keeps
    BY <2>2, KeepsIn DEF Allowed
  <2>3. CASE n >= MaxFiles[p] /\ Unlinks(n)
    <3>1. n \in Nat /\ MaxFiles[p] \in Nat
      BY <1>0, <2>1
    <3>2. n >= MaxFiles[p] - 1
      BY <2>3, <3>1
    <3> QED
      BY <2>1, <2>3, <3>2, ClosedUnlink
  <2> QED
    BY <2>1, <2>2, <2>3
<1>3. CASE DropOldest(p)
  <2>1. Unlinks(MaxFiles[p] - 1) /\ MaxFiles[p] - 1 >= MaxFiles[p] - 1
    BY <1>0, <1>3 DEF DropOldest, Unlinks
  <2> QED
    BY <1>0, <2>1, ClosedUnlink
<1>4. CASE Shift(p)
  <2>1. /\ cursor[p] \in Numbers /\ cursor[p] + 1 \in Numbers /\ cursor[p] + 1 < MaxFiles[p]
        /\ Renames(cursor[p]) \/ Keeps
    BY <1>4, ShiftIs
  <2>2. CASE Keeps
    BY <2>2, KeepsIn DEF Allowed
  <2>3. CASE Renames(cursor[p])
    BY <2>1, <2>3, ClosedRename
  <2> QED
    BY <2>1, <2>2, <2>3
<1>5. CASE Open(p)
  <2>1. Creates \/ Keeps
    BY <1>5, OpenIs
  <2>2. CASE Keeps
    BY <2>2, KeepsIn DEF Allowed
  <2>3. CASE Creates
    <3>1. Allowed(p) \subseteq Numbers /\ appended' = appended
      BY <2>3, NumbersAre DEF Allowed, Creates
    <3>2. \A r : \A m \in Allowed(p) : In(r, m)' <=> In(r, m)
      BY <2>3, <3>1, CreatesIn
    <3> QED
      BY <3>1, <3>2 DEF Closed, Allowed
  <2> QED
    BY <2>1, <2>2, <2>3
<1>6. CASE WriteRecord(p)
  <2>1. \E e \in Event : Appends(e)
    BY <1>6, WriteIs, SizesAre
  <2> QED
    BY <2>1, ClosedAppend
<1> QED
  BY <1>1, <1>2, <1>3, <1>4, <1>5, <1>6 DEF Step, AppendStep, OperationFails, Stopped

LEMMA StepClosed ==
  ASSUME TypeOK, LockInv, IdInv, PlaceInv, OrderInv, ClosedInv, [Next]_vars
  PROVE  ClosedInv'
<1> SUFFICES ASSUME faults' = 0
             PROVE  /\ lock' = NoInvocation => Closed(Numbers)'
                    /\ \A q \in Invocations : lock' = q => Closed(Allowed(q))'
  BY DEF ClosedInv, Allowed
<1>0. \A p \in Invocations : p # NoInvocation
  OBVIOUS
<1>1. CASE UNCHANGED vars
  <2>1. Keeps /\ lock' = lock /\ faults = 0
    BY <1>1 DEF vars, Keeps
  <2>2. /\ lock = NoInvocation => Closed(Numbers)
        /\ \A q \in Invocations : lock = q => Closed(Allowed(q))
    BY <2>1 DEF ClosedInv, Allowed
  <2> QED
    BY <2>1, <2>2, KeepsIn DEF Allowed, Numbers
<1>2. ASSUME NEW p \in Invocations, Step(p)
      PROVE  /\ lock' = NoInvocation => Closed(Numbers)'
             /\ \A q \in Invocations : lock' = q => Closed(Allowed(q))'
  <2>0. faults \in Nat /\ ~Fault(p)
    <3>1. faults \in Nat
      BY DEF TypeOK
    <3>2. Fault(p) => faults' = faults + 1
      BY Zenon DEF Fault
    <3> QED
      BY <3>1, <3>2
  <2>1. faults = 0
    <3>1. faults' = faults
      BY <1>2, <2>0 DEF Step, AppendStep, Begin, Acquire, LockTimeout, Prune, PruneDone, CheckSize,
           DropOldest, Shift, Open, WriteRecord, Unlock, Finish, OperationFails, Stopped
    <3> QED
      BY <3>1
  <2>2. /\ lock = NoInvocation => Closed(Numbers)
        /\ \A q \in Invocations : lock = q => Closed(Allowed(q))
    BY <2>1 DEF ClosedInv, Allowed
  <2>3. CASE lock # p
    <3>1. Keeps /\ (lock' = lock \/ (lock = NoInvocation /\ lock' = p))
      BY <1>2, <2>3, OnlyHolder, HolderMoves
    <3>2. lock = NoInvocation => Closed(Allowed(p))
      BY <2>2, ClosedAcquired
    <3> QED
      BY <1>0, <2>2, <3>1, <3>2, KeepsIn DEF Allowed, Numbers
  <2>4. CASE lock = p
    <3>1. lock' \in {p, NoInvocation}
      BY <1>2, <2>4, HolderMoves
    <3>2. Closed(Allowed(p))'
      BY <1>2, <2>0, <2>2, <2>4, HolderClosed
    <3>3. CASE lock' = p
      BY <1>0, <3>2, <3>3
    <3>4. CASE lock' = NoInvocation
      <4>1. Unlock(p)
        <5>1. p # NoInvocation /\ lock' # lock
          BY <1>0, <2>4, <3>4
        <5> QED
          BY <1>2, <2>0, <2>4, <5>1 DEF Step, AppendStep, Begin, Acquire, LockTimeout, Prune, PruneDone,
               CheckSize, DropOldest, Shift, Open, WriteRecord, Finish, OperationFails, Stopped
      <4>2. Keeps /\ at[p] = "unlock"
        BY <4>1 DEF Unlock, Keeps
      <4>3. \A n \in Existing : n < MaxFiles[p]
        BY <4>2 DEF PlaceInv, Critical
      <4>4. Closed(Numbers)
        BY <2>2, <2>4, <4>3, ClosedReleased
      <4> QED
        BY <1>0, <3>4, <4>2, <4>4, KeepsIn DEF Numbers
    <3> QED
      BY <3>1, <3>3, <3>4
  <2> QED
    BY <2>3, <2>4
<1> QED
  BY <1>1, <1>2 DEF Next, Step

-----------------------------------------------------------------------------
(* The events of an invocation.                                            *)

LEMMA WhatIsAppended ==
  ASSUME TypeOK, IdInv, PlaceInv, NEW p \in Invocations, Step(p)
  PROVE  \/ appended' = appended /\ ~WriteRecord(p)
         \/ /\ at[p] = "write" /\ (WriteRecord(p) \/ Fault(p))
            /\ \E n \in Nat, w \in BOOLEAN :
                 /\ Appends(RecordOf(p, n, w))
                 /\ WriteRecord(p) => w = TRUE
<1>1. CASE WriteRecord(p)
  BY <1>1, WriteIs DEF WriteRecord, Go
<1>2. CASE OperationFails(p) \/ Stopped(p)
  <2>1. Fault(p) /\ (WriteRecord(p) => FALSE)
    <3>1. faults \in Nat /\ (Fault(p) => faults' = faults + 1)
      BY DEF TypeOK, Fault
    <3>2. faults' # faults
      BY <1>2, <3>1 DEF OperationFails, Stopped
    <3> QED
      BY <1>2, <3>2 DEF OperationFails, Stopped, WriteRecord
  <2>2. Keeps \/ (at[p] = "write" /\ \E n \in Nat : Appends(RecordOf(p, n, FALSE)))
    BY <2>1, FaultIs
  <2> QED
    BY <2>1, <2>2 DEF Keeps
<1>3. CASE Begin(p) \/ Finish(p) \/ Acquire(p) \/ LockTimeout(p) \/ PruneDone(p) \/ CheckSize(p)
             \/ Unlock(p) \/ Prune(p) \/ DropOldest(p) \/ Shift(p) \/ Open(p)
  BY <1>1, <1>3 DEF Begin, Finish, Acquire, LockTimeout, PruneDone, CheckSize, Unlock, Prune,
       DropOldest, Shift, Open
<1> QED
  BY <1>1, <1>2, <1>3 DEF Step, AppendStep

LEMMA EventsGrow ==
  ASSUME TypeOK, IdInv, PlaceInv, NEW p \in Invocations, Step(p), NEW q \in Invocations
  PROVE  /\ HasStart(q) => HasStart(q)'
         /\ Finished(q)' => Finished(q) \/ (q = p /\ at[p] = "write" /\ event[p] = "FINISH")
         /\ WriteRecord(p) /\ event[p] = "START" => HasStart(p)'
<1>0. Len(appended) \in Nat
  BY DEF TypeOK
<1>1. CASE appended' = appended /\ ~WriteRecord(p)
  BY <1>1 DEF HasStart, Finished
<1>2. ASSUME NEW n \in Nat, NEW w \in BOOLEAN, at[p] = "write",
             Appends(RecordOf(p, n, w)), WriteRecord(p) => w = TRUE
      PROVE  /\ HasStart(q) => HasStart(q)'
             /\ Finished(q)' => Finished(q) \/ (q = p /\ at[p] = "write" /\ event[p] = "FINISH")
             /\ WriteRecord(p) /\ event[p] = "START" => HasStart(p)'
  <2> DEFINE e == RecordOf(p, n, w)
             L == Len(appended)
  <2>1. e \in Event
    BY SizesAre
  <2>2. /\ Len(appended') = L + 1 /\ appended'[L + 1] = e
        /\ \A i \in 1 .. L : appended'[i] = appended[i]
    BY <1>2, <2>1, AppendsAre
  <2>3. HasStart(q) => HasStart(q)'
    <3> SUFFICES ASSUME NEW i \in 1 .. L,
                        appended[i].event = "START" /\ appended[i].whole /\ appended[i].by = q
                 PROVE  HasStart(q)'
      BY DEF HasStart
    <3>1. i \in 1 .. L + 1 /\ appended'[i] = appended[i]
      BY <1>0, <2>2
    <3> QED
      BY <2>2, <3>1 DEF HasStart
  <2>4. Finished(q)' => Finished(q) \/ (q = p /\ event[p] = "FINISH")
    <3> SUFFICES ASSUME NEW i \in 1 .. L + 1,
                        appended'[i].event = "FINISH" /\ appended'[i].by = q
                 PROVE  Finished(q) \/ (q = p /\ event[p] = "FINISH")
      BY <2>2 DEF Finished
    <3>1. CASE i = L + 1
      BY <2>2, <3>1 DEF RecordOf
    <3>2. CASE i # L + 1
      <4>1. i \in 1 .. L
        BY <1>0, <3>2
      <4> QED
        BY <2>2, <4>1 DEF Finished
    <3> QED
      BY <3>1, <3>2
  <2>5. WriteRecord(p) /\ event[p] = "START" => HasStart(p)'
    <3>1. L + 1 \in 1 .. L + 1
      BY <1>0
    <3> QED
      BY <1>2, <2>2, <3>1 DEF HasStart, RecordOf
  <2> QED
    BY <1>2, <2>3, <2>4, <2>5
<1> QED
  BY <1>1, <1>2, WhatIsAppended

EventOf(p) ==
    /\ started[p] => HasStart(p)
    /\ at[p] = "unlock" => HasStart(p)
    /\ event[p] = "FINISH" => at[p] = "ended" \/ (at[p] \in Appending /\ HasStart(p))
    /\ Finished(p) => event[p] = "FINISH" /\ at[p] \in {"unlock", "ended"}

LEMMA OwnEvents ==
  ASSUME TypeOK, IdInv, PlaceInv, EventInv, NEW p \in Invocations, Step(p)
  PROVE  EventOf(p)'
<1>0. /\ EventOf(p) /\ event[p] \in {"START", "FINISH"} /\ started[p] \in BOOLEAN
      /\ AfterAppend(p) = IF event[p] = "START" THEN "working" ELSE "ended"
  BY DEF EventInv, EventOf, TypeOK, AfterAppend
<1>a. /\ at \in [Invocations -> Appending \cup {"idle", "working", "ended"}]
      /\ event \in [Invocations -> {"START", "FINISH"}] /\ started \in [Invocations -> BOOLEAN]
  BY DEF TypeOK
<1>b. /\ HasStart(p) => HasStart(p)'
      /\ Finished(p)' => Finished(p) \/ (at[p] = "write" /\ event[p] = "FINISH")
      /\ WriteRecord(p) /\ event[p] = "START" => HasStart(p)'
  BY EventsGrow
<1>1. CASE Begin(p) \/ Acquire(p) \/ PruneDone(p)
  <2>1. /\ at[p] \in {"idle", "lock", "prune"} /\ at'[p] \in {"lock", "prune", "size"}
        /\ UNCHANGED <<event, started>>
    BY <1>1, <1>a DEF Begin, Acquire, PruneDone, Go, local
  <2> QED
    BY <1>0, <1>b, <2>1 DEF EventOf, Appending
<1>2. CASE CheckSize(p) \/ DropOldest(p) \/ Prune(p)
  <2>1. /\ at[p] \in {"size", "drop", "prune"} /\ UNCHANGED <<event, started>>
        /\ at'[p] \in {"drop", "open", "shift", "prune"}
    BY <1>2, <1>a DEF CheckSize, DropOldest, Prune, local
  <2> QED
    BY <1>0, <1>b, <2>1 DEF EventOf, Appending
<1>3. CASE Shift(p) \/ Open(p)
  <2>1. /\ at[p] \in {"shift", "open"} /\ at'[p] \in {"shift", "open", "write"}
        /\ UNCHANGED <<event, started>>
    BY <1>3, <1>a DEF Shift, Open, Go
  <2> QED
    BY <1>0, <1>b, <2>1 DEF EventOf, Appending
<1>4. CASE LockTimeout(p)
  <2>1. at[p] = "lock" /\ at'[p] = AfterAppend(p) /\ UNCHANGED <<event, started>>
    BY <1>4, <1>a DEF LockTimeout, Go, local
  <2> QED
    BY <1>0, <1>b, <2>1 DEF EventOf, Appending
<1>5. CASE WriteRecord(p)
  <2>1. at[p] = "write" /\ at'[p] = "unlock" /\ UNCHANGED <<event, started>>
    BY <1>5, <1>a DEF WriteRecord, Go, local
  <2>2. HasStart(p)'
    BY <1>0, <1>b, <1>5, <2>1 DEF EventOf
  <2> QED
    BY <1>0, <1>b, <2>1, <2>2 DEF EventOf, Appending
<1>6. CASE Unlock(p)
  <2>1. at[p] = "unlock" /\ at'[p] = AfterAppend(p) /\ event' = event
    BY <1>6, <1>a DEF Unlock
  <2>2. HasStart(p)'
    BY <1>0, <1>b, <2>1 DEF EventOf
  <2> QED
    BY <1>0, <1>b, <2>1, <2>2 DEF EventOf
<1>7. CASE Finish(p)
  <2>1. /\ at[p] = "working" /\ at'[p] = (IF started[p] THEN "lock" ELSE "ended")
        /\ event'[p] = "FINISH" /\ started' = started
    BY <1>7, <1>a DEF Finish, Go
  <2> QED
    BY <1>0, <1>b, <2>1 DEF EventOf, Appending
<1>8. CASE OperationFails(p)
  <2>1. at[p] \in Appending /\ at'[p] = AfterAppend(p) /\ UNCHANGED <<event, started>>
    BY <1>8, <1>a DEF OperationFails, Fault, local
  <2> QED
    BY <1>0, <1>b, <2>1 DEF EventOf
<1>9. CASE Stopped(p)
  <2>1. at'[p] = "ended" /\ UNCHANGED <<event, started>>
    BY <1>9, <1>a DEF Stopped, Fault, local
  <2> QED
    BY <1>0, <1>b, <2>1 DEF EventOf
<1> QED
  BY <1>1, <1>2, <1>3, <1>4, <1>5, <1>6, <1>7, <1>8, <1>9 DEF Step, AppendStep

LEMMA StepEvents ==
  ASSUME TypeOK, IdInv, PlaceInv, EventInv, [Next]_vars
  PROVE  EventInv'
<1>1. CASE UNCHANGED vars
  BY <1>1 DEF vars, EventInv, HasStart, Finished
<1>2. ASSUME NEW p \in Invocations, Step(p)
      PROVE  EventInv'
  <2> SUFFICES ASSUME NEW q \in Invocations PROVE EventOf(q)'
    BY DEF EventInv, EventOf
  <2>1. CASE q = p
    BY <1>2, <2>1, OwnEvents
  <2>2. CASE q # p
    <3>1. at'[q] = at[q] /\ event'[q] = event[q] /\ started'[q] = started[q]
      BY <1>2, <2>2, Others
    <3>2. (HasStart(q) => HasStart(q)') /\ (Finished(q)' => Finished(q))
      BY <1>2, <2>2, EventsGrow
    <3>3. EventOf(q)
      BY DEF EventInv, EventOf
    <3> QED
      BY <3>1, <3>2, <3>3 DEF EventOf
  <2> QED
    BY <2>1, <2>2
<1> QED
  BY <1>1, <1>2 DEF Next, Step

StartOf(p, e) == e.event = "START" /\ e.whole /\ e.by = p

\* What FinishMatchesStart says of one record.
FinishOf(j) ==
    /\ \E i \in 1 .. j - 1 : StartOf(appended[j].by, appended[i])
    /\ \A i \in 1 .. Len(appended) :
           appended[i].event = "FINISH" /\ appended[i].by = appended[j].by => i = j

LEMMA FinishMatchesSays ==
  ASSUME TypeOK
  PROVE  FinishMatchesStart <=>
           \A j \in 1 .. Len(appended) : appended[j].event = "FINISH" => FinishOf(j)
<1>1. DOMAIN appended = 1 .. Len(appended)
  BY DEF TypeOK
<1> QED
  BY <1>1 DEF FinishMatchesStart, FinishOf, StartOf

LEMMA StepFinishes ==
  ASSUME TypeOK, IdInv, PlaceInv, EventInv, FinishMatchesStart, [Next]_vars
  PROVE  FinishMatchesStart'
<1> DEFINE L == Len(appended)
<1>t. L \in Nat
  BY DEF TypeOK
<1>0. L \in Nat /\ \A j \in 1 .. L : appended[j].event = "FINISH" => FinishOf(j)
  <2>1. L \in Nat
    BY DEF TypeOK
  <2> QED
    BY <2>1, FinishMatchesSays
<1>1. CASE appended' = appended
  BY <1>1 DEF FinishMatchesStart
<1>2. ASSUME NEW p \in Invocations, at[p] = "write", NEW n \in Nat, NEW w \in BOOLEAN,
             Appends(RecordOf(p, n, w))
      PROVE  FinishMatchesStart'
  <2> DEFINE e == RecordOf(p, n, w)
  <2>1. e \in Event
    BY SizesAre
  <2>2. /\ Len(appended') = L + 1 /\ appended'[L + 1] = e /\ appended' \in Seq(Event)
        /\ \A i \in 1 .. L : appended'[i] = appended[i]
    BY <1>2, <2>1, AppendsAre
  <2>3. ~Finished(p) /\ (event[p] = "FINISH" => HasStart(p))
    BY <1>2 DEF EventInv
  <2>4. \A i \in 1 .. L : ~(appended[i].event = "FINISH" /\ appended[i].by = p)
    BY <2>3 DEF Finished
  <2>5. \A k \in 1 .. L + 1 : k # L + 1 => k \in 1 .. L
    BY <1>t
  <2>6. e.event = event[p] /\ e.by = p
    BY DEF RecordOf
  <2> HIDE DEF e
  <2>7. ASSUME NEW j \in 1 .. L + 1, appended'[j].event = "FINISH"
        PROVE  /\ \E i \in 1 .. j - 1 : StartOf(appended'[j].by, appended'[i])
               /\ \A i \in 1 .. L + 1 :
                    appended'[i].event = "FINISH" /\ appended'[i].by = appended'[j].by => i = j
    <3>1. CASE j = L + 1
      <4>1. event[p] = "FINISH" /\ appended'[j].by = p
        BY <2>2, <2>6, <2>7, <3>1
      <4>2. PICK i \in 1 .. L : StartOf(p, appended[i])
        BY <2>3, <4>1 DEF HasStart, StartOf
      <4>3. i \in 1 .. j - 1 /\ StartOf(p, appended'[i])
        BY <1>0, <2>2, <3>1, <4>2
      <4>4. ASSUME NEW k \in 1 .. L + 1, appended'[k].event = "FINISH", appended'[k].by = p
            PROVE  k = j
        <5>1. CASE k # L + 1
          <6>1. k \in 1 .. L
            BY <2>5, <5>1
          <6> QED
            BY <2>2, <2>4, <4>4, <6>1
        <5> QED
          BY <3>1, <5>1
      <4> QED
        BY <4>1, <4>3, <4>4
    <3>2. CASE j # L + 1
      <4>1. j \in 1 .. L
        BY <1>0, <3>2
      <4>2. appended'[j] = appended[j] /\ FinishOf(j)
        BY <1>0, <2>2, <2>7, <4>1
      <4>3. PICK i \in 1 .. j - 1 : StartOf(appended[j].by, appended[i])
        BY <4>2 DEF FinishOf
      <4>4. appended'[i] = appended[i]
        <5>1. i \in 1 .. L
          BY <1>0, <4>1
        <5> QED
          BY <2>2, <5>1
      <4>5. appended[j].by # p
        BY <2>4, <2>7, <4>1, <4>2
      <4>6. ASSUME NEW k \in 1 .. L + 1, appended'[k].event = "FINISH",
                   appended'[k].by = appended[j].by
            PROVE  k = j
        <5>1. CASE k = L + 1
          BY <2>2, <2>6, <4>5, <4>6, <5>1
        <5>2. CASE k # L + 1
          <6>1. k \in 1 .. L
            BY <2>5, <5>2
          <6> QED
            BY <2>2, <4>2, <4>6, <6>1 DEF FinishOf
        <5> QED
          BY <5>1, <5>2
      <4> QED
        BY <4>2, <4>3, <4>4, <4>6
    <3> QED
      BY <3>1, <3>2
  <2>8. DOMAIN appended' = 1 .. L + 1
    BY <2>2
  <2> QED
    BY <2>7, <2>8 DEF FinishMatchesStart, StartOf
<1>3. CASE UNCHANGED vars
  BY <1>1, <1>3 DEF vars
<1>4. ASSUME NEW p \in Invocations, Step(p)
      PROVE  FinishMatchesStart'
  BY <1>1, <1>2, <1>4, WhatIsAppended
<1> QED
  BY <1>3, <1>4 DEF Next, Step

-----------------------------------------------------------------------------
(* The theorems.                                                           *)

LEMMA InitInvariant == Init => IInv
<1> SUFFICES ASSUME Init PROVE IInv
  OBVIOUS
<1>1. TypeOK
  BY InitTypes
<1>2. /\ \A n \in Numbers : files[n] = Absent
      /\ Absent.id = 0 /\ Len(Absent.records) = 0 /\ appended = <<>> /\ Len(appended) = 0
      /\ created = 0 /\ Absent.size = 0 /\ Absent.records = <<>>
  BY <1>1, FilesAre DEF Init
<1>3. \A p \in Invocations : /\ at[p] = "idle" /\ lock # p /\ ~started[p] /\ event[p] = "START"
  BY DEF Init
<1>4. LockInv /\ PlaceInv
  BY <1>3 DEF LockInv, PlaceInv, Critical
<1>5. IdInv
  BY <1>2 DEF IdInv
<1>6. SizeInv
  BY <1>2 DEF SizeInv, Bounded
<1>7. \A r, n : n \in Numbers => ~In(r, n)
  BY <1>2 DEF In
<1>8. \A n \in Numbers : 1 .. Len(files[n].records) = {}
  BY <1>2
<1>9. OrderInv
  BY <1>7, <1>8 DEF OrderInv
<1>10. ClosedInv
  <2>1. \A p \in Invocations : 0 .. MaxFiles[p] - 1 \subseteq Numbers
    BY NumbersAre
  <2> QED
    BY <1>7, <2>1 DEF ClosedInv, Closed
<1>11. \A p \in Invocations : ~Finished(p)
  BY <1>2 DEF Finished
<1>12. EventInv
  BY <1>3, <1>11 DEF EventInv
<1>13. FinishMatchesStart
  BY <1>2 DEF FinishMatchesStart
<1> QED
  BY <1>1, <1>4, <1>5, <1>6, <1>9, <1>10, <1>12, <1>13 DEF IInv

LEMMA StepInvariant == IInv /\ [Next]_vars => IInv'
<1> SUFFICES ASSUME IInv, [Next]_vars PROVE IInv'
  OBVIOUS
<1>1. TypeOK /\ LockInv /\ IdInv /\ PlaceInv /\ SizeInv /\ OrderInv /\ ClosedInv /\ EventInv
        /\ FinishMatchesStart
  BY DEF IInv
<1>2. TypeOK' /\ LockInv' /\ IdInv' /\ PlaceInv'
  BY <1>1, StepTypes, StepLock, StepId, StepPlace
<1>3. SizeInv' /\ OrderInv' /\ ClosedInv'
  BY <1>1, StepSize, StepOrder, StepClosed
<1>4. EventInv' /\ FinishMatchesStart'
  BY <1>1, StepEvents, StepFinishes
<1> QED
  BY <1>2, <1>3, <1>4 DEF IInv

\* The invariant holds of every reachable state.
THEOREM Invariance == Spec => []IInv
<1>1. Init => IInv
  BY InitInvariant
<1>2. IInv /\ [Next]_vars => IInv'
  BY StepInvariant
<1> QED
  BY <1>1, <1>2, PTL DEF Spec

\* Every variable keeps its type, whatever is killed and whatever fails.
THEOREM TypeCorrect == Spec => []TypeOK
<1>1. IInv => TypeOK
  BY DEF IInv
<1> QED
  BY <1>1, Invariance, PTL

\* A FINISH has a whole START of its invocation before it and no second one.
THEOREM FinishMatchesStartCorrect == Spec => []FinishMatchesStart
<1>1. IInv => FinishMatchesStart
  BY DEF IInv
<1> QED
  BY <1>1, Invariance, PTL

\* After an append the files are no more than the setting of its process
\* allows, and at any time only the last record of a file, of whatever size and
\* however much of it was written, lies past the limit its writer has.
THEOREM RetentionBoundedCorrect == Spec => []RetentionBounded
<1>1. IInv => RetentionBounded
  <2> SUFFICES ASSUME IInv PROVE RetentionBounded
    OBVIOUS
  <2>1. \A p \in Invocations : at[p] = "unlock" => \A n \in Existing : n < MaxFiles[p]
    BY DEF IInv, PlaceInv, Critical
  <2>2. \A n \in Numbers : Bounded(files[n], appended)
    BY DEF IInv, SizeInv
  <2> QED
    BY <2>1, <2>2 DEF RetentionBounded, Bounded
<1> QED
  BY <1>1, Invariance, PTL

\* The records of all files, as In has them.
LEMMA KeptIs ==
  ASSUME TypeOK
  PROVE  /\ \A n \in Numbers : \A r : r \in Range(files[n].records) <=> In(r, n)
         /\ \A r : r \in Kept <=> \E n \in Numbers : In(r, n)
         /\ Kept \subseteq Nat
<1>0. \A n \in Numbers : files[n].records \in Seq(Nat)
  BY FilesAre
<1>1. \A n \in Numbers : /\ files[n].records \in Seq(Nat)
                         /\ DOMAIN files[n].records = 1 .. Len(files[n].records)
  BY <1>0
<1>2. \A n \in Numbers : \A r : r \in Range(files[n].records) <=> In(r, n)
  BY <1>1 DEF Range, In
<1>3. \A r : r \in Kept <=> \E n \in Numbers : In(r, n)
  BY <1>2 DEF Kept
<1>4. ASSUME NEW n \in Numbers, NEW r, In(r, n) PROVE r \in Nat
  BY <1>1, <1>4 DEF In
<1> QED
  BY <1>2, <1>3, <1>4

LEMMA KeptNext ==
  ASSUME TypeOK'
  PROVE  \A r : r \in Kept' <=> \E n \in Numbers : In(r, n)'
<1>1. \A n \in Numbers : DOMAIN files'[n].records = 1 .. Len(files'[n].records)
  BY DEF TypeOK
<1>2. \A n \in Numbers : \A r : r \in Range(files'[n].records) <=> In(r, n)'
  BY <1>1 DEF Range, In
<1> QED
  BY <1>2 DEF Kept

\* The history is in the order of its writing, and without faults it is a
\* final part of what was written.
THEOREM HistoryInOrderCorrect == Spec => []HistoryInOrder
<1>1. IInv => HistoryInOrder
  <2> SUFFICES ASSUME IInv PROVE HistoryInOrder
    OBVIOUS
  <2>0. TypeOK /\ OrderInv /\ ClosedInv
    BY DEF IInv
  <2>1. \A n \in Numbers : \A i, j \in DOMAIN files[n].records :
           i < j => files[n].records[i] < files[n].records[j]
    <3>1. \A n \in Numbers : DOMAIN files[n].records = 1 .. Len(files[n].records)
      BY <2>0, FilesAre
    <3> QED
      BY <2>0, <3>1 DEF OrderInv
  <2>2. ASSUME NEW m \in Numbers, NEW n \in Numbers, m < n,
               NEW r \in Range(files[m].records), NEW s \in Range(files[n].records)
        PROVE  s < r
    <3>1. In(r, m) /\ In(s, n) /\ r \in Nat /\ s \in Nat
      BY <2>0, KeptIs
    <3> QED
      BY <2>0, <2>2, <3>1, OrderSays
  <2>3. ASSUME lock = NoInvocation, faults = 0, NEW r \in Kept, NEW s \in r .. Len(appended)
        PROVE  s \in Kept
    <3>1. PICK n \in Numbers : In(r, n)
      BY <2>0, KeptIs
    <3>a. Len(appended) \in Nat
      BY <2>0 DEF TypeOK
    <3>b. r \in Nat
      BY <2>0, KeptIs
    <3>2. r \in Nat /\ Len(appended) \in Nat
      BY <3>a, <3>b
    <3>3. s \in Nat /\ r <= s /\ s <= Len(appended)
      BY <3>2
    <3>4. Closed(Numbers)
      BY <2>0, <2>3 DEF ClosedInv
    <3>5. \E m \in Numbers : In(s, m)
      BY <3>1, <3>2, <3>3, <3>4, ClosedSays
    <3> QED
      BY <2>0, <3>5, KeptIs
  <2> QED
    BY <2>1, <2>2, <2>3 DEF HistoryInOrder
<1> QED
  BY <1>1, Invariance, PTL

\* Only a pruning or the dropping of the oldest file removes records.
THEOREM RenamesKeepCorrect == Spec => RenamesKeep
<1> DEFINE Removes == Kept \ Kept' # {} => \E p \in Invocations : at[p] \in {"prune", "drop"}
<1>1. IInv /\ IInv' /\ [Next]_vars => [Removes]_vars
  <2> SUFFICES ASSUME IInv, IInv', [Next]_vars,
                      ~(\E p \in Invocations : at[p] \in {"prune", "drop"})
               PROVE  Kept \subseteq Kept'
    OBVIOUS
  <2>0. TypeOK /\ IdInv /\ PlaceInv /\ TypeOK'
    BY DEF IInv
  <2> SUFFICES ASSUME NEW r, NEW n \in Numbers, In(r, n)
               PROVE  \E m \in Numbers : In(r, m)'
    <3>1. \A r : r \in Kept <=> \E n \in Numbers : In(r, n)
      BY <2>0, KeptIs
    <3>2. \A r : r \in Kept' <=> \E n \in Numbers : In(r, n)'
      BY <2>0, KeptNext
    <3> QED
      BY <3>1, <3>2
  <2>1. CASE Keeps
    BY <2>1, KeepsIn
  <2>2. ASSUME NEW k \in Numbers, k + 1 \in Numbers, Renames(k)
        PROVE  \E m \in Numbers : In(r, m)'
    <3>1. CASE n = k
      BY <2>0, <2>2, <3>1, RenamesIn
    <3>2. CASE n # k
      <4>1. n # k + 1
        BY <2>0, <2>2, RenamesIn
      <4> QED
        BY <2>0, <2>2, <3>2, <4>1, RenamesIn
    <3> QED
      BY <3>1, <3>2
  <2>3. CASE Creates
    BY <2>0, <2>3, CreatesIn
  <2>4. ASSUME NEW e \in Event, Appends(e)
        PROVE  \E m \in Numbers : In(r, m)'
    <3>1. r \in Nat
      BY <2>0, KeptIs
    <3>2. In(r, n)'
      <4>1. CASE n = 0
        BY <2>0, <2>4, <3>1, <4>1, AppendsIn
      <4>2. CASE n # 0
        BY <2>0, <2>4, <3>1, <4>2, AppendsIn
      <4> QED
        BY <4>1, <4>2
    <3> QED
      BY <3>2
  <2>5. Keeps \/ (\E k \in Numbers : k + 1 \in Numbers /\ Renames(k)) \/ Creates
          \/ (\E e \in Event : Appends(e))
    <3>1. CASE UNCHANGED vars
      BY <3>1 DEF vars, Keeps
    <3>2. ASSUME NEW p \in Invocations, Step(p)
          PROVE  Keeps \/ (\E k \in Numbers : k + 1 \in Numbers /\ Renames(k)) \/ Creates
                   \/ (\E e \in Event : Appends(e))
      <4>0. at[p] # "prune" /\ at[p] # "drop"
        OBVIOUS
      <4>1. CASE Shift(p)
        BY <2>0, <4>1, ShiftIs
      <4>2. CASE Open(p)
        BY <2>0, <4>2, OpenIs
      <4>3. CASE WriteRecord(p) \/ OperationFails(p) \/ Stopped(p)
        <5>1. \A k \in Nat, w \in BOOLEAN : RecordOf(p, k, w) \in Event
          BY <2>0, SizesAre
        <5> QED
          BY <2>0, <4>3, <5>1, WriteIs, FaultIs DEF OperationFails, Stopped
      <4>4. CASE Begin(p) \/ Finish(p) \/ Acquire(p) \/ LockTimeout(p) \/ PruneDone(p)
                   \/ CheckSize(p) \/ Unlock(p)
        BY <4>4 DEF Begin, Finish, Acquire, LockTimeout, PruneDone, CheckSize, Unlock, Keeps
      <4>5. ~Prune(p) /\ ~DropOldest(p)
        BY <4>0 DEF Prune, DropOldest
      <4> QED
        BY <3>2, <4>1, <4>2, <4>3, <4>4, <4>5 DEF Step, AppendStep
    <3> QED
      BY <3>1, <3>2 DEF Next, Step
  <2> QED
    BY <2>1, <2>2, <2>3, <2>4, <2>5
<1>2. Spec => [][Removes]_vars
  BY <1>1, Invariance, PTL DEF Spec
<1> QED
  BY <1>2 DEF RenamesKeep
=============================================================================
