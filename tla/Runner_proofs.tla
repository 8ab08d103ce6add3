---------------------------- MODULE Runner_proofs ----------------------------
(***************************************************************************)
(* Proofs about Runner: its variables have their types, and a call that    *)
(* returns after a signal leaves no process of the group behind.           *)
(***************************************************************************)
EXTENDS Runner, TLAPS

USE RunnerAssumption

Codes == {Running, 0, 1, 0 - SIGINT, 0 - SIGTERM, 0 - SIGKILL, 0 - SIGPIPE}
Statuses == {NoStatus, 0, 1} \cup {128 + s : s \in {SIGINT, SIGTERM, SIGKILL, SIGPIPE}}

\* The first element of a sequence and what follows it.
LEMMA FirstRest ==
    ASSUME NEW S, NEW s \in Seq(S), s # <<>>
    PROVE  Head(s) \in S /\ Tail(s) \in Seq(S)
  OBVIOUS

\* Deaths keep the types of what describes the processes.
LEMMA DieType ==
    ASSUME TypeOK, NEW D \in SUBSET Members, NEW c \in Codes, Die(D, c)
    PROVE  /\ life' \in [Members -> {"unborn", "member", "daemon", "dead"}]
           /\ code' \in Codes
           /\ holders' \in SUBSET Members
  BY DEF TypeOK, Die, Codes

\* So does a signal.
LEMMA DeliverType ==
    ASSUME TypeOK, NEW s \in {NoSignal, SIGINT, SIGTERM, SIGKILL}, Deliver(s)
    PROVE  /\ life' \in [Members -> {"unborn", "member", "daemon", "dead"}]
           /\ code' \in Codes
           /\ holders' \in SUBSET Members
           /\ todo' \in [Members -> Nat]
<1>1. 0 - s \in Codes
  BY DEF Codes, NoSignal, SIGINT, SIGTERM, SIGKILL
<1>2. PICK D \in SUBSET Group :
        /\ Die(D, 0 - s)
        /\ \E S \in SUBSET (Group \ D) : todo' = [m \in Members |-> IF m \in S THEN 0 ELSE todo[m]]
  BY DEF Deliver
<1>3. D \in SUBSET Members
  BY DEF Group
<1>4. todo' \in [Members -> Nat]
  BY <1>2 DEF TypeOK
<1> QED
  BY <1>1, <1>2, <1>3, <1>4, DieType

\* What _child_exit_status returns.
LEMMA StatusType ==
    ASSUME NEW c \in Codes, NEW r \in {NoSignal, SIGINT, SIGTERM}
    PROVE  ExitStatus(c, r) \in Statuses
<1>1. CASE c < 0
  BY <1>1 DEF Codes, Statuses, ExitStatus, SIGINT, SIGTERM, SIGKILL, SIGPIPE, Running
<1>2. CASE ~(c < 0)
  BY <1>2 DEF Codes, Statuses, ExitStatus, SIGINT, SIGTERM, SIGKILL, SIGPIPE, Running,
              NoSignal, NoStatus
<1> QED
  BY <1>1, <1>2

\* The steps of the processes.
LEMMA ProcessType ==
    ASSUME TypeOK, NEW m \in Members,
           Work(m) \/ WriteClosed(m) \/ CloseOutput(m) \/ LeaveGroup(m)
    PROVE  TypeOK'
<1> USE DEF dataVars, mainVars, stopVars
<1>1. CASE \E ends \in BOOLEAN : Write(m, ends)
  <2>1. PICK ends \in BOOLEAN : Write(m, ends)
    BY <1>1
  <2>2. pipe' \in Seq([id : Nat, ends : BOOLEAN])
    BY <2>1 DEF Write, TypeOK
  <2>3. todo' \in [Members -> Nat]
    BY <2>1 DEF Write, TypeOK
  <2> QED
    BY <2>1, <2>2, <2>3 DEF Write, TypeOK
<1>2. CASE \E c \in {0, 1} : Exit(m, c)
  <2>1. PICK c \in {0, 1} : Exit(m, c)
    BY <1>2
  <2>2. c \in Codes /\ {m} \in SUBSET Members
    BY DEF Codes
  <2>3. Die({m}, c)
    BY <2>1 DEF Exit
  <2> QED
    BY <2>1, <2>2, <2>3, DieType DEF Exit, TypeOK, Codes
<1>3. CASE WriteClosed(m)
  <2>1. 0 - SIGPIPE \in Codes /\ {m} \in SUBSET Members
    BY DEF Codes
  <2>2. Die({m}, 0 - SIGPIPE)
    BY <1>3 DEF WriteClosed
  <2> QED
    BY <1>3, <2>1, <2>2, DieType DEF WriteClosed, TypeOK, Codes
<1>4. CASE CloseOutput(m)
  BY <1>4 DEF CloseOutput, TypeOK
<1>5. CASE LeaveGroup(m)
  <2>1. life' \in [Members -> {"unborn", "member", "daemon", "dead"}]
    BY <1>5 DEF LeaveGroup, TypeOK
  <2> QED
    BY <1>5, <2>1 DEF LeaveGroup, TypeOK
<1> QED
  BY <1>1, <1>2, <1>3, <1>4, <1>5 DEF Work

\* The steps of the main thread.
LEMMA MainType ==
    ASSUME TypeOK, Main
    PROVE  TypeOK'
<1> USE DEF groupVars, dataVars, mainVars, stopVars, MainStep, MainStates, StopperStates
<1>1. CASE Spawn
  BY <1>1 DEF Spawn, TypeOK
<1>2. CASE EnterStream
  BY <1>2 DEF EnterStream, TypeOK
<1>3. CASE Read
  <2>1. /\ Head(pipe) \in [id : Nat, ends : BOOLEAN]
        /\ Tail(pipe) \in Seq([id : Nat, ends : BOOLEAN])
    <3>1. pipe \in Seq([id : Nat, ends : BOOLEAN]) /\ pipe # <<>>
      BY <1>3 DEF Read, TypeOK
    <3> QED
      BY <3>1, FirstRest
  <2>2. hand' \in Seq(Nat)
    <3>1. Head(pipe).id \in Nat
      BY <2>1
    <3>2. hand' = Append(hand, Head(pipe).id) /\ hand \in Seq(Nat)
      BY <1>3 DEF Read, TypeOK
    <3> QED
      BY <3>1, <3>2
  <2> QED
    BY <1>3, <2>1, <2>2 DEF Read, TypeOK
<1>4. CASE ReadEnd
  BY <1>4 DEF ReadEnd, TypeOK
<1>5. CASE Log
  <2>1. rawLog' \in Seq(Nat)
    BY <1>5 DEF Log, TypeOK
  <2> QED
    BY <1>5, <2>1 DEF Log, TypeOK
<1>6. CASE Feed
  <2>1. shown' \in Seq(Nat) /\ hand' \in Seq(Nat)
    BY <1>6 DEF Feed, TypeOK
  <2> QED
    BY <1>6, <2>1 DEF Feed, TypeOK
<1>7. CASE WaitChild
  <2>1. status' \in Statuses
    BY <1>7, StatusType DEF WaitChild, TypeOK, Codes
  <2> QED
    BY <1>7, <2>1 DEF WaitChild, TypeOK, Statuses
<1>8. CASE Abort
  <2>1. /\ life' \in [Members -> {"unborn", "member", "daemon", "dead"}]
        /\ code' \in Codes
        /\ holders' \in SUBSET Members
        /\ todo' \in [Members -> Nat]
    <3>1. CASE code = Running
      BY <1>8, <3>1, DeliverType DEF Abort
    <3>2. CASE code # Running
      BY <1>8, <3>2 DEF Abort, TypeOK, Codes
    <3> QED
      BY <3>1, <3>2
  <2> QED
    BY <1>8, <2>1 DEF Abort, TypeOK, Codes
<1>9. CASE AbortWait
  BY <1>9 DEF AbortWait, TypeOK
<1>10. CASE ProcessExit
  BY <1>10 DEF ProcessExit, TypeOK
<1>11. CASE StartInterrupter
  BY <1>11 DEF StartInterrupter, TypeOK
<1>12. CASE EnterDrain
  BY <1>12 DEF EnterDrain, TypeOK
<1>13. CASE Join
  <2>1. status' \in Statuses
    BY <1>13, StatusType DEF Join, TypeOK, Codes
  <2> QED
    BY <1>13, <2>1 DEF Join, TypeOK, Statuses
<1> QED
  BY <1>1, <1>2, <1>3, <1>4, <1>5, <1>6, <1>7, <1>8, <1>9, <1>10, <1>11, <1>12, <1>13
  DEF Main, Stream

\* The steps of the interrupter thread.
LEMMA StopperType ==
    ASSUME TypeOK, Stopper
    PROVE  TypeOK'
<1> USE DEF groupVars, dataVars, mainVars, StopperStep, StopperStates
<1>1. CASE StopCheck
  BY <1>1 DEF StopCheck, TypeOK
<1>2. CASE StopSignal
  <2>1. \E s \in {NoSignal, SIGINT, SIGTERM, SIGKILL} : Deliver(s)
    BY <1>2 DEF StopSignal, TypeOK
  <2>2. /\ life' \in [Members -> {"unborn", "member", "daemon", "dead"}]
        /\ code' \in Codes
        /\ holders' \in SUBSET Members
        /\ todo' \in [Members -> Nat]
    BY <2>1, DeliverType
  <2>3. stopper' \in StopperStates
    BY <1>2 DEF StopSignal
  <2>4. /\ UNCHANGED <<dataVars, mainVars, reaped, requested, signals, faults>>
    BY <1>2 DEF StopSignal
  <2> QED
    BY <2>2, <2>3, <2>4 DEF TypeOK, Codes
<1>3. CASE GroupGone
  BY <1>3 DEF GroupGone, TypeOK
<1>4. CASE GroupPoll
  BY <1>4 DEF GroupPoll, TypeOK
<1>5. CASE GraceOver
  BY <1>5 DEF GraceOver, TypeOK
<1>6. CASE StopReap
  BY <1>6 DEF StopReap, TypeOK
<1> QED
  BY <1>1, <1>2, <1>3, <1>4, <1>5, <1>6 DEF Stopper

\* What an exception drops.
LEMMA DropType ==
    ASSUME TypeOK, DropHand
    PROVE  hand' \in Seq(Nat) /\ lost' \in SUBSET Nat
<1>1. Range(hand) \in SUBSET Nat
  BY DEF TypeOK, Range
<1> QED
  BY <1>1 DEF DropHand, TypeOK

LEMMA TypeStep == TypeOK /\ [Next]_vars => TypeOK'
<1> SUFFICES ASSUME TypeOK, [Next]_vars
             PROVE  TypeOK'
  OBVIOUS
<1>1. CASE Main
  BY <1>1, MainType
<1>2. CASE Stopper
  BY <1>2, StopperType
<1>3. CASE Fault
  <2>1. hand' \in Seq(Nat) /\ lost' \in SUBSET Nat
    BY <1>3, DropType DEF Fault
  <2> QED
    BY <1>3, <2>1 DEF Fault, TypeOK, groupVars, MainStates
<1>4. CASE \E s \in {SIGINT, SIGTERM} : Interrupt(s)
  <2>1. PICK s \in {SIGINT, SIGTERM} : Interrupt(s)
    BY <1>4
  <2>2. hand' \in Seq(Nat) /\ lost' \in SUBSET Nat
    BY <2>1, DropType DEF Interrupt
  <2>3. pc' \in MainStates /\ requested' \in {NoSignal, SIGINT, SIGTERM}
    BY <2>1 DEF Interrupt, TypeOK, MainStates
  <2> QED
    BY <2>1, <2>2, <2>3 DEF Interrupt, TypeOK, groupVars
<1>5. CASE \E m \in Members : Work(m) \/ WriteClosed(m) \/ CloseOutput(m) \/ LeaveGroup(m)
  BY <1>5, ProcessType
<1>6. CASE \E p, m \in Members : Fork(p, m)
  <2>1. PICK p \in Members, m \in Members : Fork(p, m)
    BY <1>6
  <2>2. life' \in [Members -> {"unborn", "member", "daemon", "dead"}]
    BY <2>1 DEF Fork, TypeOK
  <2>3. holders' \in SUBSET Members
    BY <2>1 DEF Fork, TypeOK
  <2> QED
    BY <2>1, <2>2, <2>3 DEF Fork, TypeOK, dataVars, mainVars, stopVars
<1>7. CASE UNCHANGED vars
  BY <1>7 DEF TypeOK, vars, groupVars, dataVars, mainVars, stopVars
<1> QED
  BY <1>1, <1>2, <1>3, <1>4, <1>5, <1>6, <1>7 DEF Next

\* Every variable of the runner has its type in every reachable state.
THEOREM TypeCorrect == Spec => []TypeOK
<1>1. Init => TypeOK
  <2> SUFFICES ASSUME Init
               PROVE  TypeOK
    OBVIOUS
  <2>1. /\ life \in [Members -> {"unborn", "member", "daemon", "dead"}]
        /\ todo \in [Members -> Nat]
    BY DEF Init
  <2>2. pipe \in Seq([id : Nat, ends : BOOLEAN])
    BY DEF Init
  <2>3. hand \in Seq(Nat) /\ rawLog \in Seq(Nat) /\ shown \in Seq(Nat)
    BY DEF Init
  <2>4. pc \in MainStates /\ stopper \in StopperStates
    BY DEF Init, MainStates, StopperStates
  <2> QED
    BY <2>1, <2>2, <2>3, <2>4 DEF Init, TypeOK
<1> QED
  BY <1>1, TypeStep, PTL DEF Spec
-----------------------------------------------------------------------------
(* After a signal the call returns when the interrupter is done, and the   *)
(* interrupter is done when the group is empty and stays so.               *)

\* The main thread has caught no signal.
Calm ==
    \/ pc \in {"start", "spawned", "wait", "abort", "abortwait"}
    \/ pc \in {"read", "log", "feed"} /\ ~draining

StopInv ==
    /\ Calm => requested = NoSignal /\ stopper = "none"
    /\ pc = "handler" => stopper = "none"
    /\ draining => pc \in {"read", "log", "feed", "join", "returned", "raised", "exited"}
    /\ stopper \in {"grace3", "reap", "done"} => Group = {}
    /\ stopper = "done" => reaped
    /\ (pc = "returned" /\ requested # NoSignal) => stopper = "done"

\* Nobody joins a group but by the creation of the child or by a fork in it.
LEMMA GroupStaysEmpty ==
    ASSUME TypeOK, Group = {}, [Next]_vars, pc # "start"
    PROVE  Group' = {}
<1> SUFFICES ASSUME NEW m \in Members, life'[m] = "member"
             PROVE  FALSE
  BY DEF Group
<1>1. \A x \in Members : life[x] # "member"
  BY DEF Group
<1>2. ASSUME NEW D, NEW c, Die(D, c)
      PROVE  FALSE
  BY <1>1, <1>2 DEF Die
<1>3. ASSUME NEW s, Deliver(s)
      PROVE  FALSE
  BY <1>2, <1>3 DEF Deliver
<1>4. CASE UNCHANGED life
  BY <1>1, <1>4
<1>5. CASE Main
  BY <1>3, <1>4, <1>5 DEF Main, Stream, Spawn, MainStep, EnterStream, Read, ReadEnd, Log, Feed,
     WaitChild, Abort, AbortWait, ProcessExit, StartInterrupter, EnterDrain, Join, groupVars
<1>6. CASE Stopper
  BY <1>3, <1>4, <1>6 DEF Stopper, StopCheck, StopSignal, GroupGone, GroupPoll, GraceOver,
     StopReap, groupVars
<1>7. CASE Fault \/ \E s \in {SIGINT, SIGTERM} : Interrupt(s)
  BY <1>4, <1>7 DEF Fault, Interrupt, groupVars
<1>8. CASE \E x \in Members : Work(x) \/ WriteClosed(x) \/ CloseOutput(x) \/ LeaveGroup(x)
  BY <1>1, <1>2, <1>4, <1>8 DEF Work, Write, Exit, WriteClosed, CloseOutput, LeaveGroup, Group
<1>9. CASE \E p, x \in Members : Fork(p, x)
  BY <1>1, <1>9 DEF Fork, TypeOK
<1>10. CASE UNCHANGED vars
  BY <1>4, <1>10 DEF vars, groupVars
<1> QED
  BY <1>5, <1>6, <1>7, <1>8, <1>9, <1>10 DEF Next

\* SIGKILL leaves nobody in the group.
LEMMA KillEmpties ==
    ASSUME Deliver(SIGKILL)
    PROVE  Group' = {}
  BY DEF Deliver, Die, Group

LEMMA StopStep == TypeOK /\ StopInv /\ [Next]_vars => StopInv'
<1> SUFFICES ASSUME TypeOK, StopInv, [Next]_vars
             PROVE  StopInv'
  OBVIOUS
<1> USE DEF StopInv, Calm
<1>0. stopper \in {"grace3", "reap", "done"} => Group' = {}
  BY GroupStaysEmpty
<1>1. CASE Main
  <2> USE DEF MainStep, stopVars, mainVars
  <2>1. CASE Spawn
    BY <1>0, <2>1 DEF Spawn
  <2>2. CASE EnterStream
    BY <1>0, <2>2 DEF EnterStream
  <2>3. CASE Read
    BY <1>0, <2>3 DEF Read
  <2>4. CASE ReadEnd
    BY <1>0, <2>4 DEF ReadEnd
  <2>5. CASE Log \/ Feed
    BY <1>0, <2>5 DEF Log, Feed
  <2>6. CASE WaitChild
    BY <1>0, <2>6 DEF WaitChild
  <2>7. CASE Abort
    BY <1>0, <2>7 DEF Abort
  <2>8. CASE AbortWait
    BY <1>0, <2>8 DEF AbortWait
  <2>9. CASE ProcessExit
    BY <1>0, <2>9 DEF ProcessExit
  <2>10. CASE StartInterrupter
    BY <1>0, <2>10 DEF StartInterrupter
  <2>11. CASE EnterDrain
    BY <1>0, <2>11 DEF EnterDrain
  <2>12. CASE Join
    BY <1>0, <2>12 DEF Join
  <2> QED
    BY <1>1, <2>1, <2>2, <2>3, <2>4, <2>5, <2>6, <2>7, <2>8, <2>9, <2>10, <2>11, <2>12
    DEF Main, Stream
<1>2. CASE Stopper
  <2> USE DEF StopperStep, mainVars
  <2>1. CASE StopCheck
    <3>1. Group = {} => Group' = {}
      BY <2>1, GroupStaysEmpty DEF StopCheck
    <3> QED
      BY <1>0, <2>1, <3>1 DEF StopCheck
  <2>2. CASE StopSignal
    <3>1. stopper' = "grace3" => Group' = {}
      BY <2>2, KillEmpties DEF StopSignal
    <3> QED
      BY <1>0, <2>2, <3>1 DEF StopSignal
  <2>3. CASE GroupGone
    <3>1. Group' = {}
      BY <2>3, GroupStaysEmpty DEF GroupGone, GroupExists
    <3> QED
      BY <2>3, <3>1 DEF GroupGone
  <2>4. CASE GroupPoll
    BY <1>0, <2>4 DEF GroupPoll
  <2>5. CASE GraceOver
    BY <1>0, <2>5 DEF GraceOver
  <2>6. CASE StopReap
    BY <1>0, <2>6 DEF StopReap
  <2> QED
    BY <1>2, <2>1, <2>2, <2>3, <2>4, <2>5, <2>6 DEF Stopper
<1>3. CASE Fault
  BY <1>0, <1>3 DEF Fault
<1>4. CASE \E s \in {SIGINT, SIGTERM} : Interrupt(s)
  BY <1>0, <1>4 DEF Interrupt
<1>5. CASE \/ \E m \in Members : Work(m) \/ WriteClosed(m) \/ CloseOutput(m) \/ LeaveGroup(m)
           \/ \E p, m \in Members : Fork(p, m)
           \/ UNCHANGED vars
  <2>1. UNCHANGED <<pc, draining, requested, stopper, reaped>>
    BY <1>5 DEF Work, Write, Exit, WriteClosed, CloseOutput, LeaveGroup, Fork, vars, mainVars,
       stopVars
  <2> QED
    BY <1>0, <2>1
<1> QED
  BY <1>1, <1>2, <1>3, <1>4, <1>5 DEF Next

\* When _run_child_command returns after a signal, no process is left in the
\* child's group and the child is reaped: whatever the processes did with the
\* signals, forks and races of their ends with the escalation included.
THEOREM GroupStoppedCorrect == Spec => []GroupStopped
<1>1. Init => StopInv
  BY DEF Init, StopInv, Calm
<1>2. TypeOK /\ StopInv => GroupStopped
  BY DEF StopInv, GroupStopped
<1> QED
  BY <1>1, <1>2, StopStep, TypeCorrect, PTL DEF Spec
=============================================================================
