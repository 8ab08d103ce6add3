----------------------- MODULE RunnerTranscript_proofs -----------------------
(***************************************************************************)
(* Proofs about what Runner copies: the order of the transcript and of the *)
(* view, their completeness, and what a successful status says of them.    *)
(* The chunks written are at all times those logged, lost, in hand or in   *)
(* the pipe, and in this order but for the lost ones.                      *)
(***************************************************************************)
EXTENDS Runner_proofs

USE RunnerAssumption

ChunksOf == [id : Nat, ends : BOOLEAN]
Ids(q) == {q[i].id : i \in DOMAIN q}
IdsInOrder(q) == \A i, j \in DOMAIN q : i < j => q[i].id < q[j].id
Below(S, T) == \A s \in S, t \in T : s < t

\* Facts about the ranges and the order of sequences.
LEMMA RangeEmpty == Range(<<>>) = {} /\ InOrder(<<>>)
  BY DEF Range, InOrder

LEMMA RangeAppend ==
    ASSUME NEW s \in Seq(Nat), NEW x \in Nat
    PROVE  Range(Append(s, x)) = Range(s) \cup {x}
<1>1. /\ DOMAIN Append(s, x) = 1 .. Len(s) + 1
      /\ \A i \in 1 .. Len(s) : Append(s, x)[i] = s[i]
      /\ Append(s, x)[Len(s) + 1] = x
      /\ DOMAIN s = 1 .. Len(s) /\ Len(s) \in Nat
  OBVIOUS
<1> QED
  BY <1>1 DEF Range

LEMMA RangeConcat ==
    ASSUME NEW s \in Seq(Nat), NEW t \in Seq(Nat)
    PROVE  Range(s \o t) = Range(s) \cup Range(t)
<1>1. /\ DOMAIN (s \o t) = 1 .. Len(s) + Len(t)
      /\ \A i \in 1 .. Len(s) : (s \o t)[i] = s[i]
      /\ \A i \in 1 .. Len(t) : (s \o t)[Len(s) + i] = t[i]
      /\ DOMAIN s = 1 .. Len(s) /\ Len(s) \in Nat
      /\ DOMAIN t = 1 .. Len(t) /\ Len(t) \in Nat
  OBVIOUS
<1>2. ASSUME NEW i \in 1 .. Len(s) + Len(t)
      PROVE  (s \o t)[i] \in Range(s) \cup Range(t)
  <2>1. CASE i \in 1 .. Len(s)
    BY <1>1, <2>1 DEF Range
  <2>2. CASE ~(i \in 1 .. Len(s))
    <3>1. i - Len(s) \in 1 .. Len(t) /\ i = Len(s) + (i - Len(s))
      BY <1>1, <2>2
    <3>2. (s \o t)[i] = t[i - Len(s)]
      BY <1>1, <3>1
    <3> QED
      BY <1>1, <3>1, <3>2 DEF Range
  <2> QED
    BY <2>1, <2>2
<1>3. ASSUME NEW i \in 1 .. Len(s)
      PROVE  s[i] \in Range(s \o t)
  <2>1. i \in DOMAIN (s \o t) /\ (s \o t)[i] = s[i]
    BY <1>1
  <2> QED
    BY <2>1 DEF Range
<1>4. ASSUME NEW i \in 1 .. Len(t)
      PROVE  t[i] \in Range(s \o t)
  <2>1. Len(s) + i \in DOMAIN (s \o t) /\ (s \o t)[Len(s) + i] = t[i]
    BY <1>1
  <2> QED
    BY <2>1 DEF Range
<1> QED
  BY <1>1, <1>2, <1>3, <1>4 DEF Range

LEMMA OrderAppend ==
    ASSUME NEW s \in Seq(Nat), NEW x \in Nat, InOrder(s), Below(Range(s), {x})
    PROVE  InOrder(Append(s, x))
<1>1. /\ DOMAIN Append(s, x) = 1 .. Len(s) + 1
      /\ \A i \in 1 .. Len(s) : Append(s, x)[i] = s[i]
      /\ Append(s, x)[Len(s) + 1] = x
      /\ DOMAIN s = 1 .. Len(s) /\ Len(s) \in Nat
  OBVIOUS
<1>2. \A i \in 1 .. Len(s) : s[i] < x
  BY <1>1 DEF Below, Range
<1> QED
  BY <1>1, <1>2 DEF InOrder

LEMMA OrderConcat ==
    ASSUME NEW s \in Seq(Nat), NEW t \in Seq(Nat),
           InOrder(s), InOrder(t), Below(Range(s), Range(t))
    PROVE  InOrder(s \o t)
<1>1. /\ DOMAIN (s \o t) = 1 .. Len(s) + Len(t)
      /\ DOMAIN s = 1 .. Len(s) /\ Len(s) \in Nat
      /\ DOMAIN t = 1 .. Len(t) /\ Len(t) \in Nat
  OBVIOUS
<1>2. \A i \in 1 .. Len(s) + Len(t) :
         (s \o t)[i] = IF i <= Len(s) THEN s[i] ELSE t[i - Len(s)]
  OBVIOUS
<1>3. \A i \in 1 .. Len(s), j \in 1 .. Len(t) : s[i] < t[j]
  BY <1>1 DEF Below, Range
<1> SUFFICES ASSUME NEW i \in 1 .. Len(s) + Len(t), NEW j \in 1 .. Len(s) + Len(t), i < j
             PROVE  (s \o t)[i] < (s \o t)[j]
  BY <1>1 DEF InOrder
<1>4. CASE j <= Len(s)
  <2>1. i \in DOMAIN s /\ j \in DOMAIN s
    BY <1>1, <1>4
  <2> QED
    BY <1>1, <1>2, <1>4, <2>1 DEF InOrder
<1>5. CASE i <= Len(s) /\ j > Len(s)
  <2>1. i \in 1 .. Len(s) /\ j - Len(s) \in 1 .. Len(t)
    BY <1>1, <1>5
  <2> QED
    BY <1>1, <1>2, <1>3, <1>5, <2>1
<1>6. CASE i > Len(s)
  <2>1. i - Len(s) \in DOMAIN t /\ j - Len(s) \in DOMAIN t /\ i - Len(s) < j - Len(s)
    BY <1>1, <1>6
  <2>2. (s \o t)[i] = t[i - Len(s)] /\ (s \o t)[j] = t[j - Len(s)]
    BY <1>1, <1>2, <1>6
  <2> QED
    BY <2>1, <2>2 DEF InOrder
<1> QED
  BY <1>1, <1>4, <1>5, <1>6

\* Writing to the pipe and reading from it.
LEMMA PipePut ==
    ASSUME NEW q \in Seq(ChunksOf), NEW c \in ChunksOf, IdsInOrder(q), Below(Ids(q), {c.id})
    PROVE  Ids(Append(q, c)) = Ids(q) \cup {c.id} /\ IdsInOrder(Append(q, c))
<1>1. /\ DOMAIN Append(q, c) = 1 .. Len(q) + 1
      /\ \A i \in 1 .. Len(q) : Append(q, c)[i] = q[i]
      /\ Append(q, c)[Len(q) + 1] = c
      /\ DOMAIN q = 1 .. Len(q) /\ Len(q) \in Nat
  OBVIOUS
<1>2. Ids(Append(q, c)) = Ids(q) \cup {c.id}
  BY <1>1 DEF Ids
<1>3. \A i \in 1 .. Len(q) : q[i].id < c.id
  BY <1>1 DEF Below, Ids
<1> QED
  BY <1>1, <1>2, <1>3 DEF IdsInOrder

LEMMA PipeTake ==
    ASSUME NEW q \in Seq(ChunksOf), q # <<>>, IdsInOrder(q)
    PROVE  /\ Ids(q) = {Head(q).id} \cup Ids(Tail(q))
           /\ IdsInOrder(Tail(q))
           /\ Below({Head(q).id}, Ids(Tail(q)))
<1>1. /\ Head(q) = q[1]
      /\ DOMAIN q = 1 .. Len(q) /\ Len(q) \in Nat /\ Len(q) >= 1
      /\ DOMAIN Tail(q) = 1 .. Len(q) - 1
      /\ \A i \in 1 .. Len(q) - 1 : Tail(q)[i] = q[i + 1]
  OBVIOUS
<1>2. ASSUME NEW i \in 1 .. Len(q)
      PROVE  q[i].id \in {Head(q).id} \cup Ids(Tail(q))
  <2>1. CASE i = 1
    BY <1>1, <2>1
  <2>2. CASE i # 1
    <3>1. i - 1 \in DOMAIN Tail(q) /\ Tail(q)[i - 1] = q[i]
      BY <1>1, <2>2
    <3> QED
      BY <3>1 DEF Ids
  <2> QED
    BY <2>1, <2>2
<1>3. ASSUME NEW i \in 1 .. Len(q) - 1
      PROVE  Tail(q)[i].id \in Ids(q) /\ Head(q).id < Tail(q)[i].id
  <2>1. i + 1 \in DOMAIN q /\ 1 \in DOMAIN q /\ 1 < i + 1 /\ Tail(q)[i] = q[i + 1]
    BY <1>1
  <2> QED
    BY <1>1, <2>1 DEF Ids, IdsInOrder
<1>4. IdsInOrder(Tail(q))
  <2> SUFFICES ASSUME NEW i \in 1 .. Len(q) - 1, NEW j \in 1 .. Len(q) - 1, i < j
               PROVE  Tail(q)[i].id < Tail(q)[j].id
    BY <1>1 DEF IdsInOrder
  <2>1. /\ i + 1 \in DOMAIN q /\ j + 1 \in DOMAIN q /\ i + 1 < j + 1
        /\ Tail(q)[i] = q[i + 1] /\ Tail(q)[j] = q[j + 1]
    BY <1>1
  <2> QED
    BY <2>1 DEF IdsInOrder
<1>5. Head(q).id \in Ids(q)
  BY <1>1 DEF Ids
<1> QED
  BY <1>1, <1>2, <1>3, <1>4, <1>5 DEF Ids, Below
-----------------------------------------------------------------------------
(* The flow of the chunks from the pipe to the transcript and the view.    *)

Taken == Range(rawLog) \cup lost \cup Range(hand)

Flow ==
    /\ InOrder(hand) /\ InOrder(rawLog) /\ InOrder(shown) /\ IdsInOrder(pipe)
    /\ Below(Taken, Ids(pipe))
    /\ Below(lost \cup Range(shown), Range(hand))
    /\ pc = "feed" => Range(hand) \subseteq Range(rawLog)
    /\ pc # "feed" => Below(Range(rawLog), Range(hand))
    /\ Range(shown) \subseteq Range(rawLog)
    /\ lost \cap Range(rawLog) = {}
    /\ Taken \cup Ids(pipe) = 1 .. written

\* What the streams hold when nothing is read any more, and what they hold
\* as long as neither a signal nor a failed write has been met.
Whole ==
    /\ pc \in {"start", "spawned", "wait", "handler", "entering", "join", "abort", "abortwait"}
         => hand = <<>>
    /\ (draining \/ pc \in {"handler", "entering"}) => requested # NoSignal /\ signals >= 1
    /\ pc = "wait" \/ (pc = "join" /\ signals <= 1) => pipe = <<>> /\ holders = {}
    /\ pc = "returned" /\ signals <= 1 => pipe = <<>> /\ hand = <<>>
    /\ faults = 0 /\ requested = NoSignal =>
         lost = {} /\ rawLog = IF pc = "feed" THEN shown \o hand ELSE shown

\* What Flow says of the dropping of a line in hand.
LEMMA DropFlow ==
    ASSUME TypeOK, Flow, DropHand, UNCHANGED <<rawLog, shown, pipe, written>>, pc' # "feed"
    PROVE  Flow'
<1>1. hand' = <<>> /\ Range(hand') = {} /\ InOrder(hand')
  BY RangeEmpty DEF DropHand
<1>2. lost' = IF pc = "feed" THEN lost ELSE lost \cup Range(hand)
  BY DEF DropHand
<1>3. Taken' = Taken
  BY <1>1, <1>2 DEF Flow, Taken
<1>4. lost' \cap Range(rawLog) = {}
  <2>1. CASE pc = "feed"
    BY <1>2, <2>1 DEF Flow
  <2>2. CASE pc # "feed"
    <3>1. Range(rawLog) \subseteq Nat /\ Range(hand) \subseteq Nat
      BY DEF TypeOK, Range
    <3>2. \A x \in Range(rawLog), y \in Range(hand) : x # y
      BY <2>2, <3>1 DEF Flow, Below
    <3> QED
      BY <1>2, <2>2, <3>2 DEF Flow
  <2> QED
    BY <2>1, <2>2
<1> QED
  BY <1>1, <1>3, <1>4 DEF Flow, Below

\* The steps that move no chunk.
LEMMA StillFlow ==
    ASSUME Flow, UNCHANGED dataVars, pc' = "feed" <=> pc = "feed"
    PROVE  Flow'
  BY DEF Flow, Taken, dataVars

LEMMA FlowStep == TypeOK /\ Flow /\ [Next]_vars => Flow'
<1> SUFFICES ASSUME TypeOK, Flow, [Next]_vars
             PROVE  Flow'
  OBVIOUS
<1>0. /\ hand \in Seq(Nat) /\ rawLog \in Seq(Nat) /\ shown \in Seq(Nat)
      /\ pipe \in Seq(ChunksOf) /\ written \in Nat
  BY DEF TypeOK, ChunksOf
<1>1. ASSUME NEW m \in Members, NEW ends \in BOOLEAN, Write(m, ends)
      PROVE  Flow'
  <2> DEFINE c == [id |-> written + 1, ends |-> ends]
  <2>1. c \in ChunksOf /\ c.id = written + 1
    BY <1>0 DEF ChunksOf
  <2>2. /\ pipe' = Append(pipe, c) /\ written' = written + 1
        /\ UNCHANGED <<pc, hand, rawLog, shown, lost>>
    BY <1>1 DEF Write, mainVars
  <2> HIDE DEF c
  <2>3. Taken \cup Ids(pipe) = 1 .. written
    BY DEF Flow
  <2>4. Below(Ids(pipe), {c.id})
    BY <1>0, <2>1, <2>3 DEF Below
  <2>5. Ids(pipe') = Ids(pipe) \cup {c.id} /\ IdsInOrder(pipe')
    BY <1>0, <2>1, <2>2, <2>4, PipePut DEF Flow
  <2>6. Taken' = Taken
    BY <2>2 DEF Taken
  <2>7. Taken' \cup Ids(pipe') = 1 .. written'
    BY <1>0, <2>1, <2>2, <2>3, <2>5, <2>6
  <2>8. Below(Taken', Ids(pipe'))
    BY <1>0, <2>1, <2>3, <2>5, <2>6 DEF Below, Flow
  <2> QED
    BY <2>2, <2>5, <2>7, <2>8 DEF Flow
<1>2. CASE Read
  <2>1. /\ pc = "read" /\ pipe # <<>>
        /\ hand' = Append(hand, Head(pipe).id) /\ pipe' = Tail(pipe)
        /\ pc' \in {"log", "read"}
        /\ UNCHANGED <<written, rawLog, shown, lost>>
    BY <1>2 DEF Read
  <2>2. Head(pipe) \in ChunksOf /\ Head(pipe).id \in Nat
    <3>1. Head(pipe) \in ChunksOf
      BY <1>0, <2>1, FirstRest
    <3> QED
      BY <3>1 DEF ChunksOf
  <2>3. /\ Ids(pipe) = {Head(pipe).id} \cup Ids(pipe')
        /\ IdsInOrder(pipe')
        /\ Below({Head(pipe).id}, Ids(pipe'))
    BY <1>0, <2>1, PipeTake DEF Flow
  <2>4. Below(Taken, {Head(pipe).id})
    BY <2>3 DEF Flow, Below
  <2>5. Range(hand') = Range(hand) \cup {Head(pipe).id}
    BY <1>0, <2>1, <2>2, RangeAppend
  <2>6. InOrder(hand')
    <3>1. Below(Range(hand), {Head(pipe).id})
      BY <2>4 DEF Below, Taken
    <3> QED
      BY <1>0, <2>1, <2>2, <3>1, OrderAppend DEF Flow
  <2>7. Taken' = Taken \cup {Head(pipe).id}
    BY <2>1, <2>5 DEF Taken
  <2>8. Below(Taken', Ids(pipe')) /\ Taken' \cup Ids(pipe') = 1 .. written'
    BY <2>1, <2>3, <2>7 DEF Flow, Below
  <2>9. Below(lost \cup Range(shown), Range(hand')) /\ Below(Range(rawLog), Range(hand'))
    BY <2>1, <2>4, <2>5 DEF Flow, Below, Taken
  <2> QED
    BY <2>1, <2>3, <2>6, <2>8, <2>9 DEF Flow
<1>3. CASE Log
  <2>1. /\ pc = "log" /\ pc' = "feed" /\ rawLog' = rawLog \o hand
        /\ UNCHANGED <<pipe, written, hand, shown, lost>>
    BY <1>3 DEF Log, MainStep
  <2>2. Range(rawLog') = Range(rawLog) \cup Range(hand)
    BY <1>0, <2>1, RangeConcat
  <2>3. InOrder(rawLog')
    BY <1>0, <2>1, OrderConcat DEF Flow
  <2>4. lost \cap Range(rawLog') = {}
    <3>1. Range(hand) \subseteq Nat
      BY <1>0 DEF Range
    <3>2. \A y \in Range(hand) : y \notin lost
      BY <3>1 DEF Flow, Below
    <3> QED
      BY <2>2, <3>2 DEF Flow
  <2>5. Taken' = Taken
    BY <2>1, <2>2 DEF Taken
  <2> QED
    BY <2>1, <2>2, <2>3, <2>4, <2>5 DEF Flow
<1>4. CASE Feed
  <2>1. /\ pc = "feed" /\ pc' = "read" /\ shown' = shown \o hand /\ hand' = <<>>
        /\ UNCHANGED <<pipe, written, rawLog, lost>>
    BY <1>4 DEF Feed, MainStep
  <2>2. Range(shown') = Range(shown) \cup Range(hand)
    BY <1>0, <2>1, RangeConcat
  <2>3. InOrder(shown')
    <3>1. Below(Range(shown), Range(hand))
      BY DEF Flow, Below
    <3> QED
      BY <1>0, <2>1, <3>1, OrderConcat DEF Flow
  <2>4. Range(hand') = {} /\ InOrder(hand')
    BY <2>1, RangeEmpty
  <2>5. Taken' = Taken
    BY <2>1, <2>4 DEF Taken, Flow
  <2> QED
    BY <2>1, <2>2, <2>3, <2>4, <2>5 DEF Flow, Below
<1>5. CASE Fault
  BY <1>5, DropFlow DEF Fault
<1>6. ASSUME NEW s \in {SIGINT, SIGTERM}, Interrupt(s)
      PROVE  Flow'
  BY <1>6, DropFlow DEF Interrupt
<1>7. CASE Main
  <2>1. CASE ~(Read \/ Log \/ Feed)
    <3>1. UNCHANGED dataVars /\ (pc' = "feed" <=> pc = "feed")
      BY <1>7, <2>1 DEF Main, Stream, MainStep, Spawn, EnterStream, ReadEnd, WaitChild, Abort,
         AbortWait, ProcessExit, StartInterrupter, EnterDrain, Join, dataVars
    <3> QED
      BY <3>1, StillFlow
  <2> QED
    BY <1>2, <1>3, <1>4, <2>1
<1>8. CASE Stopper
  <2>1. UNCHANGED <<dataVars, pc>>
    BY <1>8 DEF Stopper, StopCheck, StopSignal, GroupGone, GroupPoll, GraceOver, StopReap,
       mainVars
  <2> QED
    BY <2>1, StillFlow
<1>9. CASE \/ \E m \in Members : \/ \E c \in {0, 1} : Exit(m, c)
                                 \/ WriteClosed(m) \/ CloseOutput(m) \/ LeaveGroup(m)
           \/ \E p, m \in Members : Fork(p, m)
           \/ UNCHANGED vars
  <2>1. UNCHANGED <<dataVars, pc>>
    BY <1>9 DEF Exit, WriteClosed, CloseOutput, LeaveGroup, Fork, vars, mainVars
  <2> QED
    BY <2>1, StillFlow
<1> QED
  BY <1>1, <1>5, <1>6, <1>7, <1>8, <1>9 DEF Next, Work

LEMMA InitFlow == Init => Flow
<1> SUFFICES ASSUME Init
             PROVE  Flow
  OBVIOUS
<1>1. /\ hand = <<>> /\ rawLog = <<>> /\ shown = <<>> /\ pipe = <<>>
      /\ lost = {} /\ written = 0 /\ pc = "start"
  BY DEF Init
<1>2. Range(<<>>) = {} /\ InOrder(<<>>)
  BY RangeEmpty
<1>3. Ids(<<>>) = {} /\ IdsInOrder(<<>>)
  BY DEF Ids, IdsInOrder
<1>4. 1 .. 0 = {}
  OBVIOUS
<1> QED
  BY <1>1, <1>2, <1>3, <1>4 DEF Flow, Taken, Below

\* The transcript and the view get the chunks in order, none twice, and
\* nothing is shown that is not in the transcript: for any command, pipe, and
\* number of signals and failed writes.
THEOREM TranscriptInOrderCorrect == Spec => []TranscriptInOrder
<1>1. Flow => TranscriptInOrder
  BY DEF Flow, TranscriptInOrder
<1> QED
  BY <1>1, InitFlow, FlowStep, TypeCorrect, PTL DEF Spec
-----------------------------------------------------------------------------
(* Completeness: when the call returns, the pipe and the hand are empty.   *)

\* A signal takes holders of the pipe away and adds none.
LEMMA DeliverHolders ==
    ASSUME NEW s, Deliver(s)
    PROVE  holders' \subseteq holders
  BY DEF Deliver, Die

LEMMA WholeMain == TypeOK /\ Whole /\ Main => Whole'
<1> SUFFICES ASSUME TypeOK, Whole, Main
             PROVE  Whole'
  OBVIOUS
<1> USE DEF Whole, MainStep, groupVars, dataVars, stopVars
<1>1. CASE Spawn
  BY <1>1 DEF Spawn
<1>2. CASE EnterStream
  BY <1>2 DEF EnterStream
<1>3. CASE Read
  BY <1>3 DEF Read
<1>4. CASE ReadEnd
  BY <1>4 DEF ReadEnd
<1>5. CASE Log
  BY <1>5 DEF Log
<1>6. CASE Feed
  BY <1>6 DEF Feed
<1>7. CASE WaitChild
  BY <1>7 DEF WaitChild
<1>8. CASE Abort
  BY <1>8 DEF Abort
<1>9. CASE AbortWait
  BY <1>9 DEF AbortWait
<1>10. CASE ProcessExit
  BY <1>10 DEF ProcessExit
<1>11. CASE StartInterrupter
  BY <1>11 DEF StartInterrupter
<1>12. CASE EnterDrain
  BY <1>12 DEF EnterDrain
<1>13. CASE Join
  BY <1>13 DEF Join
<1> QED
  BY <1>1, <1>2, <1>3, <1>4, <1>5, <1>6, <1>7, <1>8, <1>9, <1>10, <1>11, <1>12, <1>13
  DEF Main, Stream

LEMMA WholeStep == TypeOK /\ Whole /\ [Next]_vars => Whole'
<1> SUFFICES ASSUME TypeOK, Whole, [Next]_vars
             PROVE  Whole'
  OBVIOUS
<1>1. CASE Main
  BY <1>1, WholeMain
<1>2. CASE Stopper
  <2>1. UNCHANGED <<dataVars, mainVars, requested, signals, faults>>
    BY <1>2 DEF Stopper, StopCheck, StopSignal, GroupGone, GroupPoll, GraceOver, StopReap
  <2>2. holders' \subseteq holders
    BY <1>2, DeliverHolders DEF Stopper, StopCheck, StopSignal, GroupGone, GroupPoll, GraceOver,
       StopReap, groupVars
  <2> QED
    BY <2>1, <2>2 DEF Whole, dataVars, mainVars
<1>3. CASE Fault
  BY <1>3 DEF Fault, Whole, DropHand, groupVars, TypeOK
<1>4. ASSUME NEW s \in {SIGINT, SIGTERM}, Interrupt(s)
      PROVE  Whole'
  <2>1. /\ hand' = <<>> /\ signals' = signals + 1 /\ signals \in Nat
        /\ UNCHANGED <<rawLog, shown, pipe, holders, faults, draining>>
    BY <1>4 DEF Interrupt, DropHand, groupVars, TypeOK
  <2>2. ASSUME faults' = 0, requested' = NoSignal
        PROVE  lost' = {} /\ rawLog' = shown' /\ pc' # "feed"
    <3>1. /\ pc \in {"start", "spawned", "handler", "entering", "join", "abort", "abortwait"}
          /\ pc' = "raised" /\ requested' = requested
      BY <1>4, <2>2 DEF Interrupt, Whole, NoSignal, SIGINT, SIGTERM
    <3>2. Range(hand) = {}
      BY <3>1, RangeEmpty DEF Whole
    <3> QED
      BY <1>4, <2>1, <2>2, <3>1, <3>2 DEF Interrupt, DropHand, Whole
  <2>3. (draining' \/ pc' \in {"handler", "entering"}) => requested' # NoSignal /\ signals' >= 1
    BY <1>4, <2>1 DEF Interrupt, Whole, NoSignal, SIGINT, SIGTERM
  <2>4. /\ pc' \notin {"wait", "returned"}
        /\ pc' = "join" => signals >= 1
    BY <1>4 DEF Interrupt, Whole
  <2> QED
    BY <2>1, <2>2, <2>3, <2>4 DEF Whole
<1>5. ASSUME NEW m \in Members, NEW ends \in BOOLEAN, Write(m, ends)
      PROVE  Whole'
  BY <1>5 DEF Write, Whole, mainVars, stopVars, StreamClosed
<1>6. ASSUME NEW m \in Members,
             (\E c \in {0, 1} : Exit(m, c)) \/ WriteClosed(m) \/ CloseOutput(m) \/ LeaveGroup(m)
      PROVE  Whole'
  <2>1. UNCHANGED <<dataVars, mainVars, stopVars>> /\ holders' \subseteq holders
    BY <1>6 DEF Exit, WriteClosed, CloseOutput, LeaveGroup, Die
  <2> QED
    BY <2>1 DEF Whole, dataVars, mainVars, stopVars
<1>7. ASSUME NEW p \in Members, NEW m \in Members, Fork(p, m)
      PROVE  Whole'
  BY <1>7 DEF Fork, Whole, dataVars, mainVars, stopVars
<1>8. CASE UNCHANGED vars
  BY <1>8 DEF Whole, vars, groupVars, dataVars, mainVars, stopVars
<1> QED
  BY <1>1, <1>2, <1>3, <1>4, <1>5, <1>6, <1>7, <1>8 DEF Next, Work

\* A run that returns after at most one signal and no failed write has drained
\* the pipe: every chunk is in the transcript or was in hand when the signal
\* came, and without a signal all of them are shown as well.
THEOREM TranscriptCompleteCorrect == Spec => []TranscriptComplete
<1>1. Init => Flow /\ Whole
  <2>1. Init => Whole
    BY DEF Init, Whole
  <2> QED
    BY <2>1, InitFlow
<1>2. TypeOK /\ Flow /\ Whole => TranscriptComplete
  <2> SUFFICES ASSUME TypeOK, Flow, Whole, pc = "returned", faults = 0, signals <= 1
               PROVE  /\ Range(rawLog) \cup lost = 1 .. written
                      /\ requested = NoSignal => lost = {} /\ shown = rawLog
    BY DEF TranscriptComplete
  <2>1. Range(hand) = {} /\ Ids(pipe) = {}
    BY RangeEmpty DEF Whole, Ids
  <2> QED
    BY <2>1 DEF Flow, Taken, Whole
<1> QED
  BY <1>1, <1>2, FlowStep, WholeStep, TypeCorrect, PTL DEF Spec
-----------------------------------------------------------------------------
(* A status of 0: nothing was met on the way to it, and nothing comes      *)
(* after it.                                                               *)

Processes ==
    /\ holders \subseteq Alive
    /\ code # Running => life[Leader] = "dead"
    /\ pc = "start" => Alive = {} /\ code = Running

Successful ==
    /\ Calm => signals = 0
    /\ Calm /\ pc \notin {"abort", "abortwait"} => faults = 0
    /\ pc = "join" => requested # NoSignal
    /\ status = 0 => /\ pc \in {"returned", "exited"}
                     /\ code = 0 /\ reaped /\ signals = 0 /\ faults = 0
                     /\ pipe = <<>> /\ hand = <<>> /\ lost = {}

\* Deaths: the leader's status is set once.
LEMMA DieProcesses ==
    ASSUME TypeOK, Processes, NEW D \in SUBSET Alive, NEW c, Die(D, c)
    PROVE  /\ holders' \subseteq Alive' /\ Alive' \subseteq Alive
           /\ code' # Running => life'[Leader] = "dead"
           /\ code # Running => code' = code
<1>1. Alive' = Alive \ D
  BY DEF Die, Alive, TypeOK
<1>2. code # Running => Leader \notin D
  BY DEF Processes, Alive
<1>3. life'[Leader] = IF Leader \in D THEN "dead" ELSE life[Leader]
  BY DEF Die
<1>4. holders' = holders \ D /\ code' = IF Leader \in D THEN c ELSE code
  BY DEF Die
<1>5. holders' \subseteq Alive' /\ Alive' \subseteq Alive
  BY <1>1, <1>4 DEF Processes
<1>6. CASE Leader \in D
  BY <1>2, <1>3, <1>5, <1>6
<1>7. CASE Leader \notin D
  BY <1>3, <1>4, <1>5, <1>7 DEF Processes
<1> QED
  BY <1>6, <1>7

LEMMA DeliverProcesses ==
    ASSUME TypeOK, Processes, NEW s, Deliver(s)
    PROVE  /\ holders' \subseteq Alive' /\ Alive' \subseteq Alive
           /\ code' # Running => life'[Leader] = "dead"
           /\ code # Running => code' = code
<1>1. PICK D \in SUBSET Group : Die(D, 0 - s)
  BY DEF Deliver
<1>2. D \in SUBSET Alive
  BY DEF Group, Alive
<1> QED
  BY <1>1, <1>2, DieProcesses

\* No step leads back to the start, and the leader's status stays.
LEMMA ProcessesStep ==
    TypeOK /\ Processes /\ [Next]_vars => Processes' /\ (code # Running => code' = code)
<1> SUFFICES ASSUME TypeOK, Processes, [Next]_vars
             PROVE  Processes' /\ (code # Running => code' = code)
  OBVIOUS
<1>0. ASSUME UNCHANGED groupVars, pc' = "start" => pc = "start"
      PROVE  Processes' /\ (code # Running => code' = code)
  BY <1>0 DEF Processes, groupVars, Alive
<1>1. CASE Main
  <2>1. pc' # "start"
    BY <1>1 DEF Main, Stream, MainStep, Spawn, EnterStream, Read, ReadEnd, Log, Feed, WaitChild,
       Abort, AbortWait, ProcessExit, StartInterrupter, EnterDrain, Join
  <2>2. CASE Spawn
    <3>1. life'[Leader] = "member" /\ holders' = {Leader}
      BY <2>2 DEF Spawn, TypeOK
    <3>2. code = Running /\ code' = code
      BY <2>2 DEF Spawn, MainStep, Processes
    <3>3. Leader \in Alive'
      BY <3>1 DEF Alive
    <3> QED
      BY <2>1, <3>1, <3>2, <3>3 DEF Processes
  <2>3. CASE Abort /\ code = Running
    BY <2>1, <2>3, DeliverProcesses DEF Abort, Processes
  <2>4. CASE ~Spawn /\ ~(Abort /\ code = Running)
    <3>1. UNCHANGED groupVars
      BY <1>1, <2>4 DEF Main, Stream, EnterStream, Read, ReadEnd, Log, Feed, WaitChild,
         Abort, AbortWait, ProcessExit, StartInterrupter, EnterDrain, Join
    <3> QED
      BY <1>0, <2>1, <3>1
  <2> QED
    BY <2>2, <2>3, <2>4
<1>2. CASE Stopper
  <2>1. pc' = pc
    BY <1>2 DEF Stopper, StopCheck, StopSignal, GroupGone, GroupPoll, GraceOver, StopReap,
       mainVars
  <2>2. CASE \E s \in {requested, SIGTERM, SIGKILL} : Deliver(s)
    <3>1. PICK s \in {requested, SIGTERM, SIGKILL} : Deliver(s)
      BY <2>2
    <3>2. /\ holders' \subseteq Alive' /\ Alive' \subseteq Alive
          /\ code' # Running => life'[Leader] = "dead"
          /\ code # Running => code' = code
      BY <3>1, DeliverProcesses
    <3>3. pc = "start" => code' = Running
      BY <3>1 DEF Processes, Deliver, Die, Group, Alive
    <3> QED
      BY <2>1, <3>2, <3>3 DEF Processes
  <2>3. CASE UNCHANGED groupVars
    BY <1>0, <2>1, <2>3
  <2> QED
    BY <1>2, <2>2, <2>3 DEF Stopper, StopCheck, StopSignal, GroupGone, GroupPoll, GraceOver,
       StopReap
<1>3. CASE Fault \/ \E s \in {SIGINT, SIGTERM} : Interrupt(s)
  <2>1. UNCHANGED groupVars /\ pc' # "start"
    BY <1>3 DEF Fault, Interrupt
  <2> QED
    BY <1>0, <2>1
<1>4. ASSUME NEW m \in Members, NEW c, Die({m}, c), m \in Alive, pc' = pc
      PROVE  Processes' /\ (code # Running => code' = code)
  <2>1. {m} \in SUBSET Alive
    BY <1>4
  <2>2. pc # "start"
    BY <1>4 DEF Processes
  <2> QED
    BY <1>4, <2>1, <2>2, DieProcesses DEF Processes
<1>5. ASSUME NEW m \in Members, Work(m) \/ WriteClosed(m) \/ CloseOutput(m) \/ LeaveGroup(m)
      PROVE  Processes' /\ (code # Running => code' = code)
  <2>1. pc' = pc
    BY <1>5 DEF Work, Write, Exit, WriteClosed, CloseOutput, LeaveGroup, mainVars
  <2>2. CASE (\E c \in {0, 1} : Exit(m, c)) \/ WriteClosed(m)
    <3>1. m \in Alive /\ \E c \in {0, 1, 0 - SIGPIPE} : Die({m}, c)
      BY <2>2 DEF Exit, WriteClosed, Processes
    <3> QED
      BY <1>4, <2>1, <3>1
  <2>3. CASE \E ends \in BOOLEAN : Write(m, ends)
    BY <2>1, <2>3 DEF Write, Processes, Alive
  <2>4. CASE CloseOutput(m)
    BY <2>1, <2>4 DEF CloseOutput, Processes, Alive
  <2>5. CASE LeaveGroup(m)
    <3>1. Alive' = Alive /\ (life'[Leader] = "dead" <=> life[Leader] = "dead")
      BY <2>5 DEF LeaveGroup, Alive, Group, TypeOK
    <3> QED
      BY <2>1, <2>5, <3>1 DEF LeaveGroup, Processes
  <2> QED
    BY <1>5, <2>2, <2>3, <2>4, <2>5 DEF Work
<1>6. ASSUME NEW p \in Members, NEW m \in Members, Fork(p, m)
      PROVE  Processes' /\ (code # Running => code' = code)
  <2>1. Alive' = Alive \cup {m} /\ life'[Leader] = IF m = Leader THEN life[p] ELSE life[Leader]
    BY <1>6 DEF Fork, Alive, TypeOK
  <2>2. m # Leader \/ code = Running
    BY <1>6 DEF Fork, Processes
  <2>3. pc' # "start" /\ UNCHANGED code
    BY <1>6 DEF Fork, Processes, mainVars
  <2> QED
    BY <1>6, <2>1, <2>2, <2>3 DEF Fork, Processes
<1>7. CASE UNCHANGED vars
  BY <1>0, <1>7 DEF vars, mainVars
<1> QED
  BY <1>1, <1>2, <1>3, <1>5, <1>6, <1>7 DEF Next

\* Only a child that ended with 0 gives a status of 0, and no signal does.
LEMMA StatusZero ==
    ASSUME NEW c \in Codes, NEW r \in {NoSignal, SIGINT, SIGTERM}, ExitStatus(c, r) = 0
    PROVE  c = 0 /\ r = NoSignal
<1>1. CASE c < 0
  BY <1>1 DEF Codes, ExitStatus, SIGINT, SIGTERM, SIGKILL, SIGPIPE, Running
<1>2. CASE ~(c < 0)
  BY <1>2 DEF Codes, ExitStatus, SIGINT, SIGTERM, SIGKILL, SIGPIPE, Running, NoSignal
<1> QED
  BY <1>1, <1>2

LEMMA SuccessfulMain ==
    TypeOK /\ StopInv /\ Whole /\ Processes /\ Successful /\ Main => Successful'
<1> SUFFICES ASSUME TypeOK, StopInv, Whole, Processes, Successful, Main
             PROVE  Successful'
  OBVIOUS
<1> USE DEF Successful, Calm, MainStep, groupVars, dataVars, stopVars
<1>1. CASE Spawn
  BY <1>1 DEF Spawn
<1>2. CASE EnterStream
  BY <1>2 DEF EnterStream
<1>3. CASE Read
  BY <1>3 DEF Read
<1>4. CASE ReadEnd
  BY <1>4 DEF ReadEnd, Whole
<1>5. CASE Log
  BY <1>5 DEF Log
<1>6. CASE Feed
  BY <1>6 DEF Feed
<1>7. CASE WaitChild
  <2>1. status' = 0 => code = 0
    BY <1>7, StatusZero DEF WaitChild, TypeOK, Codes
  <2>2. requested = NoSignal /\ signals = 0 /\ faults = 0
    BY <1>7 DEF WaitChild, StopInv
  <2> QED
    BY <1>7, <2>1, <2>2 DEF WaitChild, Whole
<1>8. CASE Abort
  BY <1>8 DEF Abort
<1>9. CASE AbortWait
  BY <1>9 DEF AbortWait
<1>10. CASE ProcessExit
  BY <1>10 DEF ProcessExit
<1>11. CASE StartInterrupter
  BY <1>11 DEF StartInterrupter
<1>12. CASE EnterDrain
  BY <1>12 DEF EnterDrain
<1>13. CASE Join
  <2>1. status' # 0
    BY <1>13, StatusZero DEF Join, TypeOK, Codes
  <2> QED
    BY <1>13, <2>1 DEF Join
<1> QED
  BY <1>1, <1>2, <1>3, <1>4, <1>5, <1>6, <1>7, <1>8, <1>9, <1>10, <1>11, <1>12, <1>13
  DEF Main, Stream

LEMMA SuccessfulStep ==
    TypeOK /\ StopInv /\ Whole /\ Processes /\ Successful /\ [Next]_vars => Successful'
<1> SUFFICES ASSUME TypeOK, StopInv, Whole, Processes, Successful, [Next]_vars
             PROVE  Successful'
  OBVIOUS
<1>0. code = 0 => code' = 0
  BY ProcessesStep DEF Running
<1>1. CASE Main
  BY <1>1, SuccessfulMain
<1>2. CASE Stopper
  <2>1. UNCHANGED <<dataVars, mainVars, requested, signals, faults>>
    BY <1>2 DEF Stopper, StopCheck, StopSignal, GroupGone, GroupPoll, GraceOver, StopReap
  <2>2. code = 0 /\ reaped => reaped'
    <3>1. reaped' = reaped \/ reaped' = TRUE \/ reaped' = (code # Running)
      BY <1>2, Zenon DEF Stopper, StopCheck, StopSignal, GroupGone, GroupPoll, GraceOver, StopReap
    <3>2. code = 0 => code # Running
      BY DEF Running
    <3> QED
      BY <3>1, <3>2, Zenon
  <2> QED
    BY <1>0, <2>1, <2>2 DEF Successful, Calm, dataVars, mainVars
<1>3. CASE Fault
  BY <1>3 DEF Fault, Successful, Calm
<1>4. CASE \E s \in {SIGINT, SIGTERM} : Interrupt(s)
  BY <1>4 DEF Interrupt, Successful, Calm, Whole, StopInv, NoSignal, SIGINT, SIGTERM
<1>5. ASSUME NEW m \in Members, NEW ends \in BOOLEAN, Write(m, ends)
      PROVE  Successful'
  BY <1>5 DEF Write, Successful, Calm, mainVars, stopVars, StreamClosed
<1>6. CASE \/ \E m \in Members : \/ \E c \in {0, 1} : Exit(m, c)
                                 \/ WriteClosed(m) \/ CloseOutput(m) \/ LeaveGroup(m)
           \/ \E p, m \in Members : Fork(p, m)
           \/ UNCHANGED vars
  <2>1. UNCHANGED <<dataVars, mainVars, stopVars, reaped>>
    BY <1>6 DEF Exit, WriteClosed, CloseOutput, LeaveGroup, Fork, vars
  <2> QED
    BY <1>0, <2>1 DEF Successful, Calm, dataVars, mainVars, stopVars
<1> QED
  BY <1>1, <1>2, <1>3, <1>4, <1>5, <1>6 DEF Next, Work

\* Status 0 is returned only for a command that ended with 0 and was met by no
\* signal and no failed write, and its whole output is in the transcript.
THEOREM SuccessIsWholeCorrect == Spec => []SuccessIsWhole
<1> DEFINE Inv == TypeOK /\ StopInv /\ Flow /\ Whole /\ Processes /\ Successful
<1>1. Init => StopInv /\ Whole /\ Processes /\ Successful
  BY DEF Init, StopInv, Calm, Whole, Processes, Successful, Alive, NoStatus
<1>2. Inv => SuccessIsWhole
  <2> SUFFICES ASSUME Inv, status = 0
               PROVE  Range(rawLog) = 1 .. written
    BY DEF SuccessIsWhole, Successful
  <2>1. Range(hand) = {} /\ Ids(pipe) = {} /\ lost = {}
    BY RangeEmpty DEF Successful, Ids
  <2> QED
    BY <2>1 DEF Flow, Taken
<1>3. TypeOK /\ StopInv /\ Flow /\ Whole /\ Processes /\ Successful /\ [Next]_vars
        => StopInv' /\ Flow' /\ Whole' /\ Processes' /\ Successful'
  BY StopStep, FlowStep, WholeStep, ProcessesStep, SuccessfulStep
<1> QED
  BY <1>1, <1>2, <1>3, InitFlow, TypeCorrect, PTL DEF Spec

-----------------------------------------------------------------------------
(* A failure without a signal: the way from the except clause to the raise. *)

\* No signal has come: no interrupter exists, the leader's status is that of
\* the kill only after the except clause, and a call that raised has either
\* started nobody or reaped the child.
Undisturbed ==
    /\ Calm \/ pc \in {"returned", "raised", "exited"}
    /\ stopper = "none" /\ ~draining
    /\ pc = "start" => life[Leader] = "unborn"
    /\ pc = "raised" => (life[Leader] = "unborn" /\ Alive = {}) \/ reaped
    /\ code = 0 - SIGKILL => Group = {} /\ pc \in {"abortwait", "raised", "exited"}
FailureInv == signals = 0 => Undisturbed

LEMMA UndisturbedMain ==
    ASSUME TypeOK, Processes, Undisturbed, Main
    PROVE  Undisturbed'
<1> USE DEF Undisturbed, Calm, MainStep
<1>0. ASSUME UNCHANGED groupVars, stopper' = stopper, draining' = draining,
             Calm, Calm', pc' # "start", pc # "abortwait"
      PROVE  Undisturbed'
  BY <1>0 DEF groupVars, Group
<1>1. CASE Spawn
  <2>1. code' = Running
    BY <1>1 DEF Spawn, Processes
  <2> QED
    BY <1>1, <2>1 DEF Spawn, stopVars, Running, SIGKILL
<1>2. CASE EnterStream \/ Read \/ ReadEnd \/ Log \/ Feed
  <2>1. /\ UNCHANGED groupVars /\ stopper' = stopper /\ draining' = draining
        /\ Calm /\ Calm' /\ pc' # "start" /\ pc # "abortwait"
    BY <1>2 DEF EnterStream, Read, ReadEnd, Log, Feed, stopVars
  <2> QED
    BY <1>0, <2>1
<1>3. CASE WaitChild \/ ProcessExit
  BY <1>3 DEF WaitChild, ProcessExit, stopVars, groupVars, Group
<1>4. CASE Abort
  <2>1. CASE code = Running
    BY <1>4, <2>1, KillEmpties DEF Abort, stopVars
  <2>2. CASE code # Running
    BY <1>4, <2>2 DEF Abort, stopVars, groupVars
  <2> QED
    BY <2>1, <2>2
<1>5. CASE AbortWait
  BY <1>5 DEF AbortWait, stopVars, groupVars, Group
<1>6. CASE StartInterrupter \/ EnterDrain \/ Join
  BY <1>6 DEF StartInterrupter, EnterDrain, Join
<1> QED
  BY <1>1, <1>2, <1>3, <1>4, <1>5, <1>6 DEF Main, Stream

\* What the processes do: none appears from nothing, none undoes a kill.
LEMMA UndisturbedGroup ==
    ASSUME TypeOK, Processes, Undisturbed, [Next]_vars, UNCHANGED <<mainVars, stopVars>>,
           reaped' = reaped,
           life' = life \/ Alive # {},
           code' \in {code, 0, 1, 0 - SIGPIPE}
    PROVE  Undisturbed'
<1> USE DEF Undisturbed, Calm
<1>1. UNCHANGED <<pc, draining, stopper, reaped>>
  BY DEF mainVars, stopVars
<1>2. code' = 0 - SIGKILL => code = 0 - SIGKILL /\ Group' = {}
  <2>1. code' = 0 - SIGKILL => code = 0 - SIGKILL
    BY DEF SIGKILL, SIGPIPE
  <2>2. code = 0 - SIGKILL => Group = {} /\ pc # "start"
    OBVIOUS
  <2> QED
    BY <2>1, <2>2, GroupStaysEmpty
<1>3. pc = "start" => life'[Leader] = "unborn"
  BY DEF Processes
<1>4. pc = "raised" => (life'[Leader] = "unborn" /\ Alive' = {}) \/ reaped
  BY DEF Alive
<1> QED
  BY <1>1, <1>2, <1>3, <1>4

LEMMA FailureStep ==
    ASSUME TypeOK, Processes, FailureInv, [Next]_vars
    PROVE  FailureInv'
<1> USE DEF FailureInv
<1>1. CASE Main
  <2>1. signals' = signals
    BY <1>1 DEF Main, Stream, Spawn, EnterStream, Read, ReadEnd, Log, Feed, WaitChild, Abort,
       AbortWait, ProcessExit, StartInterrupter, EnterDrain, Join, stopVars
  <2> QED
    BY <1>1, <2>1, UndisturbedMain
<1>2. CASE Stopper
  <2>1. signals' = signals /\ stopper # "none"
    BY <1>2 DEF Stopper, StopCheck, StopSignal, GroupGone, GroupPoll, GraceOver, StopReap,
       StopperStep
  <2> QED
    BY <2>1 DEF Undisturbed
<1>3. CASE Fault
  <2>1. signals' = signals /\ UNCHANGED groupVars
    BY <1>3 DEF Fault
  <2>2. CASE signals = 0 /\ pc = "start"
    BY <1>3, <2>1, <2>2 DEF Fault, Undisturbed, Processes, groupVars, Alive, Calm, Running, SIGKILL
  <2>3. CASE signals = 0 /\ pc # "start"
    BY <1>3, <2>1, <2>3 DEF Fault, Undisturbed, groupVars, Calm, Group
  <2> QED
    BY <2>1, <2>2, <2>3
<1>4. CASE \E s \in {SIGINT, SIGTERM} : Interrupt(s)
  <2>1. signals' = signals + 1 /\ signals \in Nat
    BY <1>4 DEF Interrupt, TypeOK
  <2> QED
    BY <2>1
<1>5. CASE \/ \E m \in Members : Work(m) \/ WriteClosed(m) \/ CloseOutput(m) \/ LeaveGroup(m)
           \/ \E p, m \in Members : Fork(p, m)
           \/ UNCHANGED vars
  <2>1. UNCHANGED <<mainVars, stopVars, reaped>>
    BY <1>5 DEF Work, Write, Exit, WriteClosed, CloseOutput, LeaveGroup, Fork, vars
  <2>2. life' = life \/ Alive # {}
    BY <1>5 DEF Work, Write, Exit, WriteClosed, CloseOutput, LeaveGroup, Fork, vars, groupVars,
       Processes, Alive, Group
  <2>3. code' \in {code, 0, 1, 0 - SIGPIPE}
    BY <1>5, Zenon DEF Work, Write, Exit, WriteClosed, CloseOutput, LeaveGroup, Fork, vars,
       groupVars, Die
  <2>4. signals' = signals
    BY <2>1 DEF stopVars
  <2> QED
    BY <2>1, <2>2, <2>3, <2>4, UndisturbedGroup
<1> QED
  BY <1>1, <1>2, <1>3, <1>4, <1>5 DEF Next

\* A call that raises for a failed opening, start or write has reaped the
\* child it started, and left nobody of a group it had to kill, whatever the
\* processes were doing.
THEOREM FailureStopsCorrect == Spec => []FailureStops
<1>1. Init => Processes /\ FailureInv
  BY DEF Init, Processes, FailureInv, Undisturbed, Calm, Alive, Running, SIGKILL
<1>2. FailureInv => FailureStops
  BY DEF FailureInv, Undisturbed, FailureStops
<1> QED
  BY <1>1, <1>2, ProcessesStep, FailureStep, TypeCorrect, PTL DEF Spec
=============================================================================
