--------------------- MODULE ReducerRefinement_proofs ---------------------
(***************************************************************************)
(* Every behaviour of Reducer is a behaviour of CompactView.               *)
(***************************************************************************)
EXTENDS ReducerRefinement, Reducer_proofs, SequenceTheorems

LedgerOf(v) == [i \in DOMAIN v |-> [record |-> v[i].record, count |-> v[i].count]]
Entry(l) == [record |-> l.record, count |-> l.count]

LEMMA LedgerAppend ==
    ASSUME NEW v \in Seq(Lines), NEW l \in Lines
    PROVE  LedgerOf(Append(v, l)) = Append(LedgerOf(v), Entry(l))
  <1> DEFINE e == [record : Records \cup {NoRecord}, count : Nat]
  <1>1. \A i \in DOMAIN v : v[i] \in Lines
    OBVIOUS
  <1>2. LedgerOf(v) \in Seq(e) /\ Entry(l) \in e /\ Len(LedgerOf(v)) = Len(v)
    <2>1. \A i \in DOMAIN v : Entry(v[i]) \in e
      BY <1>1 DEF Entry, Lines
    <2>2. Entry(l) \in e
      BY DEF Entry, Lines
    <2>3. LedgerOf(v) = [i \in 1 .. Len(v) |-> Entry(v[i])] /\ DOMAIN v = 1 .. Len(v)
          /\ Len(v) \in Nat
      BY DEF LedgerOf, Entry
    <2> HIDE DEF e
    <2>4. LedgerOf(v) \in Seq(e)
      BY <2>1, <2>3
    <2> QED  BY <2>2, <2>3, <2>4
  <1>3. DOMAIN Append(v, l) = 1 .. Len(v) + 1 /\ DOMAIN v = 1 .. Len(v) /\ Len(v) \in Nat
    OBVIOUS
  <1>4. \A i \in 1 .. Len(v) + 1 : LedgerOf(Append(v, l))[i] = Append(LedgerOf(v), Entry(l))[i]
    BY <1>2, <1>3 DEF LedgerOf, Entry
  <1>5. /\ LedgerOf(Append(v, l)) \in Seq(e) /\ Append(LedgerOf(v), Entry(l)) \in Seq(e)
        /\ Len(LedgerOf(Append(v, l))) = Len(v) + 1
        /\ Len(Append(LedgerOf(v), Entry(l))) = Len(v) + 1
    <2>1. Append(v, l) \in Seq(Lines)
      OBVIOUS
    <2>2. \A i \in DOMAIN Append(v, l) : Append(v, l)[i] \in Lines
      BY <2>1
    <2> QED  BY <1>2, <2>1, <2>2 DEF LedgerOf, Lines
  <1> HIDE DEF e
  <1> QED  BY <1>3, <1>4, <1>5, SeqEqual

LEMMA LedgerViews ==
    LineLedger = LedgerOf(view) /\ LineLedger' = LedgerOf(view')
  BY DEF LineLedger, LedgerOf

\* The abstract ledger once n pending records are counted.
SettledOf(n) == IF n = 0 THEN LedgerOf(view) ELSE Append(LedgerOf(view), Compact!CountEntry(n))

LEMMA CountingSettles ==
    ASSUME BaseInv, NEW n \in Nat, NEW at, n > 0, Counting(n, at)
    PROVE  LedgerOf(view') = SettledOf(n) /\ run'.count = 0
  <1>1. PICK l \in Lines : CountLine(l, n, at) /\ view' = Append(view, l)
    BY DEF Counting
  <1>2. Entry(l) = Compact!CountEntry(n)
    BY <1>1 DEF Entry, CountLine, Compact!CountEntry
  <1>3. LedgerOf(view') = Append(LedgerOf(view), Compact!CountEntry(n))
    BY <1>1, <1>2, LedgerAppend DEF BaseInv, TypeOK
  <1> QED  BY <1>3, NoRunFacts DEF SettledOf, Counting

LEMMA ShowingSettles ==
    ASSUME BaseInv, NEW r \in Records, Showing(r)
    PROVE  /\ LedgerOf(view') = Append(SettledOf(run.count), Compact!FullEntry(r))
           /\ run'.count = 0
  <1> DEFINE f == FullLine(r, 0)
  <1>1. f \in Lines /\ Entry(f) = Compact!FullEntry(r) /\ view \in Seq(Lines) /\ run.count \in Nat
    <2>1. ExactLine(f) /\ f = [record |-> r, count |-> 0, dots |-> 0, at |-> Len(source) + 1]
      BY FullLineFacts DEF BaseInv, TypeOK, FullLine
    <2>2. view \in Seq(Lines) /\ run.count \in Nat
      BY DEF BaseInv, TypeOK, Runs
    <2> QED  BY <2>1, <2>2 DEF ExactLine, Entry, Compact!FullEntry
  <1>2. run'.count = 0
    BY DEF Showing
  <1> HIDE DEF f
  <1>3. CASE run.count = 0 /\ view' = Append(view, f)
    BY <1>1, <1>2, <1>3, LedgerAppend DEF SettledOf
  <1>4. ASSUME NEW l \in Lines, run.count > 0, CountLine(l, run.count, Len(source)),
               view' = Append(Append(view, l), f)
        PROVE  LedgerOf(view') = Append(SettledOf(run.count), Compact!FullEntry(r))
    <2> DEFINE u == Append(view, l)
    <2>1. Entry(l) = Compact!CountEntry(run.count)
      BY <1>4 DEF Entry, CountLine, Compact!CountEntry
    <2>2. LedgerOf(u) = Append(LedgerOf(view), Compact!CountEntry(run.count)) /\ u \in Seq(Lines)
      BY <1>1, <2>1, LedgerAppend
    <2>3. LedgerOf(u) = SettledOf(run.count) /\ view' = Append(u, f)
      BY <1>1, <1>4, <2>2 DEF SettledOf
    <2> HIDE DEF u
    <2> QED  BY <1>1, <2>2, <2>3, LedgerAppend
  <1> QED  BY <1>2, <1>3, <1>4 DEF Showing, f

LEMMA HiddenExemplified ==
    ASSUME BaseInv, NEW r \in Records, NEW k, Exemplified(view, k, r)
    PROVE  Compact!Exemplified(r)
  <1>1. PICK i \in DOMAIN view : view[i].record # NoRecord /\ Repeats(view[i].record, r)
    BY DEF Exemplified
  <1>2. view[i].record \in Records
    <2>1. view[i] \in Lines
      BY DEF BaseInv, TypeOK
    <2> QED  BY <1>1, <2>1 DEF Lines
  <1>3. i \in DOMAIN LineLedger /\ LineLedger[i].record = view[i].record
    BY DEF LineLedger
  <1>4. <<LineLedger[i].record, r>> \in SimilarPairs
    BY <1>1, <1>2, <1>3 DEF SimilarPairs
  <1> QED  BY <1>1, <1>3, <1>4 DEF Compact!Exemplified

RefineInv == GrowInv /\ IndexInv /\ (finished => run.count = 0)

LEMMA RefineStep ==
    ASSUME RefineInv, [Next]_vars
    PROVE  [Compact!AbstractNext]_Compact!abstractVars
  <1>1. GrowInv /\ BaseInv /\ IndexInv /\ run.count \in Nat /\ finished \in BOOLEAN
    BY DEF RefineInv, GrowInv, BaseInv, TypeOK, Runs
  <1>2. /\ LineLedger = LedgerOf(view) /\ LineLedger' = LedgerOf(view')
        /\ \A n : Compact!Settled(n) = SettledOf(n)
    BY LedgerViews DEF Compact!Settled, SettledOf
  <1>3. ASSUME NEW r \in Records, Process(r)
        PROVE  Compact!AbstractNext
    <2>1. /\ source' = Append(source, r) /\ ~finished /\ ~finished' /\ finished' = finished
          /\ \/ Hiding /\ (ProcessFastMatch(r) \/ ProcessFamiliar(r))
             \/ Showing(r)
      <3>1. BaseInv'
        BY <1>1, <1>3, ProcessStep
      <3> QED  BY <1>1, <1>3, <3>1, ProcessStep DEF BaseInv, TypeOK
    <2>2. CASE Showing(r)
      <3>1. LineLedger' = Append(Compact!Settled(run.count), Compact!FullEntry(r)) /\ run'.count = 0
        BY <1>1, <1>2, <2>2, ShowingSettles
      <3>2. Compact!Show(r)
        BY <2>1, <3>1 DEF Compact!Show
      <3> QED  BY <3>2 DEF Compact!AbstractNext
    <2>3. CASE Hiding /\ (ProcessFastMatch(r) \/ ProcessFamiliar(r))
      <3>1. Compact!Exemplified(r)
        BY <1>1, <2>3, HiddenRepeats, HiddenExemplified
      <3>2. \/ run'.count = run.count + 1 /\ LineLedger' = LineLedger
            \/ run'.count = 0 /\ LineLedger' = Compact!Settled(run.count + 1)
        <4>1. CASE view' = view /\ run'.count = run.count + 1
          BY <1>2, <4>1
        <4>2. CASE Counting(run.count + 1, Len(source) + 1)
          <5>1. run.count + 1 \in Nat /\ run.count + 1 > 0
            BY <1>1
          <5> QED  BY <1>1, <1>2, <4>2, <5>1, CountingSettles
        <4> QED  BY <2>3, <4>1, <4>2 DEF Hiding
      <3>3. Compact!Hide(r)
        BY <2>1, <3>1, <3>2 DEF Compact!Hide
      <3> QED  BY <3>3 DEF Compact!AbstractNext
    <2> QED  BY <2>1, <2>2, <2>3
  <1>4. CASE Tick \/ Finish \/ Advance \/ \E t \in Timers : TimerStep(t)
    <2>1. /\ source' = source
          /\ \/ view' = view /\ run'.count = run.count
             \/ run.count > 0 /\ Counting(run.count, Len(source))
      BY <1>1, <1>4, OtherStep
    <2>2. CASE Finish
      <3>1. finished' = TRUE /\ ~finished /\ run'.count = 0
        BY <2>2, NoRunFacts DEF Finish, CloseRun
      <3>2. LineLedger' = Compact!Settled(run.count)
        <4>1. CASE run.count = 0
          BY <1>2, <2>1, <4>1 DEF SettledOf
        <4>2. CASE run.count # 0
          <5>1. Counting(run.count, Len(source))
            BY <2>1, <3>1, <4>2
          <5> QED  BY <1>1, <1>2, <4>2, <5>1, CountingSettles
        <4> QED  BY <4>1, <4>2
      <3>3. Compact!Stop
        BY <2>1, <3>1, <3>2 DEF Compact!Stop
      <3> QED  BY <3>3 DEF Compact!AbstractNext
    <2>3. CASE ~Finish
      <3>1. finished' = finished
        BY <1>4, <2>3 DEF Tick, Advance, TimerStep, Expire, OnTimer
      <3>2. CASE view' = view /\ run'.count = run.count
        BY <1>2, <2>1, <3>1, <3>2 DEF Compact!abstractVars
      <3>3. CASE run.count > 0 /\ Counting(run.count, Len(source))
        <4>1. ~finished /\ LineLedger' = Compact!Settled(run.count) /\ run'.count = 0
          BY <1>1, <1>2, <3>3, CountingSettles DEF RefineInv
        <4>2. Compact!Close
          BY <2>1, <3>1, <4>1 DEF Compact!Close
        <4> QED  BY <4>2 DEF Compact!AbstractNext
      <3> QED  BY <2>1, <3>2, <3>3
    <2> QED  BY <2>2, <2>3
  <1>5. CASE UNCHANGED vars
    BY <1>2, <1>5 DEF vars, Compact!abstractVars
  <1> QED  BY <1>3, <1>4, <1>5 DEF Next

\* Reducer implements the promise of CompactView, for every set of records,
\* every index size and both modes, whatever the timer threads do.
THEOREM ReducerImplementsCompactView == Spec => ImplementsCompactView
  <1>1. Init => RefineInv /\ Compact!AbstractInit
    <2> SUFFICES ASSUME Init PROVE RefineInv /\ Compact!AbstractInit
      OBVIOUS
    <2>1. view = <<>> /\ source = <<>> /\ run.count = 0 /\ finished = FALSE
      BY NoRunFacts DEF Init
    <2>2. LineLedger = <<>>
      BY <2>1 DEF LineLedger
    <2> QED  BY <2>1, <2>2, InitGrow, InitIndex DEF RefineInv, Compact!AbstractInit
  <1>2. RefineInv /\ [Next]_vars => RefineInv'
    BY GrowStep, IndexStep, FinishedStep DEF RefineInv, GrowInv
  <1>3. RefineInv /\ [Next]_vars => [Compact!AbstractNext]_Compact!abstractVars
    BY RefineStep
  <1> QED  BY <1>1, <1>2, <1>3, PTL DEF Spec, ImplementsCompactView, Compact!AbstractSpec
=============================================================================
