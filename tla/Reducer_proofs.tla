-------------------------- MODULE Reducer_proofs --------------------------
(***************************************************************************)
(* Proofs about Reducer, for every set of records and patterns, every      *)
(* limit and interval, with and without interleaving and live timers.      *)
(***************************************************************************)
EXTENDS Reducer, TLAPS

USE RecordAssumption, SizeAssumption, ModeAssumption

-----------------------------------------------------------------------------
(* Runs, dots and lines.                                                   *)

LEMMA DivFacts ==
    ASSUME NEW n \in Nat, NEW d \in Nat \ {0}
    PROVE  n \div d \in Nat /\ 0 \div d = 0 /\ n \div d <= (n + 1) \div d
  OBVIOUS

\* The part of the state the output and the timers are made of.
OutputOK ==
    /\ view \in Seq(Lines) /\ column \in Nat /\ run \in Runs
    /\ timer \in Timers \cup {NoTimer}
    /\ wait \in [Timers -> TimerStates]
    /\ DotsExact

\* A run that continues the one in the state.
Continues(rn) ==
    /\ rn \in Runs
    /\ run.dots <= rn.dots
    /\ rn.dots <= rn.count \div DotEvery

LEMMA CapFacts == TimerDelay \in Nat /\ AgeCap \in Nat /\ QuietCap \in Nat
  BY DEF TimerDelay, AgeCap, QuietCap

LEMMA WritePendingDotsFacts ==
    ASSUME NEW rn, Continues(rn), run.dots \in Nat, NEW force \in BOOLEAN
    PROVE  LET w == WritePendingDots(rn, force)
           IN  /\ Continues(w)
               /\ w.count = rn.count /\ w.age = rn.age
               /\ force => w.dots = rn.count \div DotEvery
  <1> DEFINE due == rn.count \div DotEvery
             w == WritePendingDots(rn, force)
  <1>1. due \in Nat /\ rn.dots \in Nat /\ rn.quiet \in 0 .. QuietCap
    BY DivFacts DEF Continues, Runs
  <1>2. CASE w = [rn EXCEPT !.dots = due, !.quiet = 0] /\ due > rn.dots
    <2>1. w \in Runs
      <3>1. rn \in Runs /\ 0 \in 0 .. QuietCap
        BY CapFacts DEF Continues
      <3> QED  BY <1>1, <1>2, <3>1, Zenon DEF Runs
    <2>2. w.count = rn.count /\ w.age = rn.age /\ w.dots = due
      BY <1>2 DEF Continues, Runs
    <2> QED  BY <1>1, <1>2, <2>1, <2>2 DEF Continues
  <1>3. CASE w = rn /\ ~(due > rn.dots /\ force)
    BY <1>1, <1>3 DEF Continues
  <1>4. \/ w = [rn EXCEPT !.dots = due, !.quiet = 0] /\ due > rn.dots
        \/ w = rn /\ ~(due > rn.dots /\ force)
    <2> DEFINE Do == /\ due > rn.dots
                     /\ force \/ DotsDue(rn) >= DotBatchSize \/ rn.quiet >= DotFlushInterval
    <2>1. CASE Do
      BY <2>1 DEF WritePendingDots
    <2>2. CASE ~Do
      BY <2>2 DEF WritePendingDots
    <2> QED  BY <2>1, <2>2
  <1> QED  BY <1>2, <1>3, <1>4

LEMMA CountedFacts ==
    ASSUME OutputOK
    PROVE  Continues(Counted) /\ Counted.count = run.count + 1
  <1>1. run.count \in Nat /\ run.dots \in Nat /\ run \in Runs
        /\ run.dots <= run.count \div DotEvery
    BY DEF OutputOK, DotsExact, Runs
  <1>2. /\ 0 \in 0 .. AgeCap /\ 0 \in 0 .. QuietCap
        /\ run.count \div DotEvery <= (run.count + 1) \div DotEvery
        /\ (run.count + 1) \div DotEvery \in Nat /\ 0 \div DotEvery = 0
    BY <1>1, CapFacts, DivFacts
  <1>3. NoRun \in Runs
    BY <1>2 DEF NoRun, Runs
  <1>4. CASE run.count = 0
    <2>1. Counted = [NoRun EXCEPT !.count = 1] /\ run.dots = 0
      BY <1>1, <1>2, <1>4 DEF Counted
    <2>2. Counted \in Runs /\ Counted.count = 1 /\ Counted.dots = 0
      BY <1>3, <2>1 DEF Runs, NoRun
    <2> QED  BY <1>1, <1>2, <1>4, <2>1, <2>2 DEF Continues
  <1>5. CASE run.count # 0
    <2>1. Counted = [run EXCEPT !.count = run.count + 1]
      BY <1>5 DEF Counted
    <2>2. Counted \in Runs /\ Counted.count = run.count + 1 /\ Counted.dots = run.dots
      BY <1>1, <2>1 DEF Runs
    <2> QED  BY <1>1, <1>2, <2>2 DEF Continues
  <1> QED  BY <1>4, <1>5

LEMMA SummaryLineFacts ==
    ASSUME OutputOK, NEW rn, Continues(rn), NEW at \in Nat
    PROVE  /\ SummaryLine(rn, at) \in Lines
           /\ SummaryLine(rn, at).record = NoRecord
           /\ SummaryLine(rn, at).count = rn.count
           /\ SummaryLine(rn, at).dots = rn.count \div DotEvery
           /\ SummaryLine(rn, at).at = at
  <1> DEFINE w == WritePendingDots(rn, TRUE)
  <1>1. Continues(w) /\ w.dots = rn.count \div DotEvery
    <2>1. run.dots \in Nat
      BY DEF OutputOK, Runs
    <2> QED  BY <2>1, WritePendingDotsFacts
  <1>2. Written(w) = rn.count \div DotEvery
    <2>1. column = run.dots /\ run.dots \in Nat /\ rn.count \in Nat
      BY DEF OutputOK, DotsExact, Runs, Continues
    <2>2. rn.count \div DotEvery \in Nat
      BY <2>1, DivFacts
    <2>3. Written(w) = column + (w.dots - run.dots)
      BY DEF Written
    <2> HIDE DEF w
    <2> QED  BY <1>1, <2>1, <2>2, <2>3
  <1>3. rn.count \in Nat /\ rn.count \div DotEvery \in Nat
    BY DivFacts DEF Continues, Runs
  <1>4. SummaryLine(rn, at) =
          [record |-> NoRecord, count |-> rn.count, dots |-> rn.count \div DotEvery, at |-> at]
    BY <1>2 DEF SummaryLine
  <1> QED  BY <1>3, <1>4 DEF Lines

-----------------------------------------------------------------------------
(* What the closing, counting and printing operators do to the output.     *)

ExactLine(l) == l \in Lines /\ l.dots = l.count \div DotEvery
CountLine(l, n, at) == ExactLine(l) /\ l.record = NoRecord /\ l.count = n /\ l.at = at
Waits == [Timers -> TimerStates]

ExactView(v) == v \in Seq(Lines) /\ \A i \in DOMAIN v : v[i].dots = v[i].count \div DotEvery

\* The output gains the count of n records, and the run is over.
Counting(n, at) ==
    /\ \E l \in Lines : CountLine(l, n, at) /\ view' = Append(view, l)
    /\ run' = NoRun

\* The output gains the pending count, if any, and then r.
Showing(r) ==
    /\ \/ run.count = 0 /\ view' = Append(view, FullLine(r, 0))
       \/ /\ run.count > 0
          /\ \E l \in Lines : /\ CountLine(l, run.count, Len(source))
                              /\ view' = Append(Append(view, l), FullLine(r, 0))
    /\ run'.count = 0

\* A record is hidden: it joins the run, and may close it.
Hiding ==
    \/ view' = view /\ run'.count = run.count + 1
    \/ Counting(run.count + 1, Len(source) + 1)

LEMMA AppendExact ==
    ASSUME NEW v, ExactView(v), NEW l, ExactLine(l)
    PROVE  ExactView(Append(v, l))
  <1> DEFINE a == Append(v, l)
  <1>1. a \in Seq(Lines) /\ DOMAIN a = 1 .. Len(v) + 1 /\ DOMAIN v = 1 .. Len(v)
    BY DEF ExactView, ExactLine
  <1>2. a[Len(v) + 1] = l /\ \A i \in 1 .. Len(v) : a[i] = v[i]
    BY DEF ExactView, ExactLine
  <1>3. Len(v) \in Nat
    BY DEF ExactView
  <1>4. ASSUME NEW i \in DOMAIN a PROVE a[i].dots = a[i].count \div DotEvery
    <2>1. CASE i = Len(v) + 1
      BY <1>2, <2>1, Zenon DEF ExactLine
    <2>2. CASE i \in 1 .. Len(v)
      <3>1. a[i] = v[i] /\ i \in DOMAIN v
        BY <1>1, <1>2, <2>2
      <3> QED  BY <3>1, Zenon DEF ExactView
    <2> QED  BY <1>1, <1>3, <2>1, <2>2
  <1> QED  BY <1>1, <1>4 DEF ExactView

LEMMA NoRunFacts == NoRun \in Runs /\ NoRun.count = 0 /\ NoRun.dots = 0
  <1>1. 0 \in 0 .. AgeCap /\ 0 \in 0 .. QuietCap
    BY CapFacts
  <1> QED  BY <1>1 DEF NoRun, Runs

LEMMA StagesType == Idle \in TimerStates /\ Armed \in TimerStates /\ Firing \in TimerStates
  <1>1. 0 \in 0 .. TimerDelay /\ TimerDelay \in 0 .. TimerDelay
    BY CapFacts
  <1> QED  BY <1>1 DEF Idle, Armed, Firing, TimerStates

LEMMA CancelTimerType ==
    ASSUME NEW ref \in Timers \cup {NoTimer}, NEW w \in Waits
    PROVE  CancelTimer(ref, w) \in Waits
  BY StagesType DEF CancelTimer, Waits

LEMMA FullLineFacts ==
    ASSUME source \in Seq(Records), NEW r \in Records
    PROVE  ExactLine(FullLine(r, 0)) /\ FullLine(r, 0).at = Len(source) + 1
           /\ FullLine(r, 0).record = r
  <1>1. Len(source) + 1 \in Nat /\ 0 = 0 \div DotEvery
    BY DivFacts
  <1> QED  BY <1>1 DEF FullLine, ExactLine, Lines

LEMMA ExactAfter ==
    ASSUME ExactView(view'), column' = 0, run' = NoRun,
           timer' \in Timers \cup {NoTimer}, wait' \in Waits
    PROVE  OutputOK'
  <1>1. DotsExact'
    <2>1. run'.dots = 0 /\ run'.count \div DotEvery = 0
      BY NoRunFacts, DivFacts
    <2> QED  BY <2>1 DEF DotsExact, ExactView
  <1> QED  BY <1>1, NoRunFacts DEF OutputOK, ExactView, Waits

LEMMA CloseRunFacts ==
    ASSUME OutputOK, NEW rn, Continues(rn), NEW at \in Nat,
           NEW ref \in Timers \cup {NoTimer}, NEW w \in Waits,
           CloseRun(rn, at, ref, w)
    PROVE  OutputOK' /\ Counting(rn.count, at)
  <1> DEFINE l == SummaryLine(rn, at)
  <1>1. CountLine(l, rn.count, at) /\ l \in Lines
    BY SummaryLineFacts DEF CountLine, ExactLine
  <1>2. view' = Append(view, l) /\ column' = 0 /\ run' = NoRun
        /\ timer' = NoTimer /\ wait' = CancelTimer(ref, w)
    BY DEF CloseRun
  <1>3. ExactView(view')
    <2>1. ExactView(view) /\ ExactLine(l)
      BY <1>1 DEF CountLine, OutputOK, DotsExact, ExactView
    <2> HIDE DEF l
    <2> QED  BY <1>2, <2>1, AppendExact
  <1>4. OutputOK'
    BY <1>2, <1>3, CancelTimerType, ExactAfter
  <1> QED  BY <1>1, <1>2, <1>4 DEF Counting

LEMMA WriteVisibleFacts ==
    ASSUME OutputOK, source \in Seq(Records), NEW r \in Records, WriteVisible(r)
    PROVE  OutputOK' /\ Showing(r)
  <1> DEFINE f == FullLine(r, 0)
  <1>1. ExactLine(f) /\ ExactView(view)
    BY FullLineFacts DEF OutputOK, DotsExact, ExactView
  <1>2. CASE run.count = 0
    <2>1. run.dots = 0 /\ column = 0
      <3>1. run.dots \in Nat /\ run.dots <= 0 \div DotEvery /\ column = run.dots
        BY <1>2 DEF OutputOK, DotsExact, Runs
      <3> QED  BY <3>1, DivFacts
    <2>2. view' = Append(view, f) /\ UNCHANGED <<run, timer, wait>> /\ column' = 0
      BY <1>2, <2>1 DEF WriteVisible
    <2>3. ExactView(view')
      BY <1>1, <2>2, AppendExact
    <2>4. DotsExact'
      BY <2>1, <2>2, <2>3 DEF DotsExact, OutputOK, ExactView
    <2>5. OutputOK'
      BY <2>2, <2>3, <2>4 DEF OutputOK, ExactView
    <2> QED  BY <1>2, <2>2, <2>5 DEF Showing
  <1>3. CASE run.count # 0
    <2> DEFINE l == SummaryLine(run, Len(source))
    <2>1. Continues(run) /\ Len(source) \in Nat /\ run.count > 0
      BY <1>3 DEF OutputOK, DotsExact, Continues, Runs
    <2>2. CountLine(l, run.count, Len(source)) /\ l \in Lines
      BY <2>1, SummaryLineFacts DEF CountLine, ExactLine
    <2>3. view' = Append(Append(view, l), f) /\ column' = 0 /\ run' = NoRun
          /\ timer' = NoTimer /\ wait' = CancelTimer(timer, wait)
      BY <1>3 DEF WriteVisible
    <2>4. ExactView(Append(view, l))
      BY <1>1, <2>2, AppendExact DEF CountLine
    <2>5. ExactView(view')
      BY <1>1, <2>3, <2>4, AppendExact
    <2>6. timer \in Timers \cup {NoTimer} /\ wait \in Waits
      BY DEF OutputOK, Waits
    <2>7. OutputOK'
      BY <2>3, <2>5, <2>6, CancelTimerType, ExactAfter
    <2> QED  BY <2>1, <2>2, <2>3, <2>7, NoRunFacts DEF Showing
  <1> QED  BY <1>2, <1>3

LEMMA ScheduleTimerType ==
    ASSUME NEW ref \in Timers \cup {NoTimer}, NEW w \in Waits, ScheduleTimer(ref, w)
    PROVE  timer' \in Timers \cup {NoTimer} /\ wait' \in Waits
  BY StagesType DEF ScheduleTimer, Waits

\* A run that goes on without a line of output keeps the dots exact.
LEMMA ContinuedFacts ==
    ASSUME OutputOK, NEW rn, Continues(rn), run' = rn, column' = Written(rn), view' = view,
           timer' \in Timers \cup {NoTimer}, wait' \in Waits
    PROVE  OutputOK'
  <1>1. run.dots \in Nat /\ rn.dots \in Nat /\ column = run.dots /\ rn \in Runs
    BY DEF OutputOK, DotsExact, Continues, Runs
  <1>2. column' = rn.dots
    BY <1>1 DEF Written
  <1>3. DotsExact'
    BY <1>2 DEF DotsExact, OutputOK, Continues
  <1> QED  BY <1>1, <1>2, <1>3 DEF OutputOK, Waits

LEMMA SuppressFacts ==
    ASSUME OutputOK, source \in Seq(Records), Suppress
    PROVE  OutputOK' /\ Hiding
  <1> DEFINE counted == WritePendingDots(Counted, FALSE)
  <1>1. Continues(counted) /\ counted.count = run.count + 1
    <2>1. run.dots \in Nat
      BY DEF OutputOK, Runs
    <2> QED  BY <2>1, CountedFacts, WritePendingDotsFacts
  <1>2. timer \in Timers \cup {NoTimer} /\ wait \in Waits /\ Len(source) + 1 \in Nat
    BY DEF OutputOK, Waits
  <1>3. CASE IntervalOver(counted)
    <2>1. CloseRun(counted, Len(source) + 1, timer, wait)
      BY <1>3 DEF Suppress
    <2> HIDE DEF counted
    <2>2. OutputOK' /\ Counting(counted.count, Len(source) + 1)
      BY <1>1, <1>2, <2>1, CloseRunFacts
    <2> QED  BY <1>1, <2>2 DEF Hiding
  <1>4. CASE ~IntervalOver(counted)
    <2>1. run' = counted /\ column' = Written(counted) /\ view' = view
          /\ ScheduleTimer(timer, wait)
      BY <1>4 DEF Suppress
    <2>2. timer' \in Timers \cup {NoTimer} /\ wait' \in Waits
      BY <1>2, <2>1, ScheduleTimerType
    <2> QED  BY <1>1, <2>1, <2>2, ContinuedFacts DEF Hiding
  <1> QED  BY <1>3, <1>4

LEMMA TickLockedFacts ==
    ASSUME OutputOK, source \in Seq(Records), NEW ref \in Timers \cup {NoTimer},
           NEW w \in Waits, NEW rearm \in BOOLEAN, TickLocked(ref, w, rearm)
    PROVE  /\ OutputOK'
           /\ \/ view' = view /\ run'.count = run.count
              \/ run.count > 0 /\ Counting(run.count, Len(source))
  <1> DEFINE flushed == WritePendingDots(run, FALSE)
  <1>1. Continues(flushed) /\ flushed.count = run.count
    <2>1. run.dots \in Nat /\ Continues(run)
      BY DEF OutputOK, DotsExact, Continues, Runs
    <2> QED  BY <2>1, WritePendingDotsFacts
  <1>2. Len(source) \in Nat /\ run.count \in Nat
    BY DEF OutputOK, Runs
  <1>3. CASE run.count = 0
    <2>1. UNCHANGED <<run, view, column>> /\ timer' = ref /\ wait' = w
      BY <1>3 DEF TickLocked
    <2>2. OutputOK'
      BY <2>1 DEF OutputOK, DotsExact, Waits
    <2> QED  BY <2>1, <2>2
  <1>4. CASE run.count # 0 /\ IntervalOver(flushed)
    <2>1. CloseRun(flushed, Len(source), ref, w)
      BY <1>4 DEF TickLocked
    <2> HIDE DEF flushed
    <2>2. OutputOK' /\ Counting(flushed.count, Len(source))
      BY <1>1, <1>2, <2>1, CloseRunFacts
    <2> QED  BY <1>1, <1>2, <1>4, <2>2
  <1>5. CASE run.count # 0 /\ ~IntervalOver(flushed)
    <2>1. run' = flushed /\ column' = Written(flushed) /\ view' = view
          /\ IF rearm THEN ScheduleTimer(ref, w) ELSE timer' = ref /\ wait' = w
      BY <1>5 DEF TickLocked
    <2>2. timer' \in Timers \cup {NoTimer} /\ wait' \in Waits
      BY <2>1, ScheduleTimerType
    <2> QED  BY <1>1, <2>1, <2>2, ContinuedFacts
  <1> QED  BY <1>3, <1>4, <1>5

-----------------------------------------------------------------------------
(* Type correctness and the dots.                                          *)

IndexOK ==
    /\ patterns \in Seq(Patterns)
    /\ recent \in Patterns \cup {NoPattern}
    /\ matcher \in Patterns \cup {NoPattern}
    /\ diagnosticOpen \in BOOLEAN

BaseInv == TypeOK /\ DotsExact

LEMMA BaseParts ==
    BaseInv <=> /\ source \in Seq(Records) /\ finished \in BOOLEAN
                /\ IndexOK /\ OutputOK
  BY DEF BaseInv, TypeOK, IndexOK, OutputOK

LEMMA BaseNext ==
    ASSUME source' \in Seq(Records), finished' \in BOOLEAN, IndexOK', OutputOK'
    PROVE  BaseInv'
  BY DEF BaseInv, TypeOK, IndexOK, OutputOK

\* What a step does to the input and to the output.
Outcome ==
    \/ source' = source /\ view' = view /\ run'.count = run.count
    \/ source' = source /\ run.count > 0 /\ Counting(run.count, Len(source))
    \/ \E r \in Records : source' = Append(source, r) /\ (Hiding \/ Showing(r))

LEMMA ProcessStep ==
    ASSUME BaseInv, NEW r \in Records, Process(r)
    PROVE  /\ BaseInv' /\ source' = Append(source, r) /\ ~finished /\ ~finished'
           /\ \/ Hiding /\ (ProcessFastMatch(r) \/ ProcessFamiliar(r))
              \/ Showing(r)
  <1>1. /\ source \in Seq(Records) /\ finished \in BOOLEAN /\ IndexOK /\ OutputOK
    BY BaseParts
  <1>2. Signature[r] \in Patterns \cup {NoPattern} /\ LoadedMatcher \in Patterns \cup {NoPattern}
    BY <1>1 DEF IndexOK, LoadedMatcher
  <1>3. Take(r) => /\ source' = Append(source, r) /\ source' \in Seq(Records)
                   /\ finished' \in BOOLEAN /\ ~finished /\ ~finished'
    BY <1>1 DEF Take
  <1>4. CASE ProcessDiagnostic(r)
    <2>1. OutputOK' /\ Showing(r)
      BY <1>1, <1>4, WriteVisibleFacts DEF ProcessDiagnostic
    <2>2. DiagnosticAfter(r) \in BOOLEAN
      BY <1>1 DEF DiagnosticAfter, IndexOK
    <2>3. IndexOK'
      BY <1>1, <1>4, <2>2 DEF ProcessDiagnostic, IndexOK
    <2> QED  BY <1>3, <1>4, <2>1, <2>3, BaseNext DEF ProcessDiagnostic
  <1>5. CASE ProcessFastMatch(r)
    <2>1. OutputOK' /\ Hiding
      BY <1>1, <1>5, SuppressFacts DEF ProcessFastMatch
    <2>2. IndexOK'
      BY <1>1, <1>2, <1>5 DEF ProcessFastMatch, Ordinary, IndexOK
    <2> QED  BY <1>3, <1>5, <2>1, <2>2, BaseNext DEF ProcessFastMatch, Ordinary
  <1>6. CASE ProcessFamiliar(r)
    <2>1. OutputOK' /\ Hiding
      BY <1>1, <1>6, SuppressFacts DEF ProcessFamiliar
    <2>2. IndexOK'
      BY <1>1, <1>2, <1>6 DEF ProcessFamiliar, Ordinary, IndexOK
    <2> QED  BY <1>3, <1>6, <2>1, <2>2, BaseNext DEF ProcessFamiliar, Ordinary
  <1>7. CASE ProcessReturning(r)
    <2>1. OutputOK' /\ Showing(r)
      BY <1>1, <1>7, WriteVisibleFacts DEF ProcessReturning
    <2>2. IndexOK'
      BY <1>1, <1>2, <1>7 DEF ProcessReturning, Ordinary, IndexOK
    <2> QED  BY <1>3, <1>7, <2>1, <2>2, BaseNext DEF ProcessReturning, Ordinary
  <1>8. CASE ProcessNew(r)
    <2>1. OutputOK' /\ Showing(r)
      BY <1>1, <1>8, WriteVisibleFacts DEF ProcessNew
    <2>2. patterns' \in Seq(Patterns)
      BY <1>1, <1>2, <1>8 DEF ProcessNew, IndexOK, Remember
    <2>3. IndexOK'
      BY <1>1, <1>2, <1>8, <2>2 DEF ProcessNew, Ordinary, IndexOK
    <2> QED  BY <1>3, <1>8, <2>1, <2>3, BaseNext DEF ProcessNew, Ordinary
  <1> QED  BY <1>4, <1>5, <1>6, <1>7, <1>8 DEF Process

LEMMA TimersStay ==
    ASSUME OutputOK, NEW t \in Timers, NEW x \in TimerStates
    PROVE  [wait EXCEPT ![t] = x] \in Waits
  BY DEF OutputOK, Waits

LEMMA ClockStep ==
    ASSUME OutputOK, Advance
    PROVE  OutputOK' /\ run'.count = run.count
  <1>1. \A n, cap : cap \in Nat /\ n \in 0 .. cap => Older(n, cap) \in 0 .. cap
    BY DEF Older
  <1>2. run \in Runs /\ view' = view /\ column' = column /\ timer' = timer
    BY DEF OutputOK, Advance
  <1>4. run' \in Runs /\ run'.count = run.count /\ run'.dots = run.dots
    <2>1. CASE run.count = 0
      BY <1>2, <2>1 DEF Advance
    <2>2. CASE run.count # 0
      <3> DEFINE a == Older(run.age, AgeCap)
                 q == Older(run.quiet, QuietCap)
      <3>1. a \in 0 .. AgeCap /\ q \in 0 .. QuietCap
        BY <1>1, <1>2, CapFacts DEF Runs
      <3>2. run' = [run EXCEPT !.age = a, !.quiet = q]
        BY <2>2 DEF Advance
      <3> HIDE DEF a, q
      <3>3. run' \in Runs
        BY <1>2, <3>1, <3>2, Zenon DEF Runs
      <3> QED  BY <1>2, <3>2, <3>3 DEF Runs
    <2> QED  BY <2>1, <2>2
  <1>5. wait' \in Waits
    <2> SUFFICES ASSUME NEW t \in Timers
                 PROVE  (IF wait[t].left > 0 THEN [wait[t] EXCEPT !.left = @ - 1]
                         ELSE wait[t]) \in TimerStates
      BY DEF Advance, Waits
    <2>1. wait[t] \in TimerStates
      BY DEF OutputOK
    <2>2. CASE wait[t].left > 0
      <3>1. wait[t].left - 1 \in 0 .. TimerDelay
        BY <2>1, <2>2, CapFacts DEF TimerStates
      <3> QED  BY <2>1, <2>2, <3>1 DEF TimerStates
    <2>3. CASE ~(wait[t].left > 0)
      BY <2>1, <2>3
    <2> QED  BY <2>2, <2>3
  <1>6. DotsExact'
    BY <1>2, <1>4 DEF OutputOK, DotsExact
  <1> QED  BY <1>2, <1>4, <1>5, <1>6 DEF OutputOK, Waits

LEMMA OtherStep ==
    ASSUME BaseInv, Tick \/ Finish \/ Advance \/ \E t \in Timers : TimerStep(t)
    PROVE  /\ BaseInv' /\ source' = source
           /\ \/ view' = view /\ run'.count = run.count
              \/ run.count > 0 /\ Counting(run.count, Len(source))
  <1>1. /\ source \in Seq(Records) /\ finished \in BOOLEAN /\ IndexOK /\ OutputOK
        /\ timer \in Timers \cup {NoTimer} /\ wait \in Waits
        /\ run \in Runs /\ run.count \in Nat /\ Len(source) \in Nat
    BY BaseParts DEF OutputOK, Waits, Runs
  <1>2. (UNCHANGED indexVars) => IndexOK'
    BY <1>1 DEF IndexOK, indexVars
  <1>3. CASE Tick
    <2>1. TickLocked(timer, wait, FALSE) /\ UNCHANGED <<source, finished>> /\ UNCHANGED indexVars
      BY <1>3 DEF Tick
    <2>2. /\ OutputOK'
          /\ \/ view' = view /\ run'.count = run.count
             \/ run.count > 0 /\ Counting(run.count, Len(source))
      BY <1>1, <2>1, TickLockedFacts
    <2> QED  BY <1>1, <1>2, <2>1, <2>2, BaseNext
  <1>4. CASE Finish
    <2>1. finished' = TRUE /\ source' = source /\ IndexOK'
      BY <1>2, <1>4 DEF Finish
    <2>2. CASE run.count = 0
      <3>1. UNCHANGED <<run, view, column>> /\ timer' = NoTimer /\ wait' = CancelTimer(timer, wait)
        BY <1>4, <2>2 DEF Finish
      <3>2. DotsExact'
        BY <1>1, <3>1 DEF OutputOK, DotsExact
      <3>3. OutputOK'
        BY <1>1, <3>1, <3>2, CancelTimerType DEF OutputOK, Waits
      <3> QED  BY <1>1, <2>1, <3>1, <3>3, BaseNext
    <2>3. CASE run.count # 0
      <3>1. CloseRun(run, Len(source), timer, wait) /\ Continues(run)
        BY <1>1, <1>4, <2>3 DEF Finish, OutputOK, DotsExact, Continues, Runs
      <3>2. OutputOK' /\ Counting(run.count, Len(source))
        BY <1>1, <3>1, CloseRunFacts
      <3> QED  BY <1>1, <2>1, <2>3, <3>2, BaseNext
    <2> QED  BY <2>2, <2>3
  <1>5. CASE Advance
    <2>1. UNCHANGED <<source, view, finished>> /\ IndexOK'
      BY <1>2, <1>5 DEF Advance
    <2> QED  BY <1>1, <1>5, <2>1, ClockStep, BaseNext
  <1>6. ASSUME NEW t \in Timers, Expire(t)
        PROVE  BaseInv' /\ source' = source /\ view' = view /\ run'.count = run.count
    <2>1. /\ UNCHANGED <<source, view, column, run, timer, finished>> /\ IndexOK'
          /\ wait' = [wait EXCEPT ![t] = Firing]
      BY <1>2, <1>6 DEF Expire
    <2>2. DotsExact' /\ wait' \in Waits
      BY <1>1, <2>1, TimersStay, StagesType DEF OutputOK, DotsExact
    <2>3. OutputOK'
      BY <1>1, <2>1, <2>2 DEF OutputOK, Waits
    <2> QED  BY <1>1, <2>1, <2>3, BaseNext
  <1>7. ASSUME NEW t \in Timers, OnTimer(t)
        PROVE  /\ BaseInv' /\ source' = source
               /\ \/ view' = view /\ run'.count = run.count
                  \/ run.count > 0 /\ Counting(run.count, Len(source))
    <2> DEFINE w == [wait EXCEPT ![t] = Idle]
    <2>1. w \in Waits
      BY <1>1, TimersStay, StagesType
    <2>2. UNCHANGED <<source, finished>> /\ IndexOK'
      BY <1>2, <1>7 DEF OnTimer
    <2>3. CASE finished
      <3>1. UNCHANGED <<run, view, column>> /\ timer' = NoTimer /\ wait' = w
        BY <1>7, <2>3 DEF OnTimer
      <3>2. DotsExact'
        BY <1>1, <3>1 DEF OutputOK, DotsExact
      <3>3. OutputOK'
        BY <1>1, <2>1, <3>1, <3>2 DEF OutputOK, Waits
      <3> QED  BY <1>1, <2>2, <3>1, <3>3, BaseNext
    <2>4. CASE ~finished
      <3>1. TickLocked(NoTimer, w, TRUE)
        BY <1>7, <2>4 DEF OnTimer
      <3> HIDE DEF w
      <3>2. /\ OutputOK'
            /\ \/ view' = view /\ run'.count = run.count
               \/ run.count > 0 /\ Counting(run.count, Len(source))
        BY <1>1, <2>1, <3>1, TickLockedFacts
      <3> QED  BY <1>1, <2>2, <3>2, BaseNext
    <2> QED  BY <2>3, <2>4
  <1> QED  BY <1>3, <1>4, <1>5, <1>6, <1>7 DEF TimerStep

LEMMA StepOutcome ==
    ASSUME BaseInv, [Next]_vars
    PROVE  BaseInv' /\ Outcome
  <1>1. CASE \E r \in Records : Process(r)
    BY <1>1, ProcessStep DEF Outcome
  <1>2. CASE Tick \/ Finish \/ Advance \/ \E t \in Timers : TimerStep(t)
    BY <1>2, OtherStep DEF Outcome
  <1>3. CASE UNCHANGED vars
    BY <1>3 DEF BaseInv, TypeOK, DotsExact, Outcome, vars
  <1> QED  BY <1>1, <1>2, <1>3 DEF Next

LEMMA InitBase == Init => BaseInv
  <1> SUFFICES ASSUME Init PROVE BaseInv
    OBVIOUS
  <1>1. DotsExact
    <2>1. view = <<>> /\ column = 0 /\ run = NoRun
      BY DEF Init
    <2>2. 0 <= 0 \div DotEvery
      BY DivFacts
    <2> QED  BY <2>1, <2>2, NoRunFacts DEF DotsExact
  <1>2. OutputOK
    <2>1. view = <<>> /\ column = 0 /\ run = NoRun /\ timer = NoTimer
          /\ wait = [t \in Timers |-> Idle]
      BY DEF Init
    <2>2. view \in Seq(Lines) /\ wait \in [Timers -> TimerStates]
      BY <2>1, StagesType
    <2> QED  BY <1>1, <2>1, <2>2, NoRunFacts DEF OutputOK
  <1>3. IndexOK /\ source \in Seq(Records) /\ finished \in BOOLEAN
    <2>1. source = <<>> /\ patterns = <<>> /\ recent = NoPattern /\ matcher = NoPattern
          /\ diagnosticOpen = FALSE /\ finished = FALSE
      BY DEF Init
    <2>2. patterns \in Seq(Patterns) /\ source \in Seq(Records)
      BY <2>1
    <2> QED  BY <2>1, <2>2, Zenon DEF IndexOK
  <1> QED  BY <1>2, <1>3, BaseParts

\* Every reachable state is well typed: in particular a line never shows a
\* negative number of dots and a run's dots never exceed its records.
THEOREM TypeCorrect == Spec => []TypeOK
  <1>1. Init => BaseInv
    BY InitBase
  <1>2. BaseInv /\ [Next]_vars => BaseInv'
    BY StepOutcome
  <1>3. BaseInv => TypeOK
    BY DEF BaseInv
  <1> QED  BY <1>1, <1>2, <1>3, PTL DEF Spec

\* Each count line carries one dot per DotEvery records it counts, and no
\* record is printed behind dots.
THEOREM DotsCorrect == Spec => []DotsExact
  <1>1. Init => BaseInv
    BY InitBase
  <1>2. BaseInv /\ [Next]_vars => BaseInv'
    BY StepOutcome
  <1>3. BaseInv => DotsExact
    BY DEF BaseInv
  <1> QED  BY <1>1, <1>2, <1>3, PTL DEF Spec

-----------------------------------------------------------------------------
(* Accounting.                                                             *)

\* What Accounting says of the lines v printed for the records s.
GoodLine(v, s, i) ==
    /\ v[i].at = (IF i = 1 THEN 0 ELSE v[i - 1].at)
                 + (IF v[i].record # NoRecord THEN 1 ELSE v[i].count)
    /\ v[i].record # NoRecord => v[i].at \in DOMAIN s /\ s[v[i].at] = v[i].record
GoodLines(v, s) == \A i \in DOMAIN v : GoodLine(v, s, i)
LastOf(v) == IF v = <<>> THEN 0 ELSE v[Len(v)].at

AccountInv ==
    /\ GoodLines(view, source)
    /\ LastOf(view) + run.count = Len(source)
    /\ finished => run.count = 0

LEMMA AccountingParts == AccountInv <=> Accounting
  BY DEF AccountInv, Accounting, GoodLines, GoodLine, LastOf, LastAt, LineCovers, LineFaithful, Full, Before

LEMMA AppendGood ==
    ASSUME NEW s, NEW v \in Seq(Lines), GoodLines(v, s), NEW l \in Lines,
           l.at = LastOf(v) + (IF l.record # NoRecord THEN 1 ELSE l.count),
           l.record # NoRecord => l.at \in DOMAIN s /\ s[l.at] = l.record
    PROVE  GoodLines(Append(v, l), s) /\ LastOf(Append(v, l)) = l.at
  <1> DEFINE a == Append(v, l)
  <1>1. /\ Len(v) \in Nat /\ a \in Seq(Lines) /\ Len(a) = Len(v) + 1
        /\ DOMAIN a = 1 .. Len(v) + 1 /\ DOMAIN v = 1 .. Len(v)
        /\ a[Len(v) + 1] = l /\ \A i \in 1 .. Len(v) : a[i] = v[i]
    OBVIOUS
  <1>2. LastOf(a) = l.at
    BY <1>1 DEF LastOf
  <1>3. GoodLine(a, s, Len(v) + 1)
    <2>1. LastOf(v) = IF Len(v) + 1 = 1 THEN 0 ELSE a[Len(v) + 1 - 1].at
      <3>1. v = <<>> <=> Len(v) = 0
        OBVIOUS
      <3>2. Len(v) + 1 - 1 = Len(v) /\ (Len(v) + 1 = 1 <=> Len(v) = 0)
        BY <1>1
      <3>3. CASE Len(v) = 0
        BY <3>1, <3>2, <3>3 DEF LastOf
      <3>4. CASE Len(v) # 0
        <4>1. a[Len(v)] = v[Len(v)]
          <5>1. Len(v) \in 1 .. Len(v)
            <6>1. Len(v) \in Nat /\ Len(v) # 0
              BY <3>4
            <6> QED  BY <6>1
          <5>2. \A i \in 1 .. Len(v) : a[i] = v[i]
            BY <1>1
          <5> HIDE DEF a
          <5> QED  BY <5>1, <5>2, Zenon
        <4>2. LastOf(v) = v[Len(v)].at
          BY <3>1, <3>4 DEF LastOf
        <4> HIDE DEF a
        <4> QED  BY <3>2, <3>4, <4>1, <4>2
      <3> QED  BY <3>3, <3>4
    <2> DEFINE k == Len(v) + 1
    <2> HIDE DEF a
    <2>2. a[k] = l
      BY <1>1
    <2>4. LastOf(v) = IF k = 1 THEN 0 ELSE a[k - 1].at
      BY <2>1
    <2> HIDE DEF k
    <2>3. GoodLine(a, s, k)
      BY <2>2, <2>4 DEF GoodLine
    <2> QED  BY <2>3 DEF k
  <1>4. ASSUME NEW i \in 1 .. Len(v) PROVE GoodLine(a, s, i)
    <2>1. i \in DOMAIN v /\ a[i] = v[i] /\ (i # 1 => a[i - 1] = v[i - 1])
      BY <1>1
    <2> QED  BY <2>1 DEF GoodLines, GoodLine
  <1>5. \A i \in DOMAIN a : GoodLine(a, s, i)
    <2>1. \A i \in DOMAIN a : i = Len(v) + 1 \/ i \in 1 .. Len(v)
      BY <1>1
    <2> QED  BY <1>3, <1>4, <2>1
  <1>6. GoodLines(a, s)
    <2> HIDE DEF a
    <2> QED  BY <1>5 DEF GoodLines
  <1> QED  BY <1>2, <1>6

LEMMA SourceGood ==
    ASSUME NEW s \in Seq(Records), NEW v, GoodLines(v, s), NEW r \in Records
    PROVE  GoodLines(v, Append(s, r))
  <1>1. \A k \in DOMAIN s : k \in DOMAIN Append(s, r) /\ Append(s, r)[k] = s[k]
    OBVIOUS
  <1> QED  BY <1>1 DEF GoodLines, GoodLine

\* A count line for the open run keeps the account.
LEMMA CountGood ==
    ASSUME BaseInv, NEW s, GoodLines(view, s), NEW l \in Lines,
           NEW n \in Nat, CountLine(l, n, LastOf(view) + n)
    PROVE  GoodLines(Append(view, l), s) /\ LastOf(Append(view, l)) = LastOf(view) + n
  <1>1. view \in Seq(Lines) /\ l.record = NoRecord /\ l.count = n /\ l.at = LastOf(view) + n
    BY DEF BaseInv, TypeOK, CountLine
  <1> QED  BY <1>1, AppendGood

LEMMA LastType == ASSUME BaseInv PROVE LastOf(view) \in Nat /\ run.count \in Nat
  <1>1. view \in Seq(Lines) /\ run \in Runs
    BY DEF BaseInv, TypeOK
  <1>2. view # <<>> => view[Len(view)] \in Lines
    BY <1>1
  <1> QED  BY <1>1, <1>2 DEF LastOf, Lines, Runs

LEMMA AccountStep ==
    ASSUME BaseInv, AccountInv, Outcome
    PROVE  GoodLines(view', source') /\ LastOf(view') + run'.count = Len(source')
  <1> DEFINE last == LastOf(view)
  <1>1. /\ source \in Seq(Records) /\ view \in Seq(Lines) /\ last \in Nat /\ run.count \in Nat
        /\ GoodLines(view, source) /\ last + run.count = Len(source)
    BY LastType DEF BaseInv, TypeOK, AccountInv
  <1>2. CASE source' = source /\ view' = view /\ run'.count = run.count
    BY <1>1, <1>2
  <1>3. CASE source' = source /\ Counting(run.count, Len(source))
    <2>1. PICK l \in Lines : CountLine(l, run.count, Len(source)) /\ view' = Append(view, l)
      BY <1>3 DEF Counting
    <2>2. run'.count = 0
      BY <1>3, NoRunFacts DEF Counting
    <2> QED  BY <1>1, <1>3, <2>1, <2>2, CountGood
  <1>4. ASSUME NEW r \in Records, source' = Append(source, r), Hiding
        PROVE  GoodLines(view', source') /\ LastOf(view') + run'.count = Len(source')
    <2>1. GoodLines(view, source') /\ Len(source') = Len(source) + 1
      BY <1>1, <1>4, SourceGood
    <2>2. CASE view' = view /\ run'.count = run.count + 1
      BY <1>1, <2>1, <2>2
    <2>3. CASE Counting(run.count + 1, Len(source) + 1)
      <3>1. PICK l \in Lines : /\ CountLine(l, run.count + 1, Len(source) + 1)
                               /\ view' = Append(view, l)
        BY <2>3 DEF Counting
      <3>2. run'.count = 0 /\ Len(source) + 1 = last + (run.count + 1) /\ run.count + 1 \in Nat
        BY <1>1, <2>3, NoRunFacts DEF Counting
      <3> QED  BY <1>1, <2>1, <3>1, <3>2, CountGood
    <2> QED  BY <1>4, <2>2, <2>3 DEF Hiding
  <1>5. ASSUME NEW r \in Records, source' = Append(source, r), Showing(r)
        PROVE  GoodLines(view', source') /\ LastOf(view') + run'.count = Len(source')
    <2> DEFINE f == FullLine(r, 0)
    <2>1. /\ GoodLines(view, source') /\ Len(source') = Len(source) + 1
          /\ Len(source) + 1 \in DOMAIN source' /\ source'[Len(source) + 1] = r
      BY <1>1, <1>5, SourceGood
    <2>2. f \in Lines /\ f.at = Len(source) + 1 /\ f.record = r /\ r # NoRecord
      BY <1>1, FullLineFacts DEF ExactLine
    <2> HIDE DEF f
    <2>3. ASSUME run.count = 0, view' = Append(view, f)
          PROVE  GoodLines(view', source') /\ LastOf(view') = Len(source')
      <3>1. f.at = LastOf(view) + 1 /\ f.record # NoRecord
            /\ f.at \in DOMAIN source' /\ source'[f.at] = f.record
        <4>1. f.at = Len(source) + 1 /\ f.record = r
          BY <2>2
        <4>2. LastOf(view) + 1 = Len(source) + 1
          BY <1>1, <2>3
        <4> QED  BY <2>1, <2>2, <4>1, <4>2, Zenon
      <3> QED  BY <1>1, <2>1, <2>2, <2>3, <3>1, AppendGood
    <2>4. ASSUME NEW l \in Lines, CountLine(l, run.count, Len(source)),
                 view' = Append(Append(view, l), f)
          PROVE  GoodLines(view', source') /\ LastOf(view') = Len(source')
      <3>1. /\ GoodLines(Append(view, l), source') /\ LastOf(Append(view, l)) = Len(source)
            /\ Append(view, l) \in Seq(Lines)
        <4>1. CountLine(l, run.count, LastOf(view) + run.count)
          BY <1>1, <2>4
        <4> QED  BY <1>1, <2>1, <4>1, CountGood
      <3>2. f.at = LastOf(Append(view, l)) + 1 /\ f.record # NoRecord
            /\ f.at \in DOMAIN source' /\ source'[f.at] = f.record
        <4>1. f.at = Len(source) + 1 /\ f.record = r
          BY <2>2
        <4>2. LastOf(Append(view, l)) + 1 = Len(source) + 1
          BY <1>1, <2>4, <3>1
        <4> QED  BY <2>1, <2>2, <4>1, <4>2, Zenon
      <3> DEFINE counted == Append(view, l)
      <3>3. counted \in Seq(Lines) /\ GoodLines(counted, source')
            /\ f.at = LastOf(counted) + 1 /\ view' = Append(counted, f)
        BY <2>4, <3>1, <3>2
      <3> HIDE DEF counted
      <3> QED  BY <2>1, <2>2, <3>2, <3>3, AppendGood
    <2>5. run'.count = 0 /\ Len(source') \in Nat
      BY <1>1, <1>5, <2>1 DEF Showing
    <2> QED  BY <1>5, <2>3, <2>4, <2>5 DEF Showing, f
  <1> QED  BY <1>2, <1>3, <1>4, <1>5 DEF Outcome

LEMMA FinishedStep ==
    ASSUME BaseInv, finished => run.count = 0, [Next]_vars
    PROVE  finished' => run'.count = 0
  <1>1. ASSUME NEW r \in Records, Process(r) PROVE ~finished'
    BY <1>1, ProcessStep
  <1>2. CASE Tick
    BY <1>2 DEF Tick
  <1>3. CASE Finish
    BY <1>3, NoRunFacts DEF Finish, CloseRun
  <1>4. ASSUME NEW t \in Timers, TimerStep(t) PROVE finished' => run'.count = 0
    BY <1>4 DEF TimerStep, Expire, OnTimer
  <1>5. CASE Advance
    BY <1>5 DEF Advance
  <1>6. CASE UNCHANGED vars
    BY <1>6 DEF vars
  <1> QED  BY <1>1, <1>2, <1>3, <1>4, <1>5, <1>6 DEF Next

\* In every reachable state the printed lines account for the input in order.
THEOREM AccountingCorrect == Spec => []Accounting
  <1> DEFINE IInv == BaseInv /\ AccountInv
  <1>1. Init => IInv
    <2> SUFFICES ASSUME Init PROVE AccountInv
      BY InitBase
    <2>1. view = <<>> /\ source = <<>> /\ run.count = 0
      BY NoRunFacts DEF Init
    <2> QED  BY <2>1 DEF AccountInv, GoodLines, LastOf
  <1>2. IInv /\ [Next]_vars => IInv'
    <2> SUFFICES ASSUME BaseInv, AccountInv, [Next]_vars PROVE BaseInv' /\ AccountInv'
      OBVIOUS
    <2>1. BaseInv' /\ Outcome
      BY StepOutcome
    <2>2. GoodLines(view', source') /\ LastOf(view') + run'.count = Len(source')
      BY <2>1, AccountStep
    <2>3. finished' => run'.count = 0
      BY FinishedStep DEF AccountInv
    <2>4. AccountInv'
      BY <2>2, <2>3 DEF AccountInv
    <2> QED  BY <2>1, <2>4
  <1>3. IInv => Accounting
    BY AccountingParts
  <1> QED  BY <1>1, <1>2, <1>3, PTL DEF Spec

-----------------------------------------------------------------------------
(* The index and the exemplars of what is hidden.                          *)

LinesPast(v, n) == \A i \in DOMAIN v : v[i].at <= n
Extends(v, w) == \A i \in DOMAIN v : i \in DOMAIN w /\ w[i] = v[i]

LEMMA AppendExtends ==
    ASSUME NEW v \in Seq(Lines), NEW l \in Lines, NEW n \in Nat, LinesPast(v, n), l.at <= n
    PROVE  /\ Extends(v, Append(v, l)) /\ LinesPast(Append(v, l), n)
           /\ Len(v) + 1 \in DOMAIN Append(v, l) /\ Append(v, l)[Len(v) + 1] = l
  <1> DEFINE a == Append(v, l)
  <1>1. /\ Len(v) \in Nat /\ DOMAIN a = 1 .. Len(v) + 1 /\ DOMAIN v = 1 .. Len(v)
        /\ a[Len(v) + 1] = l /\ \A i \in 1 .. Len(v) : a[i] = v[i]
    OBVIOUS
  <1>2. \A i \in DOMAIN a : i = Len(v) + 1 \/ i \in DOMAIN v
    BY <1>1
  <1>3. \A i \in DOMAIN v : i \in DOMAIN a /\ Len(v) + 1 \in DOMAIN a
    BY <1>1
  <1>4. Len(v) + 1 \in DOMAIN a
    BY <1>1
  <1> HIDE DEF a
  <1> QED  BY <1>1, <1>2, <1>3, <1>4 DEF Extends, LinesPast, a

LEMMA ExtendsTwice ==
    ASSUME NEW u, NEW v, NEW w, Extends(u, v), Extends(v, w)
    PROVE  Extends(u, w)
  BY DEF Extends

\* Lines stay, none is dated later than the input, and a record that is shown
\* has a line of its own.
LEMMA ViewGrows ==
    ASSUME BaseInv, LinesPast(view, Len(source)), Outcome
    PROVE  /\ Extends(view, view') /\ LinesPast(view', Len(source'))
           /\ \A r \in Records : (source' = Append(source, r) /\ Showing(r)) =>
                  \E j \in DOMAIN view' : view'[j] = FullLine(r, 0)
  <1>1. view \in Seq(Lines) /\ source \in Seq(Records) /\ Len(source) \in Nat
    BY DEF BaseInv, TypeOK
  <1>2. LinesPast(view, Len(source) + 1) /\ Len(source) + 1 \in Nat
    <2>1. \A i \in DOMAIN view : view[i] \in Lines
      BY <1>1
    <2> QED  BY <1>1, <2>1 DEF LinesPast, Lines
  <1>3. ASSUME NEW n \in Nat, NEW at \in {Len(source), Len(source) + 1},
               Counting(n, at), Len(source') = at
        PROVE  Extends(view, view') /\ LinesPast(view', Len(source'))
    <2>1. PICK l \in Lines : CountLine(l, n, at) /\ view' = Append(view, l)
      BY <1>3 DEF Counting
    <2>2. LinesPast(view, at) /\ l.at <= at /\ at \in Nat
      BY <1>1, <1>2, <2>1 DEF CountLine
    <2> QED  BY <1>1, <1>3, <2>1, <2>2, AppendExtends
  <1>4. ASSUME NEW r \in Records, source' = Append(source, r), Showing(r)
        PROVE  /\ Extends(view, view') /\ LinesPast(view', Len(source'))
               /\ \E j \in DOMAIN view' : view'[j] = FullLine(r, 0)
    <2> DEFINE f == FullLine(r, 0)
               past == Len(source) + 1
    <2>1. f \in Lines /\ f.at <= past /\ Len(source') = past /\ past \in Nat
      BY <1>1, <1>4, FullLineFacts DEF ExactLine
    <2> HIDE DEF f
    <2>2. CASE view' = Append(view, f)
      BY <1>1, <1>2, <2>1, <2>2, AppendExtends DEF f
    <2>3. ASSUME NEW l \in Lines, CountLine(l, run.count, Len(source)),
                 view' = Append(Append(view, l), f)
          PROVE  /\ Extends(view, view') /\ LinesPast(view', past)
                 /\ \E j \in DOMAIN view' : view'[j] = f
      <3> DEFINE u == Append(view, l)
      <3>1. u \in Seq(Lines) /\ Extends(view, u) /\ LinesPast(u, past)
        <4>1. l.at <= past
          BY <1>1, <2>3 DEF CountLine
        <4> QED  BY <1>1, <1>2, <4>1, AppendExtends
      <3>2. view' = Append(u, f)
        BY <2>3
      <3> HIDE DEF u
      <3>3. /\ Extends(u, view') /\ LinesPast(view', past)
            /\ Len(u) + 1 \in DOMAIN view' /\ view'[Len(u) + 1] = f
        BY <2>1, <3>1, <3>2, AppendExtends
      <3> QED  BY <3>1, <3>3, ExtendsTwice
    <2>4. view' = Append(view, f) \/ \E l \in Lines : /\ CountLine(l, run.count, Len(source))
                                                     /\ view' = Append(Append(view, l), f)
      BY <1>4 DEF Showing, f
    <2> QED  BY <2>1, <2>2, <2>3, <2>4 DEF f
  <1>5. run.count \in Nat /\ run.count + 1 \in Nat
    BY DEF BaseInv, TypeOK, Runs
  <1>6. CASE source' = source /\ view' = view /\ run'.count = run.count
    <2>1. \A r \in Records : source' # Append(source, r)
      BY <1>1, <1>6
    <2> QED  BY <1>6, <2>1 DEF Extends
  <1>7. CASE source' = source /\ Counting(run.count, Len(source))
    <2>1. \A r \in Records : source' # Append(source, r)
      BY <1>1, <1>7
    <2> QED  BY <1>3, <1>5, <1>7, <2>1
  <1>8. ASSUME NEW r \in Records, source' = Append(source, r), Hiding
        PROVE  Extends(view, view') /\ LinesPast(view', Len(source'))
    <2>1. Len(source') = Len(source) + 1
      BY <1>1, <1>8
    <2>2. CASE view' = view
      BY <1>2, <2>1, <2>2 DEF Extends
    <2>3. CASE Counting(run.count + 1, Len(source) + 1)
      BY <1>3, <1>5, <2>1, <2>3
    <2> QED  BY <1>8, <2>2, <2>3 DEF Hiding
  <1> QED  BY <1>4, <1>6, <1>7, <1>8 DEF Outcome

Distinct(s) == \A i, j \in DOMAIN s : s[i] = s[j] => i = j
Indexed(s, p) == \E i \in DOMAIN s : s[i] = p
Printed(v, p) == \E j \in DOMAIN v : v[j].record # NoRecord /\ Signature[v[j].record] = p

\* IndexInv of the index s, the recent pattern p and the lines v.
IndexGood(s, p, v) ==
    /\ Len(s) <= PatternLimit /\ Distinct(s)
    /\ p # NoPattern => Indexed(s, p)
    /\ \A i \in DOMAIN s : Printed(v, s[i])

LEMMA IndexParts ==
    /\ IndexInv <=> IndexGood(patterns, recent, view)
    /\ IndexInv' <=> IndexGood(patterns', recent', view')
  BY DEF IndexInv, IndexGood, Distinct, Indexed, Printed, Full

\* Inserting a pattern that is not indexed: every entry is the new one or an
\* old one, the new one is last, none occurs twice and the bound holds.
LEMMA RememberFacts ==
    ASSUME patterns \in Seq(Patterns), Len(patterns) <= PatternLimit, Distinct(patterns),
           NEW p \in Patterns, ~Indexed(patterns, p)
    PROVE  LET s == Remember(p)
           IN  /\ s \in Seq(Patterns) /\ Len(s) <= PatternLimit /\ Distinct(s)
               /\ \A i \in DOMAIN s : s[i] = p \/ Indexed(patterns, s[i])
               /\ \E i \in DOMAIN s : s[i] = p
  <1>1. Len(patterns) \in Nat /\ DOMAIN patterns = 1 .. Len(patterns)
    OBVIOUS
  <1>2. CASE Len(patterns) < PatternLimit
    <2> DEFINE s == Append(patterns, p)
    <2>1. /\ s \in Seq(Patterns) /\ Len(s) = Len(patterns) + 1 /\ DOMAIN s = 1 .. Len(patterns) + 1
          /\ s[Len(patterns) + 1] = p /\ \A i \in 1 .. Len(patterns) : s[i] = patterns[i]
      OBVIOUS
    <2>2. \A i \in DOMAIN s : i = Len(patterns) + 1 \/ i \in 1 .. Len(patterns)
      BY <1>1, <2>1
    <2>3. Remember(p) = s
      BY <1>1, <1>2 DEF Remember
    <2>4. Len(s) <= PatternLimit /\ Len(patterns) + 1 \in DOMAIN s
      BY <1>1, <1>2, <2>1
    <2> HIDE DEF s
    <2>5. Distinct(s)
      BY <1>1, <2>1, <2>2 DEF Distinct, Indexed
    <2> QED  BY <1>1, <2>1, <2>2, <2>3, <2>4, <2>5 DEF Indexed
  <1>3. CASE Len(patterns) >= PatternLimit
    <2> DEFINE s == Append(Tail(patterns), p)
               n == Len(patterns)
    <2>1. n \in Nat \ {0} /\ n = PatternLimit
      <3>1. n \in Nat /\ n >= PatternLimit /\ n <= PatternLimit /\ PatternLimit \in Nat \ {0}
        BY <1>1, <1>3
      <3> HIDE DEF n
      <3> QED  BY <3>1
    <2>2. /\ Tail(patterns) \in Seq(Patterns) /\ Len(Tail(patterns)) = n - 1
          /\ \A i \in 1 .. n - 1 : Tail(patterns)[i] = patterns[i + 1]
      BY <2>1
    <2>3. /\ s \in Seq(Patterns) /\ Len(s) = n /\ DOMAIN s = 1 .. n
          /\ s[n] = p /\ \A i \in 1 .. n - 1 : s[i] = patterns[i + 1]
      BY <2>1, <2>2
    <2>4. \A i \in DOMAIN s : i = n \/ (i \in 1 .. n - 1 /\ i + 1 \in DOMAIN patterns)
      BY <1>1, <2>1, <2>3
    <2>5. Remember(p) = s
      BY <1>3 DEF Remember
    <2>6. Len(s) <= PatternLimit /\ n \in DOMAIN s
      BY <2>1, <2>3
    <2> HIDE DEF s
    <2>7. Distinct(s)
      <3> SUFFICES ASSUME NEW i \in DOMAIN s, NEW j \in DOMAIN s, s[i] = s[j] PROVE i = j
        BY DEF Distinct
      <3>1. CASE i = n /\ j = n
        BY <3>1
      <3>2. CASE i = n /\ j # n
        BY <2>3, <2>4, <3>2 DEF Indexed
      <3>3. CASE i # n /\ j = n
        BY <2>3, <2>4, <3>3 DEF Indexed
      <3>4. CASE i # n /\ j # n
        <4>1. i + 1 \in DOMAIN patterns /\ j + 1 \in DOMAIN patterns
              /\ patterns[i + 1] = patterns[j + 1] /\ i \in Nat /\ j \in Nat
          BY <2>1, <2>3, <2>4, <3>4
        <4>2. i + 1 = j + 1
          BY <4>1 DEF Distinct
        <4> QED  BY <4>1, <4>2
      <3> QED  BY <3>1, <3>2, <3>3, <3>4
    <2> QED  BY <2>3, <2>4, <2>5, <2>6, <2>7 DEF Indexed
  <1> QED  BY <1>1, <1>2, <1>3

\* Printed patterns stay printed.
LEMMA PrintedStays ==
    ASSUME NEW v, NEW w, Extends(v, w)
    PROVE  \A p : Printed(v, p) => Printed(w, p)
  BY DEF Extends, Printed

GrowInv == BaseInv /\ LinesPast(view, Len(source))

LEMMA GrowStep ==
    ASSUME GrowInv, [Next]_vars
    PROVE  GrowInv' /\ Outcome /\ Extends(view, view')
  BY StepOutcome, ViewGrows DEF GrowInv

LEMMA InitGrow == Init => GrowInv
  <1> SUFFICES ASSUME Init PROVE LinesPast(view, Len(source))
    BY InitBase DEF GrowInv
  <1> QED  BY DEF Init, LinesPast

LEMMA SameIndex ==
    ASSUME IndexInv, Extends(view, view'), patterns' = patterns,
           recent' # NoPattern => Indexed(patterns, recent')
    PROVE  IndexInv'
  <1>1. IndexGood(patterns, recent, view)
    BY IndexParts
  <1>2. IndexGood(patterns', recent', view')
    BY <1>1, PrintedStays DEF IndexGood
  <1> QED  BY <1>2, IndexParts

LEMMA IndexStep ==
    ASSUME GrowInv, IndexInv, [Next]_vars
    PROVE  IndexInv'
  <1>1. BaseInv /\ Outcome /\ Extends(view, view')
    BY GrowStep DEF GrowInv
  <1>2. recent # NoPattern => Indexed(patterns, recent)
    BY IndexParts DEF IndexGood
  <1>3. CASE UNCHANGED indexVars
    BY <1>1, <1>2, <1>3, SameIndex DEF indexVars
  <1>4. (Tick \/ Finish \/ Advance \/ (\E t \in Timers : TimerStep(t)) \/ UNCHANGED vars)
        => UNCHANGED indexVars
    BY DEF Tick, Finish, Advance, TimerStep, Expire, OnTimer, vars, indexVars
  <1>5. ASSUME NEW r \in Records, Process(r)
        PROVE  IndexInv'
    <2>1. CASE ProcessDiagnostic(r)
      BY <1>1, <2>1, SameIndex DEF ProcessDiagnostic
    <2>2. CASE ProcessFastMatch(r)
      BY <1>1, <1>2, <2>2, SameIndex DEF ProcessFastMatch
    <2>3. CASE ProcessFamiliar(r) \/ ProcessReturning(r)
      BY <1>1, <2>3, SameIndex DEF ProcessFamiliar, ProcessReturning, Known, Indexed
    <2>4. CASE ProcessNew(r) /\ Signature[r] = NoPattern
      BY <1>1, <2>4, SameIndex DEF ProcessNew
    <2>5. CASE ProcessNew(r) /\ Signature[r] # NoPattern
      <3> DEFINE p == Signature[r]
                 s == Remember(p)
      <3>1. /\ p \in Patterns /\ ~Indexed(patterns, p) /\ patterns \in Seq(Patterns)
            /\ Len(patterns) <= PatternLimit /\ Distinct(patterns)
            /\ \A i \in DOMAIN patterns : Printed(view, patterns[i])
        BY <1>1, <2>5, IndexParts DEF IndexGood, ProcessNew, Known, Indexed, BaseInv, TypeOK
      <3> HIDE DEF p
      <3>2. /\ s \in Seq(Patterns) /\ Len(s) <= PatternLimit /\ Distinct(s)
            /\ \A i \in DOMAIN s : s[i] = p \/ Indexed(patterns, s[i])
            /\ \E i \in DOMAIN s : s[i] = p
        BY <3>1, RememberFacts
      <3>3. patterns' = s /\ recent' = p
        BY <2>5 DEF ProcessNew, p
      <3>4. Printed(view', p)
        <4>1. source' = Append(source, r) /\ Showing(r)
          <5>1. source \in Seq(Records) /\ OutputOK /\ WriteVisible(r)
            BY <1>1, <2>5, BaseParts DEF ProcessNew
          <5>2. Showing(r)
            BY <5>1, WriteVisibleFacts
          <5> QED  BY <2>5, <5>2 DEF ProcessNew, Ordinary, Take
        <4>2. PICK j \in DOMAIN view' : view'[j] = FullLine(r, 0)
          BY <1>1, <4>1, ViewGrows DEF GrowInv
        <4>3. view'[j].record = r /\ r # NoRecord
          BY <4>2 DEF FullLine
        <4> QED  BY <4>2, <4>3 DEF Printed, p
      <3>5. \A q : Indexed(patterns, q) => Printed(view, q)
        BY <3>1 DEF Indexed
      <3> HIDE DEF s
      <3>6. \A i \in DOMAIN s : Printed(view', s[i])
        BY <1>1, <3>2, <3>4, <3>5, PrintedStays
      <3>7. IndexGood(patterns', recent', view')
        BY <3>2, <3>3, <3>6 DEF IndexGood, Indexed
      <3> QED  BY <3>7, IndexParts
    <2> QED  BY <1>5, <2>1, <2>2, <2>3, <2>4, <2>5 DEF Process
  <1> QED  BY <1>3, <1>4, <1>5 DEF Next

LEMMA InitIndex == Init => IndexInv
  BY IndexParts DEF Init, Distinct, IndexGood

\* The index is bounded, free of duplicates, holds the recent pattern, and
\* holds only patterns a record of which was printed in full.
THEOREM IndexCorrect == Spec => []IndexInv
  <1> DEFINE IInv == GrowInv /\ IndexInv
  <1>1. Init => IInv
    BY InitGrow, InitIndex
  <1>2. IInv /\ [Next]_vars => IInv'
    BY GrowStep, IndexStep
  <1> QED  BY <1>1, <1>2, PTL DEF Spec

HiddenIn(v, k) == \A i \in DOMAIN v : v[i].record # NoRecord => v[i].at # k
Exemplified(v, k, r) ==
    \E i \in DOMAIN v : v[i].record # NoRecord /\ v[i].at < k /\ Repeats(v[i].record, r)
ExemplarsOf(v, s) == \A k \in DOMAIN s : HiddenIn(v, k) => Exemplified(v, k, s[k])

LEMMA ExemplarParts ==
    /\ EveryHiddenHasExemplar <=> ExemplarsOf(view, source)
    /\ EveryHiddenHasExemplar' <=> ExemplarsOf(view', source')
  BY DEF EveryHiddenHasExemplar, ExemplarsOf, HiddenIn, Exemplified, Hidden, Full

\* What process hides repeats a record that was printed.
LEMMA HiddenRepeats ==
    ASSUME GrowInv, IndexInv, NEW r \in Records, ProcessFastMatch(r) \/ ProcessFamiliar(r)
    PROVE  Exemplified(view, Len(source) + 1, r)
  <1>1. IndexGood(patterns, recent, view)
    BY IndexParts
  <1>2. ASSUME NEW p \in Patterns, Indexed(patterns, p), Signature[r] = p \/ r \in FastMatches[p]
        PROVE  Exemplified(view, Len(source) + 1, r)
    <2>1. Printed(view, p)
      BY <1>1, <1>2 DEF IndexGood, Indexed
    <2>2. PICK j \in DOMAIN view : view[j].record # NoRecord /\ Signature[view[j].record] = p
      BY <2>1 DEF Printed
    <2>3. view[j].at < Len(source) + 1
      <3>1. view \in Seq(Lines) /\ source \in Seq(Records) /\ view[j].at <= Len(source)
        BY DEF GrowInv, BaseInv, TypeOK, LinesPast
      <3>2. view[j] \in Lines /\ Len(source) \in Nat
        BY <2>2, <3>1
      <3> QED  BY <3>1, <3>2 DEF Lines
    <2> QED  BY <1>2, <2>2, <2>3 DEF Exemplified, Repeats
  <1>3. CASE ProcessFastMatch(r)
    <2>1. LoadedMatcher = recent /\ recent # NoPattern /\ r \in FastMatches[recent]
      BY <1>3 DEF ProcessFastMatch, FastMatch, LoadedMatcher
    <2>2. recent \in Patterns /\ Indexed(patterns, recent)
      BY <1>1, <2>1 DEF IndexGood, GrowInv, BaseInv, TypeOK
    <2> QED  BY <1>2, <2>1, <2>2
  <1>4. CASE ProcessFamiliar(r)
    <2>1. Signature[r] \in Patterns /\ Indexed(patterns, Signature[r])
      BY <1>4 DEF ProcessFamiliar, Known, Indexed
    <2> QED  BY <1>2, <2>1
  <1> QED  BY <1>3, <1>4

LEMMA ExemplarStep ==
    ASSUME GrowInv, IndexInv, EveryHiddenHasExemplar, [Next]_vars
    PROVE  EveryHiddenHasExemplar'
  <1>1. GrowInv' /\ Outcome /\ Extends(view, view') /\ BaseInv
    BY GrowStep DEF GrowInv
  <1>2. \A k, r : /\ HiddenIn(view', k) => HiddenIn(view, k)
                  /\ Exemplified(view, k, r) => Exemplified(view', k, r)
    BY <1>1 DEF Extends, HiddenIn, Exemplified
  <1>3. ExemplarsOf(view, source)
    BY ExemplarParts
  <1>4. CASE source' = source
    BY <1>2, <1>3, <1>4, ExemplarParts DEF ExemplarsOf
  <1>5. ASSUME NEW r \in Records, Process(r)
        PROVE  ExemplarsOf(view', source')
    <2>1. /\ source' = Append(source, r) /\ source \in Seq(Records)
          /\ \/ ProcessFastMatch(r) \/ ProcessFamiliar(r)
             \/ Showing(r)
      BY <1>1, <1>5, ProcessStep DEF BaseInv, TypeOK
    <2>2. ASSUME NEW k \in DOMAIN source, HiddenIn(view', k)
          PROVE  Exemplified(view', k, source'[k])
      <3>1. source'[k] = source[k]
        BY <2>1
      <3> QED  BY <1>2, <1>3, <2>2, <3>1 DEF ExemplarsOf
    <2>3. ASSUME HiddenIn(view', Len(source) + 1)
          PROVE  Exemplified(view', Len(source) + 1, r)
      <3>1. CASE Showing(r)
        <4>1. PICK j \in DOMAIN view' : view'[j] = FullLine(r, 0)
          BY <1>1, <2>1, <3>1, ViewGrows DEF GrowInv
        <4>2. view'[j].record # NoRecord /\ view'[j].at = Len(source) + 1
          BY <4>1 DEF FullLine
        <4> QED  BY <2>3, <4>2 DEF HiddenIn
      <3>2. CASE ProcessFastMatch(r) \/ ProcessFamiliar(r)
        BY <1>2, <3>2, HiddenRepeats
      <3> QED  BY <2>1, <3>1, <3>2
    <2>4. /\ \A k \in DOMAIN source' : k \in DOMAIN source \/ k = Len(source) + 1
          /\ source'[Len(source) + 1] = r
      BY <2>1
    <2> QED  BY <2>2, <2>3, <2>4 DEF ExemplarsOf
  <1>6. CASE Tick \/ Finish \/ Advance \/ \E t \in Timers : TimerStep(t)
    BY <1>1, <1>4, <1>6, OtherStep
  <1>7. CASE UNCHANGED vars
    BY <1>4, <1>7 DEF vars
  <1> QED  BY <1>5, <1>6, <1>7, ExemplarParts DEF Next

\* Nothing is hidden that does not repeat a record printed before it, for any
\* signatures, compiled matchers, index size and order of records.
THEOREM ExemplarsCorrect == Spec => []EveryHiddenHasExemplar
  <1> DEFINE IInv == GrowInv /\ IndexInv /\ EveryHiddenHasExemplar
  <1>1. Init => IInv
    <2>1. Init => EveryHiddenHasExemplar
      BY DEF Init, EveryHiddenHasExemplar
    <2> QED  BY <2>1, InitGrow, InitIndex
  <1>2. IInv /\ [Next]_vars => IInv'
    BY GrowStep, IndexStep, ExemplarStep
  <1> QED  BY <1>1, <1>2, PTL DEF Spec

-----------------------------------------------------------------------------
(* Timers.                                                                 *)

TimerInv == BaseInv /\ (finished => run.count = 0) /\ RunHasTimer

\* The next run has a timer exactly when it is open.
LEMMA TimerKept ==
    ASSUME LiveTimer => ((run'.count > 0) <=> (timer' # NoTimer)),
           (LiveTimer /\ timer' # NoTimer) => wait'[timer'].stage # "idle"
    PROVE  RunHasTimer'
  BY DEF RunHasTimer

LEMMA ClosedNeedsNone ==
    ASSUME run' = NoRun, timer' = NoTimer PROVE RunHasTimer'
  BY NoRunFacts DEF RunHasTimer

LEMMA ScheduledRuns ==
    ASSUME NEW ref \in Timers \cup {NoTimer}, NEW w \in Waits,
           ScheduleTimer(ref, w), LiveTimer, ref # NoTimer => w[ref].stage # "idle"
    PROVE  timer' # NoTimer /\ wait'[timer'].stage # "idle"
  BY DEF ScheduleTimer, Waits, Armed

LEMMA FlushKeepsCount ==
    ASSUME OutputOK
    PROVE  /\ WritePendingDots(run, FALSE).count = run.count
           /\ WritePendingDots(Counted, FALSE).count = run.count + 1
           /\ run.count \in Nat
  <1>1. run.dots \in Nat /\ Continues(run) /\ run.count \in Nat
    BY DEF OutputOK, DotsExact, Continues, Runs
  <1> QED  BY <1>1, CountedFacts, WritePendingDotsFacts

\* A tick of an open run closes it or goes on as its caller asks.
LEMMA TickTimer ==
    ASSUME OutputOK, run.count # 0, NEW ref, NEW w, NEW rearm \in BOOLEAN, TickLocked(ref, w, rearm)
    PROVE  \/ run' = NoRun /\ timer' = NoTimer
           \/ /\ run'.count = run.count
              /\ IF rearm THEN ScheduleTimer(ref, w) ELSE timer' = ref /\ wait' = w
  <1> DEFINE flushed == WritePendingDots(run, FALSE)
  <1>1. CASE IntervalOver(flushed)
    BY <1>1 DEF TickLocked, CloseRun
  <1>2. CASE ~IntervalOver(flushed)
    <2>1. run' = flushed /\ IF rearm THEN ScheduleTimer(ref, w) ELSE timer' = ref /\ wait' = w
      BY <1>2 DEF TickLocked
    <2> QED  BY <2>1, FlushKeepsCount
  <1> QED  BY <1>1, <1>2

LEMMA TimerStepKept ==
    ASSUME TimerInv, [Next]_vars
    PROVE  RunHasTimer'
  <1>1. /\ BaseInv /\ OutputOK /\ RunHasTimer /\ source \in Seq(Records)
        /\ timer \in Timers \cup {NoTimer} /\ wait \in Waits /\ run.count \in Nat
    BY BaseParts DEF TimerInv, OutputOK, Waits, Runs
  <1>2. ASSUME NEW r \in Records, WriteVisible(r) PROVE RunHasTimer'
    <2>1. CASE run.count = 0
      BY <1>1, <1>2, <2>1 DEF WriteVisible, RunHasTimer
    <2>2. CASE run.count # 0
      BY <1>2, <2>2, ClosedNeedsNone DEF WriteVisible
    <2> QED  BY <2>1, <2>2
  <1>3. CASE Suppress
    <2> DEFINE counted == WritePendingDots(Counted, FALSE)
    <2>1. CASE IntervalOver(counted)
      BY <1>3, <2>1, ClosedNeedsNone DEF Suppress, CloseRun
    <2>2. CASE ~IntervalOver(counted)
      <3>1. run' = counted /\ ScheduleTimer(timer, wait)
        BY <1>3, <2>2 DEF Suppress
      <3>2. counted.count > 0
        <4>1. counted.count = run.count + 1
          BY <1>1, FlushKeepsCount
        <4> HIDE DEF counted
        <4> QED  BY <1>1, <4>1
      <3> HIDE DEF counted
      <3>3. LiveTimer => timer' # NoTimer /\ wait'[timer'].stage # "idle"
        BY <1>1, <3>1, ScheduledRuns DEF RunHasTimer
      <3> QED  BY <3>1, <3>2, <3>3, TimerKept
    <2> QED  BY <2>1, <2>2
  <1>4. ASSUME NEW r \in Records, Process(r) PROVE RunHasTimer'
    BY <1>2, <1>3, <1>4 DEF Process, ProcessDiagnostic, ProcessFastMatch, ProcessFamiliar,
          ProcessReturning, ProcessNew
  <1>5. CASE Tick
    <2>1. TickLocked(timer, wait, FALSE) /\ run.count > 0
      BY <1>5 DEF Tick
    <2>2. CASE run' = NoRun /\ timer' = NoTimer
      BY <2>2, ClosedNeedsNone
    <2>3. CASE run'.count = run.count /\ timer' = timer /\ wait' = wait
      BY <1>1, <2>3, TimerKept DEF RunHasTimer
    <2>4. run.count # 0
      BY <1>1, <2>1
    <2>5. \/ run' = NoRun /\ timer' = NoTimer
          \/ /\ run'.count = run.count
             /\ IF FALSE THEN ScheduleTimer(timer, wait) ELSE timer' = timer /\ wait' = wait
      BY <1>1, <2>1, <2>4, TickTimer
    <2> QED  BY <2>2, <2>3, <2>5
  <1>6. CASE Finish
    <2>1. timer' = NoTimer /\ run'.count = 0
      BY <1>6, NoRunFacts DEF Finish, CloseRun
    <2> QED  BY <2>1, TimerKept
  <1>7. ASSUME NEW t \in Timers, Expire(t) PROVE RunHasTimer'
    <2>1. run' = run /\ timer' = timer /\ wait' = [wait EXCEPT ![t] = Firing]
      BY <1>7 DEF Expire
    <2>2. timer # NoTimer /\ wait[timer].stage # "idle" => wait'[timer].stage # "idle"
      BY <1>1, <2>1 DEF Waits, Firing
    <2> QED  BY <1>1, <2>1, <2>2, TimerKept DEF RunHasTimer
  <1>8. ASSUME NEW t \in Timers, OnTimer(t) PROVE RunHasTimer'
    <2> DEFINE w == [wait EXCEPT ![t] = Idle]
    <2>1. CASE finished \/ run.count = 0
      <3>1. run' = run /\ timer' = NoTimer /\ run.count = 0
        BY <1>8, <2>1 DEF OnTimer, TickLocked, TimerInv
      <3> QED  BY <3>1, TimerKept
    <2>2. CASE ~finished /\ run.count # 0
      <3>1. TickLocked(NoTimer, w, TRUE)
        BY <1>8, <2>2 DEF OnTimer
      <3>2. w \in Waits
        BY <1>1, TimersStay, StagesType
      <3> HIDE DEF w
      <3>3. CASE run' = NoRun /\ timer' = NoTimer
        BY <3>3, ClosedNeedsNone
      <3>4. CASE run'.count = run.count /\ ScheduleTimer(NoTimer, w)
        <4>1. LiveTimer => timer' # NoTimer /\ wait'[timer'].stage # "idle"
          BY <3>2, <3>4, ScheduledRuns
        <4> QED  BY <1>1, <2>2, <3>4, <4>1, TimerKept
      <3> QED  BY <1>1, <2>2, <3>1, <3>3, <3>4, TickTimer
    <2> QED  BY <2>1, <2>2
  <1>9. CASE Advance
    <2>1. timer' = timer /\ run'.count = run.count
      BY <1>1, <1>9, ClockStep DEF Advance
    <2>2. timer # NoTimer => wait'[timer].stage = wait[timer].stage
      <3> SUFFICES ASSUME timer \in Timers PROVE wait'[timer].stage = wait[timer].stage
        BY <1>1
      <3>1. wait'[timer] = IF wait[timer].left > 0 THEN [wait[timer] EXCEPT !.left = @ - 1]
                           ELSE wait[timer]
        BY <1>9 DEF Advance
      <3>2. wait[timer] \in TimerStates
        BY <1>1 DEF Waits
      <3> QED  BY <3>1, <3>2 DEF TimerStates
    <2> QED  BY <1>1, <2>1, <2>2, TimerKept DEF RunHasTimer
  <1>10. CASE UNCHANGED vars
    BY <1>1, <1>10 DEF vars, RunHasTimer
  <1> QED  BY <1>4, <1>5, <1>6, <1>7, <1>8, <1>9, <1>10 DEF Next, TimerStep

\* With live timers, an open run always has a timer thread that is waiting or
\* about to call back, even after stale callbacks have cleared _timer.
THEOREM TimersCorrect == Spec => []RunHasTimer
  <1>1. Init => TimerInv
    <2>1. Init => RunHasTimer /\ (finished => run.count = 0)
      BY NoRunFacts DEF Init, RunHasTimer
    <2> QED  BY <2>1, InitBase DEF TimerInv
  <1>2. TimerInv /\ [Next]_vars => TimerInv'
    BY StepOutcome, FinishedStep, TimerStepKept DEF TimerInv
  <1>3. TimerInv => RunHasTimer
    BY DEF TimerInv
  <1> QED  BY <1>1, <1>2, <1>3, PTL DEF Spec

-----------------------------------------------------------------------------
(* Diagnostics.                                                            *)

Delimits(s, inside) ==
    \A k \in DOMAIN s :
        k \in inside <=> IF k - 1 \in inside THEN ~EndsDiagnostic(s[k])
                         ELSE OpensDiagnostic(s[k])
Whole(v, inside) ==
    \A k \in inside : \E i \in DOMAIN v :
        /\ v[i].record # NoRecord /\ v[i].at = k
        /\ k - 1 \in inside => i > 1 /\ v[i - 1].record # NoRecord
EndsFull(v) == v # <<>> /\ v[Len(v)].record # NoRecord

\* _diagnostic_open says whether the last record is inside a diagnostic, and
\* while one is open no run is: its last line is the last of the output.
DiagnosticInv ==
    /\ \E inside \in SUBSET DOMAIN source :
           /\ Delimits(source, inside) /\ Whole(view, inside)
           /\ diagnosticOpen <=> Len(source) \in inside
    /\ diagnosticOpen => run.count = 0 /\ EndsFull(view)

LEMMA DiagnosticIsWhole == DiagnosticInv => DiagnosticsIntact
  BY DEF DiagnosticInv, DiagnosticsIntact, Diagnostic, Delimits, Whole, Full

\* What a record does to an open or closed diagnostic.
LEMMA DiagnosticRecord ==
    ASSUME BaseInv, NEW r \in Records, Process(r)
    PROVE  /\ diagnosticOpen' <=> IF diagnosticOpen THEN ~EndsDiagnostic(r)
                                  ELSE OpensDiagnostic(r)
           /\ diagnosticOpen' => Showing(r)
  <1>1. diagnosticOpen \in BOOLEAN
    BY DEF BaseInv, TypeOK
  <1>2. CASE ProcessDiagnostic(r)
    <2>1. KeepDiagnostic(r) /\ diagnosticOpen' = DiagnosticAfter(r)
      BY <1>2 DEF ProcessDiagnostic
    <2>2. ~(ProcessFastMatch(r) \/ ProcessFamiliar(r))
      BY <2>1 DEF ProcessFastMatch, ProcessFamiliar, Ordinary
    <2>3. Showing(r)
      BY <2>2, ProcessStep
    <2>4. CASE diagnosticOpen
      BY <2>1, <2>3, <2>4 DEF KeepDiagnostic, DiagnosticAfter, EndsDiagnostic
    <2>5. CASE ~diagnosticOpen
      BY <2>1, <2>3, <2>5 DEF KeepDiagnostic, DiagnosticAfter, OpensDiagnostic
    <2> QED  BY <2>4, <2>5
  <1>3. CASE Ordinary(r)
    <2>1. ~KeepDiagnostic(r) /\ diagnosticOpen' = FALSE
      BY <1>3 DEF Ordinary
    <2>2. CASE diagnosticOpen
      BY <2>1, <2>2 DEF KeepDiagnostic, EndsDiagnostic
    <2>3. CASE ~diagnosticOpen
      BY <2>1, <2>3 DEF KeepDiagnostic, OpensDiagnostic
    <2> QED  BY <2>2, <2>3
  <1> QED  BY <1>2, <1>3 DEF Process, ProcessFastMatch, ProcessFamiliar, ProcessReturning, ProcessNew

\* Lines that follow leave a diagnostic whole.
LEMMA WholeStays ==
    ASSUME NEW v \in Seq(Lines), NEW w, Extends(v, w), NEW inside \in SUBSET Nat, Whole(v, inside)
    PROVE  Whole(w, inside)
  <1> SUFFICES ASSUME NEW k \in inside
               PROVE  \E i \in DOMAIN w : /\ w[i].record # NoRecord /\ w[i].at = k
                                          /\ k - 1 \in inside => i > 1 /\ w[i - 1].record # NoRecord
    BY DEF Whole
  <1>1. PICK i \in DOMAIN v : /\ v[i].record # NoRecord /\ v[i].at = k
                              /\ k - 1 \in inside => i > 1 /\ v[i - 1].record # NoRecord
    BY DEF Whole
  <1>2. i > 1 => i - 1 \in DOMAIN v
    BY <1>1
  <1> QED  BY <1>1, <1>2 DEF Extends

\* A record that is inside a diagnostic is printed, right after the line of the
\* record before it if that one is inside too.
LEMMA WholeWithNext ==
    ASSUME GrowInv, GrowInv', Extends(view, view'), NEW r \in Records, Showing(r),
           NEW inside \in SUBSET DOMAIN source, Whole(view, inside),
           diagnosticOpen <=> Len(source) \in inside,
           diagnosticOpen => run.count = 0 /\ EndsFull(view)
    PROVE  Whole(view', inside \cup {Len(source) + 1}) /\ EndsFull(view')
  <1> DEFINE line == FullLine(r, 0)
             n == Len(source)
  <1>1. /\ view \in Seq(Lines) /\ source \in Seq(Records) /\ n \in Nat /\ run.count \in Nat
        /\ view' \in Seq(Lines)
    BY DEF GrowInv, BaseInv, TypeOK, Runs
  <1>2. line.record # NoRecord /\ line.at = n + 1 /\ line \in Lines
    BY <1>1, FullLineFacts, RecordAssumption DEF ExactLine
  <1>3. \E u \in Seq(Lines) : view' = Append(u, line) /\ (run.count = 0 => u = view)
    <2>1. CASE run.count = 0 /\ view' = Append(view, line)
      BY <1>1, <2>1
    <2>2. CASE run.count > 0 /\ \E l \in Lines : view' = Append(Append(view, l), line)
      <3>1. PICK l \in Lines : view' = Append(Append(view, l), line)
        BY <2>2
      <3>2. Append(view, l) \in Seq(Lines) /\ run.count # 0
        BY <1>1, <2>2
      <3> QED  BY <3>1, <3>2
    <2> QED  BY <2>1, <2>2 DEF Showing
  <1> HIDE DEF line
  <1>4. PICK u \in Seq(Lines) : view' = Append(u, line) /\ (run.count = 0 => u = view)
    BY <1>3
  <1>5. /\ Len(view') = Len(u) + 1 /\ Len(u) \in Nat /\ Len(view') \in DOMAIN view'
        /\ view'[Len(view')] = line /\ \A i \in 1 .. Len(u) : view'[i] = u[i]
    BY <1>2, <1>4
  <1>6. EndsFull(view')
    BY <1>2, <1>4, <1>5 DEF EndsFull
  <1>7. inside \in SUBSET Nat /\ Whole(view', inside) /\ \A k \in inside : k - 1 # n + 1
    <2>1. inside \in SUBSET Nat /\ \A k \in inside : k <= n
      BY <1>1
    <2> QED  BY <1>1, <2>1, WholeStays
  <1>8. n \in inside => Len(view') > 1 /\ view'[Len(view') - 1].record # NoRecord
    <2>1. ASSUME n \in inside
          PROVE  u = view /\ view # <<>> /\ view[Len(view)].record # NoRecord
      BY <1>4, <2>1 DEF EndsFull
    <2>2. ASSUME n \in inside
          PROVE  Len(u) >= 1 /\ Len(view') - 1 = Len(u)
      BY <1>1, <1>5, <2>1, <2>2
    <2> QED  BY <1>5, <2>1, <2>2
  <1>9. ASSUME NEW k \in inside \cup {n + 1}
        PROVE  \E i \in DOMAIN view' :
                   /\ view'[i].record # NoRecord /\ view'[i].at = k
                   /\ k - 1 \in inside \cup {n + 1} => i > 1 /\ view'[i - 1].record # NoRecord
    <2>1. CASE k = n + 1
      <3>1. k - 1 = n /\ n # n + 1
        BY <1>1, <2>1
      <3>2. /\ view'[Len(view')].record # NoRecord /\ view'[Len(view')].at = k
            /\ k - 1 \in inside \cup {n + 1} =>
                   Len(view') > 1 /\ view'[Len(view') - 1].record # NoRecord
        BY <1>2, <1>5, <1>8, <2>1, <3>1
      <3> QED  BY <1>5, <3>2
    <2>2. CASE k \in inside
      <3>1. k - 1 # n + 1
        BY <1>7, <2>2
      <3> QED  BY <1>7, <2>2, <3>1 DEF Whole
    <2> QED  BY <2>1, <2>2
  <1>10. Whole(view', inside \cup {n + 1})
    <2> HIDE DEF n
    <2> QED  BY <1>9 DEF Whole
  <1> QED  BY <1>6, <1>10

LEMMA DiagnosticStep ==
    ASSUME GrowInv, DiagnosticInv, [Next]_vars
    PROVE  DiagnosticInv'
  <1>1. /\ GrowInv' /\ Outcome /\ Extends(view, view') /\ BaseInv
        /\ source \in Seq(Records) /\ view \in Seq(Lines) /\ diagnosticOpen \in BOOLEAN
        /\ run.count \in Nat /\ diagnosticOpen' \in BOOLEAN
    BY GrowStep DEF GrowInv, BaseInv, TypeOK, Runs
  <1>2. PICK inside \in SUBSET DOMAIN source :
            /\ Delimits(source, inside) /\ Whole(view, inside)
            /\ diagnosticOpen <=> Len(source) \in inside
    BY DEF DiagnosticInv
  <1>3. inside \in SUBSET Nat /\ Whole(view', inside)
    BY <1>1, <1>2, WholeStays
  <1>4. CASE source' = source /\ diagnosticOpen' = diagnosticOpen
    <2>1. \A r \in Records : source # Append(source, r)
      BY <1>1
    <2>2. diagnosticOpen => view' = view /\ run'.count = 0
      BY <1>1, <1>4, <2>1 DEF Outcome, DiagnosticInv
    <2>3. diagnosticOpen' => run'.count = 0 /\ EndsFull(view')
      BY <1>4, <2>2 DEF DiagnosticInv
    <2> QED  BY <1>2, <1>3, <1>4, <2>3 DEF DiagnosticInv
  <1>5. ASSUME NEW r \in Records, Process(r)
        PROVE  DiagnosticInv'
    <2> DEFINE n == Len(source)
               after == IF diagnosticOpen' THEN inside \cup {n + 1} ELSE inside
    <2>1. /\ source' = Append(source, r)
          /\ diagnosticOpen' <=> IF diagnosticOpen THEN ~EndsDiagnostic(r) ELSE OpensDiagnostic(r)
          /\ diagnosticOpen' => Showing(r)
      BY <1>1, <1>5, ProcessStep, DiagnosticRecord
    <2>2. /\ n \in Nat /\ DOMAIN source = 1 .. n /\ DOMAIN source' = 1 .. n + 1 /\ Len(source') = n + 1
          /\ source'[n + 1] = r /\ \A k \in 1 .. n : source'[k] = source[k]
      BY <1>1, <2>1
    <2>3. /\ \A k \in inside : k \in 1 .. n
          /\ after \in SUBSET (1 .. n + 1)
          /\ diagnosticOpen' <=> n + 1 \in after
          /\ \A k \in 1 .. n : k \in after <=> k \in inside
          /\ 0 \notin inside /\ 0 \notin after
      BY <1>2, <2>2
    <2> HIDE DEF after
    <2>4. Delimits(source', after)
      <3> SUFFICES ASSUME NEW k \in 1 .. n + 1
                   PROVE  k \in after <=> IF k - 1 \in after THEN ~EndsDiagnostic(source'[k])
                                          ELSE OpensDiagnostic(source'[k])
        BY <2>2 DEF Delimits
      <3>1. CASE k = n + 1
        <4>1. k - 1 = n /\ (n \in after <=> n \in inside)
          <5>1. n = 0 \/ n \in 1 .. n
            BY <2>2
          <5> QED  BY <2>2, <2>3, <3>1, <5>1
        <4>2. diagnosticOpen <=> k - 1 \in after
          BY <1>2, <4>1
        <4> QED  BY <2>1, <2>2, <2>3, <3>1, <4>2
      <3>2. CASE k \in 1 .. n
        <4>1. k - 1 \in after <=> k - 1 \in inside
          <5>1. k - 1 = 0 \/ k - 1 \in 1 .. n
            BY <2>2, <3>2
          <5> QED  BY <2>3, <5>1
        <4>2. k \in inside <=> IF k - 1 \in inside THEN ~EndsDiagnostic(source[k])
                               ELSE OpensDiagnostic(source[k])
          BY <1>2, <2>2, <3>2 DEF Delimits
        <4> QED  BY <2>2, <2>3, <3>2, <4>1, <4>2
      <3>3. k = n + 1 \/ k \in 1 .. n
        BY <2>2
      <3> QED  BY <3>1, <3>2, <3>3
    <2>5. Whole(view', after) /\ (diagnosticOpen' => EndsFull(view'))
      <3>1. CASE diagnosticOpen'
        <4>1. diagnosticOpen => run.count = 0 /\ EndsFull(view)
          BY DEF DiagnosticInv
        <4> QED  BY <1>1, <1>2, <2>1, <3>1, <4>1, WholeWithNext DEF after
      <3>2. CASE ~diagnosticOpen'
        BY <1>3, <3>2 DEF after
      <3> QED  BY <3>1, <3>2
    <2>6. diagnosticOpen' => run'.count = 0
      BY <2>1 DEF Showing
    <2> QED  BY <2>2, <2>3, <2>4, <2>5, <2>6 DEF DiagnosticInv
  <1>6. (Tick \/ Finish \/ Advance \/ (\E t \in Timers : TimerStep(t)) \/ UNCHANGED vars)
        => source' = source /\ diagnosticOpen' = diagnosticOpen
    BY DEF Tick, Finish, Advance, TimerStep, Expire, OnTimer, vars, indexVars
  <1> QED  BY <1>4, <1>5, <1>6 DEF Next

\* From the record that opens a diagnostic to the one before that which ends
\* it, every record is printed and no count comes between, whatever the
\* records' shapes, however familiar they are and whenever timers fire.
THEOREM DiagnosticsCorrect == Spec => []DiagnosticsIntact
  <1> DEFINE IInv == GrowInv /\ DiagnosticInv
  <1>1. Init => IInv
    <2>1. Init => DiagnosticInv
      BY DEF Init, DiagnosticInv, Delimits, Whole
    <2> QED  BY <2>1, InitGrow
  <1>2. IInv /\ [Next]_vars => IInv'
    BY GrowStep, DiagnosticStep
  <1>3. IInv => DiagnosticsIntact
    BY DiagnosticIsWhole
  <1> QED  BY <1>1, <1>2, <1>3, PTL DEF Spec

-----------------------------------------------------------------------------
(* The last record printed, without interleaving.                          *)

Shown(v, j) == v[j].record # NoRecord

\* The last full line of v that was written before record k is i.
LastShown(v, k, i) ==
    /\ i \in DOMAIN v /\ Shown(v, i) /\ v[i].at < k
    /\ \A j \in DOMAIN v : Shown(v, j) /\ v[j].at < k => j <= i
Adjacent(v, k, r) == \E i \in DOMAIN v : LastShown(v, k, i) /\ Repeats(v[i].record, r)
AllAdjacent(v, s) == \A k \in DOMAIN s : HiddenIn(v, k) => Adjacent(v, k, s[k])

\* The recent pattern is that of the last record printed.
RecentShown(v, n, p) ==
    p # NoPattern => \E i \in DOMAIN v : LastShown(v, n + 1, i) /\ Signature[v[i].record] = p
RecentInv == ~Interleaving => RecentShown(view, Len(source), recent)

LEMMA AdjacentParts ==
    /\ AdjacentOnly <=> (~Interleaving => AllAdjacent(view, source))
    /\ AdjacentOnly' <=> (~Interleaving => AllAdjacent(view', source'))
  BY DEF AdjacentOnly, AllAdjacent, Adjacent, LastShown, Shown, HiddenIn, Hidden, Full

\* The lines a step adds are counts, but for the last one if a record is shown.
NewLines(v, w, n) ==
    \A j \in DOMAIN w : \/ j \in DOMAIN v
                        \/ ~Shown(w, j)
                        \/ w[j].at = n + 1 /\ j = Len(w)

LEMMA AppendLine ==
    ASSUME NEW v \in Seq(Lines), NEW l \in Lines
    PROVE  /\ Append(v, l) \in Seq(Lines) /\ Len(Append(v, l)) = Len(v) + 1
           /\ \A j \in DOMAIN Append(v, l) : j \in DOMAIN v \/ j = Len(v) + 1
           /\ Append(v, l)[Len(v) + 1] = l /\ Len(v) + 1 \in DOMAIN Append(v, l)
           /\ \A j \in DOMAIN v : Append(v, l)[j] = v[j]
  OBVIOUS

LEMMA CountIsNew ==
    ASSUME NEW v \in Seq(Lines), NEW l \in Lines, l.record = NoRecord
    PROVE  \A j \in DOMAIN Append(v, l) : j \in DOMAIN v \/ ~Shown(Append(v, l), j)
  <1>1. \A j \in DOMAIN Append(v, l) : j \in DOMAIN v \/ Append(v, l)[j] = l
    BY AppendLine
  <1> QED  BY <1>1 DEF Shown

LEMMA ViewAdds ==
    ASSUME BaseInv, Outcome
    PROVE  /\ NewLines(view, view', Len(source))
           /\ (source' = source \/ Hiding) =>
                  \A j \in DOMAIN view' : j \in DOMAIN view \/ ~Shown(view', j)
           /\ \A r \in Records : (source' = Append(source, r) /\ Showing(r)) =>
                  /\ Len(view') \in DOMAIN view' /\ view'[Len(view')] = FullLine(r, 0)
                  /\ \A j \in DOMAIN view' : j <= Len(view')
  <1>1. view \in Seq(Lines) /\ source \in Seq(Records) /\ run.count \in Nat
    BY DEF BaseInv, TypeOK, Runs
  <1>2. \A r \in Records : source # Append(source, r)
    BY <1>1
  <1>3. ASSUME NEW n, NEW at, Counting(n, at)
        PROVE  \A j \in DOMAIN view' : j \in DOMAIN view \/ ~Shown(view', j)
    BY <1>1, <1>3, CountIsNew DEF Counting, CountLine
  <1>4. ASSUME NEW r \in Records, Showing(r)
        PROVE  /\ NewLines(view, view', Len(source))
               /\ Len(view') \in DOMAIN view' /\ view'[Len(view')] = FullLine(r, 0)
               /\ \A j \in DOMAIN view' : j <= Len(view')
    <2> DEFINE f == FullLine(r, 0)
    <2>1. f \in Lines /\ f.at = Len(source) + 1
      BY <1>1, FullLineFacts DEF ExactLine, FullLine
    <2> HIDE DEF f
    <2>2. CASE view' = Append(view, f)
      <3>1. /\ Len(view') = Len(view) + 1 /\ Len(view) + 1 \in DOMAIN view'
            /\ view'[Len(view) + 1] = f /\ DOMAIN view' = 1 .. Len(view')
            /\ \A j \in DOMAIN view' : j \in DOMAIN view \/ j = Len(view) + 1
        BY <1>1, <2>1, <2>2, AppendLine
      <3> QED  BY <2>1, <3>1 DEF NewLines, f
    <2>3. ASSUME NEW l \in Lines, l.record = NoRecord, view' = Append(Append(view, l), f)
          PROVE  /\ NewLines(view, view', Len(source))
                 /\ Len(view') \in DOMAIN view' /\ view'[Len(view')] = f
                 /\ \A j \in DOMAIN view' : j <= Len(view')
      <3> DEFINE u == Append(view, l)
      <3>1. u \in Seq(Lines) /\ \A j \in DOMAIN u : j \in DOMAIN view \/ u[j] = l
        BY <1>1, AppendLine
      <3>2. view' = Append(u, f)
        BY <2>3
      <3> HIDE DEF u
      <3>3. /\ Len(view') = Len(u) + 1 /\ Len(u) + 1 \in DOMAIN view'
            /\ view'[Len(u) + 1] = f /\ DOMAIN view' = 1 .. Len(view')
            /\ \A j \in DOMAIN view' : j \in DOMAIN u \/ j = Len(u) + 1
            /\ \A j \in DOMAIN u : view'[j] = u[j]
        BY <2>1, <3>1, <3>2, AppendLine
      <3>4. \A j \in DOMAIN view' : j \in DOMAIN view \/ view'[j] = l \/ j = Len(view')
        BY <3>1, <3>3
      <3>5. NewLines(view, view', Len(source))
        BY <2>1, <2>3, <3>3, <3>4 DEF NewLines, Shown
      <3> QED  BY <3>3, <3>5
    <2> QED  BY <1>4, <2>2, <2>3 DEF Showing, CountLine, f
  <1>5. CASE source' = source
    <2>1. \A j \in DOMAIN view' : j \in DOMAIN view \/ ~Shown(view', j)
      BY <1>2, <1>3, <1>5 DEF Outcome
    <2> QED  BY <1>2, <1>5, <2>1 DEF NewLines
  <1>6. CASE Hiding
    <2>1. \A j \in DOMAIN view' : j \in DOMAIN view \/ ~Shown(view', j)
      BY <1>3, <1>6 DEF Hiding
    <2>2. NewLines(view, view', Len(source))
      BY <2>1 DEF NewLines
    <2> QED  BY <1>4, <2>1, <2>2
  <1>7. CASE source' # source /\ ~Hiding
    BY <1>4, <1>7 DEF Outcome
  <1> QED  BY <1>5, <1>6, <1>7

\* The last full line before a record stays the last before that record.
LEMMA LastStays ==
    ASSUME NEW v, NEW w, Extends(v, w), NEW n \in Nat, NewLines(v, w, n),
           NEW k \in 1 .. n + 1, NEW i, LastShown(v, k, i)
    PROVE  LastShown(w, k, i) /\ w[i] = v[i]
  <1>1. i \in DOMAIN w /\ w[i] = v[i] /\ Shown(w, i) /\ w[i].at < k
    BY DEF LastShown, Extends, Shown
  <1>2. ASSUME NEW j \in DOMAIN w, Shown(w, j), w[j].at < k
        PROVE  j <= i
    <2>1. j \in DOMAIN v
      BY <1>2 DEF NewLines
    <2>2. w[j] = v[j]
      BY <2>1 DEF Extends
    <2> QED  BY <1>2, <2>1, <2>2 DEF LastShown, Shown
  <1> QED  BY <1>1, <1>2 DEF LastShown

\* With no full line added, it is also the last before the records to come.
LEMMA LastGoesOn ==
    ASSUME NEW v, NEW w, Extends(v, w), NEW n \in Nat, LinesPast(v, n),
           \A j \in DOMAIN w : j \in DOMAIN v \/ ~Shown(w, j),
           \A j \in DOMAIN v : v[j].at \in Nat,
           NEW m \in Nat, n <= m, NEW i, LastShown(v, n + 1, i)
    PROVE  LastShown(w, m + 1, i) /\ w[i] = v[i]
  <1>1. i \in DOMAIN w /\ w[i] = v[i] /\ Shown(w, i) /\ i \in DOMAIN v /\ w[i].at < n + 1
    BY DEF LastShown, Extends, Shown
  <1>2. w[i].at < m + 1
    BY <1>1
  <1>3. ASSUME NEW j \in DOMAIN w, Shown(w, j)
        PROVE  j <= i
    <2>1. j \in DOMAIN v /\ w[j] = v[j]
      BY <1>3 DEF Extends
    <2>2. v[j].at < n + 1
      BY <2>1 DEF LinesPast
    <2> QED  BY <1>3, <2>1, <2>2 DEF LastShown, Shown
  <1> QED  BY <1>1, <1>2, <1>3 DEF LastShown

\* Without interleaving, what process hides repeats the recent pattern.
LEMMA HiddenIsRecent ==
    ASSUME BaseInv, NEW r \in Records, ProcessFastMatch(r) \/ ProcessFamiliar(r), ~Interleaving
    PROVE  /\ recent' = recent /\ recent # NoPattern
           /\ Signature[r] = recent \/ r \in FastMatches[recent]
  BY DEF ProcessFastMatch, ProcessFamiliar, FastMatch, LoadedMatcher, Known, Ordinary

LEMMA RecentStep ==
    ASSUME GrowInv, RecentInv, ~Interleaving, [Next]_vars
    PROVE  RecentInv'
  <1>1. /\ GrowInv' /\ Outcome /\ Extends(view, view') /\ BaseInv
        /\ source \in Seq(Records) /\ Len(source) \in Nat /\ LinesPast(view, Len(source))
        /\ view \in Seq(Lines)
    BY GrowStep DEF GrowInv, BaseInv, TypeOK
  <1>2. RecentShown(view, Len(source), recent)
    BY DEF RecentInv
  <1>3. \A j \in DOMAIN view : view[j].at \in Nat
    <2>1. \A j \in DOMAIN view : view[j] \in Lines
      BY <1>1
    <2> QED  BY <2>1 DEF Lines
  <1>4. ASSUME recent' = recent, source' = source \/ Hiding, Len(source') \in Nat,
               Len(source) <= Len(source')
        PROVE  RecentInv'
    <2>1. CASE recent = NoPattern
      BY <1>4, <2>1 DEF RecentInv, RecentShown
    <2>2. CASE recent # NoPattern
      <3>1. PICK i \in DOMAIN view : /\ LastShown(view, Len(source) + 1, i)
                                     /\ Signature[view[i].record] = recent
        BY <1>2, <2>2 DEF RecentShown
      <3>2. \A j \in DOMAIN view' : j \in DOMAIN view \/ ~Shown(view', j)
        BY <1>1, <1>4, ViewAdds
      <3>3. LastShown(view', Len(source') + 1, i) /\ view'[i] = view[i]
        BY <1>1, <1>3, <1>4, <3>1, <3>2, LastGoesOn
      <3>4. i \in DOMAIN view'
        BY <3>3 DEF LastShown
      <3>5. RecentShown(view', Len(source'), recent')
        BY <1>4, <3>1, <3>3, <3>4 DEF RecentShown
      <3> QED  BY <3>5 DEF RecentInv
    <2> QED  BY <2>1, <2>2
  <1>5. ASSUME NEW r \in Records, Process(r) PROVE RecentInv'
    <2>1. /\ source' = Append(source, r) /\ Len(source') = Len(source) + 1
          /\ \/ Hiding /\ (ProcessFastMatch(r) \/ ProcessFamiliar(r))
             \/ Showing(r)
      BY <1>1, <1>5, ProcessStep
    <2>2. CASE Hiding /\ (ProcessFastMatch(r) \/ ProcessFamiliar(r))
      BY <1>1, <1>4, <2>1, <2>2, HiddenIsRecent
    <2>3. CASE Showing(r) /\ ~(ProcessFastMatch(r) \/ ProcessFamiliar(r))
      <3> DEFINE n == Len(view')
      <3>1. /\ n \in DOMAIN view' /\ view'[n] = FullLine(r, 0)
            /\ \A j \in DOMAIN view' : j <= n
        BY <1>1, <2>1, <2>3, ViewAdds
      <3>2. view'[n].record = r /\ r # NoRecord /\ view'[n].at < Len(source') + 1
        BY <1>1, <2>1, <3>1 DEF FullLine
      <3> HIDE DEF n
      <3>3. LastShown(view', Len(source') + 1, n)
        BY <3>1, <3>2 DEF LastShown, Shown
      <3>4. recent' = NoPattern \/ recent' = Signature[r]
        BY <1>5, <2>3 DEF Process, ProcessDiagnostic, ProcessReturning, ProcessNew
      <3>5. RecentShown(view', Len(source'), recent')
        BY <3>1, <3>2, <3>3, <3>4 DEF RecentShown
      <3> QED  BY <3>5 DEF RecentInv
    <2>4. CASE Showing(r) /\ (ProcessFastMatch(r) \/ ProcessFamiliar(r))
      <3>1. Hiding
        <4>1. OutputOK /\ Suppress
          BY <1>1, <2>4, BaseParts DEF ProcessFastMatch, ProcessFamiliar
        <4> QED  BY <1>1, <4>1, SuppressFacts
      <3> QED  BY <2>2, <2>4, <3>1
    <2> QED  BY <2>1, <2>2, <2>3, <2>4
  <1>6. (Tick \/ Finish \/ Advance \/ (\E t \in Timers : TimerStep(t)) \/ UNCHANGED vars)
        => source' = source /\ recent' = recent
    BY DEF Tick, Finish, Advance, TimerStep, Expire, OnTimer, vars, indexVars
  <1>7. source' = source => Len(source') \in Nat /\ Len(source) <= Len(source')
    BY <1>1
  <1> QED  BY <1>4, <1>5, <1>6, <1>7 DEF Next

LEMMA AdjacentStep ==
    ASSUME GrowInv, RecentInv, AdjacentOnly, ~Interleaving, [Next]_vars
    PROVE  AdjacentOnly'
  <1>1. /\ Outcome /\ Extends(view, view') /\ BaseInv /\ source \in Seq(Records)
        /\ Len(source) \in Nat /\ NewLines(view, view', Len(source))
    BY GrowStep, ViewAdds DEF GrowInv, BaseInv, TypeOK
  <1>2. ASSUME NEW k \in 1 .. Len(source) + 1, NEW r, Adjacent(view, k, r)
        PROVE  Adjacent(view', k, r)
    <2>1. PICK i \in DOMAIN view : LastShown(view, k, i) /\ Repeats(view[i].record, r)
      BY <1>2 DEF Adjacent
    <2>2. LastShown(view', k, i) /\ view'[i] = view[i]
      BY <1>1, <2>1, LastStays
    <2> QED  BY <2>1, <2>2 DEF Adjacent, LastShown
  <1>3. \A k : HiddenIn(view', k) => HiddenIn(view, k)
    BY <1>1 DEF Extends, HiddenIn
  <1>4. AllAdjacent(view, source)
    BY AdjacentParts
  <1>5. \A k \in DOMAIN source : k \in 1 .. Len(source) + 1
    BY <1>1
  <1>6. CASE source' = source
    <2>1. AllAdjacent(view', source')
      BY <1>2, <1>3, <1>4, <1>5, <1>6 DEF AllAdjacent
    <2> QED  BY <2>1, AdjacentParts
  <1>7. ASSUME NEW r \in Records, Process(r)
        PROVE  AllAdjacent(view', source')
    <2>1. /\ source' = Append(source, r)
          /\ \/ ProcessFastMatch(r) \/ ProcessFamiliar(r)
             \/ Showing(r)
      BY <1>1, <1>7, ProcessStep
    <2>2. ASSUME NEW k \in DOMAIN source, HiddenIn(view', k)
          PROVE  Adjacent(view', k, source'[k])
      <3>1. source'[k] = source[k]
        BY <1>1, <2>1
      <3> QED  BY <1>2, <1>3, <1>4, <1>5, <2>2, <3>1 DEF AllAdjacent
    <2>3. ASSUME HiddenIn(view', Len(source) + 1)
          PROVE  Adjacent(view', Len(source) + 1, r)
      <3>1. CASE Showing(r)
        <4>1. view'[Len(view')] = FullLine(r, 0) /\ Len(view') \in DOMAIN view'
          BY <1>1, <2>1, <3>1, ViewAdds
        <4>2. view'[Len(view')].record # NoRecord /\ view'[Len(view')].at = Len(source) + 1
          BY <4>1 DEF FullLine
        <4> QED  BY <2>3, <4>1, <4>2 DEF HiddenIn
      <3>2. CASE ProcessFastMatch(r) \/ ProcessFamiliar(r)
        <4>1. recent # NoPattern /\ (Signature[r] = recent \/ r \in FastMatches[recent])
          BY <1>1, <3>2, HiddenIsRecent
        <4>2. PICK i \in DOMAIN view : /\ LastShown(view, Len(source) + 1, i)
                                       /\ Signature[view[i].record] = recent
          BY <4>1 DEF RecentInv, RecentShown
        <4>3. Repeats(view[i].record, r)
          BY <4>1, <4>2 DEF Repeats
        <4>4. Len(source) + 1 \in 1 .. Len(source) + 1
          BY <1>1
        <4> QED  BY <1>2, <4>2, <4>3, <4>4 DEF Adjacent
      <3> QED  BY <2>1, <3>1, <3>2
    <2>4. /\ \A k \in DOMAIN source' : k \in DOMAIN source \/ k = Len(source) + 1
          /\ source'[Len(source) + 1] = r
      BY <1>1, <2>1
    <2> QED  BY <2>2, <2>3, <2>4 DEF AllAdjacent
  <1>8. (Tick \/ Finish \/ Advance \/ (\E t \in Timers : TimerStep(t)) \/ UNCHANGED vars)
        => source' = source
    BY DEF Tick, Finish, Advance, TimerStep, Expire, OnTimer, vars
  <1> QED  BY <1>6, <1>7, <1>8, AdjacentParts DEF Next

\* With --no-interleaving a hidden record repeats the last record printed
\* before it, whichever of the index and the compiled matcher recognised it.
THEOREM AdjacentCorrect == Spec => []AdjacentOnly
  <1> DEFINE IInv == GrowInv /\ RecentInv /\ AdjacentOnly
  <1>1. Init => IInv
    <2>1. Init => RecentInv /\ AdjacentOnly
      BY DEF Init, RecentInv, RecentShown, AdjacentOnly
    <2> QED  BY <2>1, InitGrow
  <1>2. IInv /\ [Next]_vars => IInv'
    <2> SUFFICES ASSUME IInv, [Next]_vars PROVE IInv'
      OBVIOUS
    <2>1. CASE Interleaving
      BY <2>1, GrowStep DEF RecentInv, AdjacentOnly
    <2>2. CASE ~Interleaving
      BY <2>2, GrowStep, RecentStep, AdjacentStep
    <2> QED  BY <2>1, <2>2
  <1> QED  BY <1>1, <1>2, PTL DEF Spec

-----------------------------------------------------------------------------
(* Latency.                                                                *)

\* A run and its timer, bounded: late is the longest its dots or its count
\* may yet have waited when the timer comes.
Prompt(rn, left) ==
    left > 0 => /\ rn.age + left < SummaryInterval + TimerDelay
                /\ DotsDue(rn) > 0 => rn.quiet + left < DotFlushInterval + TimerDelay

\* With nothing left to wait for, or no more than a timer's period after the
\* intervals were looked at, a run is prompt.
LEMMA PromptAfterLooking ==
    ASSUME NEW rn \in Runs, ~IntervalOver(rn), DotsDue(rn) > 0 => rn.quiet < DotFlushInterval,
           NEW left \in 0 .. TimerDelay
    PROVE  Prompt(rn, left)
  <1>1. rn.age \in Nat /\ rn.quiet \in Nat /\ TimerDelay \in Nat /\ rn.age < SummaryInterval
    BY CapFacts DEF Runs, IntervalOver
  <1>2. left <= TimerDelay /\ left \in Nat
    BY <1>1
  <1> HIDE DEF DotsDue
  <1> QED  BY <1>1, <1>2 DEF Prompt

\* After pending dots are looked at, dots that still wait have not waited long.
LEMMA LookedAt ==
    ASSUME NEW rn \in Runs, rn.dots <= rn.count \div DotEvery
    PROVE  LET w == WritePendingDots(rn, FALSE)
           IN  DotsDue(w) > 0 => w.quiet < DotFlushInterval
  <1> DEFINE due == rn.count \div DotEvery
             w == WritePendingDots(rn, FALSE)
             Do == /\ due > rn.dots
                   /\ DotsDue(rn) >= DotBatchSize \/ rn.quiet >= DotFlushInterval
  <1>1. due \in Nat /\ rn.dots \in Nat /\ rn.quiet \in Nat
    BY DivFacts, CapFacts DEF Runs
  <1>2. CASE Do
    <2>1. w = [rn EXCEPT !.dots = due, !.quiet = 0]
      BY <1>2 DEF WritePendingDots
    <2>2. w.quiet = 0
      BY <2>1 DEF Runs
    <2>3. 0 < DotFlushInterval
      OBVIOUS
    <2> QED  BY <2>2, <2>3, Zenon
  <1>3. CASE ~Do
    <2>1. w = rn
      BY <1>3 DEF WritePendingDots
    <2>2. DotsDue(rn) > 0 => rn.quiet < DotFlushInterval
      BY <1>1, <1>3 DEF DotsDue
    <2> QED  BY <2>1, <2>2
  <1> QED  BY <1>2, <1>3

LEMMA LeftTypes ==
    ASSUME NEW w \in Waits, NEW t \in Timers
    PROVE  w[t].left \in 0 .. TimerDelay
  BY DEF Waits, TimerStates

\* A step that looks at the open run leaves it prompt, whatever timer it has.
LEMMA FlushedPrompt ==
    ASSUME OutputOK, NEW rn, rn = run \/ rn = Counted,
           run' = WritePendingDots(rn, FALSE), ~IntervalOver(run'), OutputOK',
           LiveTimer => timer' \in Timers
    PROVE  Latency'
  <1>1. run \in Runs /\ run.dots <= run.count \div DotEvery
    BY DEF OutputOK, DotsExact
  <1>2. rn \in Runs /\ rn.dots <= rn.count \div DotEvery
    BY <1>1, CountedFacts DEF Continues
  <1>3. DotsDue(run') > 0 => run'.quiet < DotFlushInterval
    BY <1>2, LookedAt
  <1>4. run' \in Runs /\ wait' \in Waits
    BY DEF OutputOK, Waits
  <1>5. LiveTimer => Prompt(run', wait'[timer'].left)
    BY <1>3, <1>4, LeftTypes, PromptAfterLooking
  <1> QED  BY <1>5 DEF Latency, Prompt

LEMMA ScheduledTimer ==
    ASSUME NEW ref \in Timers \cup {NoTimer}, NEW w, ScheduleTimer(ref, w)
    PROVE  LiveTimer => timer' \in Timers
  BY DEF ScheduleTimer

\* Time that passes takes from the timer's wait what it adds to the run's age.
LEMMA ClockLatency ==
    ASSUME TimerInv, Latency, Advance, LiveTimer, run.count > 0
    PROVE  Latency'
  <1>1. /\ OutputOK /\ timer \in Timers /\ wait \in Waits /\ run \in Runs
        /\ run.age \in Nat /\ run.quiet \in Nat
    BY BaseParts DEF TimerInv, RunHasTimer, OutputOK, Waits, Runs
  <1>2. timer' = timer /\ run'.count = run.count
    BY <1>1, ClockStep DEF Advance
  <1>3. /\ run' = [run EXCEPT !.age = Older(run.age, AgeCap), !.quiet = Older(run.quiet, QuietCap)]
        /\ wait'[timer] = IF wait[timer].left > 0 THEN [wait[timer] EXCEPT !.left = @ - 1]
                          ELSE wait[timer]
    BY <1>1 DEF Advance
  <1>4. /\ run'.age = Older(run.age, AgeCap) /\ run'.quiet = Older(run.quiet, QuietCap)
        /\ run'.count = run.count /\ run'.dots = run.dots
    BY <1>1, <1>3 DEF Runs
  <1>5. \A n \in Nat, cap \in Nat : Older(n, cap) \in Nat /\ Older(n, cap) <= n + 1
    BY DEF Older
  <1>6. /\ run'.age \in Nat /\ run'.age <= run.age + 1
        /\ run'.quiet \in Nat /\ run'.quiet <= run.quiet + 1
    <2>1. AgeCap \in Nat /\ QuietCap \in Nat /\ run.age \in Nat /\ run.quiet \in Nat
      BY <1>1, CapFacts
    <2>2. /\ Older(run.age, AgeCap) \in Nat /\ Older(run.age, AgeCap) <= run.age + 1
          /\ Older(run.quiet, QuietCap) \in Nat /\ Older(run.quiet, QuietCap) <= run.quiet + 1
      BY <1>5, <2>1
    <2> QED  BY <1>4, <2>2, Zenon
  <1>7. DotsDue(run') = DotsDue(run)
    BY <1>4 DEF DotsDue
  <1>8. CASE wait[timer].left > 0
    <2>1. wait'[timer].left = wait[timer].left - 1
      BY <1>1, <1>3, <1>8 DEF Waits, TimerStates
    <2>2. wait[timer].left \in Nat /\ TimerDelay \in Nat
      BY <1>1, LeftTypes, CapFacts
    <2>3. Prompt(run, wait[timer].left)
      BY DEF Latency, Prompt
    <2>4. Prompt(run', wait'[timer].left)
      BY <1>1, <1>6, <1>7, <1>8, <2>1, <2>2, <2>3 DEF Prompt
    <2> QED  BY <1>2, <2>4 DEF Latency, Prompt
  <1>9. CASE ~(wait[timer].left > 0)
    BY <1>2, <1>3, <1>9 DEF Latency
  <1> QED  BY <1>8, <1>9

LEMMA LatencyStep ==
    ASSUME TimerInv, Latency, [Next]_vars
    PROVE  Latency'
  <1>1. /\ BaseInv /\ OutputOK /\ RunHasTimer /\ BaseInv' /\ OutputOK'
        /\ timer \in Timers \cup {NoTimer} /\ wait \in Waits /\ run.count \in Nat
        /\ (finished => run.count = 0)
    <2>1. BaseInv /\ BaseInv'
      BY StepOutcome DEF TimerInv
    <2> QED  BY <2>1, BaseParts DEF TimerInv, BaseInv, TypeOK, OutputOK, Waits, Runs
  <1>2. run'.count = 0 => Latency'
    BY DEF Latency
  <1>3. CASE Suppress
    <2> DEFINE counted == WritePendingDots(Counted, FALSE)
    <2>1. CASE IntervalOver(counted)
      BY <1>2, <1>3, <2>1, NoRunFacts DEF Suppress, CloseRun
    <2>2. CASE ~IntervalOver(counted)
      <3>1. run' = counted /\ ScheduleTimer(timer, wait)
        BY <1>3, <2>2 DEF Suppress
      <3>2. LiveTimer => timer' \in Timers
        BY <1>1, <3>1, ScheduledTimer
      <3> QED  BY <1>1, <2>2, <3>1, <3>2, FlushedPrompt
    <2> QED  BY <2>1, <2>2
  <1>4. ASSUME NEW r \in Records, WriteVisible(r) PROVE Latency'
    BY <1>2, <1>4, NoRunFacts DEF WriteVisible
  <1>5. ASSUME NEW r \in Records, Process(r) PROVE Latency'
    BY <1>3, <1>4, <1>5 DEF Process, ProcessDiagnostic, ProcessFastMatch, ProcessFamiliar,
          ProcessReturning, ProcessNew
  <1>6. ASSUME NEW ref, NEW w, NEW rearm \in BOOLEAN, run.count # 0, TickLocked(ref, w, rearm),
               IF rearm THEN ref = NoTimer ELSE ref = timer
        PROVE  Latency'
    <2> DEFINE flushed == WritePendingDots(run, FALSE)
    <2>1. CASE IntervalOver(flushed)
      BY <1>2, <1>6, <2>1, NoRunFacts DEF TickLocked, CloseRun
    <2>2. CASE ~IntervalOver(flushed)
      <3>1. /\ run' = flushed
            /\ IF rearm THEN ScheduleTimer(ref, w) ELSE timer' = ref /\ wait' = w
        BY <1>6, <2>2 DEF TickLocked
      <3>2. LiveTimer => timer' \in Timers
        <4>1. CASE rearm
          BY <1>6, <3>1, <4>1, ScheduledTimer
        <4>2. CASE ~rearm
          <5>1. timer' = timer /\ run.count > 0
            BY <1>1, <1>6, <3>1, <4>2
          <5> QED  BY <1>1, <5>1 DEF RunHasTimer
        <4> QED  BY <4>1, <4>2
      <3> QED  BY <1>1, <2>2, <3>1, <3>2, FlushedPrompt
    <2> QED  BY <2>1, <2>2
  <1>7. CASE Tick
    <2>1. TickLocked(timer, wait, FALSE) /\ run.count > 0 /\ run.count \in Nat
      BY <1>1, <1>7 DEF Tick
    <2>2. run.count # 0
      BY <2>1
    <2> QED  BY <1>6, <2>1, <2>2
  <1>8. CASE Finish
    BY <1>2, <1>8, NoRunFacts DEF Finish, CloseRun
  <1>9. ASSUME NEW t \in Timers, Expire(t) PROVE Latency'
    <2>1. run' = run /\ timer' = timer /\ wait' = [wait EXCEPT ![t] = Firing]
      BY <1>9 DEF Expire
    <2>2. CASE timer = t
      <3>1. wait'[timer'].left = 0
        BY <1>1, <2>1, <2>2 DEF Waits, Firing
      <3> QED  BY <3>1 DEF Latency
    <2>3. CASE timer # t /\ LiveTimer /\ run.count > 0
      <3>1. wait'[timer'] = wait[timer]
        BY <1>1, <2>1, <2>3 DEF Waits, RunHasTimer
      <3> QED  BY <2>1, <3>1 DEF Latency
    <2> QED  BY <2>1, <2>2, <2>3 DEF Latency
  <1>10. ASSUME NEW t \in Timers, OnTimer(t) PROVE Latency'
    <2>1. CASE finished \/ run.count = 0
      <3>1. run' = run /\ run.count = 0
        BY <1>1, <1>10, <2>1 DEF OnTimer, TickLocked
      <3> QED  BY <1>2, <3>1
    <2>2. CASE ~finished /\ run.count # 0
      <3>1. TickLocked(NoTimer, [wait EXCEPT ![t] = Idle], TRUE)
        BY <1>10, <2>2 DEF OnTimer
      <3> QED  BY <1>6, <2>2, <3>1
    <2> QED  BY <2>1, <2>2
  <1>11. CASE Advance
    <2>1. run'.count = run.count
      BY <1>1, <1>11, ClockStep
    <2>2. CASE LiveTimer /\ run.count > 0
      BY <1>11, <2>2, ClockLatency
    <2> QED  BY <2>1, <2>2 DEF Latency
  <1>12. CASE UNCHANGED vars
    BY <1>12 DEF vars, Latency, DotsDue
  <1> QED  BY <1>5, <1>7, <1>8, <1>9, <1>10, <1>11, <1>12 DEF Next, TimerStep

\* For every dot size and interval, and whichever record, tick or stale
\* callback armed the timer of an open run, by the time it is due neither its
\* dots nor its count have waited a timer period more than their interval.
THEOREM LatencyCorrect == Spec => []Latency
  <1> DEFINE IInv == TimerInv /\ Latency
  <1>1. Init => IInv
    <2>1. Init => RunHasTimer /\ Latency /\ (finished => run.count = 0)
      BY NoRunFacts DEF Init, RunHasTimer, Latency
    <2> QED  BY <2>1, InitBase DEF TimerInv
  <1>2. IInv /\ [Next]_vars => IInv'
    BY StepOutcome, FinishedStep, TimerStepKept, LatencyStep DEF TimerInv
  <1> QED  BY <1>1, <1>2, PTL DEF Spec
=============================================================================
