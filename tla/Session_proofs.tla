--------------------------- MODULE Session_proofs ---------------------------
(***************************************************************************)
(* Proofs about Session: its types, that a hidden record has an exemplar   *)
(* although Ctrl+C may fall between any two statements, that what has been *)
(* written at the end covers every record taken, and that the exit status  *)
(* and the command log tell what happened.                                 *)
(***************************************************************************)
EXTENDS Session, FiniteSetTheorems, FunctionTheorems, SequenceTheorems, TLAPS

USE SessionAssumption

-----------------------------------------------------------------------------
(* The inductive invariant.                                                *)

\* The order of the statements in what is left of a locked section.
Orderly(s) ==
    /\ \A i \in 1 .. Len(s) : s[i] = "count" => i = 1
    /\ \A i \in 1 .. Len(s) : s[i] = "flush" => i = Len(s)
    /\ \A i \in 1 .. Len(s) : s[i] = "index" => i + 1 = Len(s) /\ s[i + 1] = "print"
    /\ \A i \in 1 .. Len(s) : s[i] = "print" => i = Len(s) /\ (i > 1 => s[i - 1] = "index")
    /\ \A i, j \in 1 .. Len(s) : s[i] = "reset" /\ i < j => s[j] # "summary"

\* A summary is only due when there is something to count.
Counts(s, n) == \A i \in 1 .. Len(s) : s[i] = "summary" => n # 0 \/ s[1] = "count"

OnlyOf(s, S) == \A i \in 1 .. Len(s) : s[i] \in S

TimerStatements == {"clear", "dots", "summary", "cancel", "reset", "assign", "start"}
ProcessStatements ==
    {"dots", "summary", "cancel", "reset", "assign", "start", "count", "index", "print"}
FinishStatements == {"mark", "summary", "cancel", "reset", "flush"}

OneWorks == \A t, u \in Threads : work[t] # <<>> /\ work[u] # <<>> => t = u

WorkInv ==
    /\ OneWorks
    /\ \A t \in Threads : Orderly(work[t]) /\ Counts(work[t], count)
    /\ \A t \in Timers : OnlyOf(work[t], TimerStatements)
    /\ work[Main] # <<>> => at \in {"processing", "finishing"}
    /\ at = "processing" => OnlyOf(work[Main], ProcessStatements)
    /\ at = "finishing" => OnlyOf(work[Main], FinishStatements)
    /\ at \in {"waiting", "processing"} => hand \in Patterns
    /\ \A i \in 1 .. Len(work[Main]) : work[Main][i] = "count" => hand \in index

Early == at \in {"start", "parse"}
LastWritten == at = "log" \/ (at = "finishing" /\ work[Main] = <<>>)

EndInv ==
    /\ Early => /\ ~failed /\ ~finished
                /\ \A t \in Timers : wait[t] = "idle" /\ work[t] = <<>>
    /\ (at = "finishing" /\ work[Main] # <<>>) =>
           /\ work[Main][Len(work[Main])] = "flush"
           /\ finished \/ work[Main][1] = "mark"
    /\ LastWritten => /\ ~failed
                      /\ \A t \in Timers : OnlyOf(work[t], {"clear"})
                      /\ finished \/ \A t \in Timers : wait[t] = "idle" /\ work[t] = <<>>
    /\ at \in {"finally", "finishing", "log"} => status # NoStatus
    /\ at # "gone" => logged = NoStatus

Printed == {written[i].pattern : i \in 1 .. Len(written)}
Reading == at \in {"start", "parse", "idle", "waiting", "processing"}
Unprinted == IF Len(work[Main]) = 1 /\ work[Main][1] = "print" THEN {hand} ELSE {}

\* While records are read, what is in the index has been printed, is about to be
\* or has been torn.
ExemplarInv ==
    /\ hidden \subseteq Printed \cup TornPatterns
    /\ Reading => index \subseteq Printed \cup TornPatterns \cup Unprinted

IInv == TypeOK /\ WorkInv /\ EndInv /\ ExemplarInv /\ ExitTold

Has(s, x) == \E i \in 1 .. Len(s) : s[i] = x

\* A count is written, its timer cancelled and it is reset, in this order, and
\* a record is either counted or printed.
Closes(s) ==
    /\ \A i \in 1 .. Len(s) : s[i] = "summary" =>
           i + 2 <= Len(s) /\ s[i + 1] = "cancel" /\ s[i + 2] = "reset"
    /\ \A i \in 1 .. Len(s) : s[i] = "reset" =>
           (i > 1 => s[i - 1] = "cancel") /\ (i > 2 => s[i - 2] = "summary")
    /\ ~(Has(s, "count") /\ Has(s, "print"))

\* The count has been written and is still to be reset.
Reports(s) == Has(s, "reset") /\ ~Has(s, "summary")
Reported == \E t \in Threads : Reports(work[t])

\* The record in hand has been taken and is neither counted nor printed yet.
Due ==
    \/ at = "waiting"
    \/ at = "processing" /\ (Has(work[Main], "count") \/ Has(work[Main], "print"))

\* Every record taken is in what is written, in the count or in hand.  A count
\* whose reset Ctrl+C prevented is written twice: it covers too much, never too
\* little.
Total == Covered + (IF Reported THEN 0 ELSE count) + (IF Due THEN 1 ELSE 0)

Balanced ==
    /\ Total + Len(torn) >= Len(source)
    /\ torn = <<>> => Total = Len(source)

CountInv ==
    /\ \A t \in Threads : Closes(work[t])
    /\ IsFiniteSet(Lines)
    /\ (at # "gone" /\ ~failed) => Balanced
    /\ at = "finishing" => count = 0 \/ Has(work[Main], "reset")
    /\ (at = "log" /\ finished) => count = 0

-----------------------------------------------------------------------------
(* The locked sections.                                                    *)

LEMMA Concat ==
  ASSUME NEW s \in Seq(Statements), NEW t \in Seq(Statements)
  PROVE  /\ s \o t \in Seq(Statements)
         /\ Len(s \o t) = Len(s) + Len(t)
         /\ \A i \in 1 .. Len(s) : (s \o t)[i] = s[i]
         /\ \A i \in Len(s) + 1 .. Len(s) + Len(t) : (s \o t)[i] = t[i - Len(s)]
<1>1. Len(s) \in Nat /\ Len(t) \in Nat
  OBVIOUS
<1> QED
  BY <1>1, ConcatProperties

\* What is known of the sequence of a body.
LEMMA CloseIs ==
  /\ Close \in Seq(Statements) /\ Len(Close) = 3
  /\ Close[1] = "summary" /\ Close[2] = "cancel" /\ Close[3] = "reset"
BY DEF Close, Statements

LEMMA CloseOpenIs ==
  /\ CloseOpen \in Seq(Statements)
  /\ count = 0 => Len(CloseOpen) = 0
  /\ count # 0 => CloseOpen = Close
BY CloseIs DEF CloseOpen

LEMMA ScheduleIs ==
  /\ Schedule \in Seq(Statements) /\ Len(Schedule) = 2
  /\ Schedule[1] = "assign" /\ Schedule[2] = "start"
BY DEF Schedule, Statements

Pending == {"dots", "summary", "cancel", "reset"}
Before == {"count", "clear", "assign", "start"}

LEMMA TickIs ==
  ASSUME NEW due \in BOOLEAN, NEW over \in BOOLEAN
  PROVE  LET b == Tick(due, over)
         IN  /\ b \in Seq(Statements) /\ OnlyOf(b, Pending)
             /\ ~over => OnlyOf(b, {"dots"})
             /\ \A i \in 1 .. Len(b) : b[i] = "summary" =>
                    i + 2 = Len(b) /\ b[i + 1] = "cancel" /\ b[i + 2] = "reset"
             /\ \A i \in 1 .. Len(b) : b[i] = "reset" =>
                    i = Len(b) /\ i > 2 /\ b[i - 1] = "cancel" /\ b[i - 2] = "summary"
<1> DEFINE dots == IF due THEN <<"dots">> ELSE <<>>
           close == IF over THEN Close ELSE <<>>
           b == dots \o close
<1>1. Tick(due, over) = b
  BY DEF Tick
<1>2. dots \in Seq(Statements) /\ (Len(dots) = 0 \/ (Len(dots) = 1 /\ dots[1] = "dots"))
  <2>1. CASE due
    BY <2>1 DEF Statements
  <2>2. CASE ~due
    BY <2>2
  <2> QED
    BY <2>1, <2>2
<1>3. /\ close \in Seq(Statements)
      /\ \/ Len(close) = 0
         \/ /\ over /\ Len(close) = 3
            /\ close[1] = "summary" /\ close[2] = "cancel" /\ close[3] = "reset"
  BY CloseIs
<1> HIDE DEF dots, close
<1>4. /\ b \in Seq(Statements) /\ Len(b) = Len(dots) + Len(close)
      /\ \A i \in 1 .. Len(dots) : b[i] = dots[i]
      /\ \A i \in Len(dots) + 1 .. Len(dots) + Len(close) : b[i] = close[i - Len(dots)]
  BY <1>2, <1>3, Concat
<1> HIDE DEF b
<1>5. CASE Len(close) = 0
  <2>1. \A i \in 1 .. Len(b) : b[i] = "dots"
    BY <1>2, <1>4, <1>5
  <2> QED
    BY <1>1, <1>4, <2>1 DEF OnlyOf, Pending
<1>6. CASE /\ over /\ Len(close) = 3
           /\ close[1] = "summary" /\ close[2] = "cancel" /\ close[3] = "reset"
  <2>1. CASE Len(dots) = 0
    <3>1. Len(b) = 3 /\ b[1] = "summary" /\ b[2] = "cancel" /\ b[3] = "reset"
      BY <2>1, <1>4, <1>6
    <3>2. /\ \A i \in 1 .. Len(b) : b[i] = "summary" => i = 1
          /\ \A i \in 1 .. Len(b) : b[i] = "reset" => i = 3
      BY <3>1
    <3>3. OnlyOf(b, Pending)
      BY <3>1 DEF OnlyOf, Pending
    <3> QED
      BY <1>1, <1>4, <1>6, <3>1, <3>2, <3>3
  <2>2. CASE Len(dots) = 1 /\ dots[1] = "dots"
    <3>1. /\ Len(b) = 4 /\ b[1] = dots[1]
          /\ b[2] = close[1] /\ b[3] = close[2] /\ b[4] = close[3]
      BY <2>2, <1>4, <1>6
    <3> QED
      BY <1>1, <1>4, <1>6, <2>2, <3>1 DEF OnlyOf, Pending
  <2> QED
    BY <1>2, <2>1, <2>2
<1> QED
  BY <1>3, <1>5, <1>6

\* The output that is due, after a section has counted or cleared its timer.
LEMMA TickAfter ==
  ASSUME NEW a \in Seq(Statements), Len(a) > 0, OnlyOf(a, Before),
         \A i \in 1 .. Len(a) : a[i] = "count" => i = 1,
         NEW due \in BOOLEAN, NEW over \in BOOLEAN
  PROVE  LET b == a \o Tick(due, over)
         IN  /\ b \in Seq(Statements) /\ Len(b) > 0 /\ b[1] = a[1]
             /\ Orderly(b)
             /\ a[1] # "count" => OnlyOf(b, {"clear", "assign", "start"} \cup Pending)
             /\ (\A i \in 1 .. Len(a) : a[i] # "clear") =>
                    OnlyOf(b, {"count", "assign", "start"} \cup Pending)
             /\ Closes(b) /\ ~Reports(b)
<1> DEFINE t == Tick(due, over)
           b == a \o t
           n == Len(a)
<1>1. /\ t \in Seq(Statements) /\ OnlyOf(t, Pending)
      /\ \A i \in 1 .. Len(t) : t[i] = "summary" =>
             i + 2 = Len(t) /\ t[i + 1] = "cancel" /\ t[i + 2] = "reset"
      /\ \A i \in 1 .. Len(t) : t[i] = "reset" =>
             i = Len(t) /\ i > 2 /\ t[i - 1] = "cancel" /\ t[i - 2] = "summary"
  BY TickIs
<1> HIDE DEF t
<1>2. /\ b \in Seq(Statements) /\ Len(b) = n + Len(t)
      /\ \A i \in 1 .. n : b[i] = a[i]
      /\ \A i \in n + 1 .. n + Len(t) : b[i] = t[i - n]
  BY <1>1, Concat
<1>3. n \in Nat \ {0} /\ Len(t) \in Nat
  BY <1>1
<1> HIDE DEF b, n
<1>4. \A i \in 1 .. Len(b) :
        \/ i \in 1 .. n /\ b[i] = a[i]
        \/ i - n \in 1 .. Len(t) /\ b[i] = t[i - n]
  BY <1>2, <1>3
<1>5. (\A i \in 1 .. n : a[i] \in Before) /\ \A i \in 1 .. Len(t) : t[i] \in Pending
  BY <1>1 DEF OnlyOf, n
<1>6. \A i \in 1 .. Len(b) : (b[i] \in Before /\ i \in 1 .. n) \/ b[i] \in Pending
  BY <1>4, <1>5
<1>7. \A i \in 1 .. Len(b) : b[i] = "count" => i = 1
  BY <1>4, <1>5 DEF Pending, n
<1>8. ASSUME NEW i \in 1 .. Len(b), b[i] = "summary"
      PROVE  i + 2 = Len(b) /\ b[i + 1] = "cancel" /\ b[i + 2] = "reset"
  <2>1. i - n \in 1 .. Len(t) /\ t[i - n] = "summary"
    BY <1>4, <1>5, <1>8 DEF Before
  <2>2. (i - n) + 2 = Len(t) /\ t[(i - n) + 1] = "cancel" /\ t[(i - n) + 2] = "reset"
    BY <1>1, <2>1
  <2>3. /\ i + 1 \in n + 1 .. n + Len(t) /\ i + 2 \in n + 1 .. n + Len(t)
        /\ (i + 1) - n = (i - n) + 1 /\ (i + 2) - n = (i - n) + 2
        /\ i + 2 = n + Len(t)
    BY <1>3, <2>1, <2>2
  <2>4. b[i + 1] = t[(i + 1) - n] /\ b[i + 2] = t[(i + 2) - n]
    BY <1>2, <2>3
  <2> QED
    BY <1>2, <2>2, <2>3, <2>4
<1>9. ASSUME NEW i \in 1 .. Len(b), b[i] = "reset"
      PROVE  i = Len(b) /\ i > 2 /\ b[i - 1] = "cancel" /\ b[i - 2] = "summary"
  <2>1. i - n \in 1 .. Len(t) /\ t[i - n] = "reset"
    BY <1>4, <1>5, <1>9 DEF Before
  <2>2. i - n = Len(t) /\ i - n > 2 /\ t[(i - n) - 1] = "cancel" /\ t[(i - n) - 2] = "summary"
    BY <1>1, <2>1
  <2>3. /\ i - 1 \in n + 1 .. n + Len(t) /\ i - 2 \in n + 1 .. n + Len(t)
        /\ (i - 1) - n = (i - n) - 1 /\ (i - 2) - n = (i - n) - 2
        /\ i = n + Len(t) /\ i > 2
    BY <1>3, <2>1, <2>2
  <2>4. b[i - 1] = t[(i - 1) - n] /\ b[i - 2] = t[(i - 2) - n]
    BY <1>2, <2>3
  <2> QED
    BY <1>2, <2>2, <2>3, <2>4
<1>10. Orderly(b)
  <2>1. \A i \in 1 .. Len(b) : b[i] \notin {"flush", "index", "print"}
    BY <1>6 DEF Before, Pending
  <2>2. \A i, j \in 1 .. Len(b) : b[i] = "reset" /\ i < j => b[j] # "summary"
    BY <1>9
  <2> QED
    BY <1>7, <2>1, <2>2 DEF Orderly
<1>11. Closes(b)
  <2>1. \A i \in 1 .. Len(b) : b[i] # "print"
    BY <1>6 DEF Before, Pending
  <2>2. Len(b) \in Nat
    BY <1>2
  <2> QED
    BY <1>8, <1>9, <2>1, <2>2 DEF Closes, Has
<1>12. ~Reports(b)
  <2> SUFFICES ASSUME NEW i \in 1 .. Len(b), b[i] = "reset" PROVE Has(b, "summary")
    BY DEF Reports, Has
  <2>1. i - 2 \in 1 .. Len(b) /\ b[i - 2] = "summary"
    BY <1>9, <1>2
  <2> QED
    BY <2>1 DEF Has
<1>13. /\ a[1] # "count" => OnlyOf(b, {"clear", "assign", "start"} \cup Pending)
       /\ (\A i \in 1 .. Len(a) : a[i] # "clear") =>
              OnlyOf(b, {"count", "assign", "start"} \cup Pending)
  <2>1. a[1] # "count" => \A i \in 1 .. Len(b) : b[i] # "count"
    BY <1>2, <1>3, <1>7
  <2>2. (\A i \in 1 .. Len(a) : a[i] # "clear") => \A i \in 1 .. Len(b) : b[i] # "clear"
    BY <1>4, <1>5 DEF Pending, n
  <2> QED
    BY <1>6, <2>1, <2>2 DEF OnlyOf, Before
<1>14. Len(b) > 0 /\ b[1] = a[1]
  BY <1>2, <1>3
<1> QED
  BY <1>2, <1>10, <1>11, <1>12, <1>13, <1>14 DEF b, t

LEMMA FamiliarBody ==
  ASSUME NEW p \in index, NEW due \in BOOLEAN, NEW over \in BOOLEAN
  PROVE  LET b == ProcessBody(p, due, over)
         IN  /\ b \in Seq(Statements) /\ Len(b) > 0 /\ b[1] = "count"
             /\ Orderly(b) /\ Counts(b, count)
             /\ OnlyOf(b, {"count", "assign", "start"} \cup Pending)
             /\ Closes(b) /\ ~Reports(b)
<1> DEFINE one == <<"count">>
           sched == IF timer = NoTimer THEN Schedule ELSE <<>>
           a == one \o sched
           b == a \o Tick(due, over)
<1>1. ProcessBody(p, due, over) = b
  BY DEF ProcessBody
<1>2. one \in Seq(Statements) /\ Len(one) = 1 /\ one[1] = "count"
  BY DEF Statements
<1>3. /\ sched \in Seq(Statements)
      /\ \/ Len(sched) = 0
         \/ Len(sched) = 2 /\ sched[1] = "assign" /\ sched[2] = "start"
  BY ScheduleIs
<1> HIDE DEF one, sched
<1>4. /\ a \in Seq(Statements)
      /\ \/ Len(a) = 1 /\ a[1] = "count"
         \/ Len(a) = 3 /\ a[1] = "count" /\ a[2] = "assign" /\ a[3] = "start"
  <2>1. /\ a \in Seq(Statements) /\ Len(a) = Len(one) + Len(sched)
        /\ \A i \in 1 .. Len(one) : a[i] = one[i]
        /\ \A i \in Len(one) + 1 .. Len(one) + Len(sched) : a[i] = sched[i - Len(one)]
    BY <1>2, <1>3, Concat
  <2> HIDE DEF a
  <2> QED
    BY <2>1, <1>2, <1>3
<1> HIDE DEF a
<1>5. /\ Len(a) > 0 /\ OnlyOf(a, Before) /\ a[1] = "count"
      /\ \A i \in 1 .. Len(a) : (a[i] = "count" => i = 1) /\ a[i] # "clear"
  BY <1>4 DEF OnlyOf, Before
<1>6. /\ b \in Seq(Statements) /\ Len(b) > 0 /\ b[1] = "count" /\ Orderly(b)
      /\ OnlyOf(b, {"count", "assign", "start"} \cup Pending)
      /\ Closes(b) /\ ~Reports(b)
  BY <1>4, <1>5, TickAfter
<1> HIDE DEF b
<1>7. Counts(b, count)
  BY <1>6 DEF Counts
<1> QED
  BY <1>1, <1>6, <1>7

LEMMA NewBody ==
  ASSUME NEW p, p \notin index, NEW due, NEW over
  PROVE  LET b == ProcessBody(p, due, over)
         IN  /\ b \in Seq(Statements) /\ Len(b) > 1
             /\ Orderly(b) /\ Counts(b, count)
             /\ OnlyOf(b, {"summary", "cancel", "reset", "index", "print"})
             /\ Closes(b) /\ ~Reports(b) /\ Has(b, "print")
<1> DEFINE two == <<"index", "print">>
           b == CloseOpen \o two
<1>1. ProcessBody(p, due, over) = b
  BY DEF ProcessBody
<1>2. /\ two \in Seq(Statements) /\ Len(two) = 2 /\ two[1] = "index" /\ two[2] = "print"
  BY DEF Statements
<1>3. /\ CloseOpen \in Seq(Statements)
      /\ \/ Len(CloseOpen) = 0
         \/ /\ count # 0 /\ Len(CloseOpen) = 3
            /\ CloseOpen[1] = "summary" /\ CloseOpen[2] = "cancel" /\ CloseOpen[3] = "reset"
  BY CloseIs, CloseOpenIs
<1> HIDE DEF two
<1>4. /\ b \in Seq(Statements) /\ Len(b) = Len(CloseOpen) + Len(two)
      /\ \A i \in 1 .. Len(CloseOpen) : b[i] = CloseOpen[i]
      /\ \A i \in Len(CloseOpen) + 1 .. Len(CloseOpen) + Len(two) : b[i] = two[i - Len(CloseOpen)]
  BY <1>2, <1>3, Concat
<1> HIDE DEF b
<1>5. \/ Len(b) = 2 /\ b[1] = "index" /\ b[2] = "print"
      \/ /\ count # 0 /\ Len(b) = 5 /\ b[1] = "summary" /\ b[2] = "cancel" /\ b[3] = "reset"
         /\ b[4] = "index" /\ b[5] = "print"
  <2>1. CASE Len(CloseOpen) = 0
    BY <2>1, <1>2, <1>4
  <2>2. CASE /\ count # 0 /\ Len(CloseOpen) = 3
             /\ CloseOpen[1] = "summary" /\ CloseOpen[2] = "cancel" /\ CloseOpen[3] = "reset"
    <3>1. /\ Len(b) = 5 /\ b[1] = CloseOpen[1] /\ b[2] = CloseOpen[2] /\ b[3] = CloseOpen[3]
          /\ b[4] = two[1] /\ b[5] = two[2]
      BY <2>2, <1>2, <1>4
    <3> QED
      BY <2>2, <3>1, <1>2
  <2> QED
    BY <1>3, <2>1, <2>2
<1>6. /\ Len(b) > 1 /\ Counts(b, count)
      /\ OnlyOf(b, {"summary", "cancel", "reset", "index", "print"})
  BY <1>5 DEF Counts, OnlyOf
<1>7. Orderly(b)
  <2>1. /\ Len(b) \in {2, 5}
        /\ \A i \in 1 .. Len(b) : b[i] \notin {"count", "flush"}
        /\ \A i \in 1 .. Len(b) : b[i] = "summary" => i = 1
        /\ \A i \in 1 .. Len(b) : b[i] = "index" => i + 1 = Len(b)
        /\ \A i \in 1 .. Len(b) : b[i] = "print" => i = Len(b)
        /\ \A i \in 1 .. Len(b) : b[i] = "index" => b[i + 1] = "print"
        /\ b[Len(b) - 1] = "index"
    <3>1. CASE Len(b) = 2 /\ b[1] = "index" /\ b[2] = "print"
      BY <3>1
    <3>2. CASE /\ Len(b) = 5 /\ b[1] = "summary" /\ b[2] = "cancel" /\ b[3] = "reset"
               /\ b[4] = "index" /\ b[5] = "print"
      BY <3>2
    <3> QED
      BY <1>5, <3>1, <3>2
  <2> QED
    BY <2>1 DEF Orderly
<1>8. Closes(b) /\ ~Reports(b) /\ Has(b, "print")
  <2>1. ~Has(b, "count")
    BY <1>6 DEF Has, OnlyOf
  <2>2. CASE Len(b) = 2 /\ b[1] = "index" /\ b[2] = "print"
    BY <2>1, <2>2 DEF Closes, Reports, Has
  <2>3. CASE /\ Len(b) = 5 /\ b[1] = "summary" /\ b[2] = "cancel" /\ b[3] = "reset"
             /\ b[4] = "index" /\ b[5] = "print"
    BY <2>1, <2>3 DEF Closes, Reports, Has
  <2> QED
    BY <1>5, <2>2, <2>3
<1> QED
  BY <1>1, <1>4, <1>6, <1>7, <1>8

LEMMA TimerBodyIs ==
  ASSUME NEW due \in BOOLEAN, NEW over \in BOOLEAN
  PROVE  LET b == TimerBody(due, over)
         IN  /\ b \in Seq(Statements)
             /\ Orderly(b) /\ Counts(b, count) /\ OnlyOf(b, TimerStatements)
             /\ finished => OnlyOf(b, {"clear"})
             /\ Closes(b) /\ ~Reports(b)
<1> DEFINE one == <<"clear">>
           tick == Tick(due, over)
           b == TimerBody(due, over)
<1>1. one \in Seq(Statements) /\ Len(one) = 1 /\ one[1] = "clear"
  BY DEF Statements
<1>2. tick \in Seq(Statements) /\ (~over => OnlyOf(tick, {"dots"}))
  BY TickIs
<1>3. \A e \in Seq(Statements) : e \o <<>> = e
  BY ConcatEmptySeq
<1>4. CASE finished \/ count = 0
  <2>1. b = one
    BY <1>1, <1>3, <1>4 DEF TimerBody
  <2> HIDE DEF b, one
  <2>0. Len(b) = 1 /\ b[1] = "clear" /\ \A i \in 1 .. Len(b) : b[i] = "clear"
    <3>1. Len(b) = 1 /\ b[1] = "clear"
      BY <1>1, <2>1
    <3> QED
      BY <3>1
  <2>2. Orderly(b) /\ Counts(b, count) /\ OnlyOf(b, TimerStatements) /\ OnlyOf(b, {"clear"})
    BY <2>0 DEF Orderly, Counts, OnlyOf, TimerStatements
  <2>3. Closes(b) /\ ~Reports(b)
    BY <2>0 DEF Closes, Reports, Has
  <2> QED
    BY <1>1, <2>1, <2>2, <2>3 DEF b
<1>5. CASE ~finished /\ count # 0 /\ over
  <2>1. b = one \o tick
    BY <1>2, <1>3, <1>5 DEF TimerBody
  <2>2. Len(one) > 0 /\ OnlyOf(one, Before) /\ \A i \in 1 .. Len(one) : one[i] = "count" => i = 1
    BY <1>1 DEF OnlyOf, Before
  <2> HIDE DEF b, one
  <2>3. /\ b \in Seq(Statements) /\ Orderly(b) /\ Closes(b) /\ ~Reports(b)
        /\ OnlyOf(b, {"clear", "assign", "start"} \cup Pending)
    BY <1>1, <2>1, <2>2, TickAfter
  <2>4. Counts(b, count) /\ OnlyOf(b, TimerStatements)
    BY <1>5, <2>3 DEF Counts, OnlyOf, Pending, TimerStatements
  <2> QED
    BY <1>5, <2>3, <2>4 DEF b
<1>6. CASE ~finished /\ count # 0 /\ ~over
  <2> DEFINE rest == tick \o Schedule
  <2>1. b = one \o rest
    BY <1>6 DEF TimerBody
  <2> HIDE DEF b, one, tick
  <2>2. /\ rest \in Seq(Statements) /\ Len(rest) = Len(tick) + Len(Schedule)
        /\ \A i \in 1 .. Len(tick) : rest[i] = tick[i]
        /\ \A i \in Len(tick) + 1 .. Len(tick) + Len(Schedule) : rest[i] = Schedule[i - Len(tick)]
    BY <1>2, ScheduleIs, Concat
  <2>3. Len(tick) \in Nat /\ \A i \in 1 .. Len(tick) : tick[i] = "dots"
    BY <1>2, <1>6 DEF OnlyOf
  <2>4. \A i \in 1 .. Len(rest) : rest[i] \in {"dots", "assign", "start"}
    BY <2>2, <2>3, ScheduleIs
  <2> HIDE DEF rest
  <2>5. /\ b \in Seq(Statements) /\ Len(b) = Len(one) + Len(rest)
        /\ \A i \in 1 .. Len(one) : b[i] = one[i]
        /\ \A i \in Len(one) + 1 .. Len(one) + Len(rest) : b[i] = rest[i - Len(one)]
    BY <1>1, <2>1, <2>2, Concat
  <2>6. \A i \in 1 .. Len(b) : b[i] \in {"clear", "dots", "assign", "start"}
    BY <1>1, <2>2, <2>4, <2>5
  <2>7. Orderly(b) /\ Counts(b, count) /\ OnlyOf(b, TimerStatements)
    BY <2>6 DEF Orderly, Counts, OnlyOf, TimerStatements
  <2>8. Closes(b) /\ ~Reports(b)
    BY <2>6 DEF Closes, Reports, Has
  <2> QED
    BY <1>6, <2>5, <2>7, <2>8 DEF b
<1> QED
  BY <1>4, <1>5, <1>6

LEMMA FinishBodyIs ==
  /\ FinishBody \in Seq(Statements) /\ Len(FinishBody) > 0
  /\ FinishBody[1] = "mark" /\ FinishBody[Len(FinishBody)] = "flush"
  /\ Orderly(FinishBody) /\ Counts(FinishBody, count) /\ OnlyOf(FinishBody, FinishStatements)
  /\ Closes(FinishBody) /\ ~Reports(FinishBody) /\ (count = 0 \/ Has(FinishBody, "reset"))
<1> DEFINE one == <<"mark">>
           two == one \o CloseOpen
           last == <<"cancel", "flush">>
           b == two \o last
<1>1. FinishBody = b
  BY DEF FinishBody
<1>2. /\ one \in Seq(Statements) /\ Len(one) = 1 /\ one[1] = "mark"
      /\ last \in Seq(Statements) /\ Len(last) = 2 /\ last[1] = "cancel" /\ last[2] = "flush"
  BY DEF Statements
<1>3. /\ CloseOpen \in Seq(Statements)
      /\ \/ count = 0 /\ Len(CloseOpen) = 0
         \/ /\ count # 0 /\ Len(CloseOpen) = 3
            /\ CloseOpen[1] = "summary" /\ CloseOpen[2] = "cancel" /\ CloseOpen[3] = "reset"
  BY CloseIs, CloseOpenIs
<1> HIDE DEF one, last
<1>4. /\ two \in Seq(Statements) /\ Len(two) = Len(one) + Len(CloseOpen)
      /\ \A i \in 1 .. Len(one) : two[i] = one[i]
      /\ \A i \in Len(one) + 1 .. Len(one) + Len(CloseOpen) : two[i] = CloseOpen[i - Len(one)]
  BY <1>2, <1>3, Concat
<1> HIDE DEF two
<1>5. /\ b \in Seq(Statements) /\ Len(b) = Len(two) + Len(last)
      /\ \A i \in 1 .. Len(two) : b[i] = two[i]
      /\ \A i \in Len(two) + 1 .. Len(two) + Len(last) : b[i] = last[i - Len(two)]
  <2>1. two \in Seq(Statements) /\ last \in Seq(Statements)
    BY <1>2, <1>4
  <2> QED
    BY <2>1, Concat
<1> HIDE DEF b
<1>6. \/ count = 0 /\ Len(b) = 3 /\ b[1] = "mark" /\ b[2] = "cancel" /\ b[3] = "flush"
      \/ /\ count # 0 /\ Len(b) = 6 /\ b[1] = "mark"
         /\ b[2] = "summary" /\ b[3] = "cancel" /\ b[4] = "reset"
         /\ b[5] = "cancel" /\ b[6] = "flush"
  <2>1. CASE count = 0 /\ Len(CloseOpen) = 0
    <3>1. Len(two) = 1 /\ two[1] = "mark"
      BY <2>1, <1>2, <1>4
    <3>2. Len(b) = 3 /\ b[1] = two[1] /\ b[2] = last[1] /\ b[3] = last[2]
      BY <3>1, <1>2, <1>5
    <3> QED
      BY <2>1, <3>1, <3>2, <1>2
  <2>2. CASE count # 0 /\ Len(CloseOpen) = 3
    <3>1. /\ Len(two) = 4 /\ two[1] = one[1]
          /\ two[2] = CloseOpen[1] /\ two[3] = CloseOpen[2] /\ two[4] = CloseOpen[3]
      BY <2>2, <1>2, <1>4
    <3>2. /\ Len(b) = 6 /\ b[1] = two[1] /\ b[2] = two[2] /\ b[3] = two[3] /\ b[4] = two[4]
          /\ b[5] = last[1] /\ b[6] = last[2]
      BY <3>1, <1>2, <1>5
    <3> QED
      BY <3>1, <3>2, <2>2, <1>2, <1>3
  <2> QED
    BY <2>1, <2>2, <1>3
<1>7. /\ Len(b) > 0 /\ b[1] = "mark" /\ b[Len(b)] = "flush"
      /\ Counts(b, count) /\ OnlyOf(b, FinishStatements)
  BY <1>6 DEF Counts, OnlyOf, FinishStatements
<1>8. Orderly(b)
  <2>1. /\ Len(b) \in {3, 6}
        /\ \A i \in 1 .. Len(b) : b[i] \notin {"count", "index", "print"}
        /\ \A i \in 1 .. Len(b) : b[i] = "summary" => i = 2
        /\ \A i \in 1 .. Len(b) : b[i] = "reset" => i = 4
        /\ \A i \in 1 .. Len(b) : b[i] = "flush" => i = Len(b)
    <3>1. CASE Len(b) = 3 /\ b[1] = "mark" /\ b[2] = "cancel" /\ b[3] = "flush"
      BY <3>1
    <3>2. CASE /\ Len(b) = 6 /\ b[1] = "mark" /\ b[2] = "summary" /\ b[3] = "cancel"
               /\ b[4] = "reset" /\ b[5] = "cancel" /\ b[6] = "flush"
      BY <3>2
    <3> QED
      BY <1>6, <3>1, <3>2
  <2> QED
    BY <2>1 DEF Orderly
<1>9. Closes(b) /\ ~Reports(b) /\ (count = 0 \/ Has(b, "reset"))
  <2>1. ~Has(b, "print")
    BY <1>7 DEF Has, OnlyOf, FinishStatements
  <2>2. CASE count = 0 /\ Len(b) = 3 /\ b[1] = "mark" /\ b[2] = "cancel" /\ b[3] = "flush"
    BY <2>1, <2>2 DEF Closes, Reports, Has
  <2>3. CASE /\ Len(b) = 6 /\ b[1] = "mark" /\ b[2] = "summary" /\ b[3] = "cancel"
             /\ b[4] = "reset" /\ b[5] = "cancel" /\ b[6] = "flush"
    BY <2>1, <2>3 DEF Closes, Reports, Has
  <2> QED
    BY <1>6, <2>2, <2>3
<1> QED
  BY <1>1, <1>5, <1>7, <1>8, <1>9

\* The work that is left when the first statement has been executed.
LEMMA TailIs ==
  ASSUME NEW s \in Seq(Statements), s # <<>>
  PROVE  /\ Head(s) = s[1] /\ s[1] \in Statements
         /\ Len(s) \in Nat \ {0}
         /\ Tail(s) \in Seq(Statements) /\ Len(Tail(s)) = Len(s) - 1
         /\ \A i \in 1 .. Len(s) - 1 : Tail(s)[i] = s[i + 1]
BY HeadTailProperties

LEMMA TailOrderly ==
  ASSUME NEW s \in Seq(Statements), s # <<>>, Orderly(s)
  PROVE  /\ Orderly(Tail(s))
         /\ \A S : OnlyOf(s, S) => OnlyOf(Tail(s), S)
         /\ \A i \in 1 .. Len(Tail(s)) : Tail(s)[i] # "count"
         /\ s[1] = "reset" => \A i \in 1 .. Len(Tail(s)) : Tail(s)[i] # "summary"
<1> DEFINE r == Tail(s)
<1>1. /\ Len(s) \in Nat \ {0} /\ Len(r) = Len(s) - 1
      /\ \A i \in 1 .. Len(r) : r[i] = s[i + 1] /\ i + 1 \in 1 .. Len(s) /\ i \in Nat
  BY TailIs
<1> HIDE DEF r
<1>2. \A i \in 1 .. Len(r) : r[i] # "count"
  BY <1>1 DEF Orderly
<1>3. \A i \in 1 .. Len(r) : r[i] = "flush" => i = Len(r)
  BY <1>1 DEF Orderly
<1>4. \A i \in 1 .. Len(r) : r[i] = "index" => i + 1 = Len(r) /\ r[i + 1] = "print"
  <2> SUFFICES ASSUME NEW i \in 1 .. Len(r), r[i] = "index"
               PROVE  i + 1 = Len(r) /\ r[i + 1] = "print"
    OBVIOUS
  <2>1. (i + 1) + 1 = Len(s) /\ s[(i + 1) + 1] = "print"
    BY <1>1 DEF Orderly
  <2>2. i + 1 \in 1 .. Len(r)
    BY <1>1, <2>1
  <2> QED
    BY <1>1, <2>1, <2>2
<1>5. \A i \in 1 .. Len(r) : r[i] = "print" => i = Len(r) /\ (i > 1 => r[i - 1] = "index")
  <2> SUFFICES ASSUME NEW i \in 1 .. Len(r), r[i] = "print"
               PROVE  i = Len(r) /\ (i > 1 => r[i - 1] = "index")
    OBVIOUS
  <2>1. i + 1 = Len(s) /\ s[(i + 1) - 1] = "index"
    BY <1>1 DEF Orderly
  <2>2. i > 1 => i - 1 \in 1 .. Len(r) /\ r[i - 1] = s[i]
    BY <1>1
  <2> QED
    BY <1>1, <2>1, <2>2
<1>6. \A i, j \in 1 .. Len(r) : r[i] = "reset" /\ i < j => r[j] # "summary"
  BY <1>1 DEF Orderly
<1>7. \A S : OnlyOf(s, S) => OnlyOf(r, S)
  BY <1>1 DEF OnlyOf
<1>8. s[1] = "reset" => \A i \in 1 .. Len(r) : r[i] # "summary"
  <2>1. 1 \in 1 .. Len(s) /\ \A i \in 1 .. Len(r) : 1 < i + 1
    BY <1>1
  <2> QED
    BY <1>1, <2>1 DEF Orderly
<1>9. Orderly(r)
  BY <1>2, <1>3, <1>4, <1>5, <1>6 DEF Orderly
<1> QED
  BY <1>2, <1>7, <1>8, <1>9 DEF r

-----------------------------------------------------------------------------
(* One statement.                                                          *)

\* Thread t executes the first statement of its work.
Execute(t) ==
    /\ work[t] # <<>>
    /\ Do(Head(work[t]))
    /\ work' = [work EXCEPT ![t] = Tail(@)]
    /\ UNCHANGED <<mainVars, tellVars, at, open, interrupts, torn, failed>>

LEMMA MainExecutes == MainStep => Execute(Main) /\ ~Fails(Head(work[Main]))
BY DEF MainStep, Execute, Others

LEMMA TimerExecutes ==
  ASSUME NEW t \in Timers, TimerStep(t)
  PROVE  Execute(t) /\ ~Fails(Head(work[t])) /\ at # "gone"
BY DEF TimerStep, Execute, Others

LEMMA ThreadsAre == Main \in Threads /\ Timers \subseteq Threads /\ \A t \in Threads : t \in Timers \/ t = Main
BY DEF Threads

LEMMA FirstStatement ==
  ASSUME TypeOK, WorkInv, NEW t \in Threads, work[t] # <<>>
  PROVE  /\ Head(work[t]) = work[t][1] /\ Head(work[t]) \in Statements
         /\ Head(work[t]) = "summary" => count # 0
         /\ Head(work[t]) \in {"count", "index", "print", "mark", "flush"} => t = Main
         /\ Head(work[t]) \in {"count", "index", "print"} => at = "processing" /\ hand \in Patterns
         /\ Head(work[t]) = "count" => hand \in index
         /\ Head(work[t]) \in {"mark", "flush"} => at = "finishing"
<1>1. work[t] \in Seq(Statements)
  BY DEF TypeOK
<1>2. /\ Head(work[t]) = work[t][1] /\ work[t][1] \in Statements
      /\ 1 \in 1 .. Len(work[t])
  BY <1>1, TailIs
<1>3. work[t][1] = "summary" => count # 0
  BY <1>2 DEF WorkInv, Counts
<1>4. t \in Timers => work[t][1] \in TimerStatements
  BY <1>2 DEF WorkInv, OnlyOf
<1>5. t \in Timers \/ t = Main
  BY ThreadsAre
<1>6. t = Main => \/ at = "processing" /\ work[t][1] \in ProcessStatements /\ hand \in Patterns
                  \/ at = "finishing" /\ work[t][1] \in FinishStatements
  BY <1>2 DEF WorkInv, OnlyOf
<1>7. t = Main /\ work[t][1] = "count" => hand \in index
  BY <1>2 DEF WorkInv
<1> QED
  BY <1>2, <1>3, <1>4, <1>5, <1>6, <1>7
     DEF TimerStatements, ProcessStatements, FinishStatements

LEMMA ExecuteTypes ==
  ASSUME TypeOK, WorkInv, NEW t \in Threads, Execute(t)
  PROVE  TypeOK'
<1> DEFINE s == Head(work[t])
<1>1. /\ s \in Statements /\ (s = "summary" => count # 0)
      /\ s \in {"count", "index", "print"} => hand \in Patterns
      /\ Do(s) /\ work[t] # <<>>
  BY FirstStatement DEF Execute
<1> HIDE DEF s
<1>2. work' \in [Threads -> Seq(Statements)]
  <2>1. Tail(work[t]) \in Seq(Statements)
    BY <1>1, TailIs DEF TypeOK
  <2> QED
    BY <2>1 DEF Execute, TypeOK
<1>3. written' \in Seq([pattern : Patterns \cup {NoPattern}, count : Nat \ {0}])
  <2> DEFINE R == [pattern : Patterns \cup {NoPattern}, count : Nat \ {0}]
  <2>1. s = "summary" => Summary \in R
    BY <1>1 DEF Summary, TypeOK
  <2>2. s = "print" => Record(hand) \in R
    BY <1>1 DEF Record
  <2>3. written \in Seq(R)
    BY DEF TypeOK
  <2> HIDE DEF R
  <2>4. written' \in Seq(R)
    <3>1. CASE s = "summary"
      BY <3>1, <1>1, <2>1, <2>3 DEF Do
    <3>2. CASE s = "print"
      BY <3>2, <1>1, <2>2, <2>3 DEF Do
    <3>3. CASE s \notin {"summary", "print"}
      BY <3>3, <1>1, <2>3 DEF Do
    <3> QED
      BY <3>1, <3>2, <3>3
  <2> QED
    BY <2>4 DEF R
<1>4. count' \in Nat /\ hidden' \subseteq Patterns /\ index' \subseteq Patterns
  BY <1>1 DEF Do, TypeOK
<1>5. finished' \in BOOLEAN
  BY <1>1 DEF Do, TypeOK
<1>6. timer' \in Timers \cup {NoTimer} /\ wait' \in [Timers -> {"idle", "created", "armed", "firing"}]
  <2>1. CASE s = "assign"
    <3>1. Fresh # {} /\ timer' = (CHOOSE u \in Fresh : TRUE) /\ wait' = [wait EXCEPT ![timer'] = "created"]
      BY <1>1, <2>1 DEF Do
    <3>2. timer' \in Timers
      BY <3>1 DEF Fresh
    <3> QED
      BY <3>1, <3>2 DEF TypeOK
  <2>2. CASE s = "start"
    BY <1>1, <2>2 DEF Do, TypeOK
  <2>3. CASE s = "clear"
    BY <1>1, <2>3 DEF Do, TypeOK
  <2>4. CASE s = "cancel"
    BY <1>1, <2>4 DEF Do, TypeOK
  <2>5. CASE s \notin {"assign", "start", "clear", "cancel"}
    BY <1>1, <2>5 DEF Do, TypeOK
  <2> QED
    BY <2>1, <2>2, <2>3, <2>4, <2>5
<1>7. UNCHANGED <<mode, hand, source, draining, status, started, logged, at, open, interrupts, torn, failed>>
  BY DEF Execute, mainVars, tellVars
<1> QED
  BY <1>2, <1>3, <1>4, <1>5, <1>6, <1>7 DEF TypeOK

\* The work of the others is empty, so the invariant of the work survives.
LEMMA ExecuteWork ==
  ASSUME TypeOK, WorkInv, NEW t \in Threads, Execute(t)
  PROVE  WorkInv'
<1> DEFINE w == work[t]
           r == Tail(work[t])
<1>1. /\ w \in Seq(Statements) /\ w # <<>> /\ Do(w[1])
      /\ Head(w) = w[1]
      /\ work' = [work EXCEPT ![t] = r]
      /\ work'[t] = r
      /\ \A u \in Threads \ {t} : work[u] = <<>> /\ work'[u] = <<>>
      /\ UNCHANGED <<at, hand>>
  BY FirstStatement DEF Execute, TypeOK, WorkInv, OneWorks, mainVars
<1>2. /\ Len(w) \in Nat \ {0} /\ Len(r) = Len(w) - 1
      /\ \A i \in 1 .. Len(r) : r[i] = w[i + 1] /\ i + 1 \in 1 .. Len(w)
      /\ Orderly(r) /\ (\A S : OnlyOf(w, S) => OnlyOf(r, S))
      /\ \A i \in 1 .. Len(r) : r[i] # "count"
      /\ w[1] = "reset" => \A i \in 1 .. Len(r) : r[i] # "summary"
  BY <1>1, TailIs, TailOrderly DEF WorkInv
<1>3. Counts(r, count')
  <2> SUFFICES ASSUME NEW i \in 1 .. Len(r), r[i] = "summary"
               PROVE  count' # 0
    BY DEF Counts
  <2>1. w[1] # "reset" /\ (count # 0 \/ w[1] = "count")
    BY <1>2 DEF WorkInv, Counts
  <2>2. count' = IF w[1] = "count" THEN count + 1 ELSE count
    BY <1>1, <2>1 DEF Do
  <2> QED
    BY <2>1, <2>2 DEF TypeOK
<1>4. Orderly(<<>>) /\ (\A n : Counts(<<>>, n)) /\ (\A S : OnlyOf(<<>>, S))
  BY DEF Orderly, Counts, OnlyOf
<1> HIDE DEF w, r
<1>5. OneWorks'
  BY <1>1 DEF OneWorks
<1>6. \A u \in Threads : Orderly(work'[u]) /\ Counts(work'[u], count')
  BY <1>1, <1>2, <1>3, <1>4
<1>7. \A u \in Timers : OnlyOf(work'[u], TimerStatements)
  <2> SUFFICES ASSUME NEW u \in Timers PROVE OnlyOf(work'[u], TimerStatements)
    OBVIOUS
  <2>1. u \in Threads /\ OnlyOf(work[u], TimerStatements)
    BY ThreadsAre DEF WorkInv
  <2> QED
    BY <2>1, <1>1, <1>2, <1>4 DEF w
<1>8. work'[Main] # <<>> => work[Main] # <<>>
  BY <1>1, ThreadsAre DEF w
<1>9. \A S : OnlyOf(work[Main], S) => OnlyOf(work'[Main], S)
  BY <1>1, <1>2, <1>4, ThreadsAre DEF w
<1>10. \A i \in 1 .. Len(work'[Main]) : work'[Main][i] # "count"
  <2>1. CASE t = Main
    BY <2>1, <1>1, <1>2
  <2>2. CASE t # Main
    BY <2>2, <1>1, ThreadsAre
  <2> QED
    BY <2>1, <2>2
<1> QED
  BY <1>1, <1>5, <1>6, <1>7, <1>8, <1>9, <1>10 DEF WorkInv

-----------------------------------------------------------------------------
(* Types.                                                                  *)

LEMMA DroppedWork ==
  ASSUME TypeOK, NEW t \in Threads, work' = [work EXCEPT ![t] = <<>>]
  PROVE  work' \in [Threads -> Seq(Statements)]
<1>1. <<>> \in Seq(Statements)
  OBVIOUS
<1> QED
  BY <1>1 DEF TypeOK

LEMMA InitTypes == Init => TypeOK
<1> SUFFICES ASSUME Init PROVE TypeOK
  OBVIOUS
<1>1. work \in [Threads -> Seq(Statements)] /\ wait \in [Timers -> {"idle", "created", "armed", "firing"}]
  BY DEF Init
<1>2. source \in Seq(Patterns) /\ written \in Seq([pattern : Patterns \cup {NoPattern}, count : Nat \ {0}])
  BY DEF Init
<1>3. /\ mode \in Modes /\ at = "start" /\ hand = NoPattern
      /\ hidden = {} /\ index = {} /\ count = 0 /\ timer = NoTimer
      /\ interrupts = 0 /\ Len(torn) = 0 /\ torn \in Seq(Patterns)
      /\ status = NoStatus /\ logged = NoStatus
  BY DEF Init
<1>4. /\ finished \in BOOLEAN /\ open \in BOOLEAN /\ failed \in BOOLEAN
      /\ draining \in BOOLEAN /\ started \in BOOLEAN
  BY DEF Init
<1> QED
  BY <1>1, <1>2, <1>3, <1>4 DEF TypeOK

LEMMA TimerTypes ==
  ASSUME TypeOK, WorkInv, NEW t \in Timers, Timing(t)
  PROVE  TypeOK'
<1>1. CASE Expire(t)
  BY <1>1 DEF Expire, Others, mainVars, tellVars, TypeOK
<1>2. CASE Callback(t)
  <2>1. PICK due \in BOOLEAN, over \in BOOLEAN : work' = [work EXCEPT ![t] = TimerBody(due, over)]
    BY <1>2 DEF Callback
  <2>2. work' \in [Threads -> Seq(Statements)]
    BY <2>1, TimerBodyIs DEF TypeOK
  <2>3. wait' \in [Timers -> {"idle", "created", "armed", "firing"}]
    BY <1>2 DEF Callback, TypeOK
  <2> QED
    BY <1>2, <2>2, <2>3 DEF Callback, Others, mainVars, tellVars, TypeOK
<1>3. CASE TimerStep(t)
  BY <1>3, TimerExecutes, ExecuteTypes, ThreadsAre
<1>4. CASE TimerRaises(t)
  <2>1. work' \in [Threads -> Seq(Statements)]
    BY <1>4, DroppedWork, ThreadsAre DEF TimerRaises
  <2> QED
    BY <1>4, <2>1 DEF TimerRaises, Others, mainVars, tellVars, reducerVars, TypeOK
<1> QED
  BY <1>1, <1>2, <1>3, <1>4 DEF Timing

LEMMA AttemptedIs ==
  ASSUME TypeOK
  PROVE  /\ Attempted \subseteq {0, 1, 2, 130, Lost, Uncaught, NoStatus}
         /\ \A s \in Attempted : /\ s \in {status, Lost, NoStatus}
                                 /\ s # NoStatus => started
                                 /\ started /\ status # NoStatus => s # NoStatus
<1>1. started \in BOOLEAN /\ status \in {0, 1, 2, 130, Uncaught, NoStatus}
  BY DEF TypeOK
<1>2. CASE started
  BY <1>1, <1>2 DEF Attempted, Lost, NoStatus
<1>3. CASE ~started
  BY <1>1, <1>3 DEF Attempted
<1> QED
  BY <1>2, <1>3

LEMMA EndingTypes ==
  ASSUME TypeOK, WorkInv, Ending
  PROVE  TypeOK'
<1>1. CASE MainStep
  BY <1>1, MainExecutes, ExecuteTypes, ThreadsAre
<1>2. CASE MainRaises
  <2>1. work' \in [Threads -> Seq(Statements)]
    BY <1>2, DroppedWork, ThreadsAre DEF MainRaises
  <2> QED
    BY <1>2, <2>1 DEF MainRaises, tellVars, reducerVars, TypeOK
<1>3. CASE EnterFinish
  <2>1. work' \in [Threads -> Seq(Statements)]
    BY <1>3, FinishBodyIs DEF EnterFinish, TypeOK
  <2> QED
    BY <1>3, <2>1 DEF EnterFinish, Go, mainVars, tellVars, reducerVars, TypeOK
<1>4. CASE FinishDone
  BY <1>4 DEF FinishDone, Go, mainVars, tellVars, reducerVars, TypeOK
<1>5. CASE LogFinish
  <2>1. logged' \in {0, 1, 2, 130, Lost, Uncaught, NoStatus}
    BY <1>5, AttemptedIs DEF LogFinish
  <2> QED
    BY <1>5, <2>1 DEF LogFinish, Go, mainVars, reducerVars, TypeOK
<1> QED
  BY <1>1, <1>2, <1>3, <1>4, <1>5 DEF Ending

LEMMA InterruptIs ==
  ASSUME TypeOK, Interrupt
  PROVE  /\ interrupts' = interrupts + 1 /\ interrupts < MaxInterrupts
         /\ at # "gone"
         /\ at' \in {"gone", "finally", "idle"}
         /\ at' # "gone" => at \in {"idle", "waiting", "processing", "finally"}
         /\ at = "start" => at' = "gone" /\ status' = 130
         /\ at' = "gone" /\ at # "start" => status' = Uncaught
         /\ at' = "finally" => status' \in {0, 1, 130, Uncaught}
         /\ at' = "idle" => mode # "stream" /\ at \in {"idle", "waiting", "processing"} /\ status' = status
         /\ draining' \in BOOLEAN
         /\ work' = [work EXCEPT ![Main] = <<>>]
         /\ torn' = IF at \in {"waiting", "processing"} THEN Append(torn, hand) ELSE torn
         /\ started' \in BOOLEAN /\ (at # "start" => started' = started)
         /\ at # "log" => logged' = logged
         /\ at = "log" => logged' \in Attempted \cup {NoStatus}
         /\ UNCHANGED <<reducerVars, mode, hand, source, open, failed>>
<1>1. /\ \A s : Leave("gone", s) => at' = "gone" /\ status' = s /\ draining' = draining
      /\ \A s : Leave("finally", s) => at' = "finally" /\ status' = s /\ draining' = draining
  BY DEF Leave
<1>2. CatchInterrupt =>
        \/ at' = "finally" /\ status' \in {0, 1, 130} /\ draining' = draining
        \/ at' = "idle" /\ mode # "stream" /\ status' = status /\ draining' = TRUE
  BY <1>1 DEF CatchInterrupt, Drain
<1>3. draining \in BOOLEAN
  BY DEF TypeOK
<1>4. \/ at = "start" /\ at' = "gone" /\ status' = 130 /\ draining' = draining
      \/ /\ at \in {"parse", "finally", "finishing", "log"}
         /\ at' = "gone" /\ status' = Uncaught /\ draining' = draining
      \/ /\ at \in {"idle", "waiting", "processing"}
         /\ \/ at' = "finally" /\ status' \in {0, 1, 130} /\ draining' = draining
            \/ at' = "idle" /\ mode # "stream" /\ status' = status /\ draining' = TRUE
      \/ at \in {"finally", "idle"} /\ at' = "finally" /\ status' = Uncaught /\ draining' = draining
  BY <1>1, <1>2 DEF Interrupt
<1>5. draining' \in BOOLEAN
  BY <1>3, <1>4
<1>6. started' \in BOOLEAN /\ (at # "start" => started' = started)
  BY DEF Interrupt, TypeOK
<1>7. /\ interrupts' = interrupts + 1 /\ interrupts < MaxInterrupts
      /\ work' = [work EXCEPT ![Main] = <<>>]
      /\ torn' = IF at \in {"waiting", "processing"} THEN Append(torn, hand) ELSE torn
      /\ at # "log" => logged' = logged
      /\ at = "log" => logged' \in Attempted \cup {NoStatus}
      /\ UNCHANGED <<reducerVars, mode, hand, source, open, failed>>
  BY DEF Interrupt
<1>8. /\ at # "gone"
      /\ at' \in {"gone", "finally", "idle"}
      /\ at' # "gone" => at \in {"idle", "waiting", "processing", "finally"}
      /\ at = "start" => at' = "gone" /\ status' = 130
      /\ at' = "gone" /\ at # "start" => status' = Uncaught
      /\ at' = "finally" => status' \in {0, 1, 130, Uncaught}
      /\ at' = "idle" => mode # "stream" /\ at \in {"idle", "waiting", "processing"} /\ status' = status
  BY <1>4
<1> QED
  BY <1>5, <1>6, <1>7, <1>8

LEMMA InterruptTypes ==
  ASSUME TypeOK, WorkInv, Interrupt
  PROVE  TypeOK'
<1>1. work' \in [Threads -> Seq(Statements)]
  BY InterruptIs, DroppedWork, ThreadsAre
<1>2. interrupts' \in 0 .. MaxInterrupts /\ torn' \in Seq(Patterns) /\ Len(torn') <= interrupts'
  <2>1. /\ interrupts' = interrupts + 1 /\ interrupts < MaxInterrupts
        /\ torn' = IF at \in {"waiting", "processing"} THEN Append(torn, hand) ELSE torn
    BY InterruptIs
  <2>2. /\ interrupts \in 0 .. MaxInterrupts /\ torn \in Seq(Patterns) /\ Len(torn) <= interrupts
        /\ Len(torn) \in Nat
    BY DEF TypeOK
  <2>3. CASE at \in {"waiting", "processing"}
    <3>1. hand \in Patterns
      BY <2>3 DEF WorkInv
    <3>2. torn' \in Seq(Patterns) /\ Len(torn') = Len(torn) + 1
      BY <2>1, <2>2, <2>3, <3>1
    <3> QED
      BY <2>1, <2>2, <3>2
  <2>4. CASE at \notin {"waiting", "processing"}
    BY <2>1, <2>2, <2>4
  <2> QED
    BY <2>3, <2>4
<1>3. /\ at' \in {"gone", "finally", "idle"} /\ draining' \in BOOLEAN /\ started' \in BOOLEAN
      /\ UNCHANGED <<reducerVars, mode, hand, source, open, failed>>
  BY InterruptIs
<1>4. status' \in {0, 1, 2, 130, Uncaught, NoStatus}
  BY InterruptIs DEF TypeOK
<1>5. logged' \in {0, 1, 2, 130, Lost, Uncaught, NoStatus}
  BY InterruptIs, AttemptedIs DEF TypeOK
<1> QED
  BY <1>1, <1>2, <1>3, <1>4, <1>5 DEF reducerVars, TypeOK

LEMMA RestTypes ==
  ASSUME TypeOK, WorkInv,
         \/ Start \/ ParseExits \/ Parse \/ Processed \/ EndOfSource \/ LoseReader \/ Process
         \/ \E p \in Patterns : Read(p)
  PROVE  TypeOK'
<1>1. CASE Start
  BY <1>1 DEF Start, Go, mainVars, reducerVars, TypeOK
<1>2. CASE ParseExits
  BY <1>2 DEF ParseExits, Go, tellVars, reducerVars, TypeOK
<1>3. CASE Parse
  BY <1>3 DEF Parse, Go, mainVars, tellVars, reducerVars, TypeOK
<1>4. CASE Processed
  BY <1>4 DEF Processed, Go, mainVars, tellVars, reducerVars, TypeOK
<1>5. CASE EndOfSource
  <2>1. at' = "finally" /\ status' \in {0, 1, 130}
    BY <1>5 DEF EndOfSource, Go
  <2> QED
    BY <1>5, <2>1 DEF EndOfSource, tellVars, reducerVars, TypeOK
<1>6. CASE LoseReader
  <2>1. open' = FALSE /\ UNCHANGED <<mode, at, work, hand, source, interrupts, torn, status, logged>>
    BY <1>6 DEF LoseReader, mainVars, tellVars
  <2>2. UNCHANGED <<written, hidden, index, count, timer, wait, finished, failed, draining, started>>
    BY <1>6 DEF LoseReader, mainVars, tellVars, reducerVars
  <2>3. torn' \in Seq(Patterns) /\ Len(torn') <= interrupts'
    BY <2>1 DEF TypeOK
  <2>4. open' \in BOOLEAN
    BY <2>1
  <2>5. /\ work' \in [Threads -> Seq(Statements)] /\ source' \in Seq(Patterns)
        /\ written' \in Seq([pattern : Patterns \cup {NoPattern}, count : Nat \ {0}])
        /\ wait' \in [Timers -> {"idle", "created", "armed", "firing"}]
    BY <2>1, <2>2, Zenon DEF TypeOK
  <2> QED
    BY <2>1, <2>2, <2>3, <2>4, <2>5 DEF TypeOK
<1>7. CASE Process
  <2>1. PICK due \in BOOLEAN, over \in BOOLEAN : work' = [work EXCEPT ![Main] = ProcessBody(hand, due, over)]
    BY <1>7 DEF Process
  <2>2. ProcessBody(hand, due, over) \in Seq(Statements)
    BY FamiliarBody, NewBody
  <2>3. work' \in [Threads -> Seq(Statements)]
    BY <2>1, <2>2 DEF TypeOK
  <2> QED
    BY <1>7, <2>3 DEF Process, Go, mainVars, tellVars, reducerVars, TypeOK
<1>8. ASSUME NEW p \in Patterns, Read(p) PROVE TypeOK'
  <2>1. source' \in Seq(Patterns)
    BY <1>8 DEF Read, TypeOK
  <2> QED
    BY <1>8, <2>1 DEF Read, Go, tellVars, reducerVars, TypeOK
<1> QED
  BY <1>1, <1>2, <1>3, <1>4, <1>5, <1>6, <1>7, <1>8

LEMMA StepTypes ==
  ASSUME TypeOK, WorkInv, [Next]_vars
  PROVE  TypeOK'
<1>1. CASE UNCHANGED vars
  BY <1>1 DEF vars, mainVars, tellVars, reducerVars, TypeOK
<1>2. CASE Next
  BY <1>2, TimerTypes, EndingTypes, InterruptTypes, RestTypes DEF Next
<1> QED
  BY <1>1, <1>2

-----------------------------------------------------------------------------
(* The work under the lock.                                                *)

LEMMA NoWorkIs == Orderly(<<>>) /\ (\A n : Counts(<<>>, n)) /\ (\A S : OnlyOf(<<>>, S))
BY DEF Orderly, Counts, OnlyOf

LEMMA DroppedInv ==
  ASSUME TypeOK, WorkInv, NEW t \in Threads, work' = [work EXCEPT ![t] = <<>>],
         UNCHANGED <<count, index>>,
         \/ t = Main /\ at' \notin {"waiting", "processing"}
         \/ t # Main /\ UNCHANGED <<at, hand>>
  PROVE  WorkInv'
<1>1. \A u \in Threads : work'[u] = IF u = t THEN <<>> ELSE work[u]
  BY DEF TypeOK
<1>2. OneWorks'
  BY <1>1 DEF WorkInv, OneWorks
<1>3. \A u \in Threads : Orderly(work'[u]) /\ Counts(work'[u], count')
  BY <1>1, NoWorkIs DEF WorkInv
<1>4. \A u \in Timers : OnlyOf(work'[u], TimerStatements)
  BY <1>1, NoWorkIs, ThreadsAre DEF WorkInv
<1>5. CASE t = Main /\ at' \notin {"waiting", "processing"}
  <2>1. work'[Main] = <<>>
    BY <1>5, <1>1
  <2>2. OnlyOf(<<>>, FinishStatements) /\ Len(<<>>) = 0
    BY NoWorkIs
  <2> QED
    BY <1>2, <1>3, <1>4, <1>5, <2>1, <2>2 DEF WorkInv
<1>6. CASE t # Main /\ UNCHANGED <<at, hand>>
  <2>1. work'[Main] = work[Main]
    BY <1>6, <1>1, ThreadsAre
  <2> QED
    BY <1>2, <1>3, <1>4, <1>6, <2>1 DEF WorkInv
<1> QED
  BY <1>5, <1>6

LEMMA BegunInv ==
  ASSUME TypeOK, WorkInv, LockFree, NEW t \in Threads, NEW b \in Seq(Statements),
         Orderly(b), Counts(b, count),
         work' = [work EXCEPT ![t] = b], count' = count,
         \/ t \in Timers /\ OnlyOf(b, TimerStatements) /\ UNCHANGED <<at, hand, index>>
         \/ /\ t = Main /\ at' = "processing" /\ OnlyOf(b, ProcessStatements)
            /\ hand' \in Patterns /\ (Len(b) > 0 /\ b[1] = "count" => hand' \in index')
         \/ t = Main /\ at' = "finishing" /\ OnlyOf(b, FinishStatements)
  PROVE  WorkInv'
<1>1. \A u \in Threads : work'[u] = (IF u = t THEN b ELSE <<>>) /\ work[u] = <<>>
  BY DEF TypeOK, LockFree
<1>2. OneWorks'
  BY <1>1 DEF OneWorks
<1>3. \A u \in Threads : Orderly(work'[u]) /\ Counts(work'[u], count')
  BY <1>1, NoWorkIs
<1>4. Len(b) \in Nat /\ Len(<<>>) = 0
  OBVIOUS
<1>5. CASE t \in Timers /\ OnlyOf(b, TimerStatements) /\ UNCHANGED <<at, hand, index>>
  <2>1. t # Main
    BY <1>5
  <2>2. work'[Main] = <<>> /\ work[Main] = <<>>
    BY <2>1, <1>1, ThreadsAre
  <2>3. \A u \in Timers : OnlyOf(work'[u], TimerStatements)
    BY <1>1, <1>5, NoWorkIs, ThreadsAre
  <2> QED
    BY <1>2, <1>3, <1>4, <1>5, <2>2, <2>3, NoWorkIs DEF WorkInv
<1>6. CASE t = Main
  <2>1. work'[Main] = b /\ \A u \in Timers : work'[u] = <<>>
    BY <1>6, <1>1, ThreadsAre
  <2>2. \A u \in Timers : OnlyOf(work'[u], TimerStatements)
    BY <2>1, NoWorkIs
  <2>3. CASE /\ at' = "processing" /\ OnlyOf(b, ProcessStatements)
             /\ hand' \in Patterns /\ (Len(b) > 0 /\ b[1] = "count" => hand' \in index')
    <3>1. \A i \in 1 .. Len(b) : b[i] = "count" => hand' \in index'
      BY <2>3, <1>4 DEF Orderly
    <3> QED
      BY <1>2, <1>3, <2>1, <2>2, <2>3, <3>1 DEF WorkInv
  <2>4. CASE at' = "finishing" /\ OnlyOf(b, FinishStatements)
    <3>1. \A i \in 1 .. Len(b) : b[i] # "count"
      BY <2>4 DEF OnlyOf, FinishStatements
    <3> QED
      BY <1>2, <1>3, <2>1, <2>2, <2>4, <3>1 DEF WorkInv
  <2> QED
    BY <1>6, <2>3, <2>4
<1> QED
  BY <1>5, <1>6

LEMMA QuietInv ==
  ASSUME WorkInv, UNCHANGED <<work, count, index>>,
         work[Main] = <<>> \/ UNCHANGED <<at, hand>>,
         at' \in {"waiting", "processing"} => hand' \in Patterns
  PROVE  WorkInv'
<1>1. OneWorks'
  BY DEF WorkInv, OneWorks
<1>2. CASE work[Main] = <<>>
  <2>1. Len(work[Main]) = 0
    BY <1>2
  <2> QED
    BY <1>1, <1>2, <2>1, NoWorkIs DEF WorkInv
<1>3. CASE UNCHANGED <<at, hand>>
  BY <1>1, <1>3 DEF WorkInv
<1> QED
  BY <1>2, <1>3

LEMMA NoWorkOutside ==
  ASSUME WorkInv, at \notin {"processing", "finishing"}
  PROVE  work[Main] = <<>>
BY DEF WorkInv

LEMMA StepWork ==
  ASSUME TypeOK, WorkInv, [Next]_vars
  PROVE  WorkInv'
<1>1. CASE UNCHANGED vars
  BY <1>1, QuietInv DEF vars, mainVars, reducerVars, WorkInv
<1>2. ASSUME NEW t \in Timers, Timing(t) PROVE WorkInv'
  <2>0. t \in Threads /\ t # Main
    BY ThreadsAre
  <2>1. CASE Expire(t)
    BY <2>1, QuietInv DEF Expire, Others, mainVars, WorkInv
  <2>2. CASE Callback(t)
    <3>1. PICK due \in BOOLEAN, over \in BOOLEAN : work' = [work EXCEPT ![t] = TimerBody(due, over)]
      BY <2>2 DEF Callback
    <3>2. LockFree /\ UNCHANGED <<at, hand, index, count>>
      BY <2>2 DEF Callback, Others, mainVars
    <3> QED
      BY <2>0, <3>1, <3>2, TimerBodyIs, BegunInv
  <2>3. CASE TimerStep(t)
    BY <2>0, <2>3, TimerExecutes, ExecuteWork
  <2>4. CASE TimerRaises(t)
    BY <2>0, <2>4, DroppedInv DEF TimerRaises, Others, mainVars, reducerVars
  <2> QED
    BY <1>2, <2>1, <2>2, <2>3, <2>4 DEF Timing
<1>3. CASE MainStep
  BY <1>3, MainExecutes, ExecuteWork, ThreadsAre
<1>4. CASE MainRaises
  <2>1. at' \in {"finally", "gone"} /\ work' = [work EXCEPT ![Main] = <<>>] /\ UNCHANGED <<count, index>>
    BY <1>4 DEF MainRaises, reducerVars
  <2> QED
    BY <2>1, DroppedInv, ThreadsAre
<1>5. CASE EnterFinish
  <2>1. /\ LockFree /\ at' = "finishing" /\ work' = [work EXCEPT ![Main] = FinishBody]
        /\ count' = count
    BY <1>5 DEF EnterFinish, Go, reducerVars
  <2> QED
    BY <2>1, FinishBodyIs, BegunInv, ThreadsAre
<1>6. CASE FinishDone
  <2>1. work[Main] = <<>> /\ at' \in {"gone", "log"} /\ UNCHANGED <<work, count, index>>
    BY <1>6 DEF FinishDone, Go, reducerVars
  <2> QED
    BY <2>1, QuietInv
<1>7. CASE LogFinish
  <2>1. at = "log" /\ at' = "gone" /\ UNCHANGED <<work, count, index>>
    BY <1>7 DEF LogFinish, Go, reducerVars
  <2> QED
    BY <2>1, NoWorkOutside, QuietInv
<1>8. CASE Interrupt
  <2>1. /\ at' \in {"gone", "finally", "idle"} /\ work' = [work EXCEPT ![Main] = <<>>]
        /\ UNCHANGED <<count, index>>
    BY <1>8, InterruptIs DEF reducerVars
  <2> QED
    BY <2>1, DroppedInv, ThreadsAre
<1>9. CASE LoseReader
  BY <1>9, QuietInv DEF LoseReader, mainVars, reducerVars, WorkInv
<1>10. CASE Start \/ ParseExits \/ Parse \/ EndOfSource
  <2>1. /\ at \in {"start", "parse", "idle"} /\ at' \in {"parse", "log", "idle", "finally"}
        /\ UNCHANGED <<work, count, index>>
    BY <1>10 DEF Start, ParseExits, Parse, EndOfSource, Go, reducerVars
  <2> QED
    BY <2>1, NoWorkOutside, QuietInv
<1>11. CASE Processed
  <2>1. work[Main] = <<>> /\ at' = "idle" /\ UNCHANGED <<work, count, index>>
    BY <1>11 DEF Processed, Go, reducerVars
  <2> QED
    BY <2>1, QuietInv
<1>12. ASSUME NEW p \in Patterns, Read(p) PROVE WorkInv'
  <2>1. at = "idle" /\ at' = "waiting" /\ hand' = p /\ UNCHANGED <<work, count, index>>
    BY <1>12 DEF Read, Go, reducerVars
  <2> QED
    BY <2>1, NoWorkOutside, QuietInv
<1>13. CASE Process
  <2>1. PICK due \in BOOLEAN, over \in BOOLEAN : work' = [work EXCEPT ![Main] = ProcessBody(hand, due, over)]
    BY <1>13 DEF Process
  <2>2. /\ LockFree /\ at = "waiting" /\ at' = "processing" /\ UNCHANGED <<count, index, hand>>
        /\ hand \in Patterns
    BY <1>13 DEF Process, Go, reducerVars, mainVars, WorkInv
  <2> DEFINE b == ProcessBody(hand, due, over)
  <2>3. /\ b \in Seq(Statements) /\ Orderly(b) /\ Counts(b, count)
        /\ OnlyOf(b, ProcessStatements)
        /\ Len(b) > 0 /\ b[1] = "count" => hand \in index
    <3>1. CASE hand \in index
      <4>1. /\ b \in Seq(Statements) /\ Orderly(b) /\ Counts(b, count)
            /\ OnlyOf(b, {"count", "assign", "start"} \cup Pending)
        BY <3>1, FamiliarBody
      <4> QED
        BY <4>1, <3>1 DEF OnlyOf, Pending, ProcessStatements
    <3>2. CASE hand \notin index
      <4>1. /\ b \in Seq(Statements) /\ Orderly(b) /\ Counts(b, count) /\ Len(b) > 1
            /\ OnlyOf(b, {"summary", "cancel", "reset", "index", "print"})
        BY <3>2, NewBody
      <4> HIDE DEF b
      <4>2. b[1] # "count" /\ OnlyOf(b, ProcessStatements)
        BY <4>1 DEF OnlyOf, ProcessStatements
      <4> QED
        BY <4>1, <4>2
    <3> QED
      BY <3>1, <3>2
  <2> HIDE DEF b
  <2> QED
    BY <2>1, <2>2, <2>3, BegunInv, ThreadsAre DEF b
<1> QED
  BY <1>1, <1>2, <1>3, <1>4, <1>5, <1>6, <1>7, <1>8, <1>9, <1>10, <1>11, <1>12, <1>13
     DEF Next, Ending

-----------------------------------------------------------------------------
(* The way out.                                                            *)

LEMMA WorkOfOthers ==
  ASSUME WorkInv, NEW t \in Threads, work[t] # <<>>
  PROVE  \A u \in Threads : u # t => work[u] = <<>>
BY DEF WorkInv, OneWorks

LEMMA ExecuteEnd ==
  ASSUME TypeOK, WorkInv, EndInv, NEW t \in Threads, Execute(t), ~Fails(Head(work[t]))
  PROVE  EndInv'
<1> DEFINE w == work[t]
           r == Tail(w)
<1>1. /\ w \in Seq(Statements) /\ w # <<>> /\ Do(w[1]) /\ ~Fails(w[1])
      /\ w[1] \in {"mark", "flush"} => t = Main
      /\ work' = [work EXCEPT ![t] = r]
      /\ \A u \in Threads : work'[u] = IF u = t THEN r ELSE work[u]
      /\ \A u \in Threads : u # t => work[u] = <<>>
      /\ UNCHANGED <<at, status, logged, failed>>
  BY FirstStatement, WorkOfOthers DEF Execute, TypeOK, mainVars, tellVars
<1>2. /\ Len(w) \in Nat \ {0} /\ Len(r) = Len(w) - 1
      /\ \A i \in 1 .. Len(r) : r[i] = w[i + 1]
      /\ (\A S : OnlyOf(w, S) => OnlyOf(r, S))
      /\ r \in Seq(Statements)
  BY <1>1, TailIs, TailOrderly DEF WorkInv
<1>3. finished' = (finished \/ w[1] = "mark")
  BY <1>1 DEF Do
<1>4. w[1] \notin {"assign", "start", "cancel"} =>
        \A u \in Timers : wait'[u] = wait[u]
  BY <1>1 DEF Do
<1> HIDE DEF w, r
<1>5. ~Early
  <2>1. Early => \A u \in Threads : work[u] = <<>>
    BY NoWorkOutside, ThreadsAre DEF EndInv, Early
  <2> QED
    BY <2>1, <1>1 DEF w
<1>6. ASSUME at = "finishing", work'[Main] # <<>>
      PROVE  work'[Main][Len(work'[Main])] = "flush" /\ (finished' \/ work'[Main][1] = "mark")
  <2>1. t = Main
    BY <1>1, <1>6, ThreadsAre
  <2>2. Len(r) > 0 /\ work'[Main] = r
    BY <2>1, <1>1, <1>2, <1>6, EmptySeq
  <2>3. w[Len(w)] = "flush" /\ (finished \/ w[1] = "mark")
    BY <2>1, <1>1, <1>6 DEF w, EndInv
  <2>4. r[Len(r)] = "flush"
    BY <2>2, <2>3, <1>2
  <2>5. finished'
    BY <2>3, <1>3
  <2> QED
    BY <2>2, <2>4, <2>5
<1>7. ASSUME LastWritten'
      PROVE  /\ ~failed
             /\ \A u \in Timers : OnlyOf(work'[u], {"clear"})
             /\ finished' \/ \A u \in Timers : wait'[u] = "idle" /\ work'[u] = <<>>
  <2>1. CASE t = Main
    <3>1. at = "finishing" /\ work'[Main] = <<>>
      BY <2>1, <1>1, <1>7, NoWorkOutside DEF LastWritten, w
    <3>2. Len(w) = 1 /\ w[Len(w)] = "flush" /\ (finished \/ w[1] = "mark")
      <4>1. work'[Main] = r /\ work[Main] = w
        BY <2>1, <1>1, ThreadsAre DEF w
      <4>2. Len(r) = 0
        BY <3>1, <4>1
      <4>3. w[Len(w)] = "flush" /\ (finished \/ w[1] = "mark")
        BY <3>1, <4>1, <1>1 DEF EndInv
      <4> QED
        BY <4>2, <4>3, <1>2
    <3>3. ~failed /\ finished'
      BY <3>2, <1>1, <1>3 DEF Fails
    <3>4. \A u \in Timers : work'[u] = <<>>
      BY <2>1, <1>1, ThreadsAre
    <3> QED
      BY <3>3, <3>4, NoWorkIs
  <2>2. CASE t # Main
    <3>1. t \in Timers /\ work'[Main] = work[Main]
      BY <2>2, <1>1, ThreadsAre
    <3>2. LastWritten
      BY <3>1, <1>1, <1>7 DEF LastWritten
    <3>3. ~failed /\ finished /\ \A u \in Timers : OnlyOf(work[u], {"clear"})
      BY <3>1, <3>2, <1>1 DEF EndInv, w
    <3>4. \A u \in Timers : OnlyOf(work'[u], {"clear"})
      BY <3>1, <3>3, <1>1, <1>2, ThreadsAre DEF w
    <3> QED
      BY <3>3, <3>4, <1>3
  <2> QED
    BY <2>1, <2>2
<1>8. at \in {"finally", "finishing", "log"} => status # NoStatus
  BY DEF EndInv
<1>9. at # "gone" => logged = NoStatus
  BY DEF EndInv
<1> QED
  BY <1>1, <1>5, <1>6, <1>7, <1>8, <1>9 DEF EndInv, Early

LEMMA TimerEnd ==
  ASSUME TypeOK, WorkInv, EndInv, NEW t \in Timers, Timing(t)
  PROVE  EndInv'
<1>0. t \in Threads /\ t # Main
  BY ThreadsAre
<1>1. CASE Expire(t)
  <2>1. /\ wait[t] = "armed" /\ wait' = [wait EXCEPT ![t] = "firing"]
        /\ UNCHANGED <<at, work, failed, finished, status, logged>>
    BY <1>1 DEF Expire, Others, mainVars, tellVars
  <2>2. ~Early /\ (LastWritten => finished)
    BY <2>1 DEF EndInv
  <2> QED
    BY <2>1, <2>2 DEF EndInv, Early, LastWritten
<1>2. CASE Callback(t)
  <2>1. PICK due \in BOOLEAN, over \in BOOLEAN : work' = [work EXCEPT ![t] = TimerBody(due, over)]
    BY <1>2 DEF Callback
  <2>2. /\ wait[t] = "firing" /\ UNCHANGED <<at, failed, finished, status, logged>>
        /\ \A u \in Threads : work[u] = <<>> /\ (u # t => work'[u] = <<>>)
        /\ work'[t] = TimerBody(due, over)
    BY <1>0, <1>2, <2>1 DEF Callback, Others, mainVars, tellVars, LockFree, TypeOK
  <2>3. ~Early /\ (LastWritten => finished)
    BY <2>2 DEF EndInv
  <2>4. work'[Main] = <<>> /\ work[Main] = <<>>
    BY <1>0, <2>2, ThreadsAre
  <2>5. LastWritten => \A u \in Timers : OnlyOf(work'[u], {"clear"})
    BY <2>2, <2>3, TimerBodyIs, NoWorkIs, ThreadsAre
  <2>6. LastWritten' => LastWritten
    BY <2>2, <2>4 DEF LastWritten
  <2>7. ~Early'
    BY <2>2, <2>3 DEF Early
  <2> QED
    BY <2>2, <2>3, <2>4, <2>5, <2>6, <2>7 DEF EndInv
<1>3. CASE TimerStep(t)
  BY <1>0, <1>3, TimerExecutes, ExecuteEnd
<1>4. CASE TimerRaises(t)
  <2>1. /\ work[t] # <<>> /\ Fails(Head(work[t]))
        /\ work' = [work EXCEPT ![t] = <<>>]
        /\ UNCHANGED <<at, finished, wait, status, logged>>
    BY <1>4 DEF TimerRaises, Others, mainVars, tellVars, reducerVars
  <2>2. work'[Main] = work[Main] /\ work[Main] = <<>>
    BY <1>0, <2>1, WorkOfOthers, ThreadsAre DEF TypeOK
  <2>3. ~Early
    BY <2>1 DEF EndInv
  <2>4. ~LastWritten
    <3>1. Head(work[t]) = work[t][1] /\ 1 \in 1 .. Len(work[t])
      BY <1>0, <2>1, TailIs DEF TypeOK
    <3>2. work[t][1] # "clear"
      BY <3>1, <2>1 DEF Fails, Writes
    <3> QED
      BY <3>1, <3>2 DEF EndInv, OnlyOf
  <2> QED
    BY <2>1, <2>2, <2>3, <2>4 DEF EndInv, Early, LastWritten
<1> QED
  BY <1>1, <1>2, <1>3, <1>4 DEF Timing

LEMMA EndingEnd ==
  ASSUME TypeOK, WorkInv, EndInv, Ending
  PROVE  EndInv'
<1>1. CASE MainStep
  BY <1>1, MainExecutes, ExecuteEnd, ThreadsAre
<1>2. CASE MainRaises
  <2>1. at \in {"processing", "finishing"}
    BY <1>2 DEF MainRaises, WorkInv
  <2>2. at' \in {"finally", "gone"} /\ status' \in {1, Uncaught} /\ logged' = logged
    BY <1>2 DEF MainRaises, tellVars
  <2>3. status' # NoStatus /\ ~Early' /\ ~LastWritten'
    BY <2>2 DEF Early, LastWritten, NoStatus, Uncaught
  <2>4. logged = NoStatus
    BY <2>1 DEF EndInv
  <2> QED
    BY <2>2, <2>3, <2>4 DEF EndInv
<1>3. CASE EnterFinish
  <2>1. /\ at = "finally" /\ at' = "finishing" /\ UNCHANGED <<status, logged>>
        /\ work'[Main] = FinishBody
    BY <1>3, ThreadsAre DEF EnterFinish, Go, mainVars, tellVars, TypeOK
  <2>2. /\ FinishBody # <<>> /\ FinishBody[1] = "mark" /\ FinishBody[Len(FinishBody)] = "flush"
    BY FinishBodyIs, EmptySeq
  <2>3. ~Early' /\ ~LastWritten'
    BY <2>1, <2>2 DEF Early, LastWritten
  <2> QED
    BY <2>1, <2>2, <2>3 DEF EndInv
<1>4. CASE FinishDone
  <2>1. /\ at = "finishing" /\ work[Main] = <<>> /\ at' \in {"gone", "log"}
        /\ UNCHANGED <<work, status, logged, failed, finished, wait>>
    BY <1>4 DEF FinishDone, Go, mainVars, tellVars, reducerVars
  <2>2. ~Early' /\ LastWritten
    BY <2>1 DEF Early, LastWritten
  <2> QED
    BY <2>1, <2>2 DEF EndInv
<1>5. CASE LogFinish
  <2>1. at' = "gone"
    BY <1>5 DEF LogFinish, Go
  <2> QED
    BY <2>1 DEF EndInv, Early, LastWritten
<1> QED
  BY <1>1, <1>2, <1>3, <1>4, <1>5 DEF Ending

LEMMA StepEnd ==
  ASSUME TypeOK, WorkInv, EndInv, [Next]_vars
  PROVE  EndInv'
<1>1. CASE UNCHANGED vars
  BY <1>1 DEF vars, mainVars, tellVars, reducerVars, EndInv, Early, LastWritten
<1>2. CASE \E t \in Timers : Timing(t)
  BY <1>2, TimerEnd
<1>3. CASE Ending
  BY <1>3, EndingEnd
<1>4. CASE Interrupt
  <2>1. /\ at' \in {"gone", "finally", "idle"} /\ at # "gone"
        /\ at' # "gone" => at # "log" /\ logged' = logged
        /\ at' = "finally" => status' \in {0, 1, 130, Uncaught}
    BY <1>4, InterruptIs
  <2>2. at' = "finally" => status' # NoStatus
    BY <2>1 DEF NoStatus, Uncaught
  <2> QED
    BY <2>1, <2>2 DEF EndInv, Early, LastWritten
<1>5. CASE LoseReader
  BY <1>5 DEF LoseReader, mainVars, tellVars, reducerVars, EndInv, Early, LastWritten
<1>6. CASE Start
  BY <1>6 DEF Start, Go, mainVars, reducerVars, EndInv, Early, LastWritten
<1>7. CASE ParseExits
  <2>1. /\ at = "parse" /\ at' = "log" /\ status' \in {0, 2}
        /\ UNCHANGED <<work, logged, failed, finished, wait>>
    BY <1>7 DEF ParseExits, Go, tellVars, reducerVars
  <2>2. ~failed /\ (\A t \in Timers : wait[t] = "idle" /\ work[t] = <<>>) /\ logged = NoStatus
    BY <2>1 DEF EndInv, Early
  <2>3. status' # NoStatus
    BY <2>1 DEF NoStatus
  <2> QED
    BY <2>1, <2>2, <2>3, NoWorkIs DEF EndInv, Early
<1>8. CASE Parse \/ Process \/ Processed \/ \E p \in Patterns : Read(p)
  <2>1. /\ at' \in {"idle", "waiting", "processing"} /\ at # "gone" /\ logged' = logged
    BY <1>8 DEF Parse, Process, Processed, Read, Go, tellVars
  <2> QED
    BY <2>1 DEF EndInv, Early, LastWritten
<1>9. CASE EndOfSource
  <2>1. at = "idle" /\ at' = "finally" /\ logged' = logged /\ status' \in {0, 1, 130}
    BY <1>9 DEF EndOfSource, Go, tellVars
  <2>2. status' # NoStatus
    BY <2>1 DEF NoStatus
  <2> QED
    BY <2>1, <2>2 DEF EndInv, Early, LastWritten
<1> QED
  BY <1>1, <1>2, <1>3, <1>4, <1>5, <1>6, <1>7, <1>8, <1>9 DEF Next

LEMMA StepTold ==
  ASSUME TypeOK, WorkInv, EndInv, ExitTold, [Next]_vars
  PROVE  ExitTold'
<1>1. CASE UNCHANGED vars
  BY <1>1 DEF vars, mainVars, tellVars, reducerVars, ExitTold
<1>2. CASE at' # "gone"
  BY <1>2 DEF ExitTold
<1>3. CASE MainRaises
  <2>1. /\ at \in {"processing", "finishing"} /\ logged' = logged
        /\ at' = "gone" => status' = Uncaught
    BY <1>3 DEF MainRaises, WorkInv, tellVars
  <2> QED
    BY <2>1 DEF EndInv, ExitTold, NoStatus, Uncaught
<1>4. CASE FinishDone
  <2>1. /\ at = "finishing" /\ UNCHANGED <<status, logged>> /\ (at' = "gone" => status = Uncaught)
    BY <1>4 DEF FinishDone, Go, mainVars, tellVars
  <2> QED
    BY <2>1 DEF EndInv, ExitTold, NoStatus, Uncaught
<1>5. CASE LogFinish
  <2>1. /\ at = "log" /\ UNCHANGED <<status, started, failed>>
        /\ logged' \in Attempted
    BY <1>5 DEF LogFinish, Go, mainVars
  <2>2. ~failed /\ status # NoStatus
    BY <2>1 DEF EndInv, LastWritten
  <2>3. /\ logged' \in {status, Lost, NoStatus}
        /\ logged' # NoStatus => started
        /\ started => logged' # NoStatus
    BY <2>1, <2>2, AttemptedIs
  <2> QED
    BY <2>1, <2>2, <2>3 DEF ExitTold
<1>6. CASE Interrupt
  <2>1. /\ at # "gone" /\ UNCHANGED <<failed, finished>>
        /\ at = "start" => status' = 130
        /\ at' = "gone" /\ at # "start" => status' = Uncaught
        /\ at # "start" => started' = started
        /\ at # "log" => logged' = logged
        /\ at = "log" => logged' \in Attempted \cup {NoStatus}
    BY <1>6, InterruptIs DEF reducerVars
  <2>2. logged = NoStatus /\ (at = "start" => ~failed /\ ~finished)
    BY <2>1 DEF EndInv, Early
  <2>3. logged' # NoStatus => at = "log" /\ started'
    BY <2>1, <2>2, AttemptedIs
  <2>4. CASE at = "start"
    BY <2>1, <2>2, <2>3, <2>4 DEF ExitTold
  <2>5. CASE at # "start"
    BY <2>1, <2>3, <2>5 DEF ExitTold, Uncaught
  <2> QED
    BY <2>4, <2>5
<1>7. ASSUME at' = "gone", ~UNCHANGED vars, ~MainRaises, ~FinishDone, ~LogFinish, ~Interrupt
      PROVE  FALSE
  <2>1. ASSUME NEW t \in Timers, Timing(t) PROVE at # "gone" /\ at' = at
    BY <2>1 DEF Timing, Expire, Callback, TimerStep, TimerRaises, Others
  <2>2. MainStep => at # "gone" /\ at' = at
    BY DEF MainStep, Others, WorkInv
  <2>3. LoseReader => at # "gone" /\ at' = at
    BY DEF LoseReader
  <2>4. Start \/ ParseExits \/ Parse \/ EnterFinish \/ EndOfSource \/ Process \/ Processed
          \/ (\E p \in Patterns : Read(p)) => at' # "gone"
    BY DEF Start, ParseExits, Parse, EnterFinish, EndOfSource, Process, Processed, Read, Go
  <2> QED
    BY <1>7, <2>1, <2>2, <2>3, <2>4 DEF Next, Ending
<1> QED
  BY <1>1, <1>2, <1>3, <1>4, <1>5, <1>6, <1>7

-----------------------------------------------------------------------------
(* The exemplars.                                                          *)

LEMMA PrintedGrows ==
  ASSUME TypeOK, NEW x, written' = Append(written, x)
  PROVE  Printed' = Printed \cup {x.pattern}
<1> DEFINE n == Len(written)
<1>1. /\ n \in Nat /\ Len(written') = n + 1 /\ written'[n + 1] = x
      /\ \A i \in 1 .. n : written'[i] = written[i]
  BY DEF TypeOK
<1>2. 1 .. n + 1 = (1 .. n) \cup {n + 1}
  BY <1>1
<1> HIDE DEF n
<1>3. Printed' = {written'[i].pattern : i \in 1 .. n + 1}
  BY <1>1 DEF Printed
<1>4. Printed = {written[i].pattern : i \in 1 .. n}
  BY DEF Printed, n
<1> QED
  BY <1>1, <1>2, <1>3, <1>4

LEMMA UnprintedIs ==
  ASSUME TypeOK
  PROVE  /\ Unprinted \subseteq {hand}
         /\ work[Main] = <<>> => Unprinted = {}
         /\ Len(work[Main]) > 0 /\ work[Main][1] # "print" => Unprinted = {}
BY DEF Unprinted

LEMMA ExecuteExemplar ==
  ASSUME TypeOK, WorkInv, ExemplarInv, NEW t \in Threads, Execute(t)
  PROVE  ExemplarInv'
<1> DEFINE w == work[t]
           s == w[1]
           r == Tail(w)
<1>1. /\ w \in Seq(Statements) /\ w # <<>> /\ Do(s) /\ Orderly(w)
      /\ s \in {"count", "index", "print"} => t = Main /\ at = "processing"
      /\ s = "count" => hand \in index
      /\ work'[t] = r /\ \A u \in Threads : u # t => work'[u] = <<>> /\ work[u] = <<>>
      /\ UNCHANGED <<mode, torn, at, hand>>
  BY FirstStatement, WorkOfOthers DEF Execute, TypeOK, WorkInv, mainVars
<1>2. /\ Len(w) \in Nat \ {0} /\ Len(r) = Len(w) - 1
      /\ \A i \in 1 .. Len(r) : r[i] = w[i + 1]
  BY <1>1, TailIs
<1>3. s # "print" => Unprinted = {}
  <2>1. CASE t = Main
    BY <2>1, <1>2, UnprintedIs
  <2>2. CASE t # Main
    BY <2>2, <1>1, UnprintedIs, ThreadsAre
  <2> QED
    BY <2>1, <2>2
<1> HIDE DEF w, r, s
<1>0. TornPatterns' = TornPatterns
  BY <1>1 DEF TornPatterns
<1> SUFFICES /\ hidden' \subseteq Printed' \cup TornPatterns
             /\ Reading => index' \subseteq Printed' \cup TornPatterns \cup Unprinted'
  BY <1>0, <1>1 DEF ExemplarInv, Reading
<1>4. /\ hidden \subseteq Printed \cup TornPatterns
      /\ Reading => index \subseteq Printed \cup TornPatterns \cup Unprinted
  BY DEF ExemplarInv
<1>5. CASE s = "count"
  <2>1. hidden' = hidden \cup {hand} /\ index' = index /\ written' = written
    BY <1>1, <1>5 DEF Do
  <2>2. hand \in Printed \cup TornPatterns /\ Printed' = Printed
    BY <1>1, <1>3, <1>4, <1>5, <2>1 DEF Reading, Printed
  <2> QED
    BY <1>3, <1>4, <1>5, <2>1, <2>2
<1>6. CASE s = "index"
  <2>1. hidden' = hidden /\ index' = index \cup {hand} /\ written' = written
    BY <1>1, <1>6 DEF Do
  <2>2. Printed' = Printed
    BY <2>1 DEF Printed
  <2>3. Len(w) = 2 /\ w[2] = "print"
    BY <1>1, <1>2, <1>6 DEF Orderly, s
  <2>4. Len(r) = 1 /\ r[1] = "print" /\ work'[Main] = r
    BY <1>1, <1>2, <1>6, <2>3
  <2>5. Unprinted' = {hand}
    BY <1>1, <2>4 DEF Unprinted
  <2> QED
    BY <1>3, <1>4, <1>6, <2>1, <2>2, <2>5
<1>7. CASE s = "print"
  <2>1. hidden' = hidden /\ index' = index /\ written' = Append(written, Record(hand))
    BY <1>1, <1>7 DEF Do
  <2>2. Printed' = Printed \cup {hand}
    BY <2>1, PrintedGrows DEF Record
  <2> QED
    BY <1>4, <2>1, <2>2, UnprintedIs
<1>8. CASE s \notin {"count", "index", "print"}
  <2>1. hidden' = hidden /\ index' = index /\ (written' = written \/ written' = Append(written, Summary))
    BY <1>1, <1>8 DEF Do
  <2>2. Printed \subseteq Printed'
    <3>1. CASE written' = written
      BY <3>1 DEF Printed
    <3>2. CASE written' = Append(written, Summary)
      BY <3>2, PrintedGrows
    <3> QED
      BY <2>1, <3>1, <3>2
  <2> QED
    BY <1>3, <1>4, <1>8, <2>1, <2>2
<1> QED
  BY <1>5, <1>6, <1>7, <1>8

LEMMA QuietExemplar ==
  ASSUME ExemplarInv, UNCHANGED <<written, hidden, index, mode>>,
         TornPatterns \subseteq TornPatterns',
         Reading' => Reading /\ Unprinted \subseteq Unprinted' \cup TornPatterns'
  PROVE  ExemplarInv'
<1>1. Printed' = Printed
  BY DEF Printed
<1> QED
  BY <1>1 DEF ExemplarInv

LEMMA TornGrow ==
  ASSUME TypeOK, NEW x, torn' = Append(torn, x), mode' = mode
  PROVE  /\ TornPatterns \subseteq TornPatterns'
         /\ mode # "stream" => x \in TornPatterns'
<1> DEFINE n == Len(torn)
<1>1. /\ n \in Nat /\ DOMAIN torn = 1 .. n /\ DOMAIN torn' = 1 .. n + 1
      /\ torn'[n + 1] = x /\ \A i \in 1 .. n : torn'[i] = torn[i]
  BY DEF TypeOK
<1>2. n + 1 \in 1 .. n + 1 /\ \A i \in 1 .. n : i \in 1 .. n + 1
  BY <1>1
<1> HIDE DEF n
<1>3. mode # "stream" => mode = "run"
  BY DEF TypeOK
<1> QED
  BY <1>1, <1>2, <1>3 DEF TornPatterns

LEMMA StepExemplar ==
  ASSUME TypeOK, WorkInv, ExemplarInv, [Next]_vars
  PROVE  ExemplarInv'
<1>1. CASE UNCHANGED vars
  <2>1. Unprinted' = Unprinted /\ (Reading' = Reading)
    BY <1>1 DEF vars, mainVars, Unprinted, Reading
  <2>2. TornPatterns' = TornPatterns
    BY <1>1 DEF vars, mainVars, TornPatterns
  <2> QED
    BY <1>1, <2>1, <2>2, QuietExemplar DEF vars, mainVars, reducerVars
<1>2. ASSUME NEW t \in Timers, Timing(t) PROVE ExemplarInv'
  <2>1. CASE TimerStep(t)
    BY <2>1, TimerExecutes, ExecuteExemplar, ThreadsAre
  <2>2. CASE Expire(t) \/ Callback(t) \/ TimerRaises(t)
    <3>1. UNCHANGED <<written, hidden, index, mode, torn, at, hand>>
      BY <2>2 DEF Expire, Callback, TimerRaises, Others, mainVars, reducerVars
    <3>2. work'[Main] = work[Main]
      BY <2>2, ThreadsAre DEF Expire, Callback, TimerRaises, TypeOK
    <3>3. Unprinted' = Unprinted /\ (Reading' = Reading) /\ TornPatterns' = TornPatterns
      BY <3>1, <3>2 DEF Unprinted, Reading, TornPatterns
    <3> QED
      BY <3>1, <3>3, QuietExemplar
  <2> QED
    BY <1>2, <2>1, <2>2 DEF Timing
<1>3. CASE MainStep
  BY <1>3, MainExecutes, ExecuteExemplar, ThreadsAre
<1>4. CASE MainRaises \/ EnterFinish \/ FinishDone \/ LogFinish \/ EndOfSource \/ ParseExits
  <2>1. ~Reading' /\ UNCHANGED <<written, hidden, index, mode, torn>>
    BY <1>4 DEF MainRaises, EnterFinish, FinishDone, LogFinish, EndOfSource, ParseExits, Go,
                Reading, mainVars, reducerVars
  <2>2. TornPatterns' = TornPatterns
    BY <2>1 DEF TornPatterns
  <2> QED
    BY <2>1, <2>2, QuietExemplar
<1>5. CASE Interrupt
  <2>1. /\ UNCHANGED <<written, hidden, index, mode>>
        /\ at' \in {"gone", "finally", "idle"}
        /\ at' = "idle" => mode # "stream" /\ at \in {"idle", "waiting", "processing"}
        /\ torn' = IF at \in {"waiting", "processing"} THEN Append(torn, hand) ELSE torn
    BY <1>5, InterruptIs DEF reducerVars
  <2>2. TornPatterns \subseteq TornPatterns'
    BY <2>1, TornGrow DEF TornPatterns
  <2>3. ASSUME Reading' PROVE Reading /\ Unprinted \subseteq TornPatterns'
    <3>1. at' = "idle" /\ mode # "stream" /\ at \in {"idle", "waiting", "processing"}
      BY <2>1, <2>3 DEF Reading
    <3>2. CASE at = "idle"
      BY <3>2, NoWorkOutside, UnprintedIs DEF Reading
    <3>3. CASE at \in {"waiting", "processing"}
      <4>1. hand \in TornPatterns'
        BY <2>1, <3>1, <3>3, TornGrow
      <4> QED
        BY <3>3, <4>1, UnprintedIs DEF Reading
    <3> QED
      BY <3>1, <3>2, <3>3
  <2> QED
    BY <2>1, <2>2, <2>3, QuietExemplar
<1>6. CASE LoseReader
  <2>1. UNCHANGED <<written, hidden, index, mode, torn, at, hand, work>>
    BY <1>6 DEF LoseReader, mainVars, reducerVars
  <2>2. Unprinted' = Unprinted /\ (Reading' = Reading) /\ TornPatterns' = TornPatterns
    BY <2>1 DEF Unprinted, Reading, TornPatterns
  <2> QED
    BY <2>1, <2>2, QuietExemplar
<1>7. CASE Start \/ Parse \/ Process \/ Processed \/ \E p \in Patterns : Read(p)
  <2>1. UNCHANGED <<written, hidden, index, mode, torn>> /\ Reading
    BY <1>7 DEF Start, Parse, Process, Processed, Read, Go, mainVars, reducerVars, Reading
  <2>2. work[Main] = <<>>
    <3>1. CASE Processed
      BY <3>1 DEF Processed
    <3>2. CASE at # "processing"
      BY <3>2, <2>1, NoWorkOutside DEF Reading
    <3> QED
      BY <1>7, <3>1, <3>2 DEF Start, Parse, Process, Read, Go
  <2>3. TornPatterns' = TornPatterns
    BY <2>1 DEF TornPatterns
  <2> QED
    BY <2>1, <2>2, <2>3, UnprintedIs, QuietExemplar
<1> QED
  BY <1>1, <1>2, <1>3, <1>4, <1>5, <1>6, <1>7 DEF Next, Ending

-----------------------------------------------------------------------------
(* The counts.                                                             *)

\* What one more line covers.
LEMMA LinesGrow ==
  ASSUME TypeOK, IsFiniteSet(Lines), NEW x, x.count \in Nat, written' = Append(written, x)
  PROVE  IsFiniteSet(Lines') /\ Covered' = Covered + x.count /\ Covered \in Nat
<1> DEFINE n == Len(written)
           new == {n + 1} \X (1 .. x.count)
<1>1. /\ n \in Nat /\ Len(written') = n + 1 /\ written'[n + 1] = x
      /\ DOMAIN written = 1 .. n /\ DOMAIN written' = 1 .. n + 1
      /\ \A i \in 1 .. n : written'[i] = written[i]
  BY DEF TypeOK
<1>2. 1 .. n + 1 = (1 .. n) \cup {n + 1} /\ n + 1 \notin 1 .. n
  BY <1>1
<1> HIDE DEF n
<1>3. Lines' = Lines \cup new
  <2>1. Lines' = UNION {{i} \X (1 .. written'[i].count) : i \in 1 .. n + 1}
    BY <1>1 DEF Lines
  <2>2. Lines = UNION {{i} \X (1 .. written'[i].count) : i \in 1 .. n}
    BY <1>1 DEF Lines
  <2> QED
    BY <2>1, <2>2, <1>1, <1>2
<1>4. Lines \cap new = {}
  BY <1>1, <1>2 DEF Lines
<1>5. IsFiniteSet(new) /\ Cardinality(new) = x.count
  <2>1. IsFiniteSet(1 .. x.count) /\ Cardinality(1 .. x.count) = x.count
    <3>1. 1 \in Int /\ x.count \in Int
      OBVIOUS
    <3>2. /\ IsFiniteSet(1 .. x.count)
          /\ Cardinality(1 .. x.count) = IF 1 > x.count THEN 0 ELSE x.count - 1 + 1
      BY <3>1, FS_Interval
    <3> QED  BY <3>2
  <2> DEFINE f == [k \in 1 .. x.count |-> <<n + 1, k>>]
  <2>2. f \in Bijection(1 .. x.count, new)
    <3>1. f \in [1 .. x.count -> new]
      OBVIOUS
    <3>2. \A j, k \in 1 .. x.count : f[j] = f[k] => j = k
      OBVIOUS
    <3>3. \A y \in new : \E k \in 1 .. x.count : f[k] = y
      OBVIOUS
    <3> HIDE DEF f, new
    <3> QED  BY <3>1, <3>2, <3>3, Fun_IsBij
  <2>3. ExistsBijection(1 .. x.count, new)
    BY <2>2 DEF ExistsBijection
  <2> QED
    BY <2>1, <2>3, FS_Bijection
<1> HIDE DEF new
<1>6. /\ IsFiniteSet(Lines \cup new)
      /\ Cardinality(Lines \cup new) = Cardinality(Lines) + Cardinality(new) - Cardinality({})
  BY <1>4, <1>5, FS_Union
<1>7. Cardinality({}) = 0 /\ Cardinality(Lines) \in Nat
  BY FS_EmptySet, FS_CardinalityType
<1> QED
  BY <1>3, <1>5, <1>6, <1>7 DEF Covered

LEMMA TailHas ==
  ASSUME NEW s \in Seq(Statements), s # <<>>
  PROVE  \A x : Has(s, x) <=> (s[1] = x \/ Has(Tail(s), x))
<1> DEFINE r == Tail(s)
<1>1. /\ Len(s) \in Nat \ {0} /\ Len(r) = Len(s) - 1
      /\ \A i \in 1 .. Len(s) - 1 : r[i] = s[i + 1]
  BY TailIs
<1> HIDE DEF r
<1>2. ASSUME NEW x, Has(s, x), s[1] # x PROVE Has(r, x)
  <2>1. PICK i \in 1 .. Len(s) : s[i] = x
    BY <1>2 DEF Has
  <2>2. i - 1 \in 1 .. Len(s) - 1 /\ (i - 1) + 1 = i
    BY <1>1, <1>2, <2>1
  <2>3. r[i - 1] = x
    BY <1>1, <2>1, <2>2
  <2> QED
    BY <1>1, <2>2, <2>3 DEF Has
<1>3. ASSUME NEW x, Has(r, x) PROVE Has(s, x)
  <2>1. PICK i \in 1 .. Len(r) : r[i] = x
    BY <1>3 DEF Has
  <2>2. i \in 1 .. Len(s) - 1 /\ i + 1 \in 1 .. Len(s)
    BY <1>1
  <2>3. s[i + 1] = x
    BY <1>1, <2>1, <2>2
  <2> QED
    BY <2>2, <2>3 DEF Has
<1>4. ASSUME NEW x, s[1] = x PROVE Has(s, x)
  BY <1>1, <1>4 DEF Has
<1> QED
  BY <1>2, <1>3, <1>4 DEF r

LEMMA TailCloses ==
  ASSUME NEW s \in Seq(Statements), s # <<>>, Orderly(s), Closes(s)
  PROVE  /\ Closes(Tail(s))
         /\ s[1] = "summary" => ~Reports(s) /\ Reports(Tail(s))
         /\ s[1] = "count" => ~Reports(s) /\ ~Reports(Tail(s))
         /\ s[1] \in {"count", "print"} => ~Has(Tail(s), "count") /\ ~Has(Tail(s), "print")
         /\ s[1] = "print" => ~Reports(s) /\ ~Reports(Tail(s))
<1> DEFINE r == Tail(s)
<1>1. /\ Len(s) \in Nat \ {0} /\ Len(r) = Len(s) - 1
      /\ \A i \in 1 .. Len(r) : r[i] = s[i + 1] /\ i + 1 \in 1 .. Len(s) /\ i \in Nat
  BY TailIs
<1>2. \A x : Has(s, x) <=> (s[1] = x \/ Has(r, x))
  BY TailHas
<1> HIDE DEF r
<1>3. ASSUME NEW i \in 1 .. Len(r), r[i] = "summary"
      PROVE  i + 2 <= Len(r) /\ r[i + 1] = "cancel" /\ r[i + 2] = "reset"
  <2>1. (i + 1) + 2 <= Len(s) /\ s[(i + 1) + 1] = "cancel" /\ s[(i + 1) + 2] = "reset"
    BY <1>1, <1>3 DEF Closes
  <2>2. i + 1 \in 1 .. Len(r) /\ i + 2 \in 1 .. Len(r)
    BY <1>1, <2>1
  <2> QED
    BY <1>1, <2>1, <2>2
<1>4. ASSUME NEW i \in 1 .. Len(r), r[i] = "reset"
      PROVE  (i > 1 => r[i - 1] = "cancel") /\ (i > 2 => r[i - 2] = "summary")
  <2>1. s[(i + 1) - 1] = "cancel" /\ (i > 1 => s[(i + 1) - 2] = "summary")
    BY <1>1, <1>4 DEF Closes
  <2>2. i > 1 => i - 1 \in 1 .. Len(r) /\ r[i - 1] = s[i]
    BY <1>1
  <2>3. i > 2 => i - 2 \in 1 .. Len(r) /\ r[i - 2] = s[i - 1]
    BY <1>1
  <2> QED
    BY <1>1, <2>1, <2>2, <2>3
<1>5. ~(Has(r, "count") /\ Has(r, "print"))
  BY <1>2 DEF Closes
<1>6. Closes(r)
  BY <1>3, <1>4, <1>5 DEF Closes
<1>7. ASSUME s[1] = "summary" PROVE ~Reports(s) /\ Reports(r)
  <2>1. 1 + 2 <= Len(s) /\ s[1 + 2] = "reset"
    BY <1>1, <1>7 DEF Closes
  <2>2. Has(r, "reset")
    <3>1. 2 \in 1 .. Len(r) /\ r[2] = "reset"
      BY <1>1, <2>1
    <3> QED
      BY <3>1 DEF Has
  <2>3. \A i \in 1 .. Len(r) : r[i] # "summary"
    <3> SUFFICES ASSUME NEW i \in 1 .. Len(r), r[i] = "summary" PROVE FALSE
      OBVIOUS
    <3>1. s[i + 1] = "summary" /\ i + 1 \in 1 .. Len(s)
      BY <1>1
    <3>2. i + 1 # 2
      <4>1. s[2] = "cancel"
        BY <1>1, <1>7 DEF Closes
      <4> QED
        BY <3>1, <4>1
    <3>3. i + 1 # 3
      BY <2>1, <3>1
    <3>4. 3 < i + 1 /\ 3 \in 1 .. Len(s)
      BY <1>1, <2>1, <3>2, <3>3
    <3> QED
      BY <2>1, <3>1, <3>4 DEF Orderly
  <2>4. Has(s, "summary")
    BY <1>2, <1>7
  <2> QED
    BY <2>2, <2>3, <2>4 DEF Reports, Has
<1>8. ASSUME s[1] = "count", Has(r, "reset") PROVE Has(r, "summary")
  <2>1. PICK i \in 1 .. Len(r) : r[i] = "reset"
    BY <1>8 DEF Has
  <2>2. s[(i + 1) - 1] = "cancel" /\ (i > 1 => s[(i + 1) - 2] = "summary")
    BY <1>1, <2>1 DEF Closes
  <2>3. i > 1
    BY <1>1, <1>8, <2>2
  <2>4. i # 2
    BY <1>8, <2>2
  <2>5. i - 2 \in 1 .. Len(r) /\ r[i - 2] = s[i - 1]
    BY <1>1, <2>3, <2>4
  <2> QED
    BY <1>1, <2>2, <2>3, <2>5 DEF Has
<1>9. s[1] = "count" => ~Has(r, "count") /\ ~Has(r, "print")
  <2>1. s[1] = "count" => Has(s, "count") /\ ~Has(s, "print")
    BY <1>2 DEF Closes
  <2>2. s[1] = "count" => ~Has(r, "count")
    BY TailOrderly DEF Has, r
  <2> QED
    BY <1>2, <2>1, <2>2
<1>10. s[1] = "print" => Len(r) = 0
  BY <1>1 DEF Orderly
<1>11. Len(r) = 0 => \A x : ~Has(r, x)
  BY DEF Has
<1>12. s[1] = "count" => ~Reports(s) /\ ~Reports(r)
  BY <1>2, <1>8 DEF Reports
<1>13. s[1] = "print" => ~Reports(s) /\ ~Reports(r)
  BY <1>2, <1>10, <1>11 DEF Reports
<1> QED
  BY <1>6, <1>7, <1>9, <1>10, <1>11, <1>12, <1>13 DEF r

LEMMA Empty == Closes(<<>>) /\ ~Reports(<<>>) /\ \A x : ~Has(<<>>, x)
BY DEF Closes, Reports, Has

\* A statement moves what it covers from one of the three places to another.
LEMMA ExecuteCount ==
  ASSUME TypeOK, WorkInv, CountInv, NEW t \in Threads, Execute(t)
  PROVE  CountInv'
<1> DEFINE w == work[t]
           s == w[1]
           r == Tail(w)
<1>1. /\ w \in Seq(Statements) /\ w # <<>> /\ Do(s) /\ Orderly(w) /\ Closes(w)
      /\ s \in {"count", "index", "print", "mark"} => t = Main
      /\ s \in {"count", "print"} => at = "processing"
      /\ work'[t] = r
      /\ \A u \in Threads : u # t => work'[u] = <<>> /\ work[u] = <<>>
      /\ UNCHANGED <<at, source, torn, failed>>
  BY FirstStatement, WorkOfOthers DEF Execute, TypeOK, WorkInv, CountInv, mainVars
<1>2. /\ \A x : Has(w, x) <=> (s = x \/ Has(r, x))
      /\ Closes(r)
      /\ s = "summary" => ~Reports(w) /\ Reports(r)
      /\ s = "count" => ~Reports(w) /\ ~Reports(r)
      /\ s \in {"count", "print"} => ~Has(r, "count") /\ ~Has(r, "print")
      /\ s = "print" => ~Reports(w) /\ ~Reports(r)
  BY <1>1, TailHas, TailCloses
<1>3. s = "reset" => Reports(w)
  <2>1. s = "reset" => ~Has(r, "summary")
    BY <1>1, TailOrderly DEF Has
  <2> QED  BY <1>2, <2>1 DEF Reports
<1>4. s \notin {"summary", "reset"} => (Reports(w) <=> Reports(r))
  BY <1>2 DEF Reports
<1>5. w = work[t]
  OBVIOUS
<1> HIDE DEF w, r, s
<1>6. (Reported <=> Reports(w)) /\ (Reported' <=> Reports(r))
  BY <1>1, <1>5, Empty DEF Reported
<1>7. /\ s \in {"count", "print"} => Due /\ ~Due'
      /\ s \notin {"count", "print"} => (Due <=> Due')
  <2>1. CASE t = Main
    <3>1. work[Main] = w /\ work'[Main] = r /\ at # "waiting"
      BY <2>1, <1>1, <1>5, NoWorkOutside
    <3> QED
      BY <3>1, <1>1, <1>2 DEF Due
  <2>2. CASE t # Main
    <3>1. work[Main] = <<>> /\ work'[Main] = <<>>
      BY <2>2, <1>1, ThreadsAre
    <3> QED
      BY <2>2, <3>1, <1>1 DEF Due
  <2> QED  BY <2>1, <2>2
<1>8. IsFiniteSet(Lines) /\ Covered \in Nat /\ count \in Nat
  BY FS_CardinalityType DEF CountInv, Covered, TypeOK
<1>9. IsFiniteSet(Lines') /\ Total' = Total
  <2>1. CASE s = "count"
    <3>1. written' = written /\ count' = count + 1
      BY <1>1, <2>1 DEF Do
    <3>2. Lines' = Lines /\ Covered' = Covered
      BY <3>1 DEF Lines, Covered
    <3>3. ~Reported /\ ~Reported' /\ Due /\ ~Due'
      BY <1>2, <1>6, <1>7, <2>1
    <3> QED  BY <1>8, <3>1, <3>2, <3>3 DEF Total
  <2>2. CASE s = "print"
    <3>1. written' = Append(written, Record(hand)) /\ count' = count
      BY <1>1, <2>2 DEF Do
    <3>2. Record(hand).count = 1
      BY DEF Record
    <3>3. IsFiniteSet(Lines') /\ Covered' = Covered + 1
      BY <1>8, <3>1, <3>2, LinesGrow
    <3>4. ~Reported /\ ~Reported' /\ Due /\ ~Due'
      BY <1>2, <1>6, <1>7, <2>2
    <3> QED  BY <1>8, <3>1, <3>3, <3>4 DEF Total
  <2>3. CASE s = "summary"
    <3>1. written' = Append(written, Summary) /\ count' = count
      BY <1>1, <2>3 DEF Do
    <3>2. Summary.count = count
      BY DEF Summary
    <3>3. IsFiniteSet(Lines') /\ Covered' = Covered + count
      BY <1>8, <3>1, <3>2, LinesGrow
    <3>4. ~Reported /\ Reported' /\ (Due <=> Due')
      BY <1>2, <1>6, <1>7, <2>3
    <3> QED  BY <1>8, <3>1, <3>3, <3>4 DEF Total
  <2>4. CASE s = "reset"
    <3>1. written' = written /\ count' = 0
      BY <1>1, <2>4 DEF Do
    <3>2. Lines' = Lines /\ Covered' = Covered
      BY <3>1 DEF Lines, Covered
    <3>3. Reported /\ (Due <=> Due')
      BY <1>3, <1>6, <1>7, <2>4
    <3> QED  BY <1>8, <3>1, <3>2, <3>3 DEF Total
  <2>5. CASE s \notin {"count", "print", "summary", "reset"}
    <3>1. written' = written /\ count' = count
      BY <1>1, <2>5 DEF Do
    <3>2. Lines' = Lines /\ Covered' = Covered
      BY <3>1 DEF Lines, Covered
    <3>3. (Reported <=> Reported') /\ (Due <=> Due')
      BY <1>4, <1>6, <1>7, <2>5
    <3> QED  BY <1>8, <3>1, <3>2, <3>3 DEF Total
  <2> QED  BY <2>1, <2>2, <2>3, <2>4, <2>5
<1>10. s # "count" => count' = count \/ count' = 0
  BY <1>1 DEF Do
<1>11. s = "reset" => count' = 0
  BY <1>1 DEF Do
<1>12. at = "finishing" => count' = 0 \/ Has(work'[Main], "reset")
  <2> SUFFICES ASSUME at = "finishing" PROVE count' = 0 \/ Has(work'[Main], "reset")
    OBVIOUS
  <2>1. s # "count" /\ (count = 0 \/ Has(work[Main], "reset"))
    BY <1>1 DEF CountInv
  <2>2. CASE t = Main
    BY <2>1, <2>2, <1>1, <1>2, <1>5, <1>10, <1>11
  <2>3. CASE t # Main
    <3>1. work[Main] = <<>>
      BY <2>3, <1>1, ThreadsAre
    <3> QED  BY <2>1, <3>1, <1>10, Empty
  <2> QED  BY <2>2, <2>3
<1>13. at = "log" /\ finished' => count' = 0
  <2> SUFFICES ASSUME at = "log", finished' PROVE count' = 0
    OBVIOUS
  <2>1. t # Main
    BY <1>1, <1>5, NoWorkOutside
  <2>2. finished' = finished
    BY <2>1, <1>1 DEF Do, TypeOK
  <2> QED  BY <2>1, <2>2, <1>1, <1>10 DEF CountInv
<1>14. \A u \in Threads : Closes(work'[u])
  BY <1>1, <1>2, Empty
<1>15. (at' # "gone" /\ ~failed') => Balanced'
  BY <1>1, <1>9 DEF CountInv, Balanced
<1> QED
  BY <1>1, <1>9, <1>12, <1>13, <1>14, <1>15 DEF CountInv

\* Nothing is written or counted, and nothing taken.
LEMMA QuietCount ==
  ASSUME CountInv, UNCHANGED <<written, count>>,
         \A t \in Threads : Closes(work'[t]),
         at' = "gone" \/ failed' \/
             (/\ at # "gone" /\ ~failed /\ UNCHANGED <<torn, source>>
              /\ Reported' <=> Reported
              /\ Due' <=> Due),
         at' = "finishing" => count = 0 \/ Has(work'[Main], "reset"),
         at' = "log" /\ finished' => count = 0
  PROVE  CountInv'
<1>1. Lines' = Lines /\ Covered' = Covered
  BY DEF Lines, Covered
<1>2. ASSUME at' # "gone", ~failed' PROVE Balanced'
  <2>1. Total' = Total /\ Balanced
    BY <1>1, <1>2 DEF Total, CountInv
  <2> QED  BY <1>2, <2>1 DEF Balanced
<1> QED  BY <1>1, <1>2 DEF CountInv

\* A body is put before a thread while no other has work left.
LEMMA BegunCount ==
  ASSUME TypeOK, NEW t \in Threads, NEW b, work' = [work EXCEPT ![t] = b], LockFree,
         Closes(b), ~Reports(b)
  PROVE  /\ \A u \in Threads : Closes(work'[u])
         /\ ~Reported /\ ~Reported'
         /\ work'[t] = b /\ work[Main] = <<>>
<1>1. \A u \in Threads : work[u] = <<>> /\ (work'[u] = IF u = t THEN b ELSE <<>>)
  BY DEF TypeOK, LockFree
<1> QED  BY <1>1, Empty, ThreadsAre DEF Reported

LEMMA TimerCount ==
  ASSUME TypeOK, WorkInv, CountInv, NEW t \in Timers, Timing(t)
  PROVE  CountInv'
<1>0. t \in Threads /\ t # Main
  BY ThreadsAre
<1>1. CASE Expire(t)
  <2>1. UNCHANGED <<written, count, work, at, failed, torn, source, finished>> /\ at # "gone"
    BY <1>1 DEF Expire, Others, mainVars
  <2>2. (Reported' <=> Reported) /\ (Due' <=> Due)
    BY <2>1 DEF Reported, Due
  <2> QED  BY <2>1, <2>2, QuietCount DEF CountInv
<1>2. CASE Callback(t)
  <2>1. PICK due \in BOOLEAN, over \in BOOLEAN : work' = [work EXCEPT ![t] = TimerBody(due, over)]
    BY <1>2 DEF Callback
  <2>2. LockFree /\ UNCHANGED <<written, count, at, failed, torn, source, finished>> /\ at # "gone"
    BY <1>2 DEF Callback, Others, mainVars
  <2>3. (\A u \in Threads : Closes(work'[u])) /\ ~Reported /\ ~Reported'
    BY <1>0, <2>1, <2>2, BegunCount, TimerBodyIs
  <2>4. work'[Main] = work[Main]
    BY <1>0, <2>1, ThreadsAre DEF TypeOK
  <2>5. Due' <=> Due
    BY <2>2, <2>4 DEF Due
  <2> QED  BY <2>2, <2>3, <2>4, <2>5, QuietCount DEF CountInv
<1>3. CASE TimerStep(t)
  BY <1>0, <1>3, TimerExecutes, ExecuteCount
<1>4. CASE TimerRaises(t)
  <2>1. /\ failed' /\ UNCHANGED <<written, count, at, finished>>
        /\ \A u \in Threads : work'[u] = IF u = t THEN <<>> ELSE work[u]
    BY <1>4 DEF TimerRaises, Others, mainVars, reducerVars, TypeOK
  <2>2. work'[Main] = work[Main] /\ \A u \in Threads : Closes(work'[u])
    BY <1>0, <2>1, Empty, ThreadsAre DEF CountInv
  <2> QED  BY <2>1, <2>2, QuietCount DEF CountInv
<1> QED  BY <1>1, <1>2, <1>3, <1>4 DEF Timing

\* What Ctrl+C takes from the main thread is at most the record in hand.
LEMMA InterruptCount ==
  ASSUME TypeOK, WorkInv, CountInv, Interrupt
  PROVE  CountInv'
<1>1. /\ \A u \in Threads : work'[u] = IF u = Main THEN <<>> ELSE work[u]
      /\ at' \in {"gone", "finally", "idle"}
      /\ at' # "gone" => at \in {"idle", "waiting", "processing", "finally"}
      /\ torn' = IF at \in {"waiting", "processing"} THEN Append(torn, hand) ELSE torn
      /\ UNCHANGED <<written, count, source, failed>>
  BY InterruptIs DEF reducerVars, TypeOK
<1>2. \A u \in Threads : Closes(work'[u])
  BY <1>1, Empty DEF CountInv
<1>3. CASE at' = "gone" \/ failed'
  BY <1>1, <1>2, <1>3, QuietCount
<1>4. CASE at' # "gone" /\ ~failed' /\ at \notin {"waiting", "processing"}
  <2>1. at \in {"idle", "finally"}
    BY <1>1, <1>4
  <2>2. \A u \in Threads : work'[u] = work[u]
    BY <1>1, <2>1, NoWorkOutside
  <2>3. (Reported' <=> Reported) /\ ~Due /\ ~Due'
    BY <1>1, <2>1, <2>2 DEF Reported, Due
  <2> QED  BY <1>1, <1>2, <1>4, <2>1, <2>3, QuietCount
<1>5. CASE at' # "gone" /\ ~failed' /\ at \in {"waiting", "processing"}
  <2>1. Lines' = Lines /\ Covered' = Covered /\ IsFiniteSet(Lines)
    BY <1>1 DEF Lines, Covered, CountInv
  <2>2. Covered \in Nat /\ count \in Nat /\ Len(torn) \in Nat /\ Len(source) \in Nat
    BY <2>1, FS_CardinalityType DEF Covered, TypeOK
  <2>3. Reported' => Reported
    BY <1>1, Empty DEF Reported
  <2>4. Total' + 1 >= Total
    BY <1>1, <2>1, <2>2, <2>3 DEF Total
  <2>5. Total + Len(torn) >= Len(source)
    BY <1>1, <1>5 DEF CountInv, Balanced
  <2>6. Total \in Nat /\ Total' \in Nat
    BY <1>1, <2>1, <2>2 DEF Total
  <2>7. Len(torn') = Len(torn) + 1 /\ source' = source
    BY <1>1, <1>5 DEF TypeOK
  <2>8. Len(source') = Len(source) /\ torn' # <<>>
    BY <2>2, <2>7
  <2>9. Balanced'
    <3> DEFINE old == Total
               new == Total'
               length == Len(source)
               gone == Len(torn)
    <3>1. /\ old \in Nat /\ new \in Nat /\ length \in Nat /\ gone \in Nat
          /\ new + 1 >= old /\ old + gone >= length
      BY <2>2, <2>4, <2>5, <2>6
    <3> HIDE DEF old, new, length, gone
    <3>2. new + (gone + 1) >= length
      BY <3>1
    <3> QED  BY <2>7, <2>8, <3>2 DEF Balanced, new, length, gone
  <2> QED  BY <1>1, <1>2, <2>1, <2>9 DEF CountInv
<1> QED  BY <1>3, <1>4, <1>5

LEMMA EndingCount ==
  ASSUME TypeOK, WorkInv, CountInv, Ending
  PROVE  CountInv'
<1>1. CASE MainStep
  BY <1>1, MainExecutes, ExecuteCount, ThreadsAre
<1>2. CASE MainRaises
  <2>1. /\ failed' /\ UNCHANGED <<written, count>> /\ at' \in {"finally", "gone"}
        /\ \A u \in Threads : work'[u] = IF u = Main THEN <<>> ELSE work[u]
    BY <1>2 DEF MainRaises, reducerVars, TypeOK
  <2>2. \A u \in Threads : Closes(work'[u])
    BY <2>1, Empty DEF CountInv
  <2> QED  BY <2>1, <2>2, QuietCount
<1>3. CASE EnterFinish
  <2>1. /\ LockFree /\ at = "finally" /\ at' = "finishing" /\ work' = [work EXCEPT ![Main] = FinishBody]
        /\ UNCHANGED <<written, count, failed, torn, source>>
    BY <1>3 DEF EnterFinish, Go, reducerVars, mainVars
  <2>2. /\ \A u \in Threads : Closes(work'[u])
        /\ ~Reported /\ ~Reported' /\ work'[Main] = FinishBody
    BY <2>1, BegunCount, FinishBodyIs, ThreadsAre
  <2>3. ~Due /\ ~Due' /\ (count = 0 \/ Has(work'[Main], "reset"))
    BY <2>1, <2>2, FinishBodyIs DEF Due
  <2> QED  BY <2>1, <2>2, <2>3, QuietCount
<1>4. CASE FinishDone
  <2>1. /\ at = "finishing" /\ at' \in {"gone", "log"} /\ work[Main] = <<>>
        /\ UNCHANGED <<written, count, failed, torn, source, work>>
    BY <1>4 DEF FinishDone, Go, reducerVars, mainVars
  <2>2. count = 0
    BY <2>1, Empty DEF CountInv
  <2>3. (Reported' <=> Reported) /\ ~Due /\ ~Due'
    BY <2>1 DEF Reported, Due
  <2> QED  BY <2>1, <2>2, <2>3, QuietCount DEF CountInv
<1>5. CASE LogFinish
  <2>1. at' = "gone" /\ UNCHANGED <<written, count, work>>
    BY <1>5 DEF LogFinish, Go, reducerVars
  <2> QED  BY <2>1, QuietCount DEF CountInv
<1> QED  BY <1>1, <1>2, <1>3, <1>4, <1>5 DEF Ending

LEMMA StepCount ==
  ASSUME TypeOK, WorkInv, EndInv, CountInv, [Next]_vars
  PROVE  CountInv'
<1>1. CASE UNCHANGED vars \/ LoseReader
  <2>1. UNCHANGED <<written, count, work, at, failed, torn, source, finished>>
    BY <1>1 DEF vars, LoseReader, mainVars, reducerVars
  <2>2. (Reported' <=> Reported) /\ (Due' <=> Due)
    BY <2>1 DEF Reported, Due
  <2> QED  BY <2>1, <2>2, QuietCount DEF CountInv
<1>2. CASE \E t \in Timers : Timing(t)
  BY <1>2, TimerCount
<1>3. CASE Ending
  BY <1>3, EndingCount
<1>4. CASE Interrupt
  BY <1>4, InterruptCount
<1>5. CASE Start \/ ParseExits \/ Parse \/ EndOfSource \/ Processed
  <2>1. /\ UNCHANGED <<written, count, work, failed, torn, source, finished>>
        /\ at \notin {"gone", "waiting"} /\ at' \notin {"waiting", "processing", "finishing"}
        /\ at = "processing" => work[Main] = <<>>
        /\ at' = "log" => at = "parse"
    BY <1>5 DEF Start, ParseExits, Parse, EndOfSource, Processed, Go, mainVars, reducerVars
  <2>2. (Reported' <=> Reported) /\ ~Due /\ ~Due'
    BY <2>1, Empty DEF Reported, Due
  <2>3. at' = "log" => ~finished
    BY <2>1 DEF EndInv, Early
  <2> QED  BY <2>1, <2>2, <2>3, QuietCount DEF CountInv
<1>6. ASSUME NEW p \in Patterns, Read(p) PROVE CountInv'
  <2>1. /\ UNCHANGED <<written, count, work, failed, torn>>
        /\ at = "idle" /\ at' = "waiting" /\ source' = Append(source, p)
    BY <1>6 DEF Read, Go, mainVars, reducerVars
  <2>2. (Reported' <=> Reported) /\ ~Due /\ Due'
    BY <2>1 DEF Reported, Due
  <2>3. Lines' = Lines /\ Covered' = Covered /\ IsFiniteSet(Lines)
    BY <2>1 DEF Lines, Covered, CountInv
  <2>4. Covered \in Nat /\ count \in Nat /\ Len(torn) \in Nat /\ Len(source) \in Nat
    BY <2>3, FS_CardinalityType DEF Covered, TypeOK
  <2>5. Total' = Total + 1 /\ Total \in Nat
    BY <2>1, <2>2, <2>3, <2>4 DEF Total
  <2>6. Len(source') = Len(source) + 1
    BY <2>1 DEF TypeOK
  <2>7. ~failed' => Balanced'
    BY <2>1, <2>4, <2>5, <2>6 DEF CountInv, Balanced
  <2> QED  BY <2>1, <2>3, <2>7 DEF CountInv
<1>7. CASE Process
  <2>1. PICK due \in BOOLEAN, over \in BOOLEAN : work' = [work EXCEPT ![Main] = ProcessBody(hand, due, over)]
    BY <1>7 DEF Process
  <2>2. /\ LockFree /\ at = "waiting" /\ at' = "processing"
        /\ UNCHANGED <<written, count, failed, torn, source>>
    BY <1>7 DEF Process, Go, reducerVars, mainVars
  <2> DEFINE b == ProcessBody(hand, due, over)
  <2>3. Closes(b) /\ ~Reports(b) /\ (Has(b, "count") \/ Has(b, "print"))
    <3>1. CASE hand \in index
      <4>1. b \in Seq(Statements) /\ Len(b) > 0 /\ b[1] = "count" /\ Closes(b) /\ ~Reports(b)
        BY <3>1, FamiliarBody
      <4> HIDE DEF b
      <4> QED  BY <4>1 DEF Has
    <3>2. CASE hand \notin index
      BY <3>2, NewBody
    <3> QED  BY <3>1, <3>2
  <2>4. (\A u \in Threads : Closes(work'[u])) /\ ~Reported /\ ~Reported' /\ work'[Main] = b
    BY <2>1, <2>2, <2>3, BegunCount, ThreadsAre
  <2>5. Due /\ Due'
    BY <2>2, <2>3, <2>4 DEF Due
  <2> QED  BY <2>2, <2>4, <2>5, QuietCount
<1> QED  BY <1>1, <1>2, <1>3, <1>4, <1>5, <1>6, <1>7 DEF Next

LEMMA InitCount == Init => CountInv
<1> SUFFICES ASSUME Init PROVE CountInv
  OBVIOUS
<1>1. /\ at = "start" /\ count = 0 /\ Len(torn) = 0 /\ Len(source) = 0 /\ written = <<>>
      /\ \A t \in Threads : work[t] = <<>>
  BY DEF Init
<1>2. Lines = {}
  BY <1>1 DEF Lines
<1>3. IsFiniteSet(Lines) /\ Covered = 0
  BY <1>2, FS_EmptySet DEF Covered
<1>4. ~Due
  BY <1>1 DEF Due
<1>5. Balanced
  BY <1>1, <1>3, <1>4 DEF Balanced, Total
<1> QED  BY <1>1, <1>3, <1>5, Empty DEF CountInv

-----------------------------------------------------------------------------
(* The theorems.                                                           *)

LEMMA InitInv == Init => IInv
<1> SUFFICES ASSUME Init PROVE IInv
  OBVIOUS
<1>1. TypeOK
  BY InitTypes
<1>2. /\ at = "start" /\ count = 0 /\ hidden = {} /\ index = {}
      /\ ~failed /\ ~finished /\ logged = NoStatus
      /\ \A t \in Timers : wait[t] = "idle"
      /\ \A t \in Threads : work[t] = <<>>
  BY DEF Init
<1>3. WorkInv
  <2>1. Len(work[Main]) = 0
    BY <1>2, ThreadsAre
  <2>2. OneWorks
    BY <1>2 DEF OneWorks
  <2> QED
    BY <1>2, <2>1, <2>2, NoWorkIs, ThreadsAre DEF WorkInv
<1>4. EndInv
  BY <1>2, ThreadsAre DEF EndInv, LastWritten
<1>5. ExemplarInv /\ ExitTold
  BY <1>2 DEF ExemplarInv, ExitTold
<1> QED
  BY <1>1, <1>3, <1>4, <1>5 DEF IInv

\* IInv is an invariant of the program.
THEOREM Invariance == Spec => []IInv
<1>1. IInv /\ [Next]_vars => IInv'
  BY StepTypes, StepWork, StepEnd, StepExemplar, StepTold DEF IInv
<1> QED
  BY InitInv, <1>1, PTL DEF Spec

\* Every variable keeps its type; in particular a count that is written is never
\* zero, whichever locked section Ctrl+C or a failed write has cut short before.
THEOREM TypeCorrect == Spec => []TypeOK
<1>1. IInv => TypeOK
  BY DEF IInv
<1> QED
  BY Invariance, <1>1, PTL

\* However often and between whichever statements Ctrl+C comes, no record of a
\* file or stdin is hidden without an exemplar, and of a command's output none
\* but those of a pattern Ctrl+C tore a record of.
THEOREM ExemplarPrintedCorrect == Spec => []ExemplarPrinted
<1>1. IInv => ExemplarPrinted
  <2> SUFFICES ASSUME IInv PROVE ExemplarPrinted
    OBVIOUS
  <2>1. DOMAIN written = 1 .. Len(written)
    BY DEF IInv, TypeOK
  <2> QED
    BY <2>1 DEF IInv, ExemplarInv, ExemplarPrinted, Printed
<1> QED
  BY Invariance, <1>1, PTL

\* Output that could not be written never ends with success, every normal exit
\* attempts the FINISH of its START, which may be lost, and one that is written
\* carries the exit status, for any number of timers, records and Ctrl+C.
THEOREM ExitToldCorrect == Spec => []ExitTold
<1>1. IInv => ExitTold
  BY DEF IInv
<1> QED
  BY Invariance, <1>1, PTL

\* When the output is finished and nothing failed, the lines and counts in it
\* cover every record taken but those Ctrl+C fell on, and exactly without one,
\* for any number of timers, records and Ctrl+C.
THEOREM CountsSurviveCorrect == Spec => []CountsSurvive
<1>1. CountInv /\ IInv /\ [Next]_vars => CountInv'
  BY StepCount DEF IInv
<1>2. CountInv /\ IInv => CountsSurvive
  <2> SUFFICES ASSUME CountInv, IInv, finished, at = "log", ~failed
               PROVE  Covered + Len(torn) >= Len(source) /\ (torn = <<>> => Covered = Len(source))
    BY DEF CountsSurvive
  <2>1. Balanced /\ count = 0 /\ ~Due
    BY DEF CountInv, Due
  <2>2. Covered \in Nat
    BY FS_CardinalityType DEF CountInv, Covered
  <2>3. Total = Covered
    BY <2>1, <2>2 DEF Total
  <2> QED  BY <2>1, <2>3 DEF Balanced
<1> QED
  BY InitCount, Invariance, <1>1, <1>2, PTL DEF Spec
=============================================================================
