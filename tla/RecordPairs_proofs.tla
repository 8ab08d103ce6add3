--------------------------- MODULE RecordPairs_proofs ---------------------------
(***************************************************************************)
(* Proofs about RecordPairs, for lines of any length made of any tokens:   *)
(* every pass of the normalisation only touches what Erase erases.         *)
(***************************************************************************)
EXTENDS RecordPairs, FiniteSetTheorems, FunctionTheorems, WellFoundedInduction, TLAPS

USE PairAssumption

IsToken(t) == t = [kind |-> t.kind, value |-> t.value]
IsLine(l) ==
    /\ Len(l) \in Nat
    /\ l = [i \in 1 .. Len(l) |-> l[i]]
    /\ \A i \in 1 .. Len(l) : IsToken(l[i])

-----------------------------------------------------------------------------
(* Lines and the first token of a kind.                                    *)

LEMMA MappedLine ==
    ASSUME NEW l, IsLine(l), NEW f, f = [i \in DOMAIN l |-> f[i]],
           \A i \in DOMAIN l : IsToken(f[i])
    PROVE  IsLine(f) /\ DOMAIN f = DOMAIN l /\ Len(f) = Len(l)
<1>1. Len(l) \in Nat /\ DOMAIN l = 1 .. Len(l)
  BY DEF IsLine
<1>2. f \in Seq({f[i] : i \in 1 .. Len(l)})
  BY <1>1
<1>3. Len(f) = Len(l) /\ DOMAIN f = DOMAIN l
  BY <1>1, <1>2
<1>. QED
  BY <1>1, <1>3 DEF IsLine

LEMMA Marks ==
    ASSUME NEW k
    PROVE  IsToken(Marked(k)) /\ Marked(k).kind = k /\ Marked(k).value = ""
  BY DEF IsToken, Marked

LEMMA SmallestExists ==
    ASSUME NEW n \in Nat, NEW I \in SUBSET (1 .. n), I # {}
    PROVE  Min(I) \in I
<1>. DEFINE R == {p \in Nat \X Nat : p[1] < p[2]}
<1>1. IsWellFoundedOn(R, Nat)
  BY NatLessThanWellFounded DEF OpToRel
<1>2. I \subseteq Nat
  OBVIOUS
<1>. HIDE DEF R
<1>3. PICK k \in I : \A y \in I : ~(<<y, k>> \in R)
  BY <1>1, <1>2, WFMin
<1>4. \A y \in I : k <= y
  <2>1. TAKE y \in I
  <2>2. <<y, k>> \in Nat \X Nat /\ ~(<<y, k>> \in R)
    BY <1>2, <1>3
  <2>3. ~(y < k)
    BY <2>2 DEF R
  <2>. QED
    BY <1>2, <2>3
<1>. QED
  BY <1>4 DEF Min

LEMMA FirstHasKind ==
    ASSUME NEW l, IsLine(l), NEW kinds, First(l, kinds) # 0
    PROVE  First(l, kinds) \in DOMAIN l /\ l[First(l, kinds)].kind \in kinds
<1>. DEFINE I == {i \in 1 .. Len(l) : l[i].kind \in kinds}
<1>1. First(l, kinds) = IF I # {} THEN Min(I) ELSE 0
  BY DEF First, SelectInSeq
<1>2. Len(l) \in Nat /\ DOMAIN l = 1 .. Len(l)
  BY DEF IsLine
<1>3. I # {}
  BY <1>1
<1>4. Min(I) \in I
  BY <1>2, <1>3, SmallestExists
<1>. QED
  BY <1>1, <1>2, <1>3, <1>4

-----------------------------------------------------------------------------
(* Each pass keeps what Erase leaves of a line.                            *)

LEMMA TimestampsErase ==
    ASSUME NEW l, IsLine(l), NEW a \in BOOLEAN
    PROVE  IsLine(Timestamps(l)) /\ Erase(Timestamps(l), a) = Erase(l, a)
<1>. DEFINE t == Timestamps(l)
<1>1. Len(l) \in Nat /\ DOMAIN l = 1 .. Len(l) /\ \A i \in DOMAIN l : IsToken(l[i])
  BY DEF IsLine
<1>2. IsToken(Timestamp) /\ Timestamp.kind = "<timestamp>" /\ Timestamp.value = ""
  BY Marks DEF Timestamp
<1>. DEFINE u == [i \in DOMAIN l |-> IF l[i].kind = "syslog" THEN Timestamp ELSE l[i]]
<1>3. /\ \A i \in DOMAIN l : u[i] = IF l[i].kind = "syslog" THEN Timestamp ELSE l[i]
      /\ DOMAIN u = DOMAIN l /\ Len(u) = Len(l)
  <2>1. \A i \in DOMAIN l : IsToken(u[i])
    BY <1>1, <1>2
  <2>. QED
    BY <2>1, MappedLine
<1>4. \/ Leading(l) /\ t = [i \in DOMAIN l |-> IF i = 1 THEN Timestamp ELSE l[i]]
      \/ t = [i \in DOMAIN l |-> IF l[i].kind = "iso" THEN Timestamp ELSE l[i]]
      \/ t = LeadingClock(u)
  BY DEF Timestamps
<1>. HIDE DEF t, u
<1>5. /\ DOMAIN t = DOMAIN l
      /\ \A i \in DOMAIN l :
             \/ t[i] = l[i]
             \/ t[i] = Timestamp /\ l[i].kind \in {"iso", "syslog"}
             \/ t[i] = Timestamp /\ i = 1 /\ ClockFirst(l)
  <2>1. CASE Leading(l) /\ t = [i \in DOMAIN l |-> IF i = 1 THEN Timestamp ELSE l[i]]
    BY <2>1 DEF Leading
  <2>2. CASE t = [i \in DOMAIN l |-> IF l[i].kind = "iso" THEN Timestamp ELSE l[i]]
    BY <2>2
  <2>3. CASE t = LeadingClock(u)
    <3>1. t = [i \in DOMAIN l |->
                  IF i = 1 /\ ClockFirst(u) THEN Timestamp ELSE u[i]]
      BY <2>3, <1>3 DEF LeadingClock, ClockFirst
    <3>2. ClockFirst(u) => ClockFirst(l)
      <4>1. ASSUME Len(l) > 1
            PROVE  /\ 1 \in DOMAIN l /\ u[1].kind = "clock" => l[1].kind = "clock"
                   /\ 2 \in DOMAIN l /\ u[2].kind = "level" => l[2].kind = "level"
        BY <1>1, <1>2, <1>3, <4>1
      <4>. QED
        BY <1>3, <4>1 DEF ClockFirst
    <3>. QED
      BY <1>3, <3>1, <3>2
  <2>. QED
    BY <1>4, <2>1, <2>2, <2>3
<1>6. IsLine(t) /\ DOMAIN t = DOMAIN l /\ Len(t) = Len(l)
  <2>1. t = [i \in DOMAIN l |-> t[i]]
    BY <1>3, <1>4, <1>5 DEF LeadingClock
  <2>2. \A i \in DOMAIN l : IsToken(t[i])
    BY <1>1, <1>2, <1>5
  <2>. QED
    BY <2>1, <2>2, MappedLine
<1>7. \/ l # <<>> /\ t[1] = Timestamp /\ (l[1].kind \in {"iso", "syslog"} \/ ClockFirst(l))
      \/ ClockFirst(t) = ClockFirst(l)
  <2>1. CASE Len(l) > 1
    <3>1. 1 \in DOMAIN l /\ 2 \in DOMAIN l /\ l # <<>>
      BY <1>1, <2>1
    <3>2. t[2] = l[2] \/ (t[2] = Timestamp /\ l[2].kind \in {"iso", "syslog"})
      BY <1>5, <3>1
    <3>3. (t[2].kind = "level") <=> (l[2].kind = "level")
      BY <1>2, <3>2
    <3>. QED
      BY <1>5, <1>6, <3>1, <3>3 DEF ClockFirst
  <2>2. CASE ~(Len(l) > 1)
    BY <1>6, <2>2 DEF ClockFirst
  <2>. QED
    BY <2>1, <2>2
<1>8. ASSUME NEW i \in DOMAIN l
      PROVE  Erase(t, a)[i] = Erase(l, a)[i]
  <2>1. EraseToken(Timestamp, a) = Timestamp
    BY <1>2 DEF EraseToken, Named, Broad, Uuid
  <2>2. l[i].kind \in {"iso", "syslog"} => EraseToken(l[i], a) = Timestamp
    BY DEF EraseToken
  <2>3. Erase(t, a)[i] = IF i = 1 /\ ClockFirst(t) THEN Timestamp ELSE EraseToken(t[i], a)
    BY <1>6 DEF Erase
  <2>4. Erase(l, a)[i] = IF i = 1 /\ ClockFirst(l) THEN Timestamp ELSE EraseToken(l[i], a)
    BY DEF Erase
  <2>5. ClockFirst(l) => l[1].kind = "clock"
    BY DEF ClockFirst
  <2>6. ClockFirst(t) => t[1].kind = "clock"
    BY DEF ClockFirst
  <2>. QED
    BY <1>2, <1>5, <1>7, <2>1, <2>2, <2>3, <2>4, <2>5, <2>6
<1>. QED
  BY <1>6, <1>8 DEF Erase, t

LEMMA SameClock ==
    ASSUME NEW l, IsLine(l), NEW t, Len(t) = Len(l),
           \A i \in DOMAIN l : /\ t[i].kind = "clock" <=> l[i].kind = "clock"
                               /\ t[i].kind = "level" <=> l[i].kind = "level"
    PROVE  ClockFirst(t) = ClockFirst(l)
<1>1. CASE Len(l) > 1
  <2>1. 1 \in DOMAIN l /\ 2 \in DOMAIN l
    BY <1>1 DEF IsLine
  <2>. QED
    BY <2>1 DEF ClockFirst
<1>2. CASE ~(Len(l) > 1)
  BY <1>2 DEF ClockFirst
<1>. QED
  BY <1>1, <1>2

LEMMA UuidsErase ==
    ASSUME NEW l, IsLine(l), NEW a \in BOOLEAN
    PROVE  IsLine(Uuids(l)) /\ Erase(Uuids(l), a) = Erase(l, a)
<1>. DEFINE t == Uuids(l)
<1>1. Len(l) \in Nat /\ DOMAIN l = 1 .. Len(l) /\ \A i \in DOMAIN l : IsToken(l[i])
  BY DEF IsLine
<1>2. \A i \in DOMAIN l : IsToken(t[i])
  BY <1>1, Marks DEF Uuids, IsToken
<1>3. IsLine(t) /\ DOMAIN t = DOMAIN l /\ Len(t) = Len(l)
  BY <1>2, MappedLine DEF Uuids
<1>4. ASSUME NEW i \in DOMAIN l
      PROVE  EraseToken(t[i], a) = EraseToken(l[i], a)
  <2>1. CASE l[i].kind = "uuid"
    <3>1. t[i] = Marked("<uuid>")
      BY <2>1 DEF Uuids
    <3>2. t[i].kind = "<uuid>" /\ t[i].value = ""
      BY <3>1, Marks
    <3>3. EraseToken(t[i], a) = t[i]
      BY <3>2 DEF EraseToken, Named, Broad, Uuid
    <3>. QED
      BY <2>1, <3>1, <3>3 DEF EraseToken
  <2>2. CASE l[i].kind # "uuid" /\ l[i].value \in Uuid
    <3>1. t[i] = [l[i] EXCEPT !.value = "<uuid>"]
      BY <2>2 DEF Uuids
    <3>2. /\ t[i].kind = l[i].kind /\ t[i].value = "<uuid>"
          /\ [t[i] EXCEPT !.value = "<id>"] = [l[i] EXCEPT !.value = "<id>"]
      BY <1>1, <3>1 DEF IsToken
    <3>. QED
      BY <2>2, <3>1, <3>2 DEF EraseToken, Uuid
  <2>3. CASE l[i].kind # "uuid" /\ l[i].value \notin Uuid
    BY <2>3 DEF Uuids
  <2>. QED
    BY <2>1, <2>2, <2>3
<1>5. ASSUME NEW i \in DOMAIN l
      PROVE  \/ t[i].kind = l[i].kind
             \/ t[i].kind = "<uuid>" /\ l[i].kind = "uuid"
  <2>1. \/ l[i].kind = "uuid" /\ t[i] = Marked("<uuid>")
        \/ t[i] = [l[i] EXCEPT !.value = "<uuid>"]
        \/ t[i] = l[i]
    BY DEF Uuids
  <2>2. [l[i] EXCEPT !.value = "<uuid>"].kind = l[i].kind
    BY <1>1 DEF IsToken
  <2>. QED
    BY <2>1, <2>2, Marks
<1>6. ClockFirst(t) = ClockFirst(l)
  <2>. HIDE DEF t
  <2>. QED
    BY <1>3, <1>5, SameClock
<1>. QED
  BY <1>3, <1>4, <1>6 DEF Erase

LEMMA NameKinds ==
    ASSUME NEW l, IsLine(l)
    PROVE  /\ ExactName(l) # 0 =>
                  LET t == l[ExactName(l)]
                  IN  ExactName(l) \in DOMAIN l /\ t.kind \in {"field", "trace"} /\ HasIdValue(t)
           /\ FoldedName(l) # 0 =>
                  LET t == l[FoldedName(l)]
                  IN  FoldedName(l) \in DOMAIN l /\ t.kind \in {"field", "loose"} /\ HasIdValue(t)
<1>. DEFINE f == First(l, {"field", "glued"})
            t == First(l, {"trace"})
            g == First(l, {"field", "glued", "loose"})
<1>1. f # 0 => f \in DOMAIN l
  BY FirstHasKind
<1>2. t # 0 => t \in DOMAIN l /\ l[t].kind \in {"trace"}
  BY FirstHasKind
<1>3. g # 0 => g \in DOMAIN l /\ l[g].kind \in {"field", "glued", "loose"}
  BY FirstHasKind
<1>4. ExactName(l) # 0 =>
          \/ f # 0 /\ ExactName(l) = f /\ l[f].kind = "field" /\ HasIdValue(l[f])
          \/ t # 0 /\ ExactName(l) = t /\ HasIdValue(l[t])
  BY DEF ExactName
<1>5. FoldedName(l) # 0 =>
          g # 0 /\ FoldedName(l) = g /\ l[g].kind # "glued" /\ HasIdValue(l[g])
  BY DEF FoldedName
<1>. HIDE DEF f, t, g
<1>. QED
  BY <1>1, <1>2, <1>3, <1>4, <1>5

\* Replacing the value of a named identifier.
LEMMA ReplacedErase ==
    ASSUME NEW t, IsToken(t), t.kind \in Named, HasIdValue(t), NEW a \in BOOLEAN,
           NEW r, r \in {ReplaceOne(t), [t EXCEPT !.value = "<id>"]}
    PROVE  IsToken(r) /\ r.kind = t.kind /\ EraseToken(r, a) = EraseToken(t, a)
<1>1. PICK v \in {"<id>", "<id>stray"} : r = [t EXCEPT !.value = v]
  BY DEF ReplaceOne
<1>2. r = [kind |-> t.kind, value |-> v]
  BY <1>1 DEF IsToken
<1>3. t.value # "none"
  BY DEF HasIdValue, IdValues, Plain, Uuid
<1>4. r.value # "none" /\ r.kind \in Named
  BY <1>2
<1>5. \A s : s.kind \in Named /\ s.value # "none" =>
                 EraseToken(s, a) = [s EXCEPT !.value = "<id>"]
  BY DEF EraseToken, Named, Broad
<1>6. [r EXCEPT !.value = "<id>"] = [t EXCEPT !.value = "<id>"]
  BY <1>2 DEF IsToken
<1>. QED
  BY <1>2, <1>3, <1>4, <1>5, <1>6 DEF IsToken

LEMMA NamedIdsErase ==
    ASSUME NEW l, IsLine(l), NEW a \in BOOLEAN
    PROVE  IsLine(NamedIds(l)) /\ Erase(NamedIds(l), a) = Erase(l, a)
<1>. DEFINE t == NamedIds(l)
<1>1. Len(l) \in Nat /\ DOMAIN l = 1 .. Len(l) /\ \A i \in DOMAIN l : IsToken(l[i])
  BY DEF IsLine
<1>2. SingleName(l) # 0 => l[SingleName(l)].kind \in Named /\ HasIdValue(l[SingleName(l)])
  BY NameKinds DEF SingleName, Named
<1>3. t = [i \in DOMAIN l |-> t[i]]
  BY DEF NamedIds
<1>4. ASSUME NEW i \in DOMAIN l
      PROVE  \/ t[i] = l[i]
             \/ /\ l[i].kind \in Named /\ HasIdValue(l[i])
                /\ t[i] \in {ReplaceOne(l[i]), [l[i] EXCEPT !.value = "<id>"]}
  BY <1>2 DEF NamedIds
<1>. HIDE DEF t
<1>5. ASSUME NEW i \in DOMAIN l
      PROVE  /\ IsToken(t[i]) /\ t[i].kind = l[i].kind
             /\ EraseToken(t[i], a) = EraseToken(l[i], a)
  BY <1>1, <1>4, ReplacedErase
<1>6. IsLine(t) /\ DOMAIN t = DOMAIN l /\ Len(t) = Len(l)
  BY <1>3, <1>5, MappedLine
<1>7. ClockFirst(t) = ClockFirst(l)
  BY <1>5, <1>6, SameClock
<1>. QED
  BY <1>5, <1>6, <1>7 DEF Erase, t

LEMMA AggressiveErase ==
    ASSUME NEW l, IsLine(l)
    PROVE  IsLine(Aggressive(l)) /\ Erase(Aggressive(l), TRUE) = Erase(l, TRUE)
<1>. DEFINE t == Aggressive(l)
<1>1. Len(l) \in Nat /\ DOMAIN l = 1 .. Len(l) /\ \A i \in DOMAIN l : IsToken(l[i])
  BY DEF IsLine
<1>2. ASSUME NEW i \in DOMAIN l
      PROVE  /\ IsToken(t[i])
             /\ (t[i].kind = "clock" <=> l[i].kind = "clock")
             /\ (t[i].kind = "level" <=> l[i].kind = "level")
             /\ EraseToken(t[i], TRUE) = EraseToken(l[i], TRUE)
  <2>1. CASE l[i].kind \in Broad
    <3>1. t[i] = BroadMark(l[i].kind)
      BY <2>1 DEF Aggressive, Broad
    <3>2. PICK k \in {"<path>", "<hex>", "<integer>"} : t[i] = Marked(k)
      BY <2>1, <3>1 DEF BroadMark, Broad
    <3>3. IsToken(t[i]) /\ t[i].kind = k /\ t[i].value = ""
      BY <3>2, Marks
    <3>4. EraseToken(t[i], TRUE) = t[i]
      BY <3>3 DEF EraseToken, Named, Broad, Uuid
    <3>5. EraseToken(l[i], TRUE) = BroadMark(l[i].kind)
      BY <2>1 DEF EraseToken, Broad
    <3>. QED
      BY <2>1, <3>1, <3>3, <3>4, <3>5 DEF Broad
  <2>2. CASE l[i].kind = "iso"
    <3>1. t[i] = [l[i] EXCEPT !.kind = "yearless"]
      BY <2>2 DEF Aggressive, Broad
    <3>2. IsToken(t[i]) /\ t[i].kind = "yearless"
      BY <1>1, <3>1 DEF IsToken
    <3>. QED
      BY <2>2, <3>2 DEF EraseToken
  <2>3. CASE l[i].kind \notin Broad \cup {"iso"}
    <3>1. t[i] = l[i]
      BY <2>3 DEF Aggressive
    <3>. QED
      BY <1>1, <3>1
  <2>. QED
    BY <2>1, <2>2, <2>3
<1>3. t = [i \in DOMAIN l |-> t[i]]
  BY DEF Aggressive
<1>. HIDE DEF t
<1>4. IsLine(t) /\ DOMAIN t = DOMAIN l /\ Len(t) = Len(l)
  BY <1>2, <1>3, MappedLine
<1>5. ClockFirst(t) = ClockFirst(l)
  BY <1>2, <1>4, SameClock
<1>. QED
  BY <1>2, <1>4, <1>5 DEF Erase, t

LEMMA TextErase ==
    ASSUME NEW l, IsLine(l), NEW a \in BOOLEAN
    PROVE  IsLine(TextSignature(l, a)) /\ Erase(TextSignature(l, a), a) = Erase(l, a)
<1>. DEFINE c == NamedIds(Uuids(Timestamps(l)))
<1>1. IsLine(c) /\ Erase(c, a) = Erase(l, a)
  BY TimestampsErase, UuidsErase, NamedIdsErase
<1>2. TextSignature(l, a) = IF a THEN Aggressive(c) ELSE c
  BY DEF TextSignature
<1>. HIDE DEF c
<1>. QED
  BY <1>1, <1>2, AggressiveErase

\* Where the short cut is taken: a timestamp, and further on an identifier.
LEMMA FastShape ==
    ASSUME NEW l, IsLine(l), FastName(l) # 0
    PROVE  /\ Leading(l) /\ 1 \in DOMAIN l /\ l[1].kind = "iso"
           /\ FastName(l) \in DOMAIN l \ {1}
           /\ l[FastName(l)].kind \in {"field", "trace"} /\ HasIdValue(l[FastName(l)])
<1>1. Leading(l) /\ FastName(l) = ExactName(l)
  BY DEF FastName
<1>2. l # <<>> /\ l[1].kind = "iso"
  BY <1>1 DEF Leading
<1>3. Len(l) \in Nat /\ DOMAIN l = 1 .. Len(l) /\ Len(l) # 0
  BY <1>2 DEF IsLine
<1>4. /\ FastName(l) \in DOMAIN l
      /\ l[FastName(l)].kind \in {"field", "trace"} /\ HasIdValue(l[FastName(l)])
  BY <1>1, NameKinds
<1>. QED
  BY <1>1, <1>2, <1>3, <1>4

LEMMA FastErase ==
    ASSUME NEW l, IsLine(l), FastName(l) # 0, NEW a \in BOOLEAN
    PROVE  Erase(FastSignature(l).text, a) = Erase(l, a)
<1>. DEFINE f == FastName(l)
            t == FastSignature(l).text
<1>1. Len(l) \in Nat /\ DOMAIN l = 1 .. Len(l) /\ \A i \in DOMAIN l : IsToken(l[i])
  BY DEF IsLine
<1>2. /\ 1 \in DOMAIN l /\ l[1].kind = "iso" /\ f \in DOMAIN l /\ f # 1
      /\ l[f].kind \in Named /\ HasIdValue(l[f])
  BY FastShape DEF Named
<1>3. t = [i \in DOMAIN l |-> CASE i = 1 -> Timestamp
                                [] i = f -> ReplaceOne(l[i])
                                [] OTHER -> l[i]]
  BY DEF FastSignature
<1>. HIDE DEF f, t
<1>4. /\ DOMAIN t = DOMAIN l /\ t[1] = Timestamp /\ t[f] = ReplaceOne(l[f])
      /\ \A i \in DOMAIN l \ {1, f} : t[i] = l[i]
  BY <1>2, <1>3
<1>5. Timestamp.kind = "<timestamp>" /\ Timestamp.value = ""
  BY Marks DEF Timestamp
<1>6. ~ClockFirst(t) /\ ~ClockFirst(l)
  BY <1>2, <1>4, <1>5 DEF ClockFirst
<1>7. EraseToken(t[1], a) = Timestamp /\ EraseToken(l[1], a) = Timestamp
  BY <1>2, <1>4, <1>5 DEF EraseToken, Named, Broad, Uuid
<1>8. EraseToken(t[f], a) = EraseToken(l[f], a)
  BY <1>1, <1>2, <1>4, ReplacedErase
<1>9. \A i \in DOMAIN l : EraseToken(t[i], a) = EraseToken(l[i], a)
  BY <1>2, <1>4, <1>7, <1>8
<1>. QED
  BY <1>4, <1>6, <1>9 DEF Erase, t

-----------------------------------------------------------------------------
(* The lines of a behaviour.                                               *)

LEMMA Lines ==
    Spec => [](IsLine(line) /\ IsLine(first))
<1>1. Init => IsLine(line) /\ IsLine(first)
  BY DEF Init, IsLine
<1>2. IsLine(line) /\ IsLine(first) /\ [Next]_vars => (IsLine(line) /\ IsLine(first))'
  <2>. SUFFICES ASSUME IsLine(line), IsLine(first), [Next]_vars
                PROVE  IsLine(line') /\ IsLine(first')
    BY DEF IsLine
  <2>1. ASSUME NEW t \in Tokens, Extend(t)
        PROVE  IsLine(line') /\ IsLine(first')
    <3>1. IsToken(t)
      BY DEF Token, IsToken
    <3>2. line' = Append(line, t) /\ first' = first
      BY <2>1 DEF Extend
    <3>. DEFINE S == {line[i] : i \in 1 .. Len(line)} \cup {t}
    <3>3. Len(line) \in Nat /\ \A i \in 1 .. Len(line) : IsToken(line[i])
      BY DEF IsLine
    <3>4. line \in Seq(S) /\ t \in S
      BY DEF IsLine
    <3>. HIDE DEF S
    <3>5. line' \in Seq(S) /\ Len(line') = Len(line) + 1
      BY <3>2, <3>4
    <3>6. line' = [i \in 1 .. Len(line') |-> line'[i]]
      BY <3>5
    <3>7. \A i \in 1 .. Len(line) : line'[i] = line[i]
      BY <3>2, <3>4
    <3>8. line'[Len(line) + 1] = t
      BY <3>2, <3>4
    <3>9. /\ Len(line') = Len(line) + 1
          /\ \A i \in 1 .. Len(line) : line'[i] = line[i]
          /\ line'[Len(line) + 1] = t
          /\ line' = [i \in 1 .. Len(line') |-> line'[i]]
      BY <3>5, <3>6, <3>7, <3>8
    <3>. QED
      BY <3>1, <3>2, <3>3, <3>9 DEF IsLine
  <2>2. ASSUME NEW l \in Leaves, AddLeaf(l)
        PROVE  IsLine(line') /\ IsLine(first')
    BY <2>2 DEF AddLeaf
  <2>3. ASSUME Take
        PROVE  IsLine(line') /\ IsLine(first')
    BY <2>3 DEF Take, IsLine
  <2>4. ASSUME UNCHANGED vars
        PROVE  IsLine(line') /\ IsLine(first')
    BY <2>4 DEF vars
  <2>. QED
    BY <2>1, <2>2, <2>3, <2>4 DEF Next
<1>. QED
  BY <1>1, <1>2, PTL DEF Spec

\* A signature keeps everything but the volatile values (_signature), for
\* lines of any length and any limit.
THEOREM OnlyVolatileErasedCorrect == Spec => []OnlyVolatileErased
<1>1. IsLine(line) => OnlyVolatileErased
  <2>. SUFFICES ASSUME IsLine(line), NEW a \in BOOLEAN, SignatureOf(line, a) # NoSignature
                PROVE  Erase(SignatureOf(line, a).text, a) = Erase(line, a)
    BY DEF OnlyVolatileErased
  <2>1. \/ FastName(line) # 0 /\ SignatureOf(line, a) = FastSignature(line)
        \/ SignatureOf(line, a) = TextForm(line, a)
    BY DEF SignatureOf
  <2>2. CASE FastName(line) # 0 /\ SignatureOf(line, a) = FastSignature(line)
    BY <2>2, FastErase
  <2>3. CASE SignatureOf(line, a) = TextForm(line, a)
    BY <2>3, TextErase DEF TextForm
  <2>. QED
    BY <2>1, <2>2, <2>3
<1>. QED
  BY <1>1, Lines, PTL

LEMMA AcceptedErase ==
    ASSUME NEW p, IsLine(p), FastName(p) # 0, NEW l, IsLine(l), Accepts(p, l)
    PROVE  Erase(l, FALSE) = Erase(p, FALSE)
<1>. DEFINE f == FastName(p)
<1>1. /\ 1 \in DOMAIN p /\ p[1].kind = "iso" /\ f \in DOMAIN p \ {1}
      /\ p[f].kind \in {"field", "trace"} /\ HasIdValue(p[f])
  BY FastShape
<1>2. /\ l[1].kind = "iso" /\ Len(l) = Len(p) /\ l[f].kind = p[f].kind
      /\ TakesValue(p[f].value, l[f].value)
      /\ \A i \in 2 .. Len(l) : i # f => l[i] = p[i]
  BY DEF Accepts, Leading
<1>. HIDE DEF f
<1>3. Len(p) \in Nat /\ DOMAIN p = 1 .. Len(p) /\ DOMAIN l = DOMAIN p
  BY <1>2 DEF IsLine
<1>4. ~ClockFirst(l) /\ ~ClockFirst(p)
  BY <1>1, <1>2 DEF ClockFirst
<1>5. ASSUME NEW i \in DOMAIN p
      PROVE  EraseToken(l[i], FALSE) = EraseToken(p[i], FALSE)
  <2>1. CASE i = 1
    BY <1>1, <1>2, <2>1 DEF EraseToken
  <2>2. CASE i = f
    <3>1. p[f].value # "none" /\ l[f].value # "none"
      BY <1>1, <1>2 DEF HasIdValue, IdValues, TakesValue, Plain, Uuid
    <3>2. IsToken(p[f]) /\ IsToken(l[f])
      BY <1>1, <1>3 DEF IsLine
    <3>3. /\ EraseToken(l[f], FALSE) = [l[f] EXCEPT !.value = "<id>"]
          /\ EraseToken(p[f], FALSE) = [p[f] EXCEPT !.value = "<id>"]
      BY <1>1, <1>2, <3>1 DEF EraseToken, Named
    <3>4. [l[f] EXCEPT !.value = "<id>"] = [p[f] EXCEPT !.value = "<id>"]
      BY <1>2, <3>2 DEF IsToken
    <3>. QED
      BY <2>2, <3>3, <3>4
  <2>3. CASE i # 1 /\ i # f
    <3>1. i \in 2 .. Len(l)
      BY <1>2, <1>3, <2>3
    <3>. QED
      BY <1>2, <2>3, <3>1
  <2>. QED
    BY <2>1, <2>2, <2>3
<1>. QED
  BY <1>3, <1>4, <1>5 DEF Erase

LEMMA SameSignatureAccepted ==
    ASSUME NEW p, IsLine(p), FastName(p) # 0, NEW l, IsLine(l), FastName(l) # 0,
           FastSignature(l) = FastSignature(p), l[FastName(l)].value # "quoted"
    PROVE  Accepts(p, l)
<1>. DEFINE f == FastName(p)
            Text(x) == [i \in DOMAIN x |-> CASE i = 1 -> Timestamp
                                             [] i = f -> ReplaceOne(x[i])
                                             [] OTHER -> x[i]]
<1>1. FastName(l) = f /\ Text(l) = Text(p)
  BY DEF FastSignature
<1>2. /\ f \in DOMAIN p \ {1} /\ p[f].kind \in {"field", "trace"} /\ HasIdValue(p[f])
      /\ f \in DOMAIN l \ {1} /\ l[f].kind \in {"field", "trace"} /\ HasIdValue(l[f])
      /\ Leading(l)
  BY <1>1, FastShape
<1>. HIDE DEF f
<1>3. DOMAIN l = DOMAIN p /\ Len(l) \in Nat /\ Len(p) \in Nat
      /\ DOMAIN l = 1 .. Len(l) /\ DOMAIN p = 1 .. Len(p)
  <2>1. DOMAIN Text(l) = DOMAIN l /\ DOMAIN Text(p) = DOMAIN p
    OBVIOUS
  <2>. QED
    BY <1>1, <2>1 DEF IsLine
<1>4. Len(l) = Len(p)
  <2>1. CASE Len(l) > Len(p)
    <3>1. Len(l) \in 1 .. Len(l) /\ Len(l) \notin 1 .. Len(p)
      BY <1>3, <2>1
    <3>. QED
      BY <1>3, <3>1
  <2>2. CASE Len(p) > Len(l)
    <3>1. Len(p) \in 1 .. Len(p) /\ Len(p) \notin 1 .. Len(l)
      BY <1>3, <2>2
    <3>. QED
      BY <1>3, <3>1
  <2>3. Len(l) \in Nat /\ Len(p) \in Nat
    BY <1>3
  <2>. QED
    BY <2>1, <2>2, <2>3
<1>5. \A i \in DOMAIN p : Text(l)[i] = Text(p)[i]
  BY <1>1
<1>6. ReplaceOne(l[f]) = ReplaceOne(p[f])
  BY <1>2, <1>3, <1>5
<1>7. \A i \in 2 .. Len(l) : i # f => l[i] = p[i]
  BY <1>3, <1>4, <1>5
<1>8. IsToken(p[f]) /\ IsToken(l[f])
  BY <1>2, <1>3 DEF IsLine
<1>9. l[f].kind # "loose" /\ p[f].kind # "loose"
  BY <1>2
<1>10. /\ ReplaceOne(l[f]) = [kind |-> l[f].kind,
                             value |-> IF l[f].value = "stray" THEN "<id>stray" ELSE "<id>"]
      /\ ReplaceOne(p[f]) = [kind |-> p[f].kind,
                             value |-> IF p[f].value = "stray" THEN "<id>stray" ELSE "<id>"]
  BY <1>8, <1>9 DEF ReplaceOne, IsToken
<1>11. l[f].kind = p[f].kind /\ (l[f].value = "stray" <=> p[f].value = "stray")
  <2>1. /\ ReplaceOne(l[f]).kind = l[f].kind /\ ReplaceOne(p[f]).kind = p[f].kind
        /\ ReplaceOne(l[f]).value = IF l[f].value = "stray" THEN "<id>stray" ELSE "<id>"
        /\ ReplaceOne(p[f]).value = IF p[f].value = "stray" THEN "<id>stray" ELSE "<id>"
    BY <1>10
  <2>. QED
    BY <1>6, <2>1
<1>12. TakesValue(p[f].value, l[f].value)
  BY <1>1, <1>2, <1>11 DEF TakesValue, HasIdValue, IdValues
<1>. QED
  BY <1>2, <1>4, <1>7, <1>11, <1>12 DEF Accepts, f

\* The compiled matcher (_compile_fast_text_matcher) hides only what differs
\* in volatile values, and takes every record of its signature but a quoted
\* value, for lines of any length.
THEOREM MatcherFaithfulCorrect == Spec => []MatcherFaithful
<1>1. IsLine(line) /\ IsLine(first) => MatcherFaithful
  BY AcceptedErase, SameSignatureAccepted DEF MatcherFaithful
<1>. QED
  BY <1>1, Lines, PTL

-----------------------------------------------------------------------------
(* Sums over a line.                                                       *)

Units(w) == UNION {{i} \X (1 .. w[i]) : i \in DOMAIN w}

LEMMA ColumnIs ==
    ASSUME NEW i, NEW n \in Nat
    PROVE  IsFiniteSet({i} \X (1 .. n)) /\ Cardinality({i} \X (1 .. n)) = n
<1>. DEFINE f == [k \in 1 .. n |-> <<i, k>>]
<1>1. IsFiniteSet(1 .. n) /\ Cardinality(1 .. n) = n
  <2>1. 1 \in Int /\ n \in Int
    OBVIOUS
  <2>2. IsFiniteSet(1 .. n) /\ Cardinality(1 .. n) = IF 1 > n THEN 0 ELSE n - 1 + 1
    BY <2>1, FS_Interval
  <2>. QED
    BY <2>2
<1>2. f \in Bijection(1 .. n, {i} \X (1 .. n))
  <2>1. f \in [1 .. n -> {i} \X (1 .. n)]
    OBVIOUS
  <2>2. \A j, k \in 1 .. n : f[j] = f[k] => j = k
    OBVIOUS
  <2>3. \A y \in {i} \X (1 .. n) : \E k \in 1 .. n : f[k] = y
    OBVIOUS
  <2>. HIDE DEF f
  <2>. QED
    BY <2>1, <2>2, <2>3, Fun_IsBij
<1>3. ExistsBijection(1 .. n, {i} \X (1 .. n))
  BY <1>2 DEF ExistsBijection
<1>. QED
  BY <1>1, <1>3, FS_Bijection

LEMMA UnitsFinite ==
    ASSUME NEW n \in Nat, NEW b \in Nat, NEW w \in [1 .. n -> 0 .. b]
    PROVE  IsFiniteSet(Units(w)) /\ SumOf(w) = Cardinality(Units(w)) /\ SumOf(w) \in Nat
<1>1. IsFiniteSet(1 .. n) /\ IsFiniteSet(1 .. b)
  <2>1. 1 \in Int /\ n \in Int /\ b \in Int
    OBVIOUS
  <2>. QED
    BY <2>1, FS_Interval
<1>2. IsFiniteSet((1 .. n) \X (1 .. b))
  BY <1>1, FS_Product
<1>3. Units(w) \subseteq (1 .. n) \X (1 .. b)
  BY DEF Units
<1>4. IsFiniteSet(Units(w))
  BY <1>2, <1>3, FS_Subset
<1>5. SumOf(w) = Cardinality(Units(w))
  BY DEF SumOf, Units
<1>. QED
  BY <1>4, <1>5, FS_CardinalityType

\* A sum is not less than one or two of its summands, and is the one that is
\* not zero.
LEMMA SumAtLeast ==
    ASSUME NEW n \in Nat, NEW b \in Nat, NEW w \in [1 .. n -> 0 .. b],
           NEW i \in 1 .. n
    PROVE  SumOf(w) >= w[i]
<1>1. w[i] \in Nat /\ i \in DOMAIN w
  OBVIOUS
<1>2. {i} \X (1 .. w[i]) \subseteq Units(w)
  BY <1>1 DEF Units
<1>3. Cardinality({i} \X (1 .. w[i])) <= Cardinality(Units(w))
  BY <1>2, UnitsFinite, FS_Subset
<1>4. Cardinality({i} \X (1 .. w[i])) = w[i]
  BY <1>1, ColumnIs
<1>. QED
  BY <1>1, <1>3, <1>4, UnitsFinite

LEMMA SumOfTwo ==
    ASSUME NEW n \in Nat, NEW b \in Nat, NEW w \in [1 .. n -> 0 .. b],
           NEW i \in 1 .. n, NEW j \in 1 .. n, i # j
    PROVE  SumOf(w) >= w[i] + w[j]
<1>. DEFINE I == {i} \X (1 .. w[i])
            J == {j} \X (1 .. w[j])
<1>1. w[i] \in Nat /\ w[j] \in Nat /\ i \in DOMAIN w /\ j \in DOMAIN w
  OBVIOUS
<1>2. I \cup J \subseteq Units(w)
  BY <1>1 DEF Units
<1>3. I \cap J = {}
  OBVIOUS
<1>4. IsFiniteSet(I) /\ IsFiniteSet(J) /\ Cardinality(I) = w[i] /\ Cardinality(J) = w[j]
  BY <1>1, ColumnIs
<1>. HIDE DEF I, J
<1>5. Cardinality(I \cup J) = Cardinality(I) + Cardinality(J) - Cardinality({})
  BY <1>3, <1>4, FS_Union
<1>6. Cardinality({}) = 0
  BY FS_EmptySet
<1>7. Cardinality(I \cup J) <= Cardinality(Units(w))
  BY <1>2, UnitsFinite, FS_Subset
<1>8. Cardinality(I \cup J) = w[i] + w[j]
  BY <1>1, <1>4, <1>5, <1>6
<1>9. w[i] + w[j] <= SumOf(w)
  BY <1>7, <1>8, UnitsFinite
<1>10. SumOf(w) \in Nat
  BY UnitsFinite
<1>. QED
  BY <1>1, <1>9, <1>10

LEMMA SumOfOne ==
    ASSUME NEW n \in Nat, NEW w \in [1 .. n -> Nat], NEW i \in 1 .. n,
           \A j \in 1 .. n : j # i => w[j] = 0
    PROVE  SumOf(w) = w[i]
<1>1. Units(w) = {i} \X (1 .. w[i])
  <2>1. \A j \in 1 .. n : j # i => {j} \X (1 .. w[j]) = {}
    OBVIOUS
  <2>. QED
    BY <2>1 DEF Units
<1>2. SumOf(w) = Cardinality({i} \X (1 .. w[i])) /\ w[i] \in Nat
  BY <1>1 DEF SumOf, Units
<1>. QED
  BY <1>2, ColumnIs

LEMMA SumOfNone ==
    ASSUME NEW n \in Nat, NEW w \in [1 .. n -> Nat], \A j \in 1 .. n : w[j] = 0
    PROVE  SumOf(w) = 0
<1>1. Units(w) = {}
  <2>1. \A j \in 1 .. n : {j} \X (1 .. w[j]) = {}
    OBVIOUS
  <2>. QED
    BY <2>1 DEF Units
<1>. QED
  BY <1>1, FS_EmptySet DEF SumOf, Units

-----------------------------------------------------------------------------
(* The short cuts.                                                         *)

IdsIn(t) == IdsInName(t) + IdsInValue(t)

LEMMA IdsInIs ==
    ASSUME NEW t
    PROVE  /\ IdsInName(t) \in 0 .. 1 /\ IdsInValue(t) \in 0 .. 1 /\ IdsIn(t) \in 0 .. 2
           /\ t.kind = "field" => IdsIn(t) >= 1
           /\ IdsIn(t) = 0 => t.kind \notin {"field", "glued"}
<1>1. IdsInName(t) \in 0 .. 1 /\ (t.kind \in {"field", "glued"} => IdsInName(t) = 1)
  BY DEF IdsInName
<1>2. IdsInValue(t) \in 0 .. 1
  BY DEF IdsInValue
<1>. QED
  BY <1>1, <1>2 DEF IdsIn

\* What the number of occurrences of "id" says of the tokens.
LEMMA IdsAre ==
    ASSUME NEW l, IsLine(l)
    PROVE  /\ Ids(l) \in Nat
           /\ \A i \in DOMAIN l : Ids(l) >= IdsIn(l[i])
           /\ \A i, j \in DOMAIN l : i # j => Ids(l) >= IdsIn(l[i]) + IdsIn(l[j])
           /\ (\A i \in DOMAIN l : IdsIn(l[i]) = 0) => Ids(l) = 0
           /\ \A i \in DOMAIN l :
                  (\A j \in DOMAIN l : j # i => IdsIn(l[j]) = 0) => Ids(l) = IdsIn(l[i])
<1>. DEFINE n == Len(l)
            w == [i \in DOMAIN l |-> IdsInName(l[i]) + IdsInValue(l[i])]
<1>1. n \in Nat /\ DOMAIN l = 1 .. n /\ 2 \in Nat
  BY DEF IsLine
<1>2. w \in [1 .. n -> 0 .. 2] /\ w \in [1 .. n -> Nat]
  <2>1. \A i \in 1 .. n : IdsInName(l[i]) + IdsInValue(l[i]) \in 0 .. 2
    BY IdsInIs DEF IdsIn
  <2>. QED
    BY <1>1, <2>1
<1>3. \A i \in DOMAIN l : w[i] = IdsIn(l[i])
  BY DEF IdsIn
<1>4. Ids(l) = SumOf(w)
  BY DEF Ids
<1>. HIDE DEF w, n
<1>5. SumOf(w) \in Nat
  BY <1>1, <1>2, UnitsFinite
<1>6. \A i \in 1 .. n : SumOf(w) >= w[i]
  BY <1>1, <1>2, SumAtLeast
<1>7. \A i, j \in 1 .. n : i # j => SumOf(w) >= w[i] + w[j]
  BY <1>1, <1>2, SumOfTwo
<1>8. (\A i \in 1 .. n : w[i] = 0) => SumOf(w) = 0
  BY <1>1, <1>2, SumOfNone
<1>9. \A i \in 1 .. n : (\A j \in 1 .. n : j # i => w[j] = 0) => SumOf(w) = w[i]
  BY <1>1, <1>2, SumOfOne
<1>10. \A i, j \in DOMAIN l : i # j => Ids(l) >= IdsIn(l[i]) + IdsIn(l[j])
  BY <1>1, <1>3, <1>4, <1>7
<1>11. \A i \in DOMAIN l :
           (\A j \in DOMAIN l : j # i => IdsIn(l[j]) = 0) => Ids(l) = IdsIn(l[i])
  BY <1>1, <1>3, <1>4, <1>9
<1>. QED
  BY <1>1, <1>3, <1>4, <1>5, <1>6, <1>8, <1>10, <1>11

\* With two names of one spelling the other short cut is not taken either.
LEMMA FoldedIdsAre ==
    ASSUME NEW l, IsLine(l), NEW i \in DOMAIN l, NEW j \in DOMAIN l, i # j,
           l[i].kind = l[j].kind, l[i].kind \in {"field", "loose"}
    PROVE  FoldedIds(l) >= 2
<1>. DEFINE n == Len(l)
            w == [k \in DOMAIN l |-> IF l[k].kind = "loose" THEN 1 ELSE 0]
<1>1. n \in Nat /\ DOMAIN l = 1 .. n /\ 1 \in Nat
  BY DEF IsLine
<1>2. w \in [1 .. n -> 0 .. 1]
  BY <1>1
<1>3. /\ FoldedIds(l) = Ids(l) + SumOf(w)
      /\ w[i] = (IF l[i].kind = "loose" THEN 1 ELSE 0)
      /\ w[j] = (IF l[j].kind = "loose" THEN 1 ELSE 0)
  BY DEF FoldedIds
<1>. HIDE DEF w, n
<1>4. SumOf(w) \in Nat /\ SumOf(w) >= w[i] + w[j]
  BY <1>1, <1>2, UnitsFinite, SumOfTwo
<1>5. Ids(l) \in Nat /\ Ids(l) >= IdsIn(l[i]) + IdsIn(l[j])
  BY IdsAre
<1>6. CASE l[i].kind = "field"
  <2>0. l[j].kind = "field"
    BY <1>6
  <2>1. IdsIn(l[i]) >= 1 /\ IdsIn(l[j]) >= 1 /\ IdsIn(l[i]) \in 0 .. 2 /\ IdsIn(l[j]) \in 0 .. 2
    BY <1>6, <2>0, IdsInIs
  <2>. DEFINE a == IdsIn(l[i])
              b == IdsIn(l[j])
              c == Ids(l)
              d == SumOf(w)
  <2>2. a \in Nat /\ b \in Nat /\ c \in Nat /\ d \in Nat /\ a >= 1 /\ b >= 1 /\ c >= a + b
    BY <1>4, <1>5, <2>1
  <2>. HIDE DEF a, b, c, d
  <2>3. c + d >= 2
    BY <2>2
  <2>. QED
    BY <1>3, <2>3 DEF c, d
<1>7. CASE l[i].kind = "loose"
  BY <1>3, <1>4, <1>5, <1>7
<1>. QED
  BY <1>6, <1>7

LEMMA SameFirst ==
    ASSUME NEW l, IsLine(l), NEW t, Len(t) = Len(l), NEW kinds,
           \A i \in DOMAIN l : t[i].kind \in kinds <=> l[i].kind \in kinds
    PROVE  First(t, kinds) = First(l, kinds)
<1>1. DOMAIN l = 1 .. Len(l)
  BY DEF IsLine
<1>2. {i \in 1 .. Len(t) : t[i].kind \in kinds} = {i \in 1 .. Len(l) : l[i].kind \in kinds}
  BY <1>1
<1>. QED
  BY <1>2 DEF First, SelectInSeq

\* The only name in a line, or a traceparent that is the only one.
Only(l, f) ==
    /\ f \in DOMAIN l /\ HasIdValue(l[f])
    /\ \/ /\ l[f].kind = "field" /\ First(l, {"field", "glued"}) = f
          /\ IdsIn(l[f]) = 1 /\ \A j \in DOMAIN l : j # f => IdsIn(l[j]) = 0
       \/ /\ l[f].kind = "trace" /\ First(l, {"field", "glued"}) = 0
          /\ First(l, {"trace"}) = f
          /\ \A j \in DOMAIN l : IdsIn(l[j]) = 0 /\ (l[j].kind = "trace" => j = f)

LEMMA ExactNameOnly ==
    ASSUME NEW l, IsLine(l), NEW f, f # 0
    PROVE  ExactName(l) = f <=> Only(l, f)
<1>. DEFINE g == First(l, {"field", "glued"})
            t == First(l, {"trace"})
<1>1. ExactName(l) =
          IF g # 0
          THEN IF l[g].kind = "field" /\ Ids(l) = 1 /\ HasIdValue(l[g]) THEN g ELSE 0
          ELSE IF /\ t # 0 /\ Ids(l) = 0 /\ HasIdValue(l[t])
                  /\ \A i \in DOMAIN l : l[i].kind = "trace" => i = t
               THEN t ELSE 0
  BY DEF ExactName
<1>2. g # 0 => g \in DOMAIN l
  BY FirstHasKind
<1>3. t # 0 => t \in DOMAIN l /\ l[t].kind = "trace"
  BY FirstHasKind
<1>4. \A i \in DOMAIN l : IdsIn(l[i]) \in Nat /\ (l[i].kind = "field" => IdsIn(l[i]) >= 1)
  BY IdsInIs
<1>. HIDE DEF g, t
<1>5. ASSUME ExactName(l) = f PROVE Only(l, f)
  <2>1. CASE g # 0
    <3>1. f = g /\ l[f].kind = "field" /\ Ids(l) = 1 /\ HasIdValue(l[f]) /\ f \in DOMAIN l
      BY <1>1, <1>2, <1>5, <2>1
    <3>2. \A j \in DOMAIN l : j # f => Ids(l) >= IdsIn(l[f]) + IdsIn(l[j])
      BY <3>1, IdsAre
    <3>3. \A j \in DOMAIN l : j # f => IdsIn(l[j]) = 0
      BY <1>4, <3>1, <3>2
    <3>4. Ids(l) = IdsIn(l[f])
      BY <3>1, <3>3, IdsAre
    <3>. QED
      BY <3>1, <3>3, <3>4 DEF Only, g
  <2>2. CASE g = 0
    <3>1. /\ f = t /\ l[f].kind = "trace" /\ Ids(l) = 0 /\ HasIdValue(l[f]) /\ f \in DOMAIN l
          /\ \A i \in DOMAIN l : l[i].kind = "trace" => i = f
      BY <1>1, <1>3, <1>5, <2>2
    <3>2. \A j \in DOMAIN l : Ids(l) >= IdsIn(l[j])
      BY IdsAre
    <3>3. \A j \in DOMAIN l : IdsIn(l[j]) = 0
      BY <1>4, <3>1, <3>2
    <3>. QED
      BY <2>2, <3>1, <3>3 DEF Only, g, t
  <2>. QED
    BY <2>1, <2>2
<1>6. ASSUME Only(l, f) PROVE ExactName(l) = f
  <2>1. CASE l[f].kind = "field"
    <3>1. /\ g = f /\ HasIdValue(l[f]) /\ f \in DOMAIN l /\ IdsIn(l[f]) = 1
          /\ \A j \in DOMAIN l : j # f => IdsIn(l[j]) = 0
      BY <1>6, <2>1 DEF Only, g
    <3>2. Ids(l) = 1
      BY <3>1, IdsAre
    <3>. QED
      BY <1>1, <2>1, <3>1, <3>2
  <2>2. CASE l[f].kind = "trace"
    <3>1. /\ g = 0 /\ t = f /\ HasIdValue(l[f])
          /\ \A j \in DOMAIN l : IdsIn(l[j]) = 0 /\ (l[j].kind = "trace" => j = f)
      BY <1>6, <2>2 DEF Only, g, t
    <3>2. Ids(l) = 0
      BY <3>1, IdsAre
    <3>. QED
      BY <1>1, <3>1, <3>2
  <2>. QED
    BY <1>6, <2>1, <2>2 DEF Only
<1>. QED
  BY <1>5, <1>6

\* With less than four dashes there is nothing after the timestamp that the
\* second pass would replace.
LEMMA FewDashes ==
    ASSUME NEW l, IsLine(l), l # <<>>, Dashes(Tail(l)) < 4
    PROVE  \A i \in DOMAIN l \ {1} : l[i].kind # "uuid" /\ l[i].value \notin Uuid
<1>. DEFINE r == Tail(l)
            n == Len(l) - 1
            D(t) == (CASE t.kind = "iso" -> 2 [] t.kind \in {"uuid", "dashed"} -> 4 [] OTHER -> 0)
                    + (IF t.value \in Uuid THEN 4 ELSE 0)
            w == [i \in DOMAIN r |-> D(r[i])]
<1>1. Len(l) \in Nat /\ DOMAIN l = 1 .. Len(l) /\ Len(l) # 0
  BY DEF IsLine
<1>2. n \in Nat /\ DOMAIN r = 1 .. n /\ \A i \in 1 .. n : r[i] = l[i + 1]
  <2>1. l \in Seq({l[i] : i \in 1 .. Len(l)})
    BY DEF IsLine
  <2>2. Len(r) = n /\ r \in Seq({l[i] : i \in 1 .. Len(l)})
    BY <1>1, <2>1
  <2>3. \A i \in 1 .. n : r[i] = l[i + 1]
    BY <1>1, <2>1
  <2>. HIDE DEF r, n
  <2>4. DOMAIN r = 1 .. n
    BY <2>2
  <2>. QED
    BY <1>1, <2>3, <2>4 DEF n
<1>3. \A t : D(t) \in 0 .. 8 /\ (t.kind = "uuid" \/ t.value \in Uuid => D(t) >= 4)
  <2>. TAKE t
  <2>. DEFINE a == CASE t.kind = "iso" -> 2 [] t.kind \in {"uuid", "dashed"} -> 4 [] OTHER -> 0
              b == IF t.value \in Uuid THEN 4 ELSE 0
  <2>1. a \in {0, 2, 4} /\ (t.kind = "uuid" => a = 4)
    OBVIOUS
  <2>2. b \in {0, 4} /\ (t.value \in Uuid => b = 4)
    OBVIOUS
  <2>. HIDE DEF a, b
  <2>3. a + b \in 0 .. 8 /\ (a = 4 \/ b = 4 => a + b >= 4)
    BY <2>1, <2>2
  <2>4. t.kind = "uuid" \/ t.value \in Uuid => a = 4 \/ b = 4
    BY <2>1, <2>2, Zenon
  <2>. QED
    BY <2>3, <2>4 DEF a, b
<1>4. SumOf(w) < 4
  BY DEF Dashes
<1>. HIDE DEF D
<1>5. w \in [1 .. n -> 0 .. 8] /\ 8 \in Nat
  BY <1>2, <1>3
<1>6. \A i \in 1 .. n : w[i] = D(l[i + 1])
  BY <1>2
<1>. HIDE DEF r, n, w
<1>7. \A i \in 1 .. n : SumOf(w) >= w[i]
  BY <1>2, <1>5, SumAtLeast
<1>8. SumOf(w) \in Nat
  BY <1>2, <1>5, UnitsFinite
<1>9. ASSUME NEW i \in DOMAIN l \ {1}
      PROVE  l[i].kind # "uuid" /\ l[i].value \notin Uuid
  <2>1. i - 1 \in 1 .. n /\ (i - 1) + 1 = i
    BY <1>1 DEF n
  <2>2. w[i - 1] = D(l[i])
    BY <1>6, <2>1
  <2>3. D(l[i]) \in 0 .. 8 /\ SumOf(w) >= D(l[i])
    BY <1>3, <1>7, <2>1, <2>2
  <2>4. ~(D(l[i]) >= 4)
    BY <1>4, <1>8, <2>3
  <2>. QED
    BY <1>3, <2>4
<1>. QED
  BY <1>9

\* The short cut for a leading timestamp and one name computes what the passes
\* compute.
LEMMA FastIsText ==
    ASSUME NEW l, IsLine(l), FastName(l) # 0
    PROVE  FastSignature(l).text = TextSignature(l, FALSE)
<1>. DEFINE f == FastName(l)
            s == Timestamps(l)
            u == Uuids(s)
<1>1. /\ Leading(l) /\ 1 \in DOMAIN l /\ l[1].kind = "iso" /\ f \in DOMAIN l \ {1}
      /\ l[f].kind \in {"field", "trace"} /\ HasIdValue(l[f])
  BY FastShape
<1>2. Dashes(Tail(l)) < 4 /\ f = ExactName(l) /\ l # <<>> /\ f # 0
  BY DEF FastName, Leading
<1>3. Only(l, f)
  BY <1>2, ExactNameOnly
<1>4. s = [i \in DOMAIN l |-> IF i = 1 THEN Timestamp ELSE l[i]]
  BY <1>1 DEF Timestamps
<1>5. /\ Timestamp.kind = "<timestamp>" /\ Timestamp.value = ""
      /\ IsToken(Timestamp) /\ IdsIn(Timestamp) = 0
  <2>1. IsToken(Timestamp) /\ Timestamp.kind = "<timestamp>" /\ Timestamp.value = ""
    BY Marks DEF Timestamp
  <2>2. IdsInName(Timestamp) = 0 /\ IdsInValue(Timestamp) = 0
    BY <2>1 DEF IdsInName, IdsInValue
  <2>3. IdsIn(Timestamp) = 0
    BY <2>2 DEF IdsIn
  <2>. QED
    BY <2>1, <2>3
<1>6. \A i \in DOMAIN l \ {1} : l[i].kind # "uuid" /\ l[i].value \notin Uuid
  BY <1>2, FewDashes
<1>. HIDE DEF s
<1>7. DOMAIN s = DOMAIN l /\ s[1] = Timestamp /\ \A i \in DOMAIN l \ {1} : s[i] = l[i]
  BY <1>1, <1>4
<1>8. u = s
  <2>1. \A i \in DOMAIN s : s[i].kind # "uuid" /\ s[i].value \notin Uuid
    BY <1>5, <1>6, <1>7 DEF Uuid
  <2>2. u = [i \in DOMAIN s |-> s[i]]
    BY <2>1 DEF Uuids
  <2>. QED
    BY <1>4, <2>2
<1>9. IsLine(s)
  BY TimestampsErase DEF s
<1>. HIDE DEF u, f
<1>10. Len(s) = Len(l)
  <2>1. \A i \in DOMAIN l : IsToken(s[i])
    BY <1>5, <1>7 DEF IsLine
  <2>2. s = [i \in DOMAIN l |-> s[i]]
    BY <1>4
  <2>. QED
    BY <2>1, <2>2, MappedLine
<1>11. /\ First(s, {"field", "glued"}) = First(l, {"field", "glued"})
       /\ First(s, {"trace"}) = First(l, {"trace"})
  <2>1. \A i \in DOMAIN l : /\ s[i].kind \in {"field", "glued"} <=> l[i].kind \in {"field", "glued"}
                            /\ s[i].kind \in {"trace"} <=> l[i].kind \in {"trace"}
    BY <1>1, <1>5, <1>7
  <2>. QED
    BY <1>10, <2>1, SameFirst
<1>12. \A i \in DOMAIN s : i # f /\ IdsIn(l[i]) = 0 => IdsIn(s[i]) = 0
  BY <1>5, <1>7
<1>13. Only(s, f)
  <2>1. s[f] = l[f] /\ f \in DOMAIN s
    BY <1>1, <1>7
  <2>2. CASE l[f].kind = "field"
    <3>1. /\ First(l, {"field", "glued"}) = f /\ IdsIn(l[f]) = 1
          /\ \A j \in DOMAIN l : j # f => IdsIn(l[j]) = 0
      BY <1>3, <2>2 DEF Only
    <3>2. \A j \in DOMAIN s : j # f => IdsIn(s[j]) = 0
      BY <1>7, <1>12, <3>1
    <3>. QED
      BY <1>1, <1>11, <2>1, <2>2, <3>1, <3>2 DEF Only
  <2>3. CASE l[f].kind = "trace"
    <3>1. \A j \in DOMAIN l : IdsIn(l[j]) = 0 /\ (l[j].kind = "trace" => j = f)
      BY <1>3, <2>3 DEF Only
    <3>2. \A j \in DOMAIN s : IdsIn(s[j]) = 0 /\ (s[j].kind = "trace" => j = f)
      BY <1>5, <1>7, <3>1
    <3>3. First(l, {"field", "glued"}) = 0 /\ First(l, {"trace"}) = f
      BY <1>3, <2>3 DEF Only
    <3>. QED
      BY <1>1, <1>11, <2>1, <2>3, <3>2, <3>3 DEF Only
  <2>. QED
    BY <1>1, <2>2, <2>3
<1>14. SingleName(s) = f /\ f # 0
  BY <1>2, <1>9, <1>13, ExactNameOnly DEF SingleName
<1>15. NamedIds(s) = [i \in DOMAIN s |-> IF i = f THEN ReplaceOne(s[i]) ELSE s[i]]
  BY <1>14 DEF NamedIds
<1>16. NamedIds(s) = [i \in DOMAIN l |-> CASE i = 1 -> Timestamp
                                           [] i = f -> ReplaceOne(l[i])
                                           [] OTHER -> l[i]]
  BY <1>1, <1>7, <1>15
<1>17. FastSignature(l).text = [i \in DOMAIN l |-> CASE i = 1 -> Timestamp
                                           [] i = f -> ReplaceOne(l[i])
                                           [] OTHER -> l[i]]
  BY DEF FastSignature, f
<1>18. TextSignature(l, FALSE) = NamedIds(u)
  BY DEF TextSignature, s, u
<1>. QED
  BY <1>8, <1>16, <1>17, <1>18

\* It also tells the same records apart: the place of the name is in the text.
LEMMA SamePlace ==
    ASSUME NEW p, IsLine(p), FastName(p) # 0, NEW l, IsLine(l), FastName(l) # 0,
           FastSignature(p).text = FastSignature(l).text
    PROVE  FastName(p) = FastName(l)
<1>. DEFINE f == FastName(p)
            g == FastName(l)
            P == FastSignature(p).text
            L == FastSignature(l).text
<1>1. /\ f \in DOMAIN p \ {1} /\ p[f].kind \in {"field", "trace"} /\ HasIdValue(p[f])
      /\ g \in DOMAIN l \ {1} /\ l[g].kind \in {"field", "trace"} /\ HasIdValue(l[g])
  BY FastShape
<1>2. Only(p, f) /\ Only(l, g)
  <2>1. f = ExactName(p) /\ g = ExactName(l) /\ f # 0 /\ g # 0
    BY DEF FastName
  <2>. QED
    BY <2>1, ExactNameOnly
<1>3. /\ P = [i \in DOMAIN p |-> CASE i = 1 -> Timestamp
                                    [] i = f -> ReplaceOne(p[i])
                                    [] OTHER -> p[i]]
      /\ L = [i \in DOMAIN l |-> CASE i = 1 -> Timestamp
                                    [] i = g -> ReplaceOne(l[i])
                                    [] OTHER -> l[i]]
  BY DEF FastSignature
<1>. HIDE DEF f, g
<1>4. P = L
  OBVIOUS
<1>. HIDE DEF P, L
<1>5. /\ DOMAIN l = DOMAIN p
      /\ P[f] = ReplaceOne(p[f]) /\ L[g] = ReplaceOne(l[g])
      /\ f # g => P[g] = p[g] /\ L[f] = l[f]
  <2>1. DOMAIN P = DOMAIN p /\ DOMAIN L = DOMAIN l
    BY <1>3
  <2>2. DOMAIN l = DOMAIN p
    BY <1>4, <2>1
  <2>. QED
    BY <1>1, <1>3, <2>2
<1>6. ReplaceOne(p[f]).kind = p[f].kind /\ ReplaceOne(l[g]).kind = l[g].kind
  <2>1. IsToken(p[f]) /\ p[f].kind \in Named /\ IsToken(l[g]) /\ l[g].kind \in Named
    BY <1>1 DEF IsLine, Named
  <2>. QED
    BY <1>1, <2>1, ReplacedErase
<1>7. ASSUME f # g PROVE FALSE
  <2>1. l[f].kind = p[f].kind /\ p[g].kind = l[g].kind /\ f \in DOMAIN l /\ g \in DOMAIN p
    BY <1>1, <1>4, <1>5, <1>6, <1>7
  <2>2. \A t : t.kind = "field" => IdsIn(t) # 0
    BY IdsInIs
  <2>3. p[f].kind # "field"
    <3>1. CASE l[g].kind = "field"
      <4>1. \A j \in DOMAIN l : j # g => IdsIn(l[j]) = 0
        BY <1>2, <3>1 DEF Only
      <4>. QED
        BY <1>7, <2>1, <2>2, <4>1
    <3>2. CASE l[g].kind = "trace"
      <4>1. \A j \in DOMAIN l : IdsIn(l[j]) = 0
        BY <1>2, <3>2 DEF Only
      <4>. QED
        BY <2>1, <2>2, <4>1
    <3>. QED
      BY <1>1, <3>1, <3>2
  <2>4. l[g].kind # "field"
    <3>1. \A j \in DOMAIN p : IdsIn(p[j]) = 0
      BY <1>1, <1>2, <2>3 DEF Only
    <3>. QED
      BY <2>1, <2>2, <3>1
  <2>5. \A j \in DOMAIN l : l[j].kind = "trace" => j = g
    BY <1>1, <1>2, <2>4 DEF Only
  <2>6. l[f].kind = "trace"
    BY <1>1, <2>1, <2>3
  <2>. QED
    BY <1>7, <2>1, <2>5, <2>6
<1>. QED
  BY <1>7 DEF f, g

\* What the first two passes leave of a named identifier.
LEMMA NamedBefore ==
    ASSUME NEW l, IsLine(l)
    PROVE  LET u == Uuids(Timestamps(l))
           IN  /\ IsLine(u) /\ DOMAIN u = DOMAIN l
               /\ \A i \in DOMAIN l : u[i].kind \in Named <=> l[i].kind \in Named
               /\ \A i \in DOMAIN l : l[i].kind \in Named =>
                      /\ u[i].kind = l[i].kind
                      /\ u[i].value = l[i].value \/ u[i].value = "<uuid>"
<1>. DEFINE t == Timestamps(l)
            u == Uuids(t)
            Times == {"iso", "syslog", "clock", "<timestamp>"}
<1>1. IsLine(t) /\ IsLine(u)
  BY TimestampsErase, UuidsErase
<1>2. DOMAIN t = DOMAIN l
  BY DEF Timestamps, LeadingClock
<1>3. Timestamp.kind = "<timestamp>"
  BY Marks DEF Timestamp
<1>4. \A i \in DOMAIN l : t[i] = l[i] \/ (t[i] = Timestamp /\ l[i].kind \in Times)
  <2>1. CASE Leading(l)
    <3>1. t = [i \in DOMAIN l |-> IF i = 1 THEN Timestamp ELSE l[i]]
      BY <2>1 DEF Timestamps
    <3>. QED
      BY <2>1, <3>1 DEF Leading
  <2>2. CASE ~Leading(l) /\ Holds(l, {"iso"})
    <3>1. t = [i \in DOMAIN l |-> IF l[i].kind = "iso" THEN Timestamp ELSE l[i]]
      BY <2>2 DEF Timestamps
    <3>. QED
      BY <3>1
  <2>3. CASE ~Leading(l) /\ ~Holds(l, {"iso"})
    <3>. DEFINE c == [i \in DOMAIN l |-> IF l[i].kind = "syslog" THEN Timestamp ELSE l[i]]
    <3>1. t = LeadingClock(c)
      BY <2>3 DEF Timestamps
    <3>2. \A i \in DOMAIN l : c[i] = l[i] \/ (c[i] = Timestamp /\ l[i].kind = "syslog")
      OBVIOUS
    <3>3. DOMAIN c = DOMAIN l
      OBVIOUS
    <3>. HIDE DEF c, t
    <3>4. \A i \in DOMAIN l : t[i] = c[i] \/ (t[i] = Timestamp /\ c[i].kind = "clock")
      BY <3>1, <3>3 DEF LeadingClock
    <3>. QED
      BY <1>3, <3>2, <3>4
  <2>. QED
    BY <2>1, <2>2, <2>3
<1>. HIDE DEF t
<1>5. DOMAIN u = DOMAIN l
  BY <1>2 DEF Uuids
<1>6. \A i \in DOMAIN l : \/ t[i].kind = "uuid" /\ u[i] = Marked("<uuid>")
                          \/ t[i].kind # "uuid" /\ u[i] = [t[i] EXCEPT !.value = "<uuid>"]
                          \/ u[i] = t[i]
  BY <1>2 DEF Uuids
<1>7. \A i \in DOMAIN l : IsToken(t[i])
  BY <1>1, <1>2 DEF IsLine
<1>8. Marked("<uuid>").kind = "<uuid>"
  BY Marks
<1>. HIDE DEF u
<1>9. ASSUME NEW i \in DOMAIN l
      PROVE  \/ u[i].kind = t[i].kind /\ (u[i].value = t[i].value \/ u[i].value = "<uuid>")
             \/ t[i].kind = "uuid" /\ u[i].kind = "<uuid>"
  <2>1. [t[i] EXCEPT !.value = "<uuid>"].kind = t[i].kind
    BY <1>7 DEF IsToken
  <2>2. [t[i] EXCEPT !.value = "<uuid>"].value = "<uuid>"
    BY <1>7 DEF IsToken
  <2>. QED
    BY <1>6, <1>8, <2>1, <2>2
<1>10. Named \cap (Times \cup {"uuid", "<uuid>"}) = {}
  BY DEF Named
<1>11. \A i \in DOMAIN l : u[i].kind \in Named <=> l[i].kind \in Named
  BY <1>3, <1>4, <1>9, <1>10
<1>12. \A i \in DOMAIN l : l[i].kind \in Named =>
           u[i].kind = l[i].kind /\ (u[i].value = l[i].value \/ u[i].value = "<uuid>")
  BY <1>3, <1>4, <1>9, <1>10
<1>. QED
  BY <1>1, <1>5, <1>11, <1>12 DEF u, t

\* Two names of one spelling are never treated as a single one.
LEMMA SingleIsAlone ==
    ASSUME NEW u, IsLine(u), SingleName(u) # 0, NEW i \in DOMAIN u,
           u[i].kind = u[SingleName(u)].kind
    PROVE  i = SingleName(u)
<1>. DEFINE s == SingleName(u)
<1>1. CASE ExactName(u) # 0
  <2>1. s = ExactName(u)
    BY <1>1 DEF SingleName
  <2>2. Only(u, s)
    BY <1>1, <2>1, ExactNameOnly
  <2>3. u[i].kind = "field" => IdsIn(u[i]) # 0
    BY IdsInIs
  <2>. HIDE DEF s
  <2>4. u[i].kind = u[s].kind
    BY DEF s
  <2>5. i = s
    BY <2>2, <2>3, <2>4 DEF Only
  <2>. QED
    BY <2>5 DEF s
<1>2. CASE ExactName(u) = 0
  <2>1. s = FoldedName(u) /\ s # 0
    BY <1>2 DEF SingleName
  <2>2. s \in DOMAIN u /\ u[s].kind \in {"field", "loose"}
    BY <2>1, NameKinds
  <2>3. FoldedIds(u) = 1
    BY <2>1 DEF FoldedName
  <2>. HIDE DEF s
  <2>4. u[i].kind = u[s].kind
    BY DEF s
  <2>5. i # s => FoldedIds(u) >= 2
    BY <2>2, <2>4, FoldedIdsAre
  <2>6. i = s
    BY <2>3, <2>5
  <2>. QED
    BY <2>6 DEF s
<1>. QED
  BY <1>1, <1>2

LEMMA OneSpelling ==
    ASSUME IsLine(line), NEW i \in DOMAIN line,
           \A j, k \in DOMAIN line : {line[j].kind, line[k].kind} \subseteq Named =>
               line[j].kind = line[k].kind
    PROVE  ~NamedIdKept(i)
<1>. SUFFICES ASSUME line[i].kind \in Named, HasIdValue(line[i])
              PROVE  TextSignature(line, FALSE)[i].value \in {"<id>", "<id>stray", "<uuid>"}
  BY DEF NamedIdKept
<1>. DEFINE u == Uuids(Timestamps(line))
            s == SingleName(u)
            n == NamedIds(u)
<1>1. /\ IsLine(u) /\ DOMAIN u = DOMAIN line
      /\ \A j \in DOMAIN line : u[j].kind \in Named <=> line[j].kind \in Named
      /\ \A j \in DOMAIN line : line[j].kind \in Named =>
             /\ u[j].kind = line[j].kind
             /\ u[j].value = line[j].value \/ u[j].value = "<uuid>"
  BY NamedBefore
<1>. HIDE DEF u
<1>2. IsToken(u[i]) /\ u[i].kind \in Named
  BY <1>1 DEF IsLine
<1>3. HasIdValue(u[i]) \/ u[i].value = "<uuid>"
  BY <1>1 DEF HasIdValue
<1>4. CASE s = 0
  <2>1. n[i] = IF u[i].kind \in Named /\ HasIdValue(u[i])
               THEN [u[i] EXCEPT !.value = "<id>"] ELSE u[i]
    BY <1>1, <1>4 DEF NamedIds
  <2>2. [u[i] EXCEPT !.value = "<id>"].value = "<id>"
    BY <1>2 DEF IsToken
  <2>3. n[i].value \in {"<id>", "<uuid>"}
    BY <1>2, <1>3, <2>1, <2>2
  <2>. QED
    BY <2>3 DEF TextSignature, u
<1>5. CASE s # 0
  <2>1. s \in DOMAIN u /\ u[s].kind \in Named
    BY <1>1, <1>5, NameKinds DEF SingleName, Named
  <2>. HIDE DEF s
  <2>2. u[i].kind = u[s].kind
    BY <1>1, <1>2, <2>1
  <2>3. i = s
    BY <1>1, <1>5, <2>2, SingleIsAlone DEF s
  <2>4. n[i] = ReplaceOne(u[i])
    BY <1>1, <1>5, <2>3 DEF NamedIds, s
  <2>5. ReplaceOne(u[i]).value \in {"<id>", "<id>stray"}
    BY <1>2 DEF ReplaceOne, IsToken
  <2>6. n[i].value \in {"<id>", "<id>stray"}
    BY <2>4, <2>5
  <2>. QED
    BY <2>6 DEF TextSignature, u
<1>. QED
  BY <1>4, <1>5

\* The short cuts (_fast_text_signature, _replace_single_named_id) compute what
\* the passes compute, for lines of any length, with any number of names in them.
THEOREM ShortCutsCompleteCorrect == Spec => []ShortCutsComplete
<1>1. IsLine(line) /\ IsLine(first) => ShortCutsComplete
  <2>. SUFFICES ASSUME IsLine(line), IsLine(first)
                PROVE  ShortCutsComplete
    OBVIOUS
  <2>1. FastName(line) # 0 => FastSignature(line).text = TextSignature(line, FALSE)
    BY FastIsText
  <2>2. ASSUME FastName(line) # 0, FastName(first) # 0
        PROVE  FastSignature(first) = FastSignature(line)
                   <=> TextSignature(first, FALSE) = TextSignature(line, FALSE)
    <3>1. /\ FastSignature(line).text = TextSignature(line, FALSE)
          /\ FastSignature(first).text = TextSignature(first, FALSE)
      BY <2>2, FastIsText
    <3>2. FastSignature(first).text = FastSignature(line).text
              => FastName(first) = FastName(line)
      BY <2>2, SamePlace
    <3>3. \A l : FastSignature(l) = [form |-> "fast", at |-> FastName(l),
                                     text |-> FastSignature(l).text]
      BY DEF FastSignature
    <3>. QED
      BY <3>1, <3>2, <3>3
  <2>3. ASSUME \A i, j \in DOMAIN line : {line[i].kind, line[j].kind} \subseteq Named =>
                   line[i].kind = line[j].kind
        PROVE  \A i \in DOMAIN line : ~NamedIdKept(i)
    BY <2>3, OneSpelling
  <2>. QED
    BY <2>1, <2>2, <2>3 DEF ShortCutsComplete
<1>. QED
  BY <1>1, Lines, PTL

-----------------------------------------------------------------------------
(* JSON objects.                                                           *)

IsLeaf(l) ==
    /\ l = [path |-> l.path, value |-> l.value]
    /\ l.path \in Seq(STRING) /\ 1 \in DOMAIN l.path
    /\ IsToken(l.value)

LEMMA TokenErase ==
    ASSUME NEW v, IsToken(v), NEW a \in BOOLEAN
    PROVE  Erase(<<TextSignature(<<v>>, a)[1]>>, a) = Erase(<<v>>, a)
<1>. DEFINE t == TextSignature(<<v>>, a)
<1>1. IsLine(<<v>>)
  BY DEF IsLine
<1>2. IsLine(t) /\ Erase(t, a) = Erase(<<v>>, a)
  BY <1>1, TextErase
<1>. HIDE DEF t
<1>3. DOMAIN t = DOMAIN <<v>>
  BY <1>2 DEF Erase
<1>4. t = <<t[1]>>
  <2>1. DOMAIN t = {1}
    BY <1>3
  <2>2. 1 .. Len(t) = {1} /\ Len(t) \in Nat
    BY <1>2, <2>1 DEF IsLine
  <2>3. Len(t) = 1
    <3>1. 1 \in 1 .. Len(t)
      BY <2>2
    <3>2. Len(t) \in 1 .. Len(t)
      BY <2>2, <3>1
    <3>. QED
      BY <2>2, <3>2
  <2>. QED
    BY <1>2, <2>3 DEF IsLine
<1>. QED
  BY <1>2, <1>4 DEF t

LEMMA ObjectKept ==
    ASSUME NEW o, \A l \in o : IsLeaf(l), NEW a \in BOOLEAN
    PROVE  LET Payload == {l \in o : /\ Range(l.path) \cap IdNames = {}
                                     /\ l.path[1] \notin MetadataNames}
               Erased(leaves) ==
                   {[path |-> l.path, value |-> Erase(<<l.value>>, a)] : l \in leaves}
           IN  /\ Erased(Payload) \subseteq Erased(StableJson(o, a))
               /\ \A l \in StableJson(o, a) : l.value \in {Marked("<id>"), Marked("<metadata>")}
                      \/ Erased({l}) \subseteq Erased(Payload)
<1>. DEFINE Payload == {l \in o : /\ Range(l.path) \cap IdNames = {}
                                  /\ l.path[1] \notin MetadataNames}
            E(l) == [path |-> l.path, value |-> Erase(<<l.value>>, a)]
            Volatile(l) == \E i \in DOMAIN l.path : VolatileName(l.path, i)
<1>1. ASSUME NEW l \in o
      PROVE  l \in Payload <=> ~Volatile(l)
  BY <1>1 DEF VolatileName, IsLeaf, Range
<1>2. ASSUME NEW l \in o, ~Volatile(l)
      PROVE  E(StableLeaf(l, a)) = E(l)
  <2>1. StableLeaf(l, a) = [l EXCEPT !.value = TextSignature(<<l.value>>, a)[1]]
    BY <1>2 DEF StableLeaf
  <2>2. /\ StableLeaf(l, a).path = l.path
        /\ StableLeaf(l, a).value = TextSignature(<<l.value>>, a)[1]
    BY <2>1 DEF IsLeaf
  <2>3. IsToken(l.value)
    BY DEF IsLeaf
  <2>. QED
    BY <2>2, <2>3, TokenErase
<1>3. ASSUME NEW l \in o, Volatile(l)
      PROVE  StableLeaf(l, a).value \in {Marked("<id>"), Marked("<metadata>")}
  BY <1>3 DEF StableLeaf
<1>. HIDE DEF Payload, Volatile
<1>4. \A l \in Payload : l \in o /\ StableLeaf(l, a) \in StableJson(o, a)
                             /\ E(StableLeaf(l, a)) = E(l)
  BY <1>1, <1>2 DEF Payload, StableJson
<1>5. \A l \in StableJson(o, a) :
          \/ l.value \in {Marked("<id>"), Marked("<metadata>")}
          \/ \E k \in Payload : E(l) = E(k)
  BY <1>1, <1>2, <1>3 DEF StableJson
<1>6. {E(l) : l \in Payload} \subseteq {E(l) : l \in StableJson(o, a)}
  BY <1>4
<1>7. ASSUME NEW l \in StableJson(o, a)
      PROVE  \/ l.value \in {Marked("<id>"), Marked("<metadata>")}
             \/ {E(k) : k \in {l}} \subseteq {E(k) : k \in Payload}
  BY <1>5
<1>. QED
  BY <1>6, <1>7 DEF Payload

LEMMA Objects == Spec => [](\A l \in object : IsLeaf(l))
<1>1. Init => \A l \in object : IsLeaf(l)
  BY DEF Init
<1>2. (\A l \in object : IsLeaf(l)) /\ [Next]_vars => (\A l \in object : IsLeaf(l))'
  <2>. SUFFICES ASSUME \A l \in object : IsLeaf(l), [Next]_vars
                PROVE  \A l \in object' : IsLeaf(l)
    OBVIOUS
  <2>1. ASSUME NEW l \in Leaves
        PROVE  IsLeaf(l)
    <3>1. l \in [path : Seq(STRING) \ {<<>>}, value : Token]
      OBVIOUS
    <3>2. l = [path |-> l.path, value |-> l.value] /\ l.path \in Seq(STRING) /\ l.path # <<>>
      BY <3>1
    <3>3. 1 \in DOMAIN l.path
      BY <3>2
    <3>4. l.value \in Token
      BY <3>1
    <3>5. IsToken(l.value)
      BY <3>4 DEF Token, IsToken
    <3>. QED
      BY <3>2, <3>3, <3>5 DEF IsLeaf
  <2>2. object' = object \/ \E l \in Leaves : object' = object \cup {l}
    BY DEF Next, vars, Extend, AddLeaf, Take
  <2>. QED
    BY <2>1, <2>2
<1>. QED
  BY <1>1, <1>2, PTL DEF Spec

\* _stable_json keeps the payload of objects of any depth and size.
THEOREM JsonPayloadKeptCorrect == Spec => []JsonPayloadKept
<1>1. (\A l \in object : IsLeaf(l)) => JsonPayloadKept
  <2>. SUFFICES ASSUME \A l \in object : IsLeaf(l)
                PROVE  JsonPayloadKept
    OBVIOUS
  <2>. DEFINE Payload == {l \in object : /\ Range(l.path) \cap IdNames = {}
                                         /\ l.path[1] \notin MetadataNames}
              Erased(leaves, a) ==
                  {[path |-> l.path, value |-> Erase(<<l.value>>, a)] : l \in leaves}
              Kept(leaves, a) ==
                  /\ Erased(Payload, a) \subseteq Erased(leaves, a)
                  /\ \A l \in leaves : l.value \in {Marked("<id>"), Marked("<metadata>")}
                         \/ Erased({l}, a) \subseteq Erased(Payload, a)
  <2>1. ASSUME NEW a \in BOOLEAN
        PROVE  Kept(StableJson(object, a), a)
    BY ObjectKept
  <2>2. ASSUME NEW a \in BOOLEAN, ObjectSignature(object, a) # NoSignature
        PROVE  Kept(ObjectSignature(object, a).leaves, a)
    <3>1. ObjectSignature(object, a).leaves = StableJson(object, a)
      BY <2>2 DEF ObjectSignature
    <3>. HIDE DEF Kept
    <3>. QED
      BY <2>1, <3>1
  <2>. QED
    BY <2>2 DEF JsonPayloadKept
<1>. QED
  BY <1>1, Objects, PTL
=============================================================================
