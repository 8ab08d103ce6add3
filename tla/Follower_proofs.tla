-------------------------- MODULE Follower_proofs --------------------------
(***************************************************************************)
(* Proofs about Follower, for every context, limit, window and text, and   *)
(* for every order of the writers' steps and the follower's.               *)
(***************************************************************************)
EXTENDS Follower, WellFoundedInduction, SequenceTheorems, TLAPS

USE FollowerAssumption

-----------------------------------------------------------------------------
(* Sequences, element by element.                                          *)

LEMMA SmallestOf ==
    ASSUME NEW n \in Nat, NEW I \in SUBSET (1 .. n), I # {}
    PROVE  Min(I) \in I /\ \A y \in I : Min(I) <= y
  <1> DEFINE R == {p \in Nat \X Nat : p[1] < p[2]}
  <1>1. IsWellFoundedOn(R, Nat)
    BY NatLessThanWellFounded DEF OpToRel
  <1>2. I \subseteq Nat
    OBVIOUS
  <1> HIDE DEF R
  <1>3. PICK k \in I : \A y \in I : ~(<<y, k>> \in R)
    BY <1>1, <1>2, WFMin
  <1>4. \A y \in I : k <= y
    <2>1. TAKE y \in I
    <2>2. <<y, k>> \in Nat \X Nat /\ ~(<<y, k>> \in R)
      BY <1>2, <1>3
    <2>3. ~(y < k)
      BY <2>2 DEF R
    <2> QED  BY <1>2, <2>3
  <1> QED  BY <1>4 DEF Min

LEMMA Joined ==
    ASSUME NEW S, NEW s \in Seq(S), NEW t \in Seq(S)
    PROVE  /\ s \o t \in Seq(S) /\ Len(s \o t) = Len(s) + Len(t)
           /\ \A i \in 1 .. Len(s) : (s \o t)[i] = s[i]
           /\ \A i \in 1 .. Len(t) : (s \o t)[Len(s) + i] = t[i]
  OBVIOUS

LEMMA Part ==
    ASSUME NEW S, NEW s \in Seq(S), NEW from \in Nat, NEW to \in Nat, from <= to, to <= Len(s)
    PROVE  /\ SubSeq(s, from + 1, to) \in Seq(S) /\ Len(SubSeq(s, from + 1, to)) = to - from
           /\ \A i \in 1 .. to - from : SubSeq(s, from + 1, to)[i] = s[from + i]
  <1>1. \A i \in from + 1 .. to : s[i] \in S
    OBVIOUS
  <1>2. from + 1 \in Int /\ to \in Int /\ to - (from + 1) + 1 = to - from
        /\ (IF from + 1 <= to THEN to - (from + 1) + 1 ELSE 0) = to - from
    OBVIOUS
  <1>3. /\ SubSeq(s, from + 1, to) \in Seq(S)
        /\ Len(SubSeq(s, from + 1, to)) = (IF from + 1 <= to THEN to - (from + 1) + 1 ELSE 0)
        /\ \A i \in 1 .. to - (from + 1) + 1 : SubSeq(s, from + 1, to)[i] = s[from + 1 + i - 1]
    BY <1>1, <1>2, SubSeqProperties
  <1>4. \A i \in 1 .. to - from : from + 1 + i - 1 = from + i
    OBVIOUS
  <1> QED  BY <1>2, <1>3, <1>4

\* What is left of a file from an offset on, which may be past its end.
LEMMA RestFacts ==
    ASSUME NEW f \in Files, files[f] \in Seq(Piece), NEW start \in Nat
    PROVE  /\ Rest(f, start) \in Seq(Piece)
           /\ Len(Rest(f, start)) = IF start <= Len(files[f]) THEN Len(files[f]) - start ELSE 0
           /\ \A i \in 1 .. Len(Rest(f, start)) : Rest(f, start)[i] = files[f][start + i]
  <1>1. CASE start <= Len(files[f])
    <2>1. Len(files[f]) \in Nat
      OBVIOUS
    <2> QED  BY <1>1, <2>1, Part DEF Rest
  <1>2. CASE ~(start <= Len(files[f]))
    <2>1. Rest(f, start) = <<>>
      BY <1>2 DEF Rest
    <2> QED  BY <1>2, <2>1
  <1> QED  BY <1>1, <1>2

\* A line goes up to the first piece that ends one, or is all there is.
LEMMA LineLengthFacts ==
    ASSUME NEW s \in Seq(Piece), s # <<>>
    PROVE  /\ LineLength(s) \in 1 .. Len(s)
           /\ \A i \in 1 .. Len(s) : i < LineLength(s) => ~s[i].ends
           /\ s[LineLength(s)].ends \/ LineLength(s) = Len(s)
  <1> DEFINE ends == {i \in DOMAIN s : s[i].ends}
  <1>1. Len(s) \in Nat /\ Len(s) # 0 /\ DOMAIN s = 1 .. Len(s)
    OBVIOUS
  <1>2. CASE ends = {}
    <2>1. LineLength(s) = Len(s)
      BY <1>2 DEF LineLength
    <2> QED  BY <1>1, <1>2, <2>1
  <1>3. CASE ends # {}
    <2>1. LineLength(s) = Min(ends)
      BY <1>3 DEF LineLength
    <2>2. ends \in SUBSET (1 .. Len(s))
      BY <1>1
    <2>3. LineLength(s) \in ends /\ \A y \in ends : LineLength(s) <= y
      <3> HIDE DEF ends
      <3>1. Min(ends) \in ends /\ \A y \in ends : Min(ends) <= y
        BY <1>1, <1>3, <2>2, SmallestOf
      <3> QED  BY <2>1, <3>1
    <2> QED  BY <1>1, <2>2, <2>3
  <1> QED  BY <1>2, <1>3

LEMMA FirstLineFacts ==
    ASSUME NEW s \in Seq(Piece), s # <<>>
    PROVE  /\ FirstLine(s) \in Seq(Piece) /\ Len(FirstLine(s)) = LineLength(s)
           /\ LineLength(s) \in Nat /\ 1 <= LineLength(s) /\ LineLength(s) <= Len(s)
           /\ \A i \in 1 .. LineLength(s) : FirstLine(s)[i] = s[i]
  <1>1. LineLength(s) \in 1 .. Len(s)
    BY LineLengthFacts
  <1> QED  BY <1>1 DEF FirstLine

-----------------------------------------------------------------------------
(* Types.                                                                  *)

\* The pieces of a checkpoint's line, and its place.
Word == Texts \X BOOLEAN
Samples == [start : Nat, line : Seq(Word), partial : BOOLEAN]

WritersOK ==
    /\ DOMAIN files = Files /\ \A f \in Files : files[f] \in Seq(Piece) /\ Len(files[f]) <= pieces
    /\ created \in 0 .. MaxFiles /\ name \in {NoFile, created} /\ pieces \in 0 .. MaxPieces
    /\ truncated \in [Files -> 0 .. MaxTruncations]
ReaderOK ==
    /\ source \in 0 .. created
    /\ position \in Nat /\ ahead \in Seq(Piece) /\ position + Len(ahead) <= MaxPieces
Closed == {"open", "closed"}
ControlOK ==
    /\ options \in [lines : LineCounts, follow : BOOLEAN]
    /\ pc \in Tailing \cup {"open", "reread", "before", "checkBefore", "read", "after",
                            "checkAfter", "finished", "closed"}
    /\ firstOpen \in BOOLEAN /\ size \in 0 .. MaxPieces
    /\ source = NoFile <=> pc \in Closed
MemoryOK ==
    /\ context \in Seq(Seq(Shown)) /\ Len(context) <= options.lines
    /\ delivered \in Seq(Shown)
    /\ checkpoints \in Seq(Samples) /\ Len(checkpoints) <= Limit
    /\ trail \in Seq(Nat) /\ begun \in [shown : Nat, truncations : Nat, whole : BOOLEAN]
TypeInv == WritersOK /\ ReaderOK /\ ControlOK /\ MemoryOK

LEMMA OpenSource ==
    ASSUME WritersOK, ReaderOK, source # NoFile
    PROVE  source \in Files /\ files[source] \in Seq(Piece) /\ Len(files[source]) <= MaxPieces
           /\ Len(files[source]) \in Nat
  <1>1. source \in Files
    BY DEF WritersOK, ReaderOK, NoFile, Files
  <1>2. files[source] \in Seq(Piece) /\ Len(files[source]) <= pieces /\ pieces \in 0 .. MaxPieces
    BY <1>1 DEF WritersOK
  <1> QED  BY <1>1, <1>2

LEMMA ReadableFacts ==
    ASSUME WritersOK, ReaderOK, source # NoFile
    PROVE  /\ Readable \in Seq(Piece) /\ Len(Readable) \in Nat
           /\ position + Len(Readable) <= MaxPieces /\ Len(ahead) <= Len(Readable)
           /\ \A i \in 1 .. Len(ahead) : Readable[i] = ahead[i]
           /\ \A i \in 1 .. Len(Readable) : Len(ahead) < i => Readable[i] = files[source][position + i]
           /\ Readable = ahead \/ position + Len(Readable) <= Len(files[source])
  <1> DEFINE h == Len(ahead)
             r == Rest(source, position + h)
  <1>1. /\ ahead \in Seq(Piece) /\ h \in Nat /\ position \in Nat /\ position + h <= MaxPieces
        /\ source \in Files /\ files[source] \in Seq(Piece)
        /\ Len(files[source]) \in Nat /\ Len(files[source]) <= MaxPieces
    BY OpenSource DEF ReaderOK
  <1>2. CASE Readable = ahead
    BY <1>1, <1>2
  <1>3. CASE Readable # ahead
    <2>1. Readable = ahead \o r
      BY <1>3 DEF Readable
    <2>2. /\ r \in Seq(Piece)
          /\ Len(r) = IF position + h <= Len(files[source])
                      THEN Len(files[source]) - (position + h) ELSE 0
          /\ \A i \in 1 .. Len(r) : r[i] = files[source][(position + h) + i]
      BY <1>1, RestFacts
    <2> HIDE DEF r
    <2>3. Len(r) # 0
      <3> SUFFICES ASSUME Len(r) = 0 PROVE ahead \o r = ahead
        BY <1>3, <2>1
      <3>1. r = <<>>
        BY <2>2
      <3> QED  BY <1>1, <3>1
    <2>4. /\ Readable \in Seq(Piece) /\ Len(Readable) = h + Len(r)
          /\ \A i \in 1 .. h : Readable[i] = ahead[i]
          /\ \A i \in 1 .. Len(r) : Readable[h + i] = r[i]
      <3>1. ahead \in Seq(Piece) /\ r \in Seq(Piece)
        BY <1>1, <2>2
      <3>2. /\ ahead \o r \in Seq(Piece) /\ Len(ahead \o r) = h + Len(r)
            /\ \A i \in 1 .. h : (ahead \o r)[i] = ahead[i]
            /\ \A i \in 1 .. Len(r) : (ahead \o r)[h + i] = r[i]
        BY <3>1, Joined
      <3> QED  BY <2>1, <3>2, Zenon
    <2>5. position + Len(Readable) = Len(files[source]) /\ Len(Readable) \in Nat
      <3>1. position + h <= Len(files[source]) /\ Len(r) = Len(files[source]) - (position + h)
        BY <2>2, <2>3
      <3> QED  BY <1>1, <2>4, <3>1
    <2>6. ASSUME NEW i \in 1 .. Len(Readable), h < i PROVE Readable[i] = files[source][position + i]
      <3>1. i - h \in 1 .. Len(r) /\ h + (i - h) = i /\ (position + h) + (i - h) = position + i
        BY <1>1, <2>2, <2>4, <2>6
      <3> QED  BY <2>2, <2>4, <3>1
    <2>7. h <= Len(Readable)
      BY <1>1, <2>2, <2>4
    <2> QED  BY <1>1, <2>4, <2>5, <2>6, <2>7
  <1> QED  BY <1>2, <1>3

\* The line that is taken, and what stays ahead of it.
LEMMA TakeLineFacts ==
    ASSUME WritersOK, ReaderOK, source # NoFile, ~AtEnd
    PROVE  LET n == Len(NextLine)
               rest == SubSeq(Readable, n + 1, Len(Readable))
           IN  /\ NextLine \in Seq(Piece) /\ n \in Nat /\ 1 <= n /\ n <= Len(Readable)
               /\ \A i \in 1 .. n : NextLine[i] = Readable[i] /\ (i < n => ~NextLine[i].ends)
               /\ rest \in Seq(Piece) /\ Len(rest) = Len(Readable) - n
               /\ \A i \in 1 .. Len(rest) : rest[i] = Readable[n + i]
               /\ position + n + Len(rest) = position + Len(Readable)
  <1> DEFINE n == Len(NextLine)
             rest == SubSeq(Readable, n + 1, Len(Readable))
  <1>1. Readable \in Seq(Piece) /\ Len(Readable) \in Nat /\ position \in Nat /\ Readable # <<>>
    BY ReadableFacts DEF ReaderOK, AtEnd
  <1>2. /\ NextLine \in Seq(Piece) /\ n = LineLength(Readable) /\ n \in Nat /\ 1 <= n
        /\ n <= Len(Readable) /\ \A i \in 1 .. n : NextLine[i] = Readable[i]
    BY <1>1, FirstLineFacts DEF NextLine
  <1>3. \A i \in 1 .. Len(Readable) : i < n => ~Readable[i].ends
    BY <1>1, <1>2, LineLengthFacts
  <1> HIDE DEF n
  <1>4. \A i \in 1 .. n : i < n => ~NextLine[i].ends
    BY <1>1, <1>2, <1>3
  <1>5. /\ rest \in Seq(Piece) /\ Len(rest) = Len(Readable) - n
        /\ \A i \in 1 .. Len(rest) : rest[i] = Readable[n + i]
    BY <1>1, <1>2, Part
  <1> HIDE DEF rest
  <1>6. position + n + Len(rest) = position + Len(Readable)
    BY <1>1, <1>2, <1>5
  <1> QED  BY <1>2, <1>4, <1>5, <1>6 DEF n, rest

LEMMA WordingFacts ==
    ASSUME NEW s \in Seq(Piece)
    PROVE  /\ Wording(s) \in Seq(Word) /\ Len(Wording(s)) = Len(s)
           /\ \A i \in 1 .. Len(s) : Wording(s)[i] = <<s[i].text, s[i].ends>>
  <1>1. DOMAIN s = 1 .. Len(s) /\ Len(s) \in Nat /\ \A i \in 1 .. Len(s) : s[i] \in Piece
    OBVIOUS
  <1>2. \A i \in 1 .. Len(s) : <<s[i].text, s[i].ends>> \in Word
    BY <1>1 DEF Piece, Word
  <1>3. Wording(s) = [i \in 1 .. Len(s) |-> <<s[i].text, s[i].ends>>]
    BY <1>1 DEF Wording
  <1>4. Wording(s) \in [1 .. Len(s) -> Word]
    BY <1>2, <1>3
  <1>5. Wording(s) \in Seq(Word) /\ Len(Wording(s)) = Len(s)
    BY <1>1, <1>4
  <1> QED  BY <1>3, <1>5

LEMMA GivenFacts ==
    ASSUME NEW s \in Seq(Piece), source \in Files
    PROVE  /\ Given(s) \in Seq(Shown) /\ Len(Given(s)) = Len(s)
           /\ \A i \in 1 .. Len(s) : Given(s)[i] = [file |-> source, id |-> s[i].id]
  <1>1. DOMAIN s = 1 .. Len(s) /\ Len(s) \in Nat /\ \A i \in 1 .. Len(s) : s[i] \in Piece
    OBVIOUS
  <1>2. \A i \in 1 .. Len(s) : [file |-> source, id |-> s[i].id] \in Shown
    BY <1>1 DEF Piece, Shown
  <1>3. Given(s) = [i \in 1 .. Len(s) |-> [file |-> source, id |-> s[i].id]]
    BY <1>1 DEF Given
  <1>4. Given(s) \in [1 .. Len(s) -> Shown]
    BY <1>2, <1>3
  <1>5. Given(s) \in Seq(Shown) /\ Len(Given(s)) = Len(s)
    BY <1>1, <1>4
  <1> QED  BY <1>3, <1>5

LEMMA GivenOf ==
    ASSUME NEW s \in Seq(Piece), source \in Files
    PROVE  \A j \in 1 .. Len(Given(s)) : Given(s)[j].file = source
  <1>1. Len(Given(s)) = Len(s) /\ \A i \in 1 .. Len(s) : Given(s)[i] = [file |-> source, id |-> s[i].id]
    BY GivenFacts
  <1> HIDE DEF Given
  <1>2. ASSUME NEW j \in 1 .. Len(Given(s)) PROVE Given(s)[j].file = source
    <2>1. Given(s)[j] = [file |-> source, id |-> s[j].id]
      BY <1>1
    <2> QED  BY <2>1
  <1> QED  BY <1>2

LEMMA CheckpointFacts ==
    ASSUME NEW start \in Nat, NEW s \in Seq(Piece), s # <<>>
    PROVE  /\ Checkpoint(start, s) \in Samples /\ Checkpoint(start, s).start = start
           /\ Checkpoint(start, s).line = Wording(s)
           /\ Checkpoint(start, s).partial = ~s[Len(s)].ends
  <1>1. Len(s) \in 1 .. Len(s) /\ s[Len(s)] \in Piece
    OBVIOUS
  <1>2. Wording(s) \in Seq(Word) /\ s[Len(s)].ends \in BOOLEAN
    BY <1>1, WordingFacts DEF Piece
  <1> QED  BY <1>2 DEF Checkpoint, Samples

-----------------------------------------------------------------------------
(* The bounded list of checkpoints.                                        *)

Kept == Limit \div 2

LEMMA KeptFacts == Kept \in Nat /\ 1 <= Kept /\ Kept < Limit
  BY DEF Kept

\* The list without its element after the first Kept.
LEMMA Without ==
    ASSUME NEW S, NEW s \in Seq(S), Len(s) = Limit
    PROVE  LET r == RemoveAt(s, Limit \div 2 + 1)
           IN  /\ r \in Seq(S) /\ Len(r) = Limit - 1
               /\ \A i \in 1 .. Limit - 1 : r[i] = IF i <= Kept THEN s[i] ELSE s[i + 1]
  <1> DEFINE a == SubSeq(s, 1, Kept)
             b == SubSeq(s, Kept + 2, Limit)
             r == RemoveAt(s, Limit \div 2 + 1)
  <1>1. Kept \in Nat /\ Kept < Limit /\ Kept + 1 - 1 = Kept /\ Kept + 1 + 1 = Kept + 2
    BY KeptFacts
  <1>2. r = a \o b
    BY <1>1 DEF RemoveAt, Kept
  <1>3. a \in Seq(S) /\ Len(a) = Kept /\ \A i \in 1 .. Kept : a[i] = s[i]
    <2>1. 0 \in Nat /\ 0 <= Kept /\ Kept <= Len(s) /\ Kept - 0 = Kept /\ 0 + 1 = 1
      BY <1>1
    <2>2. \A i \in 1 .. Kept : 0 + i = i
      BY <1>1
    <2> QED  BY <1>1, <2>1, <2>2, Part
  <1>4. /\ b \in Seq(S) /\ Len(b) = Limit - (Kept + 1)
        /\ \A i \in 1 .. Limit - (Kept + 1) : b[i] = s[(Kept + 1) + i]
    <2>1. Kept + 1 \in Nat /\ Kept + 1 <= Limit /\ Limit \in Nat /\ Limit <= Len(s)
      BY <1>1
    <2> QED  BY <1>1, <2>1, Part
  <1> HIDE DEF a, b
  <1>5. /\ a \o b \in Seq(S) /\ Len(a \o b) = Len(a) + Len(b)
        /\ \A i \in 1 .. Len(a) : (a \o b)[i] = a[i]
        /\ \A i \in 1 .. Len(b) : (a \o b)[Len(a) + i] = b[i]
    BY <1>3, <1>4, Joined
  <1>6. /\ r \in Seq(S) /\ Len(r) = Kept + (Limit - (Kept + 1))
        /\ \A i \in 1 .. Kept : r[i] = a[i]
        /\ \A i \in 1 .. Limit - (Kept + 1) : r[Kept + i] = b[i]
    BY <1>2, <1>3, <1>4, <1>5
  <1> HIDE DEF r
  <1>7. Len(r) = Limit - 1
    BY <1>1, <1>6
  <1>8. ASSUME NEW i \in 1 .. Limit - 1 PROVE r[i] = IF i <= Kept THEN s[i] ELSE s[i + 1]
    <2>1. CASE i <= Kept
      <3>1. i \in 1 .. Kept
        BY <1>1, <2>1
      <3> QED  BY <1>3, <1>6, <2>1, <3>1
    <2>2. CASE ~(i <= Kept)
      <3>1. /\ i - Kept \in 1 .. Limit - (Kept + 1) /\ Kept + (i - Kept) = i
            /\ (Kept + 1) + (i - Kept) = i + 1
        BY <1>1, <2>2
      <3> QED  BY <1>4, <1>6, <2>2, <3>1
    <2> QED  BY <2>1, <2>2
  <1> QED  BY <1>6, <1>7, <1>8 DEF r

\* The three ways a checkpoint c enters the list s and makes it r.
Replaced(s, c, r) ==
    /\ s # <<>> /\ s[Len(s)].start = c.start
    /\ Len(r) = Len(s) /\ r[Len(s)] = c
    /\ \A i \in 1 .. Len(s) - 1 : r[i] = s[i]
Added(s, c, r) ==
    /\ s # <<>> => s[Len(s)].start # c.start
    /\ Len(s) < Limit /\ Len(r) = Len(s) + 1 /\ r[Len(s) + 1] = c
    /\ \A i \in 1 .. Len(s) : r[i] = s[i]
Thinned(s, c, r) ==
    /\ s # <<>> /\ s[Len(s)].start # c.start
    /\ Len(s) = Limit /\ Len(r) = Limit /\ r[Limit] = c
    /\ \A i \in 1 .. Limit - 1 : r[i] = IF i <= Kept THEN s[i] ELSE s[i + 1]

LEMMA RememberFacts ==
    ASSUME NEW s \in Seq(Samples), Len(s) <= Limit, NEW start \in Nat,
           NEW line \in Seq(Piece), line # <<>>
    PROVE  LET c == Checkpoint(start, line)
               r == Remember(s, start, line)
           IN  /\ r \in Seq(Samples) /\ Len(r) <= Limit
               /\ Replaced(s, c, r) \/ Added(s, c, r) \/ Thinned(s, c, r)
  <1> DEFINE c == Checkpoint(start, line)
             r == Remember(s, start, line)
  <1>1. c \in Samples /\ c.start = start
    BY CheckpointFacts
  <1>2. Len(s) \in Nat /\ Limit \in Nat
    OBVIOUS
  <1>3. CASE s # <<>> /\ s[Len(s)].start = start
    <2>1. r = [s EXCEPT ![Len(s)] = c]
      BY <1>3 DEF Remember, Last
    <2> HIDE DEF c, r
    <2>2. r \in Seq(Samples) /\ Len(r) = Len(s) /\ Len(s) \in 1 .. Len(s)
      BY <1>1, <1>3, <2>1
    <2>3. r[Len(s)] = c /\ \A i \in 1 .. Len(s) - 1 : r[i] = s[i]
      <3>1. DOMAIN s = 1 .. Len(s) /\ Len(s) \in DOMAIN s
        BY <2>2
      <3>2. r[Len(s)] = c /\ \A i \in DOMAIN s : i # Len(s) => r[i] = s[i]
        BY <2>1, <3>1, Zenon
      <3>3. \A i \in 1 .. Len(s) - 1 : i \in 1 .. Len(s) /\ i # Len(s)
        BY <1>2
      <3> QED  BY <3>1, <3>2, <3>3, Zenon
    <2>4. Replaced(s, c, r)
      BY <1>1, <1>3, <2>2, <2>3, Zenon DEF Replaced
    <2>5. Len(r) <= Limit
      BY <2>2
    <2> QED  BY <2>2, <2>4, <2>5, Zenon DEF c, r
  <1>4. CASE ~(s # <<>> /\ s[Len(s)].start = start) /\ Len(s) < Limit
    <2>1. r = Append(s, c)
      BY <1>2, <1>4 DEF Remember, Last
    <2> HIDE DEF c, r
    <2>2. /\ r \in Seq(Samples) /\ Len(r) = Len(s) + 1 /\ r[Len(s) + 1] = c
          /\ \A i \in 1 .. Len(s) : r[i] = s[i]
      BY <1>1, <2>1
    <2>3. Len(r) <= Limit
      BY <1>2, <1>4, <2>2
    <2> QED  BY <1>1, <1>4, <2>2, <2>3 DEF Added, c, r
  <1>5. CASE ~(s # <<>> /\ s[Len(s)].start = start) /\ ~(Len(s) < Limit)
    <2> DEFINE w == RemoveAt(s, Limit \div 2 + 1)
    <2>1. Len(s) = Limit /\ Limit - 1 \in Nat /\ Limit - 1 + 1 = Limit
      BY <1>2, <1>5
    <2>2. r = Append(w, c)
      BY <1>2, <1>5 DEF Remember, Last
    <2>3. /\ w \in Seq(Samples) /\ Len(w) = Limit - 1
          /\ \A i \in 1 .. Limit - 1 : w[i] = IF i <= Kept THEN s[i] ELSE s[i + 1]
      BY <2>1, Without
    <2> HIDE DEF c, r, w
    <2>4. /\ r \in Seq(Samples) /\ Len(r) = Len(w) + 1 /\ r[Len(w) + 1] = c
          /\ \A i \in 1 .. Len(w) : r[i] = w[i]
      BY <1>1, <2>2, <2>3
    <2>5. s # <<>>
      BY <2>1
    <2>6. Thinned(s, c, r)
      BY <1>1, <1>5, <2>1, <2>3, <2>4, <2>5 DEF Thinned, c
    <2> QED  BY <1>2, <2>1, <2>3, <2>4, <2>6 DEF c, r
  <1> QED  BY <1>3, <1>4, <1>5

-----------------------------------------------------------------------------
(* Every variable has its type.                                            *)

LEMMA LargerOf ==
    ASSUME NEW n \in Int
    PROVE  Max({0, n}) = IF n >= 0 THEN n ELSE 0
  <1>1. \E x \in {0, n} : \A y \in {0, n} : x >= y
    BY SMT
  <1>2. Max({0, n}) \in {0, n} /\ \A y \in {0, n} : Max({0, n}) >= y
    BY <1>1, Zenon DEF Max
  <1> QED  BY <1>2

LEMMA TakeLineTypes ==
    ASSUME TypeInv, source # NoFile, TakeLine
    PROVE  /\ position' \in Nat /\ ahead' \in Seq(Piece) /\ position' + Len(ahead') <= MaxPieces
           /\ checkpoints' \in Seq(Samples) /\ Len(checkpoints') <= Limit
           /\ trail' \in Seq(Nat) /\ begun' \in [shown : Nat, truncations : Nat, whole : BOOLEAN]
           /\ NextLine \in Seq(Piece) /\ NextLine # <<>>
  <1>1. WritersOK /\ ReaderOK /\ ~AtEnd /\ position \in Nat /\ source \in Files
    BY OpenSource DEF TypeInv, ReaderOK, TakeLine
  <1> DEFINE n == Len(NextLine)
             rest == SubSeq(Readable, n + 1, Len(Readable))
  <1>2. NextLine \in Seq(Piece) /\ n \in Nat /\ 1 <= n /\ rest \in Seq(Piece)
        /\ position + n + Len(rest) = position + Len(Readable)
        /\ position + Len(Readable) <= MaxPieces
    BY <1>1, TakeLineFacts, ReadableFacts
  <1>3. position' = position + n /\ ahead' = rest
    BY DEF TakeLine
  <1> HIDE DEF n, rest
  <1>4. position' \in Nat /\ ahead' \in Seq(Piece) /\ position' + Len(ahead') <= MaxPieces
    BY <1>1, <1>2, <1>3
  <1>5. NextLine # <<>>
    BY <1>2 DEF n
  <1>6. checkpoints' \in Seq(Samples) /\ Len(checkpoints') <= Limit
    <2>1. checkpoints \in Seq(Samples) /\ Len(checkpoints) <= Limit
      BY DEF TypeInv, MemoryOK
    <2>2. checkpoints' = Remember(checkpoints, position, NextLine)
      BY DEF TakeLine
    <2> QED  BY <1>1, <1>2, <1>5, <2>1, <2>2, RememberFacts
  <1>7. trail' \in Seq(Nat)
    <2>1. trail \in Seq(Nat) /\ trail' = Trailed(position)
      BY DEF TypeInv, MemoryOK, TakeLine
    <2> QED  BY <1>1, <2>1 DEF Trailed
  <1>8. begun' \in [shown : Nat, truncations : Nat, whole : BOOLEAN]
    <2>1. Len(delivered) \in Nat /\ begun \in [shown : Nat, truncations : Nat, whole : BOOLEAN]
      BY DEF TypeInv, MemoryOK
    <2>2. truncated[source] \in Nat
      BY <1>1 DEF WritersOK
    <2>3. (pc \notin Tailing) \in BOOLEAN
      OBVIOUS
    <2>4. begun' = IF position = 0
                   THEN [shown |-> Len(delivered), truncations |-> truncated[source],
                         whole |-> pc \notin Tailing]
                   ELSE begun
      BY DEF TakeLine
    <2> QED  BY <2>1, <2>2, <2>3, <2>4
  <1> QED  BY <1>2, <1>4, <1>5, <1>6, <1>7, <1>8

LEMMA TypeInit == Init => TypeInv
  <1> SUFFICES ASSUME Init PROVE TypeInv
    OBVIOUS
  <1>1. WritersOK
    <2>1. files = [f \in Files |-> <<>>] /\ truncated = [f \in Files |-> 0]
          /\ created = 0 /\ name = NoFile /\ pieces = 0
      BY DEF Init
    <2>2. /\ DOMAIN files = Files
          /\ \A f \in Files : files[f] \in Seq(Piece) /\ Len(files[f]) = 0
      BY <2>1
    <2>3. truncated \in [Files -> 0 .. MaxTruncations]
      BY <2>1
    <2> QED  BY <2>1, <2>2, <2>3 DEF WritersOK
  <1>2. ReaderOK /\ ControlOK
    BY DEF Init, ReaderOK, ControlOK, NoFile, Closed
  <1>3. MemoryOK
    <2>1. options.lines \in Nat
      BY DEF Init
    <2>2. begun \in [shown : Nat, truncations : Nat, whole : BOOLEAN]
      BY DEF Init
    <2>3. context = <<>> /\ delivered = <<>> /\ checkpoints = <<>> /\ trail = <<>>
      BY DEF Init
    <2> QED  BY <2>1, <2>2, <2>3 DEF MemoryOK
  <1> QED  BY <1>1, <1>2, <1>3 DEF TypeInv

\* What the writers do leaves the follower alone.
LEMMA AppendTypes ==
    ASSUME TypeInv, NEW f \in Files, NEW text \in Texts, NEW ends \in BOOLEAN,
           AppendTo(f, text, ends)
    PROVE  TypeInv'
  <1> DEFINE p == [id |-> pieces + 1, text |-> text, ends |-> ends,
                   due |-> f \in {source} \cap {name} /\ pc \notin Tailing]
  <1>1. WritersOK /\ pieces < MaxPieces /\ pieces' = pieces + 1 /\ pieces \in Nat
        /\ files' = [files EXCEPT ![f] = Append(@, p)] /\ DOMAIN files = Files
    BY DEF TypeInv, AppendTo, WritersOK
  <1>2. p \in Piece
    <2>1. (f \in {source} \cap {name} /\ pc \notin Tailing) \in BOOLEAN
      OBVIOUS
    <2> QED  BY <1>1, <2>1 DEF Piece
  <1> HIDE DEF p
  <1>3. ASSUME NEW g \in Files
        PROVE  files'[g] \in Seq(Piece) /\ Len(files'[g]) <= pieces'
    <2>1. files[g] \in Seq(Piece) /\ Len(files[g]) \in Nat /\ Len(files[g]) <= pieces
      BY <1>1 DEF WritersOK
    <2>2. files'[g] = IF g = f THEN Append(files[g], p) ELSE files[g]
      BY <1>1, Zenon
    <2>3. Append(files[g], p) \in Seq(Piece) /\ Len(Append(files[g], p)) = Len(files[g]) + 1
      BY <1>2, <2>1
    <2> QED  BY <1>1, <2>1, <2>2, <2>3
  <1>4. WritersOK'
    <2>1. DOMAIN files' = Files
      BY <1>1, Zenon
    <2>2. pieces' \in 0 .. MaxPieces
      BY <1>1
    <2> QED  BY <1>1, <1>3, <2>1, <2>2 DEF WritersOK, AppendTo
  <1>5. ReaderOK' /\ ControlOK' /\ MemoryOK'
    BY DEF TypeInv, ReaderOK, ControlOK, MemoryOK, AppendTo, followerVars, readerVars, history
  <1> QED  BY <1>4, <1>5 DEF TypeInv

LEMMA TruncateTypes ==
    ASSUME TypeInv, Truncate
    PROVE  TypeInv'
  <1>1. /\ WritersOK /\ name \in Files /\ pieces \in Nat
        /\ files' = [files EXCEPT ![name] = <<>>]
        /\ truncated' = [truncated EXCEPT ![name] = @ + 1]
    BY DEF TypeInv, Truncate, WritersOK, Files, NoFile
  <1>2. ASSUME NEW g \in Files
        PROVE  files'[g] \in Seq(Piece) /\ Len(files'[g]) <= pieces
    <2>1. files[g] \in Seq(Piece) /\ Len(files[g]) <= pieces /\ DOMAIN files = Files
      BY <1>1 DEF WritersOK
    <2>2. files'[g] = IF g = name THEN <<>> ELSE files[g]
      BY <1>1, <2>1, Zenon
    <2> QED  BY <1>1, <2>1, <2>2
  <1>3. truncated' \in [Files -> 0 .. MaxTruncations]
    <2>1. truncated \in [Files -> 0 .. MaxTruncations] /\ truncated[name] < MaxTruncations
      BY <1>1 DEF WritersOK, Truncate
    <2> QED  BY <1>1, <2>1
  <1>4. DOMAIN files' = Files
    BY <1>1, Zenon DEF WritersOK
  <1>5. WritersOK'
    BY <1>1, <1>2, <1>3, <1>4 DEF WritersOK, Truncate
  <1>6. ReaderOK' /\ ControlOK' /\ MemoryOK'
    BY DEF TypeInv, ReaderOK, ControlOK, MemoryOK, Truncate, followerVars, readerVars, history
  <1> QED  BY <1>5, <1>6 DEF TypeInv

LEMMA RenameTypes ==
    ASSUME TypeInv, NEW f \in Files \cup {NoFile}, Rename(f)
    PROVE  TypeInv'
  <1>1. WritersOK'
    BY DEF TypeInv, WritersOK, Rename, NoFile, Files
  <1>2. created' >= created /\ created' \in Nat /\ created \in Nat
    BY DEF TypeInv, WritersOK, Rename, NoFile
  <1>3. ReaderOK'
    BY <1>2 DEF TypeInv, ReaderOK, Rename, followerVars, readerVars
  <1>4. ControlOK' /\ MemoryOK'
    BY DEF TypeInv, ReaderOK, ControlOK, MemoryOK, Rename, followerVars, readerVars, history
  <1> QED  BY <1>1, <1>3, <1>4 DEF TypeInv

\* What the follower does leaves the files alone.
LEMMA WritersKept ==
    ASSUME WritersOK, UNCHANGED writerVars
    PROVE  WritersOK'
  BY DEF WritersOK, writerVars

LEMMA OpenTypes ==
    ASSUME TypeInv, Open
    PROVE  TypeInv'
  <1>1. WritersOK'
    BY WritersKept DEF TypeInv, Open
  <1>2. name \in 1 .. created /\ created' = created /\ created \in 0 .. MaxFiles
    BY DEF TypeInv, WritersOK, Open, NoFile, writerVars
  <1>3. source' = name /\ position' = 0 /\ ahead' = <<>>
    BY DEF Open
  <1>4. ReaderOK'
    BY <1>2, <1>3 DEF ReaderOK
  <1>5. ControlOK'
    BY <1>2, <1>3 DEF TypeInv, ControlOK, Open, Tailing, NoFile, Closed
  <1>6. MemoryOK'
    BY DEF TypeInv, MemoryOK, Open, history
  <1> QED  BY <1>1, <1>4, <1>5, <1>6 DEF TypeInv

LEMMA LineTypes ==
    ASSUME TypeInv, source # NoFile, TakeLine,
           UNCHANGED <<writerVars, options, pc, source, firstOpen, size>>,
           context' \in Seq(Seq(Shown)), Len(context') <= options.lines,
           delivered' \in Seq(Shown)
    PROVE  TypeInv'
  <1>1. WritersOK'
    BY WritersKept DEF TypeInv
  <1>2. ReaderOK'
    BY TakeLineTypes DEF TypeInv, ReaderOK, writerVars
  <1>3. ControlOK'
    BY DEF TypeInv, ControlOK
  <1>4. MemoryOK'
    BY TakeLineTypes DEF TypeInv, MemoryOK
  <1> QED  BY <1>1, <1>2, <1>3, <1>4 DEF TypeInv

LEMMA TailLineTypes ==
    ASSUME TypeInv, TailLine
    PROVE  TypeInv'
  <1> DEFINE all == Append(context, Given(NextLine))
  <1>1. source # NoFile /\ TakeLine
    BY DEF TypeInv, ControlOK, TailLine, Closed
  <1>2. source \in Files /\ NextLine \in Seq(Piece)
    BY <1>1, TakeLineTypes, OpenSource DEF TypeInv
  <1>3. Given(NextLine) \in Seq(Shown)
    BY <1>2, GivenFacts
  <1>4. context \in Seq(Seq(Shown)) /\ Len(context) <= options.lines
    BY DEF TypeInv, MemoryOK
  <1>5. options.lines \in Nat
    BY DEF TypeInv, ControlOK
  <1>6. all \in Seq(Seq(Shown)) /\ Len(all) = Len(context) + 1 /\ Len(context) \in Nat
    BY <1>3, <1>4
  <1>7. context' = IF Len(all) > options.lines THEN Tail(all) ELSE all
    BY DEF TailLine
  <1> HIDE DEF all
  <1>8. context' \in Seq(Seq(Shown)) /\ Len(context') <= options.lines
    <2>1. CASE Len(all) > options.lines
      <3>1. all # <<>> /\ context' = Tail(all)
        BY <1>5, <1>6, <1>7, <2>1
      <3> QED  BY <1>4, <1>5, <1>6, <3>1
    <2>2. CASE ~(Len(all) > options.lines)
      BY <1>4, <1>5, <1>6, <1>7, <2>2
    <2> QED  BY <2>1, <2>2
  <1>9. delivered' \in Seq(Shown)
    BY DEF TypeInv, MemoryOK, TailLine
  <1>10. UNCHANGED <<writerVars, options, pc, source, firstOpen, size>>
    BY DEF TailLine
  <1> QED  BY <1>1, <1>8, <1>9, <1>10, LineTypes

LEMMA ShowLineTypes ==
    ASSUME TypeInv, ShowLine
    PROVE  TypeInv'
  <1>1. WritersOK' /\ ReaderOK' /\ ControlOK'
    BY WritersKept DEF TypeInv, ShowLine, ReaderOK, ControlOK, readerVars, writerVars
  <1>2. context \in Seq(Seq(Shown)) /\ Len(context) <= options.lines /\ context # <<>>
    BY DEF TypeInv, MemoryOK, ShowLine
  <1>3. Head(context) \in Seq(Shown) /\ Tail(context) \in Seq(Seq(Shown))
        /\ Len(Tail(context)) = Len(context) - 1 /\ Len(context) \in Nat
    BY <1>2
  <1>4. delivered \in Seq(Shown)
    BY DEF TypeInv, MemoryOK
  <1>5. delivered \o Head(context) \in Seq(Shown)
    BY <1>3, <1>4
  <1>6. options.lines \in Nat /\ options' = options
    BY DEF TypeInv, ControlOK, ShowLine
  <1>7. context' \in Seq(Seq(Shown)) /\ Len(context') <= options'.lines
    BY <1>2, <1>3, <1>6 DEF ShowLine
  <1>8. MemoryOK'
    BY <1>5, <1>7 DEF TypeInv, MemoryOK, ShowLine, history
  <1> QED  BY <1>1, <1>8 DEF TypeInv

LEMMA ReadLineTypes ==
    ASSUME TypeInv, ReadLine
    PROVE  TypeInv'
  <1>1. source # NoFile /\ TakeLine
    BY DEF TypeInv, ControlOK, ReadLine, Closed
  <1>2. source \in Files /\ NextLine \in Seq(Piece)
    BY <1>1, TakeLineTypes, OpenSource DEF TypeInv
  <1>3. Given(NextLine) \in Seq(Shown) /\ delivered \in Seq(Shown)
    BY <1>2, GivenFacts DEF TypeInv, MemoryOK
  <1>4. delivered' \in Seq(Shown)
    <2>1. delivered' = delivered \o Given(NextLine)
      BY DEF ReadLine
    <2> QED  BY <1>3, <2>1, Joined
  <1>5. context' \in Seq(Seq(Shown)) /\ Len(context') <= options.lines
        /\ UNCHANGED <<writerVars, options, pc, source, firstOpen, size>>
    BY DEF TypeInv, MemoryOK, ReadLine
  <1> QED  BY <1>1, <1>4, <1>5, LineTypes

LEMMA OtherLineTypes ==
    ASSUME TypeInv, SampleLine \/ WindowLine
    PROVE  TypeInv'
  <1>1. source # NoFile /\ TakeLine
    BY DEF TypeInv, ControlOK, SampleLine, WindowLine, Closed
  <1>2. UNCHANGED <<writerVars, options, pc, source, firstOpen, size, context, delivered>>
    BY DEF SampleLine, WindowLine
  <1>3. context' \in Seq(Seq(Shown)) /\ Len(context') <= options.lines /\ delivered' \in Seq(Shown)
    BY <1>2 DEF TypeInv, MemoryOK
  <1> QED  BY <1>1, <1>2, <1>3, LineTypes

\* The ends of the phases, which move nothing but the control.
LEMMA EndTypes ==
    ASSUME TypeInv, TailEnd \/ ShowEnd \/ ReadEnd
    PROVE  TypeInv'
  <1>1. UNCHANGED <<writerVars, options, readerVars, firstOpen, context, checkpoints, size,
                    delivered, history>>
    BY DEF TailEnd, ShowEnd, ReadEnd
  <1>2. WritersOK' /\ ReaderOK' /\ MemoryOK'
    BY <1>1, WritersKept DEF TypeInv, ReaderOK, MemoryOK, readerVars, writerVars, history
  <1>3. /\ pc \notin Closed
        /\ pc' \in {"show", "before", "finished", "after"}
    BY DEF TailEnd, ShowEnd, ReadEnd, AfterTail, Closed
  <1>4. ControlOK'
    BY <1>1, <1>3 DEF TypeInv, ControlOK, readerVars, Tailing, Closed
  <1> QED  BY <1>2, <1>4 DEF TypeInv

LEMMA NothingAhead ==
    ASSUME NEW a, a = <<>>, NEW n \in Nat, n <= MaxPieces
    PROVE  a \in Seq(Piece) /\ n + Len(a) <= MaxPieces
  <1>1. Len(a) = 0
    OBVIOUS
  <1> QED  BY <1>1

LEMMA WindowTypes ==
    ASSUME TypeInv, SeekWindow \/ WindowEnd
    PROVE  TypeInv'
  <1>1. /\ UNCHANGED <<writerVars, options, source, firstOpen, context, checkpoints, size,
                       delivered, history>>
        /\ pc \notin Closed /\ pc' \in {"window", "before", "finished"}
    BY DEF SeekWindow, WindowEnd, AfterTail, Closed
  <1>2. WritersOK' /\ MemoryOK'
    BY <1>1, WritersKept DEF TypeInv, MemoryOK, history
  <1>3. ControlOK'
    BY <1>1 DEF TypeInv, ControlOK, Tailing, Closed
  <1>4. Len(files[source]) \in Nat /\ Len(files[source]) <= MaxPieces
    BY <1>1, OpenSource DEF TypeInv, ControlOK
  <1>5. position' \in Nat /\ ahead' \in Seq(Piece) /\ position' + Len(ahead') <= MaxPieces
    <2>1. CASE SeekWindow
      <3>1. Len(files[source]) - Window \in Int
        BY <1>4
      <3>2. position' \in Nat /\ position' <= MaxPieces
        BY <1>4, <2>1, <3>1, LargerOf DEF SeekWindow
      <3>3. ahead' = <<>>
        BY <2>1 DEF SeekWindow
      <3> QED  BY <3>2, <3>3, NothingAhead
    <2>2. CASE WindowEnd
      <3>1. Readable = <<>> /\ position' = Len(files[source]) /\ ahead' = ahead
        BY <2>2 DEF WindowEnd, AtEnd
      <3>2. Len(ahead) <= 0 /\ ahead \in Seq(Piece)
        BY <1>1, <3>1, ReadableFacts DEF TypeInv, ControlOK, ReaderOK
      <3> QED  BY <1>4, <3>1, <3>2
    <2> QED  BY <2>1, <2>2
  <1>6. ReaderOK'
    BY <1>1, <1>5 DEF TypeInv, ReaderOK, writerVars
  <1> QED  BY <1>2, <1>3, <1>6 DEF TypeInv

LEMMA StatTypes ==
    ASSUME TypeInv, NEW look \in {"before", "after"}, Stat(look)
    PROVE  TypeInv'
  <1>1. /\ UNCHANGED <<writerVars, options, firstOpen, context, delivered, begun>>
        /\ pc \notin Closed
    BY DEF Stat, Closed
  <1>2. WritersOK'
    BY <1>1, WritersKept DEF TypeInv
  <1>3. CASE name = NoFile /\ pc' = NextRead(look)
               /\ UNCHANGED <<size, readerVars, checkpoints, trail>>
    <2>1. pc' \in {"read", "before"}
      BY <1>3 DEF NextRead
    <2>2. ReaderOK' /\ MemoryOK'
      BY <1>1, <1>3 DEF TypeInv, ReaderOK, MemoryOK, readerVars, writerVars
    <2>3. ControlOK'
      BY <1>1, <1>3, <2>1 DEF TypeInv, ControlOK, readerVars, Tailing, Closed
    <2> QED  BY <1>2, <2>2, <2>3 DEF TypeInv
  <1>4. CASE /\ source' = NoFile /\ position' = 0 /\ ahead' = <<>>
             /\ checkpoints' = <<>> /\ trail' = <<>> /\ pc' = "open" /\ UNCHANGED size
    <2>1. ReaderOK'
      BY <1>2, <1>4 DEF ReaderOK, WritersOK, NoFile
    <2>2. MemoryOK'
      BY <1>1, <1>4 DEF TypeInv, MemoryOK
    <2>3. ControlOK'
      BY <1>1, <1>4 DEF TypeInv, ControlOK, Tailing, Closed
    <2> QED  BY <1>2, <2>1, <2>2, <2>3 DEF TypeInv
  <1>5. CASE /\ name = source /\ size' = Len(files[name]) /\ pc' = CheckOf(look)
             /\ UNCHANGED <<readerVars, checkpoints, trail>>
    <2>1. pc' \in {"checkBefore", "checkAfter"}
      BY <1>5 DEF CheckOf
    <2>2. ReaderOK' /\ MemoryOK'
      BY <1>1, <1>5 DEF TypeInv, ReaderOK, MemoryOK, readerVars, writerVars
    <2>3. size' \in 0 .. MaxPieces
      BY <1>1, <1>5, OpenSource DEF TypeInv, ControlOK
    <2>4. ControlOK'
      BY <1>1, <1>5, <2>1, <2>3 DEF TypeInv, ControlOK, readerVars, Tailing, Closed
    <2> QED  BY <1>2, <2>2, <2>4 DEF TypeInv
  <1> QED  BY <1>3, <1>4, <1>5 DEF Stat

LEMMA CheckTypes ==
    ASSUME TypeInv, NEW look \in {"before", "after"}, Check(look)
    PROVE  TypeInv'
  <1>1. /\ UNCHANGED <<writerVars, options, source, firstOpen, context, size, delivered, begun>>
        /\ pc \notin Closed /\ pc' \in {"read", "before"} /\ ahead' = <<>>
    BY DEF Check, CheckOf, NextRead, Closed
  <1>2. WritersOK'
    BY <1>1, WritersKept DEF TypeInv
  <1>3. ControlOK'
    BY <1>1 DEF TypeInv, ControlOK, Tailing, Closed
  <1>4. \/ position' = 0 /\ checkpoints' = <<>> /\ trail' = <<>>
        \/ UNCHANGED <<position, checkpoints, trail>>
    BY DEF Check
  <1>5. position' \in Nat /\ position' <= MaxPieces
    BY <1>4 DEF TypeInv, ReaderOK
  <1>6. ReaderOK'
    <2>1. source' \in 0 .. created'
      BY <1>1 DEF TypeInv, ReaderOK, writerVars
    <2>2. ahead' \in Seq(Piece) /\ position' + Len(ahead') <= MaxPieces
      BY <1>1, <1>5, NothingAhead
    <2> QED  BY <1>5, <2>1, <2>2, Zenon DEF ReaderOK
  <1>7. MemoryOK'
    <2>1. checkpoints' \in Seq(Samples) /\ Len(checkpoints') <= Limit /\ trail' \in Seq(Nat)
      <3>1. checkpoints \in Seq(Samples) /\ Len(checkpoints) <= Limit /\ trail \in Seq(Nat)
        BY DEF TypeInv, MemoryOK
      <3>2. CASE UNCHANGED <<checkpoints, trail>>
        BY <3>1, <3>2
      <3>3. CASE checkpoints' = <<>> /\ trail' = <<>>
        <4>1. checkpoints' \in Seq(Samples) /\ Len(checkpoints') = 0 /\ trail' \in Seq(Nat)
          BY <3>3
        <4>2. 0 <= Limit
          OBVIOUS
        <4> QED  BY <4>1, <4>2, Zenon
      <3> QED  BY <1>4, <3>2, <3>3
    <2> QED  BY <1>1, <2>1, Zenon DEF TypeInv, MemoryOK
  <1> QED  BY <1>2, <1>3, <1>6, <1>7 DEF TypeInv

LEMMA StopTypes ==
    ASSUME TypeInv, Stop
    PROVE  TypeInv'
  <1>1. WritersOK'
    BY WritersKept DEF TypeInv, Stop
  <1>2. ReaderOK'
    BY <1>1 DEF Stop, ReaderOK, WritersOK, NoFile
  <1>3. ControlOK'
    <2>1. /\ options' = options /\ pc' = "closed" /\ source' = NoFile /\ firstOpen' = FALSE
          /\ size' = 0 /\ options \in [lines : LineCounts, follow : BOOLEAN]
      BY DEF Stop, TypeInv, ControlOK
    <2>2. size' \in 0 .. MaxPieces
      BY <2>1
    <2>3. source' = NoFile <=> pc' \in Closed
      BY <2>1 DEF Closed
    <2> QED  BY <2>1, <2>2, <2>3, Zenon DEF ControlOK
  <1>4. MemoryOK'
    <2>1. options' = options /\ options.lines \in Nat
      BY DEF Stop, TypeInv, ControlOK
    <2>2. context' = <<>> /\ checkpoints' = <<>> /\ trail' = <<>> /\ UNCHANGED <<delivered, begun>>
      BY DEF Stop
    <2> QED  BY <2>1, <2>2 DEF TypeInv, MemoryOK
  <1> QED  BY <1>1, <1>2, <1>3, <1>4 DEF TypeInv

LEMMA TypeStep == TypeInv /\ [Next]_vars => TypeInv'
  <1> SUFFICES ASSUME TypeInv, [Next]_vars PROVE TypeInv'
    OBVIOUS
  <1>1. CASE Reader
    BY <1>1, OpenTypes, TailLineTypes, ShowLineTypes, ReadLineTypes, OtherLineTypes, EndTypes,
       WindowTypes, StatTypes, CheckTypes DEF Reader
  <1>2. CASE Writer
    BY <1>2, AppendTypes, TruncateTypes, RenameTypes DEF Writer
  <1>3. CASE Stop
    BY <1>3, StopTypes
  <1>4. CASE UNCHANGED vars
    BY <1>4 DEF TypeInv, WritersOK, ReaderOK, ControlOK, MemoryOK, vars, writerVars,
                followerVars, readerVars, history
  <1> QED  BY <1>1, <1>2, <1>3, <1>4 DEF Next

\* Every variable always has its type: in particular the offset stays within
\* what was ever written, also across truncations, and the list of
\* checkpoints and the context within their limits.
THEOREM TypeCorrect == Spec => []TypeOK
  <1>1. TypeInv => TypeOK
    <2> SUFFICES ASSUME TypeInv PROVE TypeOK
      OBVIOUS
    <2>1. position \in 0 .. MaxPieces
      <3>1. position \in Nat /\ Len(ahead) \in Nat /\ position + Len(ahead) <= MaxPieces
        BY DEF TypeInv, ReaderOK
      <3> QED  BY <3>1
    <2>2. name \in 0 .. created /\ created \in 0 .. MaxFiles /\ pieces \in 0 .. MaxPieces
          /\ DOMAIN files = Files /\ truncated \in [Files -> 0 .. MaxTruncations]
          /\ \A f \in Files : files[f] \in Seq(Piece)
      BY DEF TypeInv, WritersOK, NoFile
    <2> QED  BY <2>1, <2>2, Zenon DEF TypeInv, ReaderOK, ControlOK, MemoryOK, TypeOK
  <1> QED  BY <1>1, TypeInit, TypeStep, PTL DEF Spec

-----------------------------------------------------------------------------
(* The checkpoints are of the first and of the latest records.             *)

\* Which record the i-th checkpoint is of.
Record(i, m) == IF m <= Limit \/ i <= Kept THEN i ELSE m - Limit + i
SamplesInv ==
    /\ Len(checkpoints) = IF Len(trail) <= Limit THEN Len(trail) ELSE Limit
    /\ \A i \in 1 .. Len(checkpoints) : checkpoints[i].start = trail[Record(i, Len(trail))]

\* The latest record has a checkpoint.
LEMMA LatestSample ==
    ASSUME MemoryOK, SamplesInv
    PROVE  /\ Len(trail) \in Nat /\ Len(checkpoints) \in Nat
           /\ Len(checkpoints) = 0 <=> Len(trail) = 0
           /\ Len(trail) # 0 => checkpoints[Len(checkpoints)].start = trail[Len(trail)]
  <1>1. Len(trail) \in Nat /\ Len(checkpoints) \in Nat
    BY DEF MemoryOK
  <1>2. Len(checkpoints) = IF Len(trail) <= Limit THEN Len(trail) ELSE Limit
    BY DEF SamplesInv
  <1>3. ASSUME Len(trail) # 0
        PROVE  checkpoints[Len(checkpoints)].start = trail[Len(trail)]
    <2>1. Len(checkpoints) \in 1 .. Len(checkpoints)
      BY <1>1, <1>2, <1>3
    <2>2. Record(Len(checkpoints), Len(trail)) = Len(trail)
      BY <1>1, <1>2, KeptFacts DEF Record
    <2> QED  BY <2>1, <2>2 DEF SamplesInv
  <1> QED  BY <1>1, <1>2, <1>3

LEMMA SamplesTakeLine ==
    ASSUME MemoryOK, SamplesInv, TakeLine, position \in Nat,
           NextLine \in Seq(Piece), NextLine # <<>>
    PROVE  SamplesInv'
  <1> DEFINE m == Len(trail)
             c == Checkpoint(position, NextLine)
  <1>1. m \in Nat /\ Len(checkpoints) \in Nat
        /\ Len(checkpoints) = (IF m <= Limit THEN m ELSE Limit)
    BY LatestSample DEF SamplesInv
  <1>2. checkpoints \in Seq(Samples) /\ Len(checkpoints) <= Limit /\ trail \in Seq(Nat)
    BY DEF MemoryOK
  <1>3. /\ Len(checkpoints') \in Nat /\ c.start = position
        /\ \/ Replaced(checkpoints, c, checkpoints') \/ Added(checkpoints, c, checkpoints')
           \/ Thinned(checkpoints, c, checkpoints')
    <2>1. checkpoints' = Remember(checkpoints, position, NextLine)
      BY DEF TakeLine
    <2>2. /\ checkpoints' \in Seq(Samples)
          /\ \/ Replaced(checkpoints, c, checkpoints') \/ Added(checkpoints, c, checkpoints')
             \/ Thinned(checkpoints, c, checkpoints')
      BY <1>2, <2>1, RememberFacts
    <2>3. c.start = position
      BY CheckpointFacts
    <2>4. Len(checkpoints') \in Nat
      BY <2>2
    <2> QED  BY <2>2, <2>3, <2>4
  <1>4. \A i \in 1 .. Len(checkpoints) : checkpoints[i].start = trail[Record(i, m)]
    BY DEF SamplesInv
  <1> HIDE DEF c
  <1>5. CASE m # 0 /\ trail[m] = position
    <2>1. trail' = trail
      BY <1>2, <1>5 DEF TakeLine, Trailed, Last
    <2>2. Replaced(checkpoints, c, checkpoints')
      BY <1>2, <1>3, <1>5, LatestSample DEF Added, Thinned
    <2>3. Len(checkpoints') = Len(checkpoints) /\ checkpoints'[Len(checkpoints)].start = position
          /\ \A i \in 1 .. Len(checkpoints) - 1 : checkpoints'[i] = checkpoints[i]
      BY <1>3, <2>2 DEF Replaced
    <2>4. checkpoints[Len(checkpoints)].start = position
      BY <1>5, LatestSample
    <2>5. ASSUME NEW i \in 1 .. Len(checkpoints)
          PROVE  checkpoints'[i].start = trail[Record(i, m)]
      <3>1. checkpoints'[i].start = checkpoints[i].start
        BY <1>1, <2>3, <2>4
      <3> QED  BY <1>4, <3>1
    <2> QED  BY <1>1, <2>1, <2>3, <2>5 DEF SamplesInv
  <1>6. CASE ~(m # 0 /\ trail[m] = position)
    <2>1. trail' = Append(trail, position)
      BY <1>2, <1>6 DEF TakeLine, Trailed, Last
    <2>2. Len(trail') = m + 1 /\ trail'[m + 1] = position /\ \A i \in 1 .. m : trail'[i] = trail[i]
      BY <1>2, <2>1
    <2>3. ~Replaced(checkpoints, c, checkpoints')
      BY <1>1, <1>2, <1>3, <1>6, LatestSample DEF Replaced
    <2>4. CASE Added(checkpoints, c, checkpoints')
      <3>1. Len(checkpoints) = m /\ m < Limit /\ Len(checkpoints') = m + 1
            /\ checkpoints'[m + 1] = c /\ \A i \in 1 .. m : checkpoints'[i] = checkpoints[i]
        BY <1>1, <2>4 DEF Added
      <3>2. ASSUME NEW i \in 1 .. m + 1 PROVE checkpoints'[i].start = trail'[Record(i, m + 1)]
        <4>1. Record(i, m + 1) = i
          BY <1>1, <3>1 DEF Record
        <4>2. CASE i = m + 1
          BY <1>3, <2>2, <3>1, <4>1, <4>2
        <4>3. CASE i # m + 1
          <5>1. i \in 1 .. m
            BY <1>1, <4>3
          <5>2. Record(i, m) = i
            BY <1>1, <3>1 DEF Record
          <5> QED  BY <1>4, <2>2, <3>1, <4>1, <5>1, <5>2
        <4> QED  BY <4>2, <4>3
      <3>3. m + 1 <= Limit
        BY <1>1, <3>1
      <3> QED  BY <2>2, <3>1, <3>2, <3>3 DEF SamplesInv
    <2>5. CASE Thinned(checkpoints, c, checkpoints')
      <3>1. /\ Len(checkpoints) = Limit /\ Len(checkpoints') = Limit /\ checkpoints'[Limit] = c
            /\ \A i \in 1 .. Limit - 1 :
                  checkpoints'[i] = IF i <= Kept THEN checkpoints[i] ELSE checkpoints[i + 1]
        BY <2>5 DEF Thinned
      <3>2. m >= Limit /\ Limit \in Nat
        BY <1>1, <3>1
      <3>3. ASSUME NEW i \in 1 .. Limit PROVE checkpoints'[i].start = trail'[Record(i, m + 1)]
        <4>1. CASE i = Limit
          <5>1. Record(i, m + 1) = m + 1
            BY <1>1, <3>2, <4>1, KeptFacts DEF Record
          <5> QED  BY <1>3, <2>2, <3>1, <4>1, <5>1
        <4>2. CASE i <= Kept
          <5>1. Record(i, m + 1) = i /\ Record(i, m) = i /\ i \in 1 .. m /\ i \in 1 .. Limit - 1
            BY <1>1, <3>2, <4>2, KeptFacts DEF Record
          <5> QED  BY <1>4, <2>2, <3>1, <4>2, <5>1
        <4>3. CASE i # Limit /\ ~(i <= Kept)
          <5>1. i \in 1 .. Limit - 1 /\ i + 1 \in 1 .. Limit
            BY <3>2, <4>3
          <5>2. /\ Record(i, m + 1) = m - Limit + i + 1 /\ Record(i + 1, m) = m - Limit + i + 1
                /\ m - Limit + i + 1 \in 1 .. m
            BY <1>1, <3>2, <4>3, KeptFacts DEF Record
          <5> QED  BY <1>4, <2>2, <3>1, <4>3, <5>1, <5>2
        <4> QED  BY <4>1, <4>2, <4>3
      <3>4. ~(m + 1 <= Limit)
        BY <1>1, <3>2
      <3> QED  BY <2>2, <3>1, <3>3, <3>4 DEF SamplesInv
    <2> QED  BY <1>3, <2>3, <2>4, <2>5
  <1> QED  BY <1>5, <1>6

LEMMA SamplesStep == TypeInv /\ SamplesInv /\ [Next]_vars => SamplesInv'
  <1> SUFFICES ASSUME TypeInv, SamplesInv, [Next]_vars PROVE SamplesInv'
    OBVIOUS
  <1>1. CASE TakeLine /\ source # NoFile
    <2>1. position \in Nat
      BY DEF TypeInv, ReaderOK
    <2>2. MemoryOK /\ NextLine \in Seq(Piece) /\ NextLine # <<>>
      BY <1>1, TakeLineTypes DEF TypeInv
    <2> QED  BY <1>1, <2>1, <2>2, SamplesTakeLine
  <1>2. CASE UNCHANGED <<checkpoints, trail>>
    BY <1>2 DEF SamplesInv
  <1>3. CASE checkpoints' = <<>> /\ trail' = <<>>
    <2>1. Len(checkpoints') = 0 /\ Len(trail') = 0 /\ 0 <= Limit
      BY <1>3
    <2>2. \A i \in 1 .. Len(checkpoints') :
              checkpoints'[i].start = trail'[Record(i, Len(trail'))]
      BY <2>1
    <2> QED  BY <2>1, <2>2 DEF SamplesInv
  <1>4. pc \in {"tail", "sample", "window", "reread", "read"} => source # NoFile
    BY DEF TypeInv, ControlOK, Closed
  <1>5. CASE Reader
    <2>1. CASE TailLine \/ SampleLine \/ WindowLine \/ ReadLine
      BY <1>1, <1>4, <2>1 DEF TailLine, SampleLine, WindowLine, ReadLine
    <2>2. CASE Open \/ TailEnd \/ ShowLine \/ ShowEnd \/ SeekWindow \/ WindowEnd \/ ReadEnd
      BY <1>2, <2>2 DEF Open, TailEnd, ShowLine, ShowEnd, SeekWindow, WindowEnd, ReadEnd, history
    <2>3. CASE \E look \in {"before", "after"} : Stat(look) \/ Check(look)
      BY <1>2, <1>3, <2>3 DEF Stat, Check
    <2> QED  BY <1>5, <2>1, <2>2, <2>3 DEF Reader
  <1>6. CASE Writer
    BY <1>2, <1>6 DEF Writer, AppendTo, Truncate, Rename, followerVars, history
  <1>7. CASE Stop
    BY <1>3, <1>7 DEF Stop
  <1>8. CASE UNCHANGED vars
    BY <1>2, <1>8 DEF vars, followerVars, history
  <1> QED  BY <1>5, <1>6, <1>7, <1>8 DEF Next

\* What is compared with the file before it is read on are the first and the
\* latest records, however many were read and however often one was read
\* again: the list gives up records of the middle alone.
THEOREM SamplesCorrect == Spec => []SamplesKept
  <1>1. Init => SamplesInv
    <2> SUFFICES ASSUME Init PROVE SamplesInv
      OBVIOUS
    <2>1. Len(checkpoints) = 0 /\ Len(trail) = 0 /\ 0 <= Limit
      BY DEF Init
    <2> QED  BY <2>1 DEF SamplesInv
  <1>2. TypeInv /\ SamplesInv => SamplesKept
    <2> SUFFICES ASSUME TypeInv, SamplesInv PROVE SamplesKept
      OBVIOUS
    <2> DEFINE m == Len(trail)
               starts == [i \in DOMAIN checkpoints |-> checkpoints[i].start]
    <2>1. checkpoints \in Seq(Samples) /\ trail \in Seq(Nat) /\ m \in Nat /\ Limit \in Nat
      BY DEF TypeInv, MemoryOK
    <2>2. /\ Len(checkpoints) = (IF m <= Limit THEN m ELSE Limit)
          /\ \A i \in 1 .. Len(checkpoints) : checkpoints[i].start = trail[Record(i, m)]
      BY DEF SamplesInv
    <2>3. \A i \in 1 .. Len(checkpoints) : checkpoints[i] \in Samples /\ checkpoints[i].start \in Nat
      <3>1. \A i \in 1 .. Len(checkpoints) : checkpoints[i] \in Samples
        BY <2>1
      <3> QED  BY <3>1 DEF Samples
    <2>4. /\ starts \in Seq(Nat) /\ Len(starts) = Len(checkpoints)
          /\ \A i \in 1 .. Len(checkpoints) : starts[i] = trail[Record(i, m)]
      <3>1. starts = [i \in 1 .. Len(checkpoints) |-> checkpoints[i].start]
        BY <2>1
      <3>2. starts \in [1 .. Len(checkpoints) -> Nat] /\ Len(checkpoints) \in Nat
        BY <2>1, <2>3, <3>1
      <3>3. starts \in Seq(Nat) /\ Len(starts) = Len(checkpoints)
        BY <3>2
      <3> QED  BY <2>2, <3>1, <3>3
    <2> HIDE DEF starts, m
    <2>5. CASE m <= Limit
      <3>1. Len(starts) = Len(trail) /\ \A i \in 1 .. Len(starts) : starts[i] = trail[i]
        BY <2>2, <2>4, <2>5 DEF Record, m
      <3>2. starts = trail
        BY <2>1, <2>4, <3>1, SeqEqual
      <3> QED  BY <2>5, <3>2 DEF SamplesKept, starts, m
    <2>6. CASE ~(m <= Limit)
      <3> DEFINE a == SubSeq(trail, 1, Kept)
                 b == SubSeq(trail, m - (Limit - Kept) + 1, m)
      <3>1. Kept \in Nat /\ Kept <= Limit /\ Limit < m /\ Limit \in Nat
        BY <2>1, <2>6, KeptFacts
      <3>2. a \in Seq(Nat) /\ Len(a) = Kept /\ \A i \in 1 .. Kept : a[i] = trail[i]
        <4>1. 0 + 1 = 1 /\ Kept - 0 = Kept /\ 0 \in Nat /\ 0 <= Kept /\ Kept <= Len(trail)
          BY <2>1, <3>1 DEF m
        <4>2. \A i \in 1 .. Kept : 0 + i = i
          BY <3>1
        <4> QED  BY <2>1, <3>1, <4>1, <4>2, Part
      <3>3. /\ b \in Seq(Nat) /\ Len(b) = Limit - Kept
            /\ \A i \in 1 .. Limit - Kept : b[i] = trail[m - (Limit - Kept) + i]
        <4> DEFINE from == m - (Limit - Kept)
        <4>1. from \in Nat /\ from <= m /\ m <= Len(trail) /\ m - from = Limit - Kept /\ m \in Nat
          BY <2>1, <3>1 DEF m
        <4>2. b = SubSeq(trail, from + 1, m)
          OBVIOUS
        <4>3. \A i \in 1 .. Limit - Kept : from + i = m - (Limit - Kept) + i
          OBVIOUS
        <4> HIDE DEF b, from
        <4>4. /\ b \in Seq(Nat) /\ Len(b) = m - from
              /\ \A i \in 1 .. m - from : b[i] = trail[from + i]
          BY <2>1, <4>1, <4>2, Part
        <4> QED  BY <4>1, <4>3, <4>4
      <3> HIDE DEF a, b
      <3>4. /\ a \o b \in Seq(Nat) /\ Len(a \o b) = Len(a) + Len(b)
            /\ \A i \in 1 .. Len(a) : (a \o b)[i] = a[i]
            /\ \A i \in 1 .. Len(b) : (a \o b)[Len(a) + i] = b[i]
        <4>1. a \in Seq(Nat) /\ b \in Seq(Nat)
          BY <3>2, <3>3
        <4> QED  BY <4>1, Joined
      <3>5. Len(a \o b) = Limit
        BY <3>1, <3>2, <3>3, <3>4
      <3>6. ASSUME NEW i \in 1 .. Limit PROVE (a \o b)[i] = starts[i]
        <4>1. starts[i] = trail[Record(i, m)]
          BY <2>2, <2>4, <2>6
        <4>2. CASE i <= Kept
          <5>1. i \in 1 .. Kept /\ Record(i, m) = i
            BY <3>1, <4>2 DEF Record
          <5> QED  BY <3>2, <3>4, <4>1, <5>1
        <4>3. CASE ~(i <= Kept)
          <5>1. /\ i - Kept \in 1 .. Limit - Kept /\ Kept + (i - Kept) = i
                /\ Record(i, m) = m - Limit + i /\ m - (Limit - Kept) + (i - Kept) = m - Limit + i
            BY <2>1, <2>6, <3>1, <4>3 DEF Record
          <5>2. (a \o b)[Kept + (i - Kept)] = b[i - Kept]
            BY <3>2, <3>3, <3>4, <5>1
          <5> QED  BY <3>3, <4>1, <5>1, <5>2
        <4> QED  BY <4>2, <4>3
      <3>7. starts = a \o b
        BY <2>2, <2>4, <2>6, <3>4, <3>5, <3>6, SeqEqual
      <3> QED  BY <2>6, <3>7 DEF SamplesKept, starts, m, a, b, Kept
    <2> QED  BY <2>5, <2>6
  <1> QED  BY <1>1, <1>2, TypeInit, TypeStep, SamplesStep, PTL DEF Spec

-----------------------------------------------------------------------------
(* Nothing is skipped.                                                     *)

\* A piece p of the file f as the reducer gets it; l is what the file, of
\* content c, has between two offsets; the lines x follow each other from
\* a[1] to the offset e; and what was given since the last reading from
\* offset 0, which b tells, ends at the offset e.
Mark(f, p) == [file |-> f, id |-> p.id]
LineIs(l, f, c, from, to) ==
    Len(l) = to - from /\ \A i \in 1 .. to - from : l[i] = Mark(f, c[from + i])
Offsets(x, f, c, a, e) ==
    /\ a[Len(x) + 1] = e
    /\ \A i \in 1 .. Len(x) : a[i] <= a[i + 1] /\ LineIs(x[i], f, c, a[i], a[i + 1])
Places(x, e) == [1 .. Len(x) + 1 -> 0 .. e]
GivenTo(d, b, f, c, e) ==
    LET g == Len(d) - b.shown
    IN  /\ b.shown <= Len(d) /\ g <= e /\ (b.whole => g = e)
        /\ \A i \in 1 .. g : d[b.shown + i] = Mark(f, c[e - g + i])

Begun == [shown : Nat, truncations : Nat, whole : BOOLEAN]

\* A line of the file is given to the reducer.
LEMMA GivenFurther ==
    ASSUME NEW d \in Seq(Shown), NEW b \in Begun, NEW f, NEW c, NEW e \in Nat, NEW to \in Nat,
           e <= to, NEW l \in Seq(Shown), GivenTo(d, b, f, c, e), LineIs(l, f, c, e, to)
    PROVE  GivenTo(d \o l, b, f, c, to)
  <1> DEFINE g == Len(d) - b.shown
             h == Len(d \o l) - b.shown
  <1>1. /\ d \o l \in Seq(Shown) /\ Len(d \o l) = Len(d) + Len(l)
        /\ \A i \in 1 .. Len(d) : (d \o l)[i] = d[i]
        /\ \A i \in 1 .. Len(l) : (d \o l)[Len(d) + i] = l[i]
    BY Joined
  <1>2. b.shown \in Nat /\ Len(d) \in Nat
    BY DEF Begun
  <1>3. /\ b.shown <= Len(d) /\ g <= e /\ (b.whole => g = e)
        /\ \A i \in 1 .. g : d[b.shown + i] = Mark(f, c[e - g + i])
    BY DEF GivenTo
  <1>4. Len(l) = to - e /\ \A i \in 1 .. to - e : l[i] = Mark(f, c[e + i])
    BY DEF LineIs
  <1>5. g \in Nat /\ h = g + (to - e) /\ h <= to /\ to - h = e - g
    BY <1>1, <1>2, <1>3, <1>4
  <1>6. b.whole => h = to
    BY <1>3, <1>5
  <1>7. b.shown <= Len(d \o l)
    BY <1>1, <1>2, <1>3, <1>4
  <1>8. b.shown + g = Len(d)
    BY <1>2
  <1> HIDE DEF g, h
  <1>9. ASSUME NEW i \in 1 .. h PROVE (d \o l)[b.shown + i] = Mark(f, c[to - h + i])
    <2> DEFINE k == b.shown + i
    <2>1. CASE i <= g
      <3>1. i \in 1 .. g /\ k \in 1 .. Len(d)
        BY <1>2, <1>5, <1>8, <2>1
      <3>2. (d \o l)[k] = d[k]
        BY <1>1, <3>1
      <3> QED  BY <1>3, <1>5, <3>1, <3>2
    <2>2. CASE ~(i <= g)
      <3>1. /\ i - g \in 1 .. to - e /\ k = Len(d) + (i - g)
            /\ e + (i - g) = e - g + i
        BY <1>2, <1>5, <1>8, <2>2
      <3>2. (d \o l)[k] = l[i - g] /\ l[i - g] = Mark(f, c[e + (i - g)])
        BY <1>1, <1>4, <3>1
      <3> QED  BY <1>5, <3>1, <3>2
    <2> QED  BY <2>1, <2>2
  <1> QED  BY <1>5, <1>6, <1>7, <1>9 DEF GivenTo, h

\* A line is kept behind the others, ...
LEMMA OffsetsAppend ==
    ASSUME NEW x \in Seq(Seq(Shown)), NEW f, NEW c, NEW e \in Nat, NEW to \in Nat, e <= to,
           NEW l \in Seq(Shown), NEW a \in Places(x, e), Offsets(x, f, c, a, e),
           LineIs(l, f, c, e, to)
    PROVE  LET y == Append(x, l)
           IN  \E b \in Places(y, to) : Offsets(y, f, c, b, to)
  <1> DEFINE y == Append(x, l)
             b == [i \in 1 .. Len(y) + 1 |-> IF i = Len(x) + 2 THEN to ELSE a[i]]
  <1>1. Len(x) \in Nat /\ Len(y) = Len(x) + 1 /\ y[Len(x) + 1] = l
        /\ \A i \in 1 .. Len(x) : y[i] = x[i]
    OBVIOUS
  <1> HIDE DEF y
  <1>2. \A i \in 1 .. Len(x) + 1 : a[i] \in 0 .. e
    BY DEF Places
  <1>3. /\ \A i \in 1 .. Len(x) + 1 : b[i] = a[i]
        /\ b[Len(x) + 2] = to
    BY <1>1
  <1>4. b \in Places(y, to)
    <2>1. \A i \in 1 .. Len(y) + 1 : (IF i = Len(x) + 2 THEN to ELSE a[i]) \in 0 .. to
      BY <1>1, <1>2
    <2> QED  BY <2>1, Zenon DEF Places
  <1> HIDE DEF b
  <1>5. ASSUME NEW i \in 1 .. Len(y)
        PROVE  b[i] <= b[i + 1] /\ LineIs(y[i], f, c, b[i], b[i + 1])
    <2>1. CASE i = Len(x) + 1
      <3>1. y[i] = l /\ b[i] = a[Len(x) + 1] /\ b[i + 1] = to /\ a[Len(x) + 1] = e
        BY <1>1, <1>3, <2>1 DEF Offsets
      <3> QED  BY <3>1
    <2>2. CASE i # Len(x) + 1
      <3>1. i \in 1 .. Len(x) /\ i \in 1 .. Len(x) + 1 /\ i + 1 \in 1 .. Len(x) + 1
        BY <1>1, <2>2
      <3>2. y[i] = x[i] /\ b[i] = a[i] /\ b[i + 1] = a[i + 1]
        BY <1>1, <1>3, <3>1
      <3> QED  BY <3>1, <3>2 DEF Offsets
    <2> QED  BY <2>1, <2>2
  <1>6. b[Len(y) + 1] = to
    BY <1>1, <1>3
  <1> QED  BY <1>4, <1>5, <1>6 DEF Offsets, y

\* ... and the first one is given up or given to the reducer.
LEMMA OffsetsTail ==
    ASSUME NEW x \in Seq(Seq(Shown)), x # <<>>, NEW f, NEW c, NEW e \in Nat,
           NEW a \in Places(x, e), Offsets(x, f, c, a, e)
    PROVE  LET b == [i \in 1 .. Len(x) |-> a[i + 1]]
           IN  /\ b \in Places(Tail(x), e) /\ Offsets(Tail(x), f, c, b, e)
               /\ b[1] = a[2] /\ a[1] \in Nat /\ a[2] \in Nat /\ a[1] <= a[2] /\ a[2] <= e
               /\ LineIs(Head(x), f, c, a[1], a[2])
  <1> DEFINE b == [i \in 1 .. Len(x) |-> a[i + 1]]
             y == Tail(x)
  <1>1. /\ Len(x) \in Nat /\ 1 <= Len(x) /\ Len(y) = Len(x) - 1 /\ Head(x) = x[1]
        /\ \A i \in 1 .. Len(y) : y[i] = x[i + 1]
    BY HeadTailProperties
  <1> HIDE DEF y
  <1>2. \A i \in 1 .. Len(x) + 1 : a[i] \in 0 .. e
    BY DEF Places
  <1>3. \A i \in 1 .. Len(x) : b[i] = a[i + 1] /\ i + 1 \in 1 .. Len(x) + 1
    BY <1>1
  <1>4. b \in [1 .. Len(x) -> 0 .. e]
    BY <1>2, <1>3
  <1>5. Len(y) + 1 = Len(x) /\ Len(x) \in 1 .. Len(x)
    BY <1>1
  <1>6. b[Len(y) + 1] = e
    BY <1>3, <1>5 DEF Offsets
  <1> HIDE DEF b
  <1>7. ASSUME NEW i \in 1 .. Len(y)
        PROVE  b[i] <= b[i + 1] /\ LineIs(y[i], f, c, b[i], b[i + 1])
    <2>1. i \in 1 .. Len(x) /\ i + 1 \in 1 .. Len(x)
      BY <1>1
    <2>2. y[i] = x[i + 1] /\ b[i] = a[i + 1] /\ b[i + 1] = a[(i + 1) + 1]
      BY <1>1, <1>3, <2>1
    <2> QED  BY <2>1, <2>2 DEF Offsets
  <1>8. b \in Places(y, e) /\ Offsets(y, f, c, b, e)
    BY <1>4, <1>5, <1>6, <1>7, Zenon DEF Places, Offsets
  <1>9. /\ a[1] \in Nat /\ a[2] \in Nat /\ a[1] <= a[2] /\ a[2] <= e
        /\ LineIs(Head(x), f, c, a[1], a[2])
    <2>1. 1 \in 1 .. Len(x) /\ 1 \in 1 .. Len(x) + 1 /\ 1 + 1 \in 1 .. Len(x) + 1 /\ 1 + 1 = 2
      BY <1>1
    <2>2. a[1] \in 0 .. e /\ a[2] \in 0 .. e
      BY <1>2, <2>1
    <2>3. a[1] <= a[2] /\ LineIs(x[1], f, c, a[1], a[2])
      BY <2>1 DEF Offsets
    <2> QED  BY <1>1, <2>2, <2>3
  <1>10. b[1] = a[2]
    <2>1. 1 \in 1 .. Len(x) /\ 1 + 1 = 2
      BY <1>1
    <2> QED  BY <1>3, <2>1
  <1> QED  BY <1>8, <1>9, <1>10 DEF b, y

\* What follows the offset may change.
LEMMA OffsetsKept ==
    ASSUME NEW x \in Seq(Seq(Shown)), NEW f, NEW c, NEW k, NEW e \in Nat,
           \A i \in 1 .. e : k[i] = c[i],
           NEW a \in Places(x, e), Offsets(x, f, c, a, e)
    PROVE  Offsets(x, f, k, a, e)
  <1>1. Len(x) \in Nat
    OBVIOUS
  <1>2. ASSUME NEW i \in 1 .. Len(x)
        PROVE  LineIs(x[i], f, k, a[i], a[i + 1])
    <2>1. i \in 1 .. Len(x) + 1 /\ i + 1 \in 1 .. Len(x) + 1
      BY <1>1
    <2>2. a[i] \in 0 .. e /\ a[i + 1] \in 0 .. e
      BY <2>1 DEF Places
    <2>3. LineIs(x[i], f, c, a[i], a[i + 1])
      BY DEF Offsets
    <2>4. ASSUME NEW j \in 1 .. a[i + 1] - a[i] PROVE k[a[i] + j] = c[a[i] + j]
      <3>1. a[i] + j \in 1 .. e
        BY <2>2
      <3> QED  BY <3>1
    <2> QED  BY <2>3, <2>4 DEF LineIs
  <1> QED  BY <1>2 DEF Offsets

LEMMA GivenKept ==
    ASSUME NEW d \in Seq(Shown), NEW b \in Begun, NEW f, NEW c, NEW k, NEW e \in Nat,
           \A i \in 1 .. e : k[i] = c[i], GivenTo(d, b, f, c, e)
    PROVE  GivenTo(d, b, f, k, e)
  <1> DEFINE g == Len(d) - b.shown
  <1>1. b.shown \in Nat /\ Len(d) \in Nat
    BY DEF Begun
  <1>2. /\ b.shown <= Len(d) /\ g <= e /\ (b.whole => g = e)
        /\ \A i \in 1 .. g : d[b.shown + i] = Mark(f, c[e - g + i])
    BY DEF GivenTo
  <1>3. ASSUME NEW i \in 1 .. g PROVE d[b.shown + i] = Mark(f, k[e - g + i])
    <2>1. e - g + i \in 1 .. e
      BY <1>1, <1>2
    <2> QED  BY <1>2, <2>1
  <1> QED  BY <1>2, <1>3 DEF GivenTo

LEMMA GivenNothing ==
    ASSUME NEW d, d = <<>>, NEW b \in Begun, b.shown = 0, ~b.whole, NEW f, NEW c, NEW e \in Nat
    PROVE  GivenTo(d, b, f, c, e)
  <1>1. Len(d) = 0 /\ Len(d) - b.shown = 0
    OBVIOUS
  <1> QED  BY <1>1 DEF GivenTo

\* The file was not truncated since it was last read from its beginning.
Current == position > 0 => begun.truncations = truncated[source]

\* How the readings begin: the context is shown before anything else is.
PhaseInv ==
    /\ position = 0 => ahead = <<>>
    /\ firstOpen => pc = "open" /\ begun = [shown |-> 0, truncations |-> 0, whole |-> FALSE]
    /\ (firstOpen \/ pc \in Tailing \ {"show"}) => delivered = <<>>
    /\ pc \in Tailing => ~begun.whole /\ begun.shown = 0
    /\ pc \notin {"tail", "show"} => context = <<>>
    /\ (source # NoFile /\ (pc \in Tailing \/ position > 0)) => begun.truncations <= truncated[source]

\* What was fetched is what the file has there.
AheadInv ==
    (source # NoFile /\ Current) =>
        /\ position + Len(ahead) <= Len(files[source])
        /\ \A i \in 1 .. Len(ahead) : ahead[i] = files[source][position + i]

\* What was given and what is kept for it follow each other in the file, up to
\* the offset.
ShownInv ==
    (source # NoFile /\ (pc \in Tailing \/ position > 0) /\ Current) =>
        \E a \in Places(context, position) :
            /\ Offsets(context, source, files[source], a, position)
            /\ GivenTo(delivered, begun, source, files[source], a[1])

FlowInv == PhaseInv /\ AheadInv /\ ShownInv

\* The line that is taken.
LEMMA TakeLineFlow ==
    ASSUME TypeInv, PhaseInv, AheadInv, source # NoFile, TakeLine,
           UNCHANGED <<files, truncated, source>>
    PROVE  /\ position \in Nat /\ position' \in Nat /\ position < position'
           /\ begun' \in Begun /\ (position > 0 => begun' = begun)
           /\ Given(NextLine) \in Seq(Shown)
           /\ (pc \in Tailing \/ position > 0) => begun.truncations <= truncated[source]
           /\ begun'.truncations <= truncated[source]
           /\ Current' => /\ Current /\ AheadInv'
                          /\ LineIs(Given(NextLine), source, files[source], position, position')
                          /\ position' <= Len(files[source])
                          /\ \A i \in 1 .. Len(NextLine) : NextLine[i] = files[source][position + i]
  <1> DEFINE n == Len(NextLine)
             c == files[source]
             rest == SubSeq(Readable, n + 1, Len(Readable))
  <1>1. WritersOK /\ ReaderOK /\ ~AtEnd /\ position \in Nat /\ source \in Files /\ c \in Seq(Piece)
        /\ Len(c) \in Nat
    BY OpenSource DEF TypeInv, ReaderOK, TakeLine
  <1>2. /\ NextLine \in Seq(Piece) /\ n \in Nat /\ 1 <= n /\ n <= Len(Readable)
        /\ \A i \in 1 .. n : NextLine[i] = Readable[i]
        /\ rest \in Seq(Piece) /\ Len(rest) = Len(Readable) - n
        /\ \A i \in 1 .. Len(rest) : rest[i] = Readable[n + i]
    BY <1>1, TakeLineFacts
  <1>3. /\ Len(Readable) \in Nat /\ Len(ahead) <= Len(Readable)
        /\ \A i \in 1 .. Len(ahead) : Readable[i] = ahead[i]
        /\ \A i \in 1 .. Len(Readable) : Len(ahead) < i => Readable[i] = c[position + i]
        /\ Readable = ahead \/ position + Len(Readable) <= Len(c)
    BY <1>1, ReadableFacts
  <1>4. position' = position + n /\ ahead' = rest
    BY DEF TakeLine
  <1>5. /\ Given(NextLine) \in Seq(Shown) /\ Len(Given(NextLine)) = n
        /\ \A i \in 1 .. n : Given(NextLine)[i] = Mark(source, NextLine[i])
    BY <1>1, <1>2, GivenFacts DEF Mark
  <1> HIDE DEF n, rest, c
  <1>6. position' \in Nat /\ position < position'
    BY <1>1, <1>2, <1>4
  <1>7. begun' \in Begun
    BY TakeLineTypes DEF Begun
  <1>8. /\ position > 0 => begun' = begun
        /\ position = 0 => begun'.truncations = truncated[source]
    BY <1>1 DEF TakeLine
  <1>9. truncated[source] \in Nat /\ ((pc \in Tailing \/ position > 0) => begun.truncations <= truncated[source])
    BY <1>1 DEF WritersOK, PhaseInv
  <1>10. begun'.truncations <= truncated[source]
    BY <1>1, <1>8, <1>9
  <1>11. ASSUME Current'
         PROVE  /\ Current /\ AheadInv' /\ LineIs(Given(NextLine), source, c, position, position')
                /\ position' <= Len(c) /\ \A i \in 1 .. n : NextLine[i] = c[position + i]
    <2>1. Current
      BY <1>1, <1>6, <1>8, <1>11 DEF Current
    <2>2. /\ position + Len(ahead) <= Len(c)
          /\ \A i \in 1 .. Len(ahead) : ahead[i] = c[position + i]
      BY <2>1 DEF AheadInv, c
    <2>3. position + Len(Readable) <= Len(c)
      BY <1>3, <2>2
    <2>4. ASSUME NEW i \in 1 .. Len(Readable) PROVE Readable[i] = c[position + i]
      <3>1. Len(ahead) \in Nat
        BY <1>1 DEF ReaderOK
      <3>2. CASE Len(ahead) < i
        BY <1>3, <3>2
      <3>3. CASE ~(Len(ahead) < i)
        <4>1. i \in 1 .. Len(ahead)
          BY <1>3, <3>1, <3>3
        <4> QED  BY <1>3, <2>2, <4>1
      <3> QED  BY <3>2, <3>3
    <2>5. LineIs(Given(NextLine), source, c, position, position')
      <3>1. position' - position = n
        BY <1>1, <1>2, <1>4
      <3>2. ASSUME NEW i \in 1 .. n PROVE Given(NextLine)[i] = Mark(source, c[position + i])
        <4>1. i \in 1 .. Len(Readable)
          BY <1>2, <1>3
        <4> QED  BY <1>2, <1>5, <2>4, <4>1
      <3> QED  BY <1>5, <3>1, <3>2 DEF LineIs
    <2>6. AheadInv'
      <3>1. position' + Len(rest) = position + Len(Readable) /\ Len(rest) \in Nat
        BY <1>1, <1>2, <1>3, <1>4
      <3>2. ASSUME NEW i \in 1 .. Len(rest) PROVE rest[i] = c[position' + i]
        <4>1. Len(rest) = Len(Readable) - n /\ position' = position + n
          BY <1>2, <1>4
        <4>2. n + i \in 1 .. Len(Readable)
          BY <1>2, <1>3, <3>1, <4>1
        <4>3. position + (n + i) = position' + i
          BY <1>1, <1>2, <4>1
        <4> QED  BY <1>2, <2>4, <4>2, <4>3
      <3>3. position' + Len(rest) <= Len(c)
        BY <2>3, <3>1
      <3>4. files'[source'] = c /\ source' = source
        BY DEF c
      <3> QED  BY <1>4, <3>2, <3>3, <3>4, Zenon DEF AheadInv
    <2>7. \A i \in 1 .. n : NextLine[i] = c[position + i]
      <3>1. \A i \in 1 .. n : i \in 1 .. Len(Readable)
        BY <1>2, <1>3
      <3> QED  BY <1>2, <2>4, <3>1
    <2>8. position' <= Len(c)
      BY <1>1, <1>2, <1>3, <1>4, <2>3
    <2> QED  BY <2>1, <2>5, <2>6, <2>7, <2>8
  <1> QED  BY <1>1, <1>5, <1>6, <1>7, <1>8, <1>9, <1>10, <1>11 DEF c, n

LEMMA FlowOpen ==
    ASSUME TypeInv, FlowInv, Open
    PROVE  FlowInv'
  <1>1. /\ position' = 0 /\ ahead' = <<>> /\ firstOpen' = FALSE /\ pc = "open"
        /\ UNCHANGED <<writerVars, context, delivered, begun>>
        /\ source' = name /\ name # NoFile
        /\ pc' = IF ~firstOpen THEN "reread" ELSE IF options.lines = 0 THEN "sample" ELSE "tail"
    BY DEF Open, history
  <1>2. /\ context = <<>> /\ (firstOpen => delivered = <<>>)
        /\ firstOpen => begun = [shown |-> 0, truncations |-> 0, whole |-> FALSE]
    BY <1>1 DEF FlowInv, PhaseInv
  <1>3. pc' \in Tailing => firstOpen
    BY <1>1 DEF Tailing
  <1>4. firstOpen => begun.shown = 0 /\ begun.truncations = 0 /\ ~begun.whole
    BY <1>2
  <1>5. truncated[name] \in Nat /\ name \in Files
    <2>1. name \in Files
      BY <1>1 DEF TypeInv, WritersOK, Files, NoFile
    <2>2. truncated \in [Files -> 0 .. MaxTruncations]
      BY DEF TypeInv, WritersOK
    <2> QED  BY <2>1, <2>2
  <1>6. PhaseInv'
    <2>1. pc' \in {"reread", "sample", "tail"}
      BY <1>1
    <2>2. (source' # NoFile /\ (pc' \in Tailing \/ position' > 0)) => begun'.truncations <= truncated'[source']
      BY <1>1, <1>3, <1>4, <1>5 DEF writerVars
    <2>3. pc' \notin {"tail", "show"} => context' = <<>>
      BY <1>1, <1>2
    <2>4. (firstOpen' \/ pc' \in Tailing \ {"show"}) => delivered' = <<>>
      BY <1>1, <1>2, <1>3
    <2>5. pc' \in Tailing => ~begun'.whole /\ begun'.shown = 0
      BY <1>1, <1>3, <1>4
    <2> QED  BY <1>1, <2>2, <2>3, <2>4, <2>5 DEF PhaseInv
  <1>7. AheadInv'
    <2>1. Len(files[name]) \in Nat
      BY <1>5 DEF TypeInv, WritersOK
    <2>2. Len(ahead') = 0 /\ position' + Len(ahead') <= Len(files[name])
      BY <1>1, <2>1
    <2> QED  BY <1>1, <2>2 DEF AheadInv, writerVars
  <1>8. ShownInv'
    <2> SUFFICES ASSUME pc' \in Tailing
                 PROVE  \E a \in Places(context', position') :
                           /\ Offsets(context', source', files'[source'], a, position')
                           /\ GivenTo(delivered', begun', source', files'[source'], a[1])
      BY <1>1 DEF ShownInv
    <2> DEFINE a == [i \in 1 .. 1 |-> 0]
    <2>1. a \in Places(context', position') /\ a[1] = 0
      BY <1>1, <1>2 DEF Places
    <2>2. Offsets(context', source', files'[source'], a, position')
      <3>1. Len(context') = 0
        BY <1>1, <1>2
      <3> QED  BY <1>1, <2>1, <3>1 DEF Offsets
    <2>3. GivenTo(delivered', begun', source', files'[source'], 0)
      <3>1. begun' \in Begun /\ begun'.shown = 0 /\ ~begun'.whole /\ delivered' = <<>>
        BY <1>1, <1>2, <1>3, <1>4 DEF TypeInv, MemoryOK, Begun
      <3> QED  BY <3>1, GivenNothing
    <2> QED  BY <2>1, <2>2, <2>3
  <1> QED  BY <1>6, <1>7, <1>8 DEF FlowInv

LEMMA FlowTailLine ==
    ASSUME TypeInv, FlowInv, TailLine
    PROVE  FlowInv'
  <1> DEFINE l == Given(NextLine)
             c == files[source]
             all == Append(context, l)
  <1>1. source # NoFile /\ TakeLine /\ pc = "tail" /\ pc' = "tail" /\ pc' \in Tailing
        /\ UNCHANGED <<files, truncated, source, firstOpen, delivered>>
        /\ context' = IF Len(all) > options.lines THEN Tail(all) ELSE all
    BY DEF TypeInv, ControlOK, TailLine, Closed, Tailing, writerVars
  <1>2. /\ position \in Nat /\ position' \in Nat /\ position < position'
        /\ begun' \in Begun /\ (position > 0 => begun' = begun)
        /\ l \in Seq(Shown)
        /\ begun'.truncations <= truncated[source]
        /\ Current' => /\ Current /\ AheadInv'
                       /\ LineIs(l, source, c, position, position')
    BY <1>1, TakeLineFlow DEF FlowInv
  <1>3. delivered = <<>> /\ ~firstOpen /\ begun.shown = 0 /\ ~begun.whole
    BY <1>1 DEF FlowInv, PhaseInv
  <1>4. begun'.shown = 0 /\ ~begun'.whole
    <2>1. CASE position = 0
      <3>1. begun' = [shown |-> Len(delivered), truncations |-> truncated[source],
                      whole |-> pc \notin Tailing]
        BY <1>1, <2>1 DEF TakeLine
      <3>2. Len(delivered) = 0 /\ pc \in Tailing
        BY <1>1, <1>3
      <3> QED  BY <3>1, <3>2
    <2>2. CASE position # 0
      BY <1>2, <1>3, <2>2
    <2> QED  BY <2>1, <2>2
  <1>5. PhaseInv'
    <2>1. position' # 0
      BY <1>2
    <2>2. pc' \notin {"tail", "show"} => context' = <<>>
      BY <1>1
    <2> QED  BY <1>1, <1>2, <1>3, <1>4, <2>1, <2>2 DEF PhaseInv
  <1>6. AheadInv'
    BY <1>2 DEF AheadInv
  <1>7. ShownInv'
    <2> SUFFICES ASSUME Current'
                 PROVE  \E a \in Places(context', position') :
                           /\ Offsets(context', source', files'[source'], a, position')
                           /\ GivenTo(delivered', begun', source', files'[source'], a[1])
      BY DEF ShownInv
    <2>1. PICK a \in Places(context, position) : Offsets(context, source, c, a, position)
      BY <1>1, <1>2 DEF FlowInv, ShownInv
    <2>2. LineIs(l, source, c, position, position')
      BY <1>2
    <2>3. context \in Seq(Seq(Shown))
      BY DEF TypeInv, MemoryOK
    <2> HIDE DEF l, c
    <2>4. PICK b \in Places(all, position') : Offsets(all, source, c, b, position')
      BY <1>2, <2>1, <2>2, <2>3, OffsetsAppend
    <2>5. all \in Seq(Seq(Shown)) /\ Len(all) = Len(context) + 1 /\ all # <<>> /\ Len(context) \in Nat
      BY <1>2, <2>3
    <2> HIDE DEF all
    <2>6. \E d \in Places(context', position') :
             Offsets(context', source, c, d, position') /\ d[1] \in Nat
      <3>1. CASE context' = all
        <4>1. b \in Places(context', position') /\ Offsets(context', source, c, b, position')
          BY <2>4, <3>1
        <4>2. 1 \in 1 .. Len(all) + 1
          BY <2>5
        <4>3. b[1] \in 0 .. position'
          BY <2>4, <4>2 DEF Places
        <4>4. b[1] \in Nat
          BY <1>2, <4>3
        <4> QED  BY <4>1, <4>4
      <3>2. CASE context' = Tail(all)
        <4> DEFINE d == [i \in 1 .. Len(all) |-> b[i + 1]]
        <4>1. /\ d \in Places(Tail(all), position') /\ Offsets(Tail(all), source, c, d, position')
              /\ d[1] = b[2] /\ b[2] \in Nat
          BY <1>2, <2>4, <2>5, OffsetsTail
        <4> HIDE DEF d
        <4> QED  BY <3>2, <4>1, Zenon
      <3> QED  BY <1>1, <3>1, <3>2
    <2>7. PICK d \in Places(context', position') :
             Offsets(context', source, c, d, position') /\ d[1] \in Nat
      BY <2>6
    <2>8. GivenTo(delivered', begun', source, c, d[1])
      BY <1>1, <1>2, <1>3, <1>4, <2>7, GivenNothing
    <2>9. files'[source'] = c /\ source' = source
      BY <1>1 DEF c
    <2> QED  BY <2>7, <2>8, <2>9
  <1> QED  BY <1>5, <1>6, <1>7 DEF FlowInv

LEMMA FlowShowLine ==
    ASSUME TypeInv, FlowInv, ShowLine
    PROVE  FlowInv'
  <1>1. /\ pc = "show" /\ pc' = pc /\ context # <<>> /\ pc \in Tailing
        /\ delivered' = delivered \o Head(context) /\ context' = Tail(context)
        /\ UNCHANGED <<files, truncated, source, position, ahead, firstOpen, begun>>
    BY DEF ShowLine, writerVars, readerVars, history, Tailing
  <1>2. Current' <=> Current
    BY <1>1 DEF Current
  <1>3. PhaseInv'
    BY <1>1 DEF FlowInv, PhaseInv
  <1>4. AheadInv'
    BY <1>1, <1>2 DEF FlowInv, AheadInv
  <1>5. ShownInv'
    <2> SUFFICES ASSUME source # NoFile, Current
                 PROVE  \E a \in Places(context', position') :
                           /\ Offsets(context', source', files'[source'], a, position')
                           /\ GivenTo(delivered', begun', source', files'[source'], a[1])
      BY <1>1, <1>2 DEF ShownInv
    <2> DEFINE c == files[source]
    <2>1. PICK a \in Places(context, position) :
             Offsets(context, source, c, a, position) /\ GivenTo(delivered, begun, source, c, a[1])
      BY <1>1 DEF FlowInv, ShownInv
    <2>2. /\ context \in Seq(Seq(Shown)) /\ delivered \in Seq(Shown) /\ begun \in Begun
          /\ position \in Nat
      BY DEF TypeInv, MemoryOK, ReaderOK, Begun
    <2> DEFINE b == [i \in 1 .. Len(context) |-> a[i + 1]]
    <2> HIDE DEF c
    <2>3. /\ b \in Places(Tail(context), position) /\ Offsets(Tail(context), source, c, b, position)
          /\ b[1] = a[2] /\ a[1] \in Nat /\ a[2] \in Nat /\ a[1] <= a[2] /\ a[2] <= position
          /\ LineIs(Head(context), source, c, a[1], a[2])
      BY <1>1, <2>1, <2>2, OffsetsTail
    <2>4. Head(context) \in Seq(Shown)
      BY <1>1, <2>2
    <2> HIDE DEF b
    <2>5. GivenTo(delivered', begun, source, c, b[1])
      BY <1>1, <2>1, <2>2, <2>3, <2>4, GivenFurther
    <2>6. files'[source'] = c /\ source' = source /\ begun' = begun /\ position' = position
          /\ context' = Tail(context)
      BY <1>1 DEF c
    <2> QED  BY <2>3, <2>5, <2>6
  <1> QED  BY <1>3, <1>4, <1>5 DEF FlowInv

\* Nothing is kept.
LEMMA OnePlace ==
    ASSUME NEW x, x = <<>>, NEW f, NEW c, NEW e \in Nat, NEW d, NEW b, GivenTo(d, b, f, c, e)
    PROVE  \E a \in Places(x, e) : Offsets(x, f, c, a, e) /\ GivenTo(d, b, f, c, a[1])
  <1> DEFINE a == [i \in 1 .. 1 |-> e]
  <1>1. Len(x) = 0
    OBVIOUS
  <1>2. a \in Places(x, e) /\ a[1] = e
    BY <1>1 DEF Places
  <1>3. Offsets(x, f, c, a, e)
    BY <1>1, <1>2 DEF Offsets
  <1> HIDE DEF a
  <1> QED  BY <1>2, <1>3

LEMMA TheOnlyPlace ==
    ASSUME NEW x, x = <<>>, NEW f, NEW c, NEW e, NEW d, NEW b,
           \E a \in Places(x, e) : Offsets(x, f, c, a, e) /\ GivenTo(d, b, f, c, a[1])
    PROVE  GivenTo(d, b, f, c, e)
  <1>1. PICK a \in Places(x, e) : Offsets(x, f, c, a, e) /\ GivenTo(d, b, f, c, a[1])
    OBVIOUS
  <1>2. Len(x) + 1 = 1
    OBVIOUS
  <1>3. a[1] = e
    BY <1>1, <1>2 DEF Offsets
  <1> QED  BY <1>1, <1>3

\* While the end of the file is looked for, nothing was given.
LEMMA ShownNothing ==
    ASSUME source' # NoFile, position' \in Nat, context' = <<>>, delivered' = <<>>,
           begun' \in Begun, begun'.shown = 0, ~begun'.whole
    PROVE  ShownInv'
  <1>1. GivenTo(delivered', begun', source', files'[source'], position')
    BY GivenNothing
  <1>2. \E a \in Places(context', position') :
           /\ Offsets(context', source', files'[source'], a, position')
           /\ GivenTo(delivered', begun', source', files'[source'], a[1])
    BY <1>1, OnePlace
  <1> QED  BY <1>2 DEF ShownInv

LEMMA FlowSampleLine ==
    ASSUME TypeInv, FlowInv, SampleLine \/ WindowLine
    PROVE  FlowInv'
  <1>1. /\ source # NoFile /\ TakeLine /\ pc \in {"sample", "window"} /\ pc' = pc
        /\ pc \in Tailing \ {"show"} /\ pc # "open"
        /\ UNCHANGED <<files, truncated, source, firstOpen, context, delivered>>
    BY DEF TypeInv, ControlOK, SampleLine, WindowLine, Closed, Tailing, writerVars
  <1>2. /\ position \in Nat /\ position' \in Nat /\ position < position'
        /\ begun' \in Begun /\ (position > 0 => begun' = begun)
        /\ begun'.truncations <= truncated[source]
        /\ Current' => AheadInv'
    BY <1>1, TakeLineFlow DEF FlowInv
  <1>3. delivered = <<>> /\ ~firstOpen /\ begun.shown = 0 /\ ~begun.whole /\ context = <<>>
    BY <1>1 DEF FlowInv, PhaseInv
  <1>4. begun'.shown = 0 /\ ~begun'.whole
    <2>1. CASE position = 0
      <3>1. begun' = [shown |-> Len(delivered), truncations |-> truncated[source],
                      whole |-> pc \notin Tailing]
        BY <1>1, <2>1 DEF TakeLine
      <3>2. Len(delivered) = 0 /\ pc \in Tailing
        BY <1>1, <1>3
      <3> QED  BY <3>1, <3>2
    <2>2. CASE position # 0
      BY <1>2, <1>3, <2>2
    <2> QED  BY <2>1, <2>2
  <1>5. PhaseInv'
    <2>1. position' # 0
      BY <1>2
    <2> QED  BY <1>1, <1>2, <1>3, <1>4, <2>1 DEF PhaseInv
  <1>6. AheadInv'
    BY <1>2 DEF AheadInv
  <1>7. ShownInv'
    BY <1>1, <1>2, <1>3, <1>4, ShownNothing
  <1> QED  BY <1>5, <1>6, <1>7 DEF FlowInv

LEMMA FlowWindow ==
    ASSUME TypeInv, FlowInv, SeekWindow \/ WindowEnd
    PROVE  FlowInv'
  <1>1. /\ source # NoFile /\ pc \in Tailing \ {"show"} /\ pc' \in {"window", "before", "finished"}
        /\ pc \notin {"tail", "show", "open"}
        /\ UNCHANGED <<files, truncated, source, firstOpen, context, delivered, begun>>
    BY DEF TypeInv, ControlOK, SeekWindow, WindowEnd, Closed, Tailing, writerVars, AfterTail, history
  <1>2. /\ delivered = <<>> /\ ~firstOpen /\ begun.shown = 0 /\ ~begun.whole /\ context = <<>>
        /\ begun.truncations <= truncated[source]
    BY <1>1 DEF FlowInv, PhaseInv
  <1>3. Len(files[source]) \in Nat
    BY <1>1, OpenSource DEF TypeInv
  <1>4. ahead' = <<>> /\ position' \in Nat /\ position' <= Len(files[source])
    <2>1. CASE SeekWindow
      <3>1. Len(files[source]) - Window \in Int
        BY <1>3
      <3>2. position' \in Nat /\ position' <= Len(files[source])
        BY <1>3, <2>1, <3>1, LargerOf DEF SeekWindow
      <3> QED  BY <2>1, <3>2 DEF SeekWindow
    <2>2. CASE WindowEnd
      <3>1. Readable = <<>> /\ position' = Len(files[source]) /\ ahead' = ahead
        BY <2>2 DEF WindowEnd, AtEnd
      <3>2. Len(ahead) <= 0 /\ ahead \in Seq(Piece)
        BY <1>1, <3>1, ReadableFacts DEF TypeInv, ReaderOK
      <3>3. ahead = <<>>
        BY <3>2
      <3> QED  BY <1>3, <3>1, <3>3
    <2> QED  BY <2>1, <2>2
  <1>5. PhaseInv'
    BY <1>1, <1>2, <1>4 DEF PhaseInv
  <1>6. AheadInv'
    <2>1. Len(ahead') = 0
      BY <1>4
    <2>2. position' + Len(ahead') <= Len(files[source])
      BY <1>4, <2>1
    <2> QED  BY <1>1, <2>1, <2>2 DEF AheadInv
  <1>7. begun' \in Begun
    BY <1>1 DEF TypeInv, MemoryOK, Begun
  <1>8. ShownInv'
    BY <1>1, <1>2, <1>4, <1>7, ShownNothing
  <1> QED  BY <1>5, <1>6, <1>8 DEF FlowInv

\* A reading that starts anew has given nothing yet.
LEMMA GivenSoFar ==
    ASSUME TypeInv, FlowInv, source # NoFile, TakeLine, pc \notin Tailing,
           UNCHANGED <<files, truncated, source>>, Current'
    PROVE  GivenTo(delivered, begun', source, files[source], position)
  <1> DEFINE c == files[source]
  <1>1. /\ position \in Nat /\ (position > 0 => begun' = begun) /\ Current
    BY TakeLineFlow DEF FlowInv
  <1>2. CASE position = 0
    <2>1. begun'.shown = Len(delivered) /\ Len(delivered) \in Nat
      BY <1>2 DEF TakeLine, TypeInv, MemoryOK
    <2>2. Len(delivered) - begun'.shown = 0
      BY <2>1
    <2> QED  BY <1>2, <2>1, <2>2 DEF GivenTo
  <1>3. CASE position # 0
    <2>1. position > 0
      BY <1>1, <1>3
    <2>2. \E a \in Places(context, position) :
             Offsets(context, source, c, a, position) /\ GivenTo(delivered, begun, source, c, a[1])
      BY <1>1, <2>1 DEF FlowInv, ShownInv
    <2>3. context = <<>>
      BY DEF FlowInv, PhaseInv, Tailing
    <2> HIDE DEF c
    <2>4. GivenTo(delivered, begun, source, c, position)
      BY <2>2, <2>3, TheOnlyPlace
    <2> QED  BY <1>1, <2>1, <2>4 DEF c
  <1> QED  BY <1>2, <1>3

LEMMA FlowReadLine ==
    ASSUME TypeInv, FlowInv, ReadLine
    PROVE  FlowInv'
  <1> DEFINE l == Given(NextLine)
             c == files[source]
  <1>1. /\ source # NoFile /\ TakeLine /\ pc \in {"reread", "read"} /\ pc' = pc
        /\ pc \notin Tailing /\ pc \notin {"tail", "show", "open"}
        /\ delivered' = delivered \o l
        /\ UNCHANGED <<files, truncated, source, firstOpen, context>>
    BY DEF TypeInv, ControlOK, ReadLine, Closed, Tailing, writerVars
  <1>2. /\ position \in Nat /\ position' \in Nat /\ position < position'
        /\ begun' \in Begun /\ (position > 0 => begun' = begun)
        /\ l \in Seq(Shown)
        /\ begun'.truncations <= truncated[source]
        /\ Current' => Current /\ AheadInv' /\ LineIs(l, source, c, position, position')
    BY <1>1, TakeLineFlow DEF FlowInv
  <1>3. ~firstOpen /\ context = <<>>
    BY <1>1 DEF FlowInv, PhaseInv
  <1>4. PhaseInv'
    <2>1. position' # 0
      BY <1>2
    <2> QED  BY <1>1, <1>2, <1>3, <2>1 DEF PhaseInv
  <1>5. AheadInv'
    BY <1>2 DEF AheadInv
  <1>6. ShownInv'
    <2> SUFFICES ASSUME Current'
                 PROVE  \E a \in Places(context', position') :
                           /\ Offsets(context', source', files'[source'], a, position')
                           /\ GivenTo(delivered', begun', source', files'[source'], a[1])
      BY DEF ShownInv
    <2>1. delivered \in Seq(Shown) /\ Current /\ LineIs(l, source, c, position, position')
      BY <1>2 DEF TypeInv, MemoryOK
    <2>2. GivenTo(delivered, begun', source, c, position)
      BY <1>1, GivenSoFar
    <2> HIDE DEF l, c
    <2>3. GivenTo(delivered', begun', source, c, position')
      BY <1>1, <1>2, <2>1, <2>2, GivenFurther
    <2>4. context' = <<>> /\ source' = source /\ files'[source'] = c
      BY <1>1, <1>3 DEF c
    <2> QED  BY <1>2, <2>3, <2>4, OnePlace
  <1> QED  BY <1>4, <1>5, <1>6 DEF FlowInv

\* Steps that move neither the offset nor what was given.
LEMMA FlowKept ==
    ASSUME TypeInv, FlowInv,
           UNCHANGED <<files, truncated, source, position, context, delivered, begun, firstOpen>>,
           ahead' = ahead \/ ahead' = <<>>,
           pc' = pc \/ ~firstOpen,
           pc' \in Tailing => pc \in Tailing,
           pc' \in Tailing \ {"show"} => pc \in Tailing \ {"show"},
           pc' \in {"tail", "show"} \/ context = <<>>
    PROVE  FlowInv'
  <1>1. PhaseInv'
    BY DEF FlowInv, PhaseInv
  <1>2. (Current' <=> Current) /\ position \in Nat
    BY DEF Current, TypeInv, ReaderOK
  <1>3. AheadInv'
    <2>1. CASE ahead' = ahead
      BY <1>2, <2>1 DEF FlowInv, AheadInv
    <2>2. CASE ahead' = <<>>
      <3> SUFFICES ASSUME source # NoFile, Current PROVE position <= Len(files[source])
        <4>1. Len(ahead') = 0 /\ position + 0 = position
          BY <1>2, <2>2
        <4> QED  BY <1>2, <4>1 DEF AheadInv
      <3>1. position + Len(ahead) <= Len(files[source])
        BY DEF FlowInv, AheadInv
      <3>2. Len(ahead) \in Nat /\ Len(files[source]) \in Nat
        BY OpenSource DEF TypeInv, ReaderOK
      <3> QED  BY <1>2, <3>1, <3>2
    <2> QED  BY <2>1, <2>2
  <1>4. ShownInv'
    BY <1>2 DEF FlowInv, ShownInv
  <1> QED  BY <1>1, <1>3, <1>4 DEF FlowInv

\* Steps that give up the offset.
LEMMA FlowReset ==
    ASSUME TypeInv, position' = 0, ahead' = <<>>, context' = <<>>, pc' \notin Tailing,
           ~firstOpen',
           source' = NoFile \/ UNCHANGED <<source, files>>
    PROVE  FlowInv'
  <1>1. PhaseInv'
    BY DEF PhaseInv
  <1>2. AheadInv'
    <2>1. Len(ahead') = 0
      OBVIOUS
    <2>2. source' # NoFile => Len(files'[source']) \in Nat
      BY OpenSource DEF TypeInv
    <2>3. source' # NoFile => position' + Len(ahead') <= Len(files'[source'])
      BY <2>1, <2>2
    <2> QED  BY <2>1, <2>3 DEF AheadInv
  <1>3. ShownInv'
    BY DEF ShownInv
  <1> QED  BY <1>1, <1>2, <1>3 DEF FlowInv

LEMMA FlowReader ==
    ASSUME TypeInv, FlowInv, Reader
    PROVE  FlowInv'
  <1>1. CASE Open \/ TailLine \/ ShowLine \/ SampleLine \/ WindowLine \/ SeekWindow \/ WindowEnd
               \/ ReadLine
    BY <1>1, FlowOpen, FlowTailLine, FlowShowLine, FlowSampleLine, FlowWindow, FlowReadLine
  <1>2. firstOpen => pc = "open"
    BY DEF FlowInv, PhaseInv
  <1>3. pc \notin {"tail", "show"} => context = <<>>
    BY DEF FlowInv, PhaseInv
  <1>4. CASE TailEnd \/ ShowEnd \/ ReadEnd
    <2>1. UNCHANGED <<files, truncated, source, position, ahead, context, delivered, begun, firstOpen>>
      BY <1>4 DEF TailEnd, ShowEnd, ReadEnd, writerVars, readerVars, history
    <2>2. ~firstOpen
      BY <1>2, <1>4 DEF TailEnd, ShowEnd, ReadEnd
    <2>3. /\ pc' \in {"show", "before", "finished", "after"}
          /\ pc' = "show" => pc = "tail"
          /\ pc' \in {"tail", "show"} \/ context = <<>>
      BY <1>3, <1>4 DEF TailEnd, ShowEnd, ReadEnd, AfterTail
    <2> QED  BY <2>1, <2>2, <2>3, FlowKept DEF Tailing
  <1>5. ASSUME NEW look \in {"before", "after"}, Stat(look)
        PROVE  FlowInv'
    <2>1. /\ UNCHANGED <<files, truncated, firstOpen, context, delivered, begun>>
          /\ ~firstOpen /\ context = <<>>
      BY <1>2, <1>3, <1>5 DEF Stat, writerVars
    <2>2. CASE pc' = NextRead(look) /\ UNCHANGED readerVars
      <3>1. pc' \in {"read", "before"}
        BY <2>2 DEF NextRead
      <3> QED  BY <2>1, <2>2, <3>1, FlowKept DEF readerVars, Tailing
    <2>3. CASE pc' = CheckOf(look) /\ UNCHANGED readerVars
      <3>1. pc' \in {"checkBefore", "checkAfter"}
        BY <2>3 DEF CheckOf
      <3> QED  BY <2>1, <2>3, <3>1, FlowKept DEF readerVars, Tailing
    <2>4. CASE source' = NoFile /\ position' = 0 /\ ahead' = <<>> /\ pc' = "open"
      BY <2>1, <2>4, FlowReset DEF Tailing
    <2> QED  BY <1>5, <2>2, <2>3, <2>4 DEF Stat
  <1>6. ASSUME NEW look \in {"before", "after"}, Check(look)
        PROVE  FlowInv'
    <2>1. /\ UNCHANGED <<files, truncated, source, firstOpen, context, delivered, begun>>
          /\ ~firstOpen /\ context = <<>> /\ ahead' = <<>> /\ pc' \in {"read", "before"}
      BY <1>2, <1>3, <1>6 DEF Check, CheckOf, NextRead, writerVars
    <2>2. CASE position' = position
      BY <2>1, <2>2, FlowKept DEF Tailing
    <2>3. CASE position' = 0
      BY <2>1, <2>3, FlowReset DEF Tailing
    <2> QED  BY <1>6, <2>2, <2>3 DEF Check
  <1> QED  BY <1>1, <1>4, <1>5, <1>6 DEF Reader

\* A writer appends to the file or truncates it.
LEMMA FlowWritten ==
    ASSUME TypeInv, FlowInv, UNCHANGED followerVars,
           source # NoFile =>
              \/ truncated'[source] > truncated[source]
              \/ /\ truncated'[source] = truncated[source]
                 /\ Len(files[source]) <= Len(files'[source])
                 /\ \A i \in 1 .. Len(files[source]) : files'[source][i] = files[source][i],
           source # NoFile => truncated'[source] \in Nat /\ Len(files'[source]) \in Nat
    PROVE  FlowInv'
  <1>1. UNCHANGED <<pc, source, position, ahead, context, delivered, begun, firstOpen>>
    BY DEF followerVars, readerVars, history
  <1> DEFINE c == files[source]
             k == files'[source]
  <1>2. /\ position \in Nat /\ delivered \in Seq(Shown) /\ begun \in Begun
        /\ context \in Seq(Seq(Shown)) /\ ahead \in Seq(Piece) /\ begun.truncations \in Nat
    BY DEF TypeInv, ReaderOK, MemoryOK, Begun
  <1>3. CASE source = NoFile
    <2>1. PhaseInv'
      BY <1>1, <1>3 DEF FlowInv, PhaseInv
    <2> QED  BY <1>1, <1>3, <2>1 DEF FlowInv, AheadInv, ShownInv
  <1>4. ASSUME source # NoFile
        PROVE  truncated[source] \in Nat /\ Len(c) \in Nat
    <2>1. source \in Files /\ Len(c) \in Nat
      BY <1>4, OpenSource DEF TypeInv
    <2> QED  BY <2>1 DEF TypeInv, WritersOK
  <1>5. CASE source # NoFile /\ truncated'[source] = truncated[source] /\ Len(c) <= Len(k)
               /\ \A i \in 1 .. Len(c) : k[i] = c[i]
    <2>1. PhaseInv'
      BY <1>1, <1>5 DEF FlowInv, PhaseInv
    <2>2. Current' <=> Current
      BY <1>1, <1>5 DEF Current
    <2>3. ASSUME Current
          PROVE  /\ position \in 0 .. Len(c) /\ AheadInv'
                 /\ \A i \in 1 .. position : k[i] = c[i]
      <3>1. /\ position + Len(ahead) <= Len(c)
            /\ \A i \in 1 .. Len(ahead) : ahead[i] = c[position + i]
        BY <1>5, <2>3 DEF FlowInv, AheadInv
      <3>2. Len(ahead) \in Nat /\ Len(c) \in Nat
        BY <1>2, <1>4, <1>5
      <3> HIDE DEF c, k
      <3>3. position \in 0 .. Len(c)
        BY <1>2, <3>1, <3>2
      <3>4. ASSUME NEW i \in 1 .. Len(ahead) PROVE ahead[i] = k[position + i]
        <4>1. position + i \in 1 .. Len(c)
          BY <1>2, <3>1, <3>2
        <4> QED  BY <1>5, <3>1, <4>1
      <3>5. position + Len(ahead) <= Len(k)
        BY <1>2, <1>4, <1>5, <3>1, <3>2 DEF k
      <3>6. \A i \in 1 .. position : k[i] = c[i]
        BY <1>2, <1>5, <3>2, <3>3
      <3>7. AheadInv'
        BY <1>1, <3>4, <3>5 DEF AheadInv, k
      <3> QED  BY <3>3, <3>6, <3>7
    <2>4. AheadInv'
      BY <2>2, <2>3 DEF AheadInv
    <2>5. ShownInv'
      <3> SUFFICES ASSUME pc \in Tailing \/ position > 0, Current
                   PROVE  \E a \in Places(context, position) :
                             /\ Offsets(context, source, k, a, position)
                             /\ GivenTo(delivered, begun, source, k, a[1])
        BY <1>1, <2>2 DEF ShownInv
      <3>1. PICK a \in Places(context, position) :
               Offsets(context, source, c, a, position) /\ GivenTo(delivered, begun, source, c, a[1])
        BY <1>5 DEF FlowInv, ShownInv
      <3>2. \A i \in 1 .. position : k[i] = c[i]
        BY <2>3
      <3> HIDE DEF c, k
      <3>3. Offsets(context, source, k, a, position)
        BY <1>2, <3>1, <3>2, OffsetsKept
      <3>4. a[1] \in Nat /\ a[1] <= position
        <4>1. 1 \in 1 .. Len(context) + 1
          BY <1>2
        <4>2. a[1] \in 0 .. position
          BY <4>1 DEF Places
        <4> QED  BY <1>2, <4>2
      <3>5. \A i \in 1 .. a[1] : k[i] = c[i]
        BY <1>2, <3>2, <3>4
      <3>6. GivenTo(delivered, begun, source, k, a[1])
        BY <1>2, <3>1, <3>4, <3>5, GivenKept
      <3> QED  BY <3>3, <3>6
    <2> QED  BY <2>1, <2>4, <2>5 DEF FlowInv
  <1>6. CASE source # NoFile /\ truncated'[source] > truncated[source]
    <2>1. PhaseInv'
      <3>1. (pc \in Tailing \/ position > 0) => begun.truncations <= truncated'[source]
        <4>1. (pc \in Tailing \/ position > 0) => begun.truncations <= truncated[source]
          BY <1>6 DEF FlowInv, PhaseInv
        <4>2. truncated[source] \in Nat /\ truncated'[source] \in Nat
          BY <1>4, <1>6
        <4> QED  BY <1>2, <1>6, <4>1, <4>2
      <3> QED  BY <1>1, <3>1 DEF FlowInv, PhaseInv
    <2>2. ASSUME Current'
          PROVE  position = 0 /\ Current /\ ahead = <<>>
      <3>1. position > 0 => begun.truncations <= truncated[source]
        BY <1>6 DEF FlowInv, PhaseInv
      <3>2. position > 0 => begun.truncations = truncated'[source]
        BY <1>1, <2>2 DEF Current
      <3>3. ~(position > 0)
        BY <1>2, <1>4, <1>6, <3>1, <3>2
      <3> QED  BY <1>2, <3>3 DEF Current, FlowInv, PhaseInv
    <2>3. AheadInv'
      <3> SUFFICES ASSUME Current' PROVE AheadInv'
        BY DEF AheadInv
      <3>1. Len(ahead') = 0 /\ position' = 0
        BY <1>1, <2>2
      <3>2. position' + Len(ahead') <= Len(files'[source'])
        BY <1>1, <1>6, <3>1
      <3> QED  BY <3>1, <3>2 DEF AheadInv
    <2>4. ShownInv'
      <3> SUFFICES ASSUME pc \in Tailing \/ position > 0, Current'
                   PROVE  \E a \in Places(context, position) :
                             /\ Offsets(context, source, k, a, position)
                             /\ GivenTo(delivered, begun, source, k, a[1])
        BY <1>1 DEF ShownInv
      <3>1. position = 0 /\ Current
        BY <2>2
      <3>2. PICK a \in Places(context, position) :
               Offsets(context, source, c, a, position) /\ GivenTo(delivered, begun, source, c, a[1])
        BY <1>6, <3>1 DEF FlowInv, ShownInv
      <3> HIDE DEF c, k
      <3>3. \A i \in 1 .. position : k[i] = c[i]
        BY <3>1
      <3>4. Offsets(context, source, k, a, position)
        BY <1>2, <3>2, <3>3, OffsetsKept
      <3>5. a[1] \in 0 .. position
        <4>1. 1 \in 1 .. Len(context) + 1
          BY <1>2
        <4> QED  BY <4>1 DEF Places
      <3>6. GivenTo(delivered, begun, source, k, a[1])
        <4>1. a[1] = 0
          BY <3>1, <3>5
        <4> QED  BY <1>2, <3>1, <3>2, <3>3, <4>1, GivenKept
      <3> QED  BY <3>4, <3>6
    <2> QED  BY <2>1, <2>3, <2>4 DEF FlowInv
  <1> QED  BY <1>3, <1>5, <1>6

LEMMA FlowInit == Init => FlowInv
  <1> SUFFICES ASSUME Init PROVE FlowInv
    OBVIOUS
  <1>1. /\ pc = "open" /\ source = NoFile /\ position = 0 /\ ahead = <<>> /\ context = <<>>
        /\ delivered = <<>> /\ begun = [shown |-> 0, truncations |-> 0, whole |-> FALSE]
    BY DEF Init
  <1>2. pc \notin Tailing
    BY <1>1 DEF Tailing
  <1> QED  BY <1>1, <1>2 DEF FlowInv, PhaseInv, AheadInv, ShownInv

LEMMA FlowStep == TypeInv /\ FlowInv /\ [Next]_vars => FlowInv'
  <1> SUFFICES ASSUME TypeInv, FlowInv, [Next]_vars PROVE FlowInv'
    OBVIOUS
  <1>1. CASE Reader
    BY <1>1, FlowReader
  <1>2. CASE UNCHANGED <<files, truncated, followerVars>>
    <2>1. UNCHANGED <<files, truncated, source, position, ahead, context, delivered, begun, firstOpen,
                      pc>>
      BY <1>2 DEF followerVars, readerVars, history
    <2>2. pc \in {"tail", "show"} \/ context = <<>>
      BY DEF FlowInv, PhaseInv
    <2> QED  BY <2>1, <2>2, FlowKept
  <1>3. ASSUME source # NoFile
        PROVE  source \in Files /\ DOMAIN files = Files /\ files[source] \in Seq(Piece)
               /\ Len(files[source]) \in Nat /\ truncated \in [Files -> 0 .. MaxTruncations]
               /\ truncated[source] \in Nat
    <2>1. source \in Files /\ Len(files[source]) \in Nat /\ files[source] \in Seq(Piece)
      BY <1>3, OpenSource DEF TypeInv
    <2>2. DOMAIN files = Files /\ truncated \in [Files -> 0 .. MaxTruncations]
      BY DEF TypeInv, WritersOK
    <2>3. truncated[source] \in Nat
      BY <2>1, <2>2
    <2> QED  BY <2>1, <2>2, <2>3
  <1>4. ASSUME NEW f \in Files, NEW text \in Texts, NEW ends \in BOOLEAN, AppendTo(f, text, ends)
        PROVE  FlowInv'
    <2> DEFINE p == [id |-> pieces + 1, text |-> text, ends |-> ends,
                     due |-> f \in {source} \cap {name} /\ pc \notin Tailing]
    <2>1. files' = [files EXCEPT ![f] = Append(@, p)] /\ UNCHANGED <<truncated, followerVars>>
      BY <1>4 DEF AppendTo
    <2> HIDE DEF p
    <2>2. ASSUME source # NoFile
          PROVE  /\ Len(files'[source]) \in Nat /\ Len(files[source]) <= Len(files'[source])
                 /\ \A i \in 1 .. Len(files[source]) : files'[source][i] = files[source][i]
      <3>1. files'[source] = IF source = f THEN Append(files[source], p) ELSE files[source]
        BY <1>3, <2>1, <2>2, Zenon
      <3>2. /\ Len(Append(files[source], p)) = Len(files[source]) + 1
            /\ \A i \in 1 .. Len(files[source]) : Append(files[source], p)[i] = files[source][i]
        BY <1>3, <2>2
      <3> QED  BY <1>3, <2>2, <3>1, <3>2
    <2>3. source # NoFile => truncated'[source] = truncated[source] /\ truncated'[source] \in Nat
      BY <1>3, <2>1
    <2> QED  BY <2>1, <2>2, <2>3, FlowWritten
  <1>5. CASE Truncate
    <2>1. /\ files' = [files EXCEPT ![name] = <<>>]
          /\ truncated' = [truncated EXCEPT ![name] = @ + 1]
          /\ UNCHANGED followerVars
      BY <1>5 DEF Truncate
    <2>2. ASSUME source # NoFile, source = name
          PROVE  truncated'[source] > truncated[source] /\ truncated'[source] \in Nat
                 /\ Len(files'[source]) \in Nat
      <3>1. truncated'[source] = truncated[source] + 1
        BY <1>3, <2>1, <2>2
      <3>2. files'[source] = <<>>
        BY <1>3, <2>1, <2>2, Zenon
      <3>3. Len(files'[source]) = 0
        BY <3>2
      <3> QED  BY <1>3, <2>2, <3>1, <3>3
    <2>3. ASSUME source # NoFile, source # name
          PROVE  files'[source] = files[source] /\ truncated'[source] = truncated[source]
      BY <1>3, <2>1, <2>3, Zenon
    <2>4. source # NoFile =>
              \/ truncated'[source] > truncated[source]
              \/ /\ truncated'[source] = truncated[source]
                 /\ Len(files[source]) <= Len(files'[source])
                 /\ \A i \in 1 .. Len(files[source]) : files'[source][i] = files[source][i]
      BY <1>3, <2>2, <2>3
    <2>5. source # NoFile => truncated'[source] \in Nat /\ Len(files'[source]) \in Nat
      BY <1>3, <2>2, <2>3
    <2> QED  BY <2>1, <2>4, <2>5, FlowWritten
  <1>6. CASE \E f \in Files \cup {NoFile} : Rename(f)
    BY <1>2, <1>6 DEF Rename
  <1>7. CASE Stop
    <2>1. position' = 0 /\ ahead' = <<>> /\ context' = <<>> /\ pc' = "closed" /\ firstOpen' = FALSE
          /\ source' = NoFile
      BY <1>7 DEF Stop
    <2> QED  BY <2>1, FlowReset DEF Tailing
  <1>8. CASE UNCHANGED vars
    BY <1>2, <1>8 DEF vars, writerVars
  <1> QED  BY <1>1, <1>4, <1>5, <1>6, <1>7, <1>8 DEF Next, Writer

LEMMA ReversedAt ==
    ASSUME NEW S, NEW s \in Seq(S)
    PROVE  /\ Reverse(s) \in Seq(S) /\ Len(Reverse(s)) = Len(s)
           /\ \A i \in 1 .. Len(s) : Reverse(s)[i] = s[Len(s) - i + 1]
  <1>1. Len(s) \in Nat /\ \A i \in 1 .. Len(s) : s[i] \in S
    OBVIOUS
  <1>2. \A i \in 1 .. Len(s) : (Len(s) - i) + 1 \in 1 .. Len(s)
    BY <1>1
  <1>3. Reverse(s) = [i \in 1 .. Len(s) |-> s[(Len(s) - i) + 1]]
    BY DEF Reverse
  <1>4. Reverse(s) \in [1 .. Len(s) -> S]
    BY <1>1, <1>2, <1>3
  <1>5. Reverse(s) \in Seq(S) /\ Len(Reverse(s)) = Len(s)
    BY <1>1, <1>4
  <1> QED  BY <1>3, <1>5

LEMMA SuffixAt ==
    ASSUME NEW S, NEW s \in Seq(S), NEW t \in Seq(S), Len(s) <= Len(t),
           \A i \in 1 .. Len(s) : s[i] = t[Len(t) - Len(s) + i]
    PROVE  IsSuffix(s, t)
  <1> DEFINE r == Reverse(s)
             q == Reverse(t)
  <1>1. /\ r \in Seq(S) /\ Len(r) = Len(s) /\ \A i \in 1 .. Len(s) : r[i] = s[Len(s) - i + 1]
        /\ q \in Seq(S) /\ Len(q) = Len(t) /\ \A i \in 1 .. Len(t) : q[i] = t[Len(t) - i + 1]
    BY ReversedAt
  <1>2. Len(s) \in Nat /\ Len(t) \in Nat
    OBVIOUS
  <1> HIDE DEF r, q
  <1>3. ASSUME NEW i \in 1 .. Len(s) PROVE r[i] = q[i]
    <2>1. Len(s) - i + 1 \in 1 .. Len(s) /\ i \in 1 .. Len(t)
          /\ Len(t) - Len(s) + (Len(s) - i + 1) = Len(t) - i + 1
      BY <1>2
    <2>2. r[i] = s[Len(s) - i + 1] /\ q[i] = t[Len(t) - i + 1]
      BY <1>1, <2>1
    <2>3. s[Len(s) - i + 1] = t[Len(t) - Len(s) + (Len(s) - i + 1)]
      BY <2>1
    <2> QED  BY <2>1, <2>2, <2>3
  <1>4. /\ SubSeq(q, 1, Len(r)) \in Seq(S) /\ Len(SubSeq(q, 1, Len(r))) = Len(r)
        /\ \A i \in 1 .. Len(r) : SubSeq(q, 1, Len(r))[i] = q[i]
    <2>1. 0 + 1 = 1 /\ Len(r) \in Nat /\ Len(r) - 0 = Len(r) /\ 0 \in Nat /\ 0 <= Len(r)
          /\ Len(r) <= Len(q)
      BY <1>1, <1>2
    <2>2. \A i \in 1 .. Len(r) : 0 + i = i
      BY <2>1
    <2> QED  BY <1>1, <2>1, <2>2, Part
  <1>5. /\ SubSeq(r, 1, Len(r)) \in Seq(S) /\ Len(SubSeq(r, 1, Len(r))) = Len(r)
        /\ \A i \in 1 .. Len(r) : SubSeq(r, 1, Len(r))[i] = r[i]
    <2>1. 0 + 1 = 1 /\ Len(r) \in Nat /\ Len(r) - 0 = Len(r) /\ 0 \in Nat /\ 0 <= Len(r)
      BY <1>1, <1>2
    <2>2. \A i \in 1 .. Len(r) : 0 + i = i
      BY <2>1
    <2> QED  BY <1>1, <2>1, <2>2, Part
  <1>6. SubSeq(r, 1, Len(r)) = SubSeq(q, 1, Len(r))
    <2>1. \A i \in 1 .. Len(r) : SubSeq(r, 1, Len(r))[i] = SubSeq(q, 1, Len(r))[i]
      BY <1>1, <1>3, <1>4, <1>5
    <2> QED  BY <1>4, <1>5, <2>1, SeqEqual
  <1>7. IsPrefix(r, q)
    BY <1>1, <1>6 DEF IsPrefix
  <1> QED  BY <1>7 DEF IsSuffix, r, q

\* Whatever the writers do between the follower's steps, and however often it
\* compares the file with its checkpoints, what was given to the reducer since
\* the last reading from the file's beginning is that file up to the offset;
\* of the file opened first it is the end of that.
THEOREM NothingIsSkipped == Spec => []NothingSkipped
  <1>1. TypeInv /\ FlowInv => NothingSkipped
    <2> SUFFICES ASSUME TypeInv, FlowInv,
                        source # NoFile, pc \notin Tailing, position > 0,
                        begun.truncations = truncated[source]
                 PROVE  LET given == SubSeq(delivered, begun.shown + 1, Len(delivered))
                            read == [i \in 1 .. position |->
                                        [file |-> source, id |-> files[source][i].id]]
                        IN  /\ position <= Len(files[source])
                            /\ IF begun.whole THEN given = read ELSE IsSuffix(given, read)
      BY DEF NothingSkipped
    <2> DEFINE given == SubSeq(delivered, begun.shown + 1, Len(delivered))
               read == [i \in 1 .. position |-> [file |-> source, id |-> files[source][i].id]]
               c == files[source]
               g == Len(delivered) - begun.shown
    <2>1. /\ position \in Nat /\ source \in Files /\ c \in Seq(Piece) /\ Len(c) \in Nat
          /\ Len(ahead) \in Nat /\ delivered \in Seq(Shown) /\ begun \in Begun
      BY OpenSource DEF TypeInv, ReaderOK, MemoryOK, Begun
    <2>2. position + Len(ahead) <= Len(c)
      BY DEF FlowInv, AheadInv, Current
    <2>3. position <= Len(c)
      BY <2>1, <2>2
    <2>4. context = <<>>
      <3>1. pc \notin {"tail", "show"}
        BY DEF Tailing
      <3> QED  BY <3>1 DEF FlowInv, PhaseInv
    <2>5. \E a \in Places(context, position) :
             /\ Offsets(context, source, c, a, position)
             /\ GivenTo(delivered, begun, source, c, a[1])
      BY DEF FlowInv, ShownInv, Current
    <2>6. GivenTo(delivered, begun, source, c, position)
      BY <2>4, <2>5, TheOnlyPlace
    <2>7. /\ begun.shown <= Len(delivered) /\ g <= position /\ (begun.whole => g = position)
          /\ \A i \in 1 .. g : delivered[begun.shown + i] = Mark(source, c[position - g + i])
          /\ begun.shown \in Nat /\ Len(delivered) \in Nat
      BY <2>1, <2>6 DEF GivenTo, Begun
    <2>8. /\ given \in Seq(Shown) /\ Len(given) = g
          /\ \A i \in 1 .. g : given[i] = delivered[begun.shown + i]
      BY <2>1, <2>7, Part
    <2>9. /\ read \in Seq(Shown) /\ Len(read) = position
          /\ \A i \in 1 .. position : read[i] = Mark(source, c[i])
      <3>1. ASSUME NEW i \in 1 .. position PROVE [file |-> source, id |-> c[i].id] \in Shown
        <4>1. i \in 1 .. Len(c)
          BY <2>1, <2>3
        <4>2. c[i] \in Piece
          BY <2>1, <4>1
        <4> QED  BY <2>1, <4>2 DEF Piece, Shown
      <3>2. read \in [1 .. position -> Shown]
        BY <3>1
      <3>3. read \in Seq(Shown) /\ Len(read) = position
        BY <2>1, <3>2
      <3> QED  BY <3>3 DEF Mark
    <2>10. g \in Nat
      BY <2>7
    <2> HIDE DEF given, read, c, g
    <2>11. ASSUME NEW i \in 1 .. g PROVE given[i] = read[position - g + i]
      <3>1. position - g + i \in 1 .. position
        BY <2>1, <2>7, <2>10
      <3> QED  BY <2>7, <2>8, <2>9, <3>1
    <2>12. CASE begun.whole
      <3>1. g = position
        BY <2>7, <2>12
      <3>2. \A i \in 1 .. Len(given) : given[i] = read[i]
        <4>1. \A i \in 1 .. g : position - g + i = i
          BY <2>1, <3>1
        <4> QED  BY <2>8, <2>11, <4>1
      <3>3. given = read
        BY <2>8, <2>9, <3>1, <3>2, SeqEqual
      <3> QED  BY <2>3, <2>12, <3>3 DEF given, read, c
    <2>13. CASE ~begun.whole
      <3>1. Len(given) <= Len(read) /\ \A i \in 1 .. Len(given) : given[i] = read[Len(read) - Len(given) + i]
        BY <2>7, <2>8, <2>9, <2>11
      <3>2. IsSuffix(given, read)
        BY <2>8, <2>9, <3>1, SuffixAt
      <3> QED  BY <2>3, <2>13, <3>2 DEF given, read, c
    <2> QED  BY <2>12, <2>13
  <1> QED  BY <1>1, TypeInit, TypeStep, FlowInit, FlowStep, PTL DEF Spec

-----------------------------------------------------------------------------
(* No piece is processed twice.                                            *)

\* What the comparison of a file never truncated with its checkpoints finds:
\* k is the content, s a checkpoint of it.
Untouched == source # NoFile /\ truncated[source] = 0
Sampled(s, k) ==
    LET n == Len(s.line)
    IN  /\ 1 <= n /\ s.start + n <= Len(k)
        /\ s.partial = ~s.line[n][2]
        /\ \A i \in 1 .. n : /\ s.line[i] = <<k[s.start + i].text, k[s.start + i].ends>>
                             /\ i < n => ~k[s.start + i].ends

LEMMA PrefixAt ==
    ASSUME NEW S, NEW s \in Seq(S), NEW t \in Seq(S), Len(s) <= Len(t),
           \A i \in 1 .. Len(s) : s[i] = t[i]
    PROVE  IsPrefix(s, t)
  <1>1. 0 + 1 = 1 /\ Len(s) \in Nat /\ Len(s) - 0 = Len(s) /\ 0 \in Nat /\ 0 <= Len(s)
        /\ \A i \in 1 .. Len(s) : 0 + i = i
    OBVIOUS
  <1>2. /\ SubSeq(t, 1, Len(s)) \in Seq(S) /\ Len(SubSeq(t, 1, Len(s))) = Len(s)
        /\ \A i \in 1 .. Len(s) : SubSeq(t, 1, Len(s))[i] = t[i]
    BY <1>1, Part
  <1>3. /\ SubSeq(s, 1, Len(s)) \in Seq(S) /\ Len(SubSeq(s, 1, Len(s))) = Len(s)
        /\ \A i \in 1 .. Len(s) : SubSeq(s, 1, Len(s))[i] = s[i]
    BY <1>1, Part
  <1>4. SubSeq(s, 1, Len(s)) = SubSeq(t, 1, Len(s))
    <2>1. \A i \in 1 .. Len(s) : SubSeq(s, 1, Len(s))[i] = SubSeq(t, 1, Len(s))[i]
      BY <1>2, <1>3
    <2> QED  BY <1>2, <1>3, <2>1, SeqEqual
  <1> QED  BY <1>4 DEF IsPrefix

\* A line that is there as it was read, or was completed since, is recognised.
LEMMA SampledMatches ==
    ASSUME source \in Files, files[source] \in Seq(Piece), NEW s \in Samples,
           Sampled(s, files[source])
    PROVE  Matches(s)
  <1> DEFINE k == files[source]
             n == Len(s.line)
             r == Rest(source, s.start)
             m == LineLength(r)
             observed == Wording(FirstLine(r))
  <1>1. s.start \in Nat /\ s.line \in Seq(Word) /\ n \in Nat /\ Len(k) \in Nat
    <2>1. s.start \in Nat /\ s.line \in Seq(Word)
      BY DEF Samples
    <2> QED  BY <2>1
  <1>2. /\ 1 <= n /\ s.start + n <= Len(k) /\ s.partial = ~s.line[n][2]
        /\ \A i \in 1 .. n : /\ s.line[i] = <<k[s.start + i].text, k[s.start + i].ends>>
                             /\ i < n => ~k[s.start + i].ends
    BY DEF Sampled
  <1>3. /\ r \in Seq(Piece) /\ Len(r) = Len(k) - s.start
        /\ \A i \in 1 .. Len(r) : r[i] = k[s.start + i]
    <2>1. s.start <= Len(k)
      BY <1>1, <1>2
    <2> QED  BY <1>1, <2>1, RestFacts
  <1> HIDE DEF r, k
  <1>4. Len(r) \in Nat /\ n <= Len(r) /\ r # <<>>
    <2>1. Len(r) \in Nat /\ n <= Len(r) /\ 1 <= Len(r)
      BY <1>1, <1>2, <1>3
    <2> QED  BY <2>1
  <1>5. /\ m \in 1 .. Len(r) /\ \A i \in 1 .. Len(r) : i < m => ~r[i].ends
        /\ r[m].ends \/ m = Len(r)
    BY <1>3, <1>4, LineLengthFacts
  <1>6. /\ FirstLine(r) \in Seq(Piece) /\ Len(FirstLine(r)) = m
        /\ \A i \in 1 .. m : FirstLine(r)[i] = r[i]
    BY <1>3, <1>4, FirstLineFacts
  <1> HIDE DEF m, n
  <1>7. /\ observed \in Seq(Word) /\ Len(observed) = m
        /\ \A i \in 1 .. m : observed[i] = <<r[i].text, r[i].ends>>
    BY <1>6, WordingFacts
  <1>8. n <= m
    <2> SUFFICES ASSUME m < n PROVE FALSE
      BY <1>1, <1>4, <1>5
    <2>1. m \in 1 .. n /\ m < n /\ m # Len(r)
      BY <1>1, <1>4, <1>5
    <2>2. ~r[m].ends
      BY <1>2, <1>3, <1>5, <2>1
    <2> QED  BY <1>5, <2>1, <2>2
  <1> HIDE DEF observed
  <1>9. \A i \in 1 .. n : s.line[i] = observed[i]
    <2>1. \A i \in 1 .. n : i \in 1 .. m /\ i \in 1 .. Len(r)
      BY <1>1, <1>4, <1>5, <1>8
    <2> QED  BY <1>2, <1>3, <1>7, <2>1
  <1>10. CASE s.partial
    <2>1. IsPrefix(s.line, observed)
      BY <1>1, <1>7, <1>8, <1>9, PrefixAt DEF n
    <2> QED  BY <1>10, <2>1 DEF Matches, observed, r
  <1>11. CASE ~s.partial
    <2>1. n \in 1 .. n /\ n \in 1 .. Len(r)
      BY <1>1, <1>2, <1>4
    <2>2. r[n].ends
      <3>1. s.line[n] = <<k[s.start + n].text, k[s.start + n].ends>>
        BY <1>2, <2>1
      <3>2. s.line[n][2]
        BY <1>2, <1>11
      <3>3. r[n] = k[s.start + n]
        BY <1>3, <2>1
      <3> QED  BY <3>1, <3>2, <3>3
    <2>3. m = n
      BY <1>1, <1>5, <1>8, <2>1, <2>2
    <2>4. observed = s.line
      BY <1>1, <1>7, <1>9, <2>3, SeqEqual DEF n
    <2> QED  BY <1>11, <2>4 DEF Matches, observed, r
  <1> QED  BY <1>10, <1>11

\* The pieces of every file are numbered in the order of writing.
Rising(k) == \A i, j \in 1 .. Len(k) : i < j => k[i].id < k[j].id
WritingInv ==
    \A f \in Files : Rising(files[f]) /\ \A i \in 1 .. Len(files[f]) : files[f][i].id <= pieces

\* What the comparison looks at: a file never truncated passes it.
SampledInv ==
    /\ source = NoFile => checkpoints = <<>>
    /\ Untouched => \A i \in 1 .. Len(checkpoints) : Sampled(checkpoints[i], files[source])
    /\ (Untouched /\ pc \in {"checkBefore", "checkAfter"}) => position <= size

\* What was given is of the file that is open or of earlier ones, and of
\* earlier ones alone while nothing of this file was given.
FilesInv ==
    /\ \A i \in 1 .. Len(context) : \A j \in 1 .. Len(context[i]) : context[i][j].file = source
    /\ source # NoFile => \A i \in 1 .. Len(delivered) : delivered[i].file <= source
    /\ pc = "open" => \A i \in 1 .. Len(delivered) : delivered[i].file < created
    /\ Untouched => \A i \in 1 .. Len(delivered) :
                        position = 0 \/ i <= begun.shown => delivered[i].file < source

Once(d, tr) ==
    \A i, j \in 1 .. Len(d) : i < j =>
        d[i].file <= d[j].file /\ (d[i].file = d[j].file /\ tr[d[i].file] = 0 => d[i].id < d[j].id)

OnceInv == WritingInv /\ SampledInv /\ FilesInv /\ Once(delivered, truncated)

\* A line of the file s is given to the reducer.
LEMMA OnceFurther ==
    ASSUME NEW d \in Seq(Shown), NEW l \in Seq(Shown), NEW tr, NEW s \in Nat, Once(d, tr),
           \A i \in 1 .. Len(d) : d[i].file <= s,
           \A j \in 1 .. Len(l) : l[j].file = s,
           tr[s] = 0 =>
              /\ \A i, j \in 1 .. Len(l) : i < j => l[i].id < l[j].id
              /\ \A i \in 1 .. Len(d), j \in 1 .. Len(l) : d[i].file = s => d[i].id < l[j].id
    PROVE  Once(d \o l, tr)
  <1> DEFINE e == d \o l
  <1>1. /\ e \in Seq(Shown) /\ Len(e) = Len(d) + Len(l)
        /\ \A i \in 1 .. Len(d) : e[i] = d[i]
        /\ \A i \in 1 .. Len(l) : e[Len(d) + i] = l[i]
    BY Joined
  <1>2. Len(d) \in Nat /\ Len(l) \in Nat
    OBVIOUS
  <1> HIDE DEF e
  <1>3. ASSUME NEW i \in 1 .. Len(e), NEW j \in 1 .. Len(e), i < j
        PROVE  /\ e[i].file <= e[j].file
               /\ e[i].file = e[j].file /\ tr[e[i].file] = 0 => e[i].id < e[j].id
    <2>1. CASE j <= Len(d)
      <3>1. i \in 1 .. Len(d) /\ j \in 1 .. Len(d)
        BY <1>2, <1>3, <2>1
      <3>2. e[i] = d[i] /\ e[j] = d[j]
        BY <1>1, <3>1
      <3> QED  BY <1>3, <3>1, <3>2 DEF Once
    <2>2. CASE ~(j <= Len(d)) /\ i <= Len(d)
      <3> DEFINE k == j - Len(d)
      <3>1. i \in 1 .. Len(d) /\ k \in 1 .. Len(l) /\ Len(d) + k = j
        BY <1>1, <1>2, <2>2
      <3>2. e[i] = d[i] /\ e[j] = l[k]
        BY <1>1, <3>1
      <3> HIDE DEF k
      <3> QED  BY <3>1, <3>2
    <2>3. CASE ~(j <= Len(d)) /\ ~(i <= Len(d))
      <3> DEFINE k == j - Len(d)
                 h == i - Len(d)
      <3>1. h \in 1 .. Len(l) /\ k \in 1 .. Len(l) /\ Len(d) + k = j /\ Len(d) + h = i /\ h < k
        BY <1>1, <1>2, <1>3, <2>3
      <3>2. e[i] = l[h] /\ e[j] = l[k]
        BY <1>1, <3>1
      <3> HIDE DEF h, k
      <3>3. l[h].file = s /\ l[k].file = s
        BY <3>1
      <3> QED  BY <3>1, <3>2, <3>3
    <2> QED  BY <2>1, <2>2, <2>3
  <1> QED  BY <1>3 DEF Once, e

\* The numbers of a line that is given after what was given.
LEMMA RisingFurther ==
    ASSUME NEW d \in Seq(Shown), NEW b \in Begun, NEW s, NEW k \in Seq(Piece), Rising(k),
           NEW e \in Nat, NEW to \in Nat, e <= to, to <= Len(k),
           NEW l \in Seq(Shown), GivenTo(d, b, s, k, e), LineIs(l, s, k, e, to),
           \A i \in 1 .. Len(d) : i <= b.shown => d[i].file # s
    PROVE  /\ \A i, j \in 1 .. Len(l) : i < j => l[i].id < l[j].id
           /\ \A i \in 1 .. Len(d), j \in 1 .. Len(l) : d[i].file = s => d[i].id < l[j].id
  <1> DEFINE g == Len(d) - b.shown
  <1>1. b.shown \in Nat /\ Len(d) \in Nat /\ Len(k) \in Nat
    BY DEF Begun
  <1>2. /\ b.shown <= Len(d) /\ g <= e
        /\ \A i \in 1 .. g : d[b.shown + i] = Mark(s, k[e - g + i])
    BY DEF GivenTo
  <1>3. Len(l) = to - e /\ \A i \in 1 .. to - e : l[i] = Mark(s, k[e + i])
    BY DEF LineIs
  <1>4. ASSUME NEW j \in 1 .. Len(l)
        PROVE  e + j \in 1 .. Len(k) /\ l[j].id = k[e + j].id
    <2>1. Len(l) = to - e
      BY <1>3
    <2>2. e + j \in 1 .. Len(k)
      BY <1>1, <2>1
    <2>3. l[j] = Mark(s, k[e + j])
      BY <1>3
    <2> QED  BY <2>2, <2>3 DEF Mark
  <1>5. ASSUME NEW i \in 1 .. Len(l), NEW j \in 1 .. Len(l), i < j
        PROVE  l[i].id < l[j].id
    <2>1. e + i < e + j
      BY <1>5
    <2> QED  BY <1>4, <2>1 DEF Rising
  <1>6. ASSUME NEW i \in 1 .. Len(d), NEW j \in 1 .. Len(l), d[i].file = s
        PROVE  d[i].id < l[j].id
    <2> DEFINE h == i - b.shown
    <2>1. ~(i <= b.shown)
      BY <1>6
    <2>2. h \in 1 .. g /\ b.shown + h = i /\ e - g + h \in 1 .. Len(k) /\ e - g + h < e + j
      <3>1. b.shown <= Len(d) /\ g <= e /\ g \in Nat /\ b.shown + g = Len(d)
        BY <1>1, <1>2
      <3>2. h \in Nat /\ 1 <= h /\ b.shown + h = i
        BY <1>1, <2>1
      <3>3. j \in Nat /\ 1 <= j /\ i \in Nat /\ i <= Len(d)
        BY <1>1
      <3> HIDE DEF g, h
      <3>4. h <= g
        BY <1>1, <3>1, <3>2, <3>3
      <3> QED  BY <1>1, <3>1, <3>2, <3>3, <3>4
    <2> HIDE DEF g, h
    <2>3. d[i] = Mark(s, k[e - g + h])
      BY <1>2, <2>2
    <2>4. d[i].id = k[e - g + h].id
      BY <2>3 DEF Mark
    <2> QED  BY <1>4, <2>2, <2>4 DEF Rising
  <1> QED  BY <1>5, <1>6

\* Everything that is remembered is new or was there.
LEMMA RememberedFrom ==
    ASSUME NEW s \in Seq(Samples), NEW c \in Samples, NEW r \in Seq(Samples),
           Replaced(s, c, r) \/ Added(s, c, r) \/ Thinned(s, c, r),
           NEW i \in 1 .. Len(r)
    PROVE  r[i] = c \/ \E j \in 1 .. Len(s) : r[i] = s[j]
  <1>1. Len(s) \in Nat /\ Len(r) \in Nat /\ Limit \in Nat
    OBVIOUS
  <1>2. CASE Replaced(s, c, r)
    <2>1. Len(r) = Len(s) /\ r[Len(s)] = c /\ \A j \in 1 .. Len(s) - 1 : r[j] = s[j]
      BY <1>2 DEF Replaced
    <2>2. CASE i = Len(s)
      BY <2>1, <2>2
    <2>3. CASE i # Len(s)
      <3>1. i \in 1 .. Len(s) - 1 /\ i \in 1 .. Len(s)
        BY <1>1, <2>1, <2>3
      <3> QED  BY <2>1, <3>1
    <2> QED  BY <2>2, <2>3
  <1>3. CASE Added(s, c, r)
    <2>1. Len(r) = Len(s) + 1 /\ r[Len(s) + 1] = c /\ \A j \in 1 .. Len(s) : r[j] = s[j]
      BY <1>3 DEF Added
    <2>2. CASE i = Len(s) + 1
      BY <2>1, <2>2
    <2>3. CASE i # Len(s) + 1
      <3>1. i \in 1 .. Len(s)
        BY <1>1, <2>1, <2>3
      <3> QED  BY <2>1, <3>1
    <2> QED  BY <2>2, <2>3
  <1>4. CASE Thinned(s, c, r)
    <2>1. /\ Len(s) = Limit /\ Len(r) = Limit /\ r[Limit] = c
          /\ \A j \in 1 .. Limit - 1 : r[j] = IF j <= Kept THEN s[j] ELSE s[j + 1]
      BY <1>4 DEF Thinned
    <2>2. CASE i = Limit
      BY <2>1, <2>2
    <2>3. CASE i # Limit
      <3>1. i \in 1 .. Limit - 1 /\ i \in 1 .. Len(s) /\ i + 1 \in 1 .. Len(s)
        BY <1>1, <2>1, <2>3
      <3> QED  BY <2>1, <3>1
    <2> QED  BY <2>2, <2>3
  <1> QED  BY <1>2, <1>3, <1>4

LEMMA FilesFurther ==
    ASSUME NEW d \in Seq(Shown), NEW l \in Seq(Shown), NEW s \in Nat,
           \A i \in 1 .. Len(d) : d[i].file <= s, \A j \in 1 .. Len(l) : l[j].file = s,
           NEW i \in 1 .. Len(d \o l)
    PROVE  (d \o l)[i].file <= s /\ (i <= Len(d) => i \in 1 .. Len(d) /\ (d \o l)[i] = d[i])
  <1> DEFINE e == d \o l
  <1>1. /\ e \in Seq(Shown) /\ Len(e) = Len(d) + Len(l)
        /\ \A j \in 1 .. Len(d) : e[j] = d[j]
        /\ \A j \in 1 .. Len(l) : e[Len(d) + j] = l[j]
    BY Joined
  <1>2. Len(d) \in Nat /\ Len(l) \in Nat /\ i \in 1 .. Len(e)
    OBVIOUS
  <1> HIDE DEF e
  <1>3. CASE i <= Len(d)
    <2>1. i \in 1 .. Len(d)
      BY <1>2, <1>3
    <2> QED  BY <1>1, <2>1 DEF e
  <1>4. CASE ~(i <= Len(d))
    <2> DEFINE h == i - Len(d)
    <2>1. h \in 1 .. Len(l) /\ Len(d) + h = i
      BY <1>1, <1>2, <1>4
    <2> HIDE DEF h
    <2>2. e[i] = l[h] /\ l[h].file = s
      BY <1>1, <2>1
    <2> QED  BY <1>4, <2>2 DEF e
  <1> QED  BY <1>3, <1>4

\* A file never truncated was not truncated since it was last read.
LEMMA UntouchedCurrent ==
    ASSUME TypeInv, PhaseInv, Untouched
    PROVE  Current
  <1>1. begun.truncations \in Nat
    BY DEF TypeInv, MemoryOK
  <1>2. position > 0 => begun.truncations <= 0
    BY DEF PhaseInv, Untouched
  <1> QED  BY <1>1, <1>2 DEF Current, Untouched

LEMMA WritingStep == TypeInv /\ WritingInv /\ [Next]_vars => WritingInv'
  <1> SUFFICES ASSUME TypeInv, WritingInv, [Next]_vars PROVE WritingInv'
    OBVIOUS
  <1>1. CASE UNCHANGED <<files, pieces>>
    BY <1>1 DEF WritingInv
  <1>2. /\ DOMAIN files = Files /\ pieces \in Nat
        /\ \A g \in Files : files[g] \in Seq(Piece) /\ Len(files[g]) \in Nat
    BY DEF TypeInv, WritersOK
  <1>3. ASSUME NEW f \in Files, NEW text \in Texts, NEW ends \in BOOLEAN, AppendTo(f, text, ends)
        PROVE  WritingInv'
    <2> DEFINE p == [id |-> pieces + 1, text |-> text, ends |-> ends,
                     due |-> f \in {source} \cap {name} /\ pc \notin Tailing]
    <2>1. files' = [files EXCEPT ![f] = Append(@, p)] /\ pieces' = pieces + 1 /\ p.id = pieces + 1
      BY <1>3 DEF AppendTo
    <2> HIDE DEF p
    <2>2. ASSUME NEW g \in Files
          PROVE  Rising(files'[g]) /\ \A i \in 1 .. Len(files'[g]) : files'[g][i].id <= pieces'
      <3> DEFINE k == files[g]
                 q == files'[g]
      <3>1. q = IF g = f THEN Append(k, p) ELSE k
        BY <1>2, <2>1, Zenon
      <3>2. /\ k \in Seq(Piece) /\ Len(k) \in Nat /\ Rising(k)
            /\ \A i \in 1 .. Len(k) : k[i].id <= pieces
        BY <1>2 DEF WritingInv
      <3>3. \A i \in 1 .. Len(k) : k[i].id \in Nat
        <4>1. \A i \in 1 .. Len(k) : k[i] \in Piece
          BY <3>2
        <4> QED  BY <4>1 DEF Piece
      <3>4. CASE g # f
        <4>1. q = k
          BY <3>1, <3>4
        <4>2. \A i \in 1 .. Len(k) : k[i].id <= pieces + 1
          BY <1>2, <3>2, <3>3
        <4> HIDE DEF k, q
        <4> QED  BY <2>1, <3>2, <4>1, <4>2 DEF k, q
      <3>5. CASE g = f
        <4>1. q = Append(k, p)
          BY <3>1, <3>5
        <4> HIDE DEF k, q
        <4>2. /\ Len(q) = Len(k) + 1 /\ q[Len(k) + 1] = p
              /\ \A i \in 1 .. Len(k) : q[i] = k[i]
          BY <3>2, <4>1
        <4>3. ASSUME NEW i \in 1 .. Len(q), i # Len(k) + 1
              PROVE  i \in 1 .. Len(k) /\ q[i] = k[i]
          <5>1. i \in 1 .. Len(k)
            BY <3>2, <4>2, <4>3
          <5> QED  BY <4>2, <5>1
        <4>4. ASSUME NEW i \in 1 .. Len(q) PROVE q[i].id <= pieces'
          <5>1. CASE i = Len(k) + 1
            BY <1>2, <2>1, <4>2, <5>1
          <5>2. CASE i # Len(k) + 1
            BY <1>2, <2>1, <3>2, <3>3, <4>3, <5>2
          <5> QED  BY <5>1, <5>2
        <4>5. ASSUME NEW i \in 1 .. Len(q), NEW j \in 1 .. Len(q), i < j PROVE q[i].id < q[j].id
          <5>1. i # Len(k) + 1
            BY <3>2, <4>2, <4>5
          <5>2. i \in 1 .. Len(k) /\ q[i] = k[i]
            BY <4>3, <5>1
          <5>3. CASE j = Len(k) + 1
            BY <1>2, <2>1, <3>2, <3>3, <4>2, <5>2, <5>3
          <5>4. CASE j # Len(k) + 1
            <6>1. j \in 1 .. Len(k) /\ q[j] = k[j]
              BY <4>3, <5>4
            <6> QED  BY <3>2, <4>5, <5>2, <6>1 DEF Rising
          <5> QED  BY <5>3, <5>4
        <4> QED  BY <4>4, <4>5 DEF Rising, q
      <3> QED  BY <3>4, <3>5
    <2> QED  BY <2>2 DEF WritingInv
  <1>4. CASE Truncate
    <2>1. files' = [files EXCEPT ![name] = <<>>] /\ pieces' = pieces
      BY <1>4 DEF Truncate
    <2>2. ASSUME NEW g \in Files
          PROVE  Rising(files'[g]) /\ \A i \in 1 .. Len(files'[g]) : files'[g][i].id <= pieces'
      <3>1. files'[g] = files[g] \/ files'[g] = <<>>
        BY <1>2, <2>1, Zenon
      <3>2. CASE files'[g] = files[g]
        BY <2>1, <3>2 DEF WritingInv
      <3>3. CASE files'[g] = <<>>
        <4>1. Len(files'[g]) = 0
          BY <3>3
        <4> QED  BY <4>1 DEF Rising
      <3> QED  BY <3>1, <3>2, <3>3
    <2> QED  BY <2>2 DEF WritingInv
  <1>5. CASE \E f \in Files \cup {NoFile} : Rename(f)
    BY <1>1, <1>5 DEF Rename
  <1>6. CASE Reader \/ Stop \/ UNCHANGED vars
    <2>1. UNCHANGED writerVars
      BY <1>6 DEF Reader, Open, TailLine, TailEnd, ShowLine, ShowEnd, SampleLine, SeekWindow,
                  WindowLine, WindowEnd, ReadLine, ReadEnd, Stat, Check, Stop, vars
    <2> QED  BY <1>1, <2>1 DEF writerVars
  <1> QED  BY <1>3, <1>4, <1>5, <1>6 DEF Next, Writer

LEMMA SampledTakeLine ==
    ASSUME TypeInv, FlowInv, SampledInv, source # NoFile, TakeLine,
           pc \notin {"checkBefore", "checkAfter"},
           UNCHANGED <<files, truncated, source, pc>>
    PROVE  SampledInv'
  <1> DEFINE k == files[source]
             c == Checkpoint(position, NextLine)
             n == Len(NextLine)
  <1> SUFFICES ASSUME Untouched
               PROVE  \A i \in 1 .. Len(checkpoints') : Sampled(checkpoints'[i], k)
    BY DEF SampledInv, Untouched
  <1>1. /\ position \in Nat /\ position' \in Nat /\ position < position' /\ begun' \in Begun
        /\ begun'.truncations <= truncated[source]
        /\ Current' => /\ position' <= Len(k)
                       /\ \A i \in 1 .. n : NextLine[i] = k[position + i]
    BY TakeLineFlow DEF FlowInv
  <1>2. Current'
    <2>1. begun'.truncations \in Nat
      BY <1>1 DEF Begun
    <2> QED  BY <1>1, <2>1 DEF Current, Untouched
  <1>3. /\ WritersOK /\ ReaderOK /\ ~AtEnd /\ checkpoints \in Seq(Samples) /\ Len(checkpoints) <= Limit
        /\ checkpoints' = Remember(checkpoints, position, NextLine) /\ position' = position + n
    BY DEF TypeInv, MemoryOK, TakeLine
  <1>4. /\ NextLine \in Seq(Piece) /\ n \in Nat /\ 1 <= n
        /\ \A i \in 1 .. n : i < n => ~NextLine[i].ends
    BY <1>3, TakeLineFacts
  <1>5. NextLine # <<>> /\ n \in 1 .. n
    BY <1>4
  <1>6. c \in Samples /\ c.start = position /\ c.line = Wording(NextLine)
        /\ c.partial = ~NextLine[n].ends
    BY <1>1, <1>4, <1>5, CheckpointFacts
  <1>7. Len(c.line) = n /\ \A i \in 1 .. n : c.line[i] = <<NextLine[i].text, NextLine[i].ends>>
    BY <1>4, <1>6, WordingFacts
  <1>8. /\ checkpoints' \in Seq(Samples)
        /\ \/ Replaced(checkpoints, c, checkpoints') \/ Added(checkpoints, c, checkpoints')
           \/ Thinned(checkpoints, c, checkpoints')
    BY <1>1, <1>3, <1>4, <1>5, RememberFacts
  <1> HIDE DEF c, k, n
  <1>9. Sampled(c, k)
    <2>1. \A i \in 1 .. n : NextLine[i] = k[position + i]
      BY <1>1, <1>2
    <2>2. position + n <= Len(k)
      BY <1>1, <1>2, <1>3
    <2>3. c.line[n] = <<NextLine[n].text, NextLine[n].ends>>
      BY <1>5, <1>7
    <2>4. c.partial = ~c.line[n][2]
      BY <1>6, <2>3
    <2>5. ASSUME NEW i \in 1 .. n
          PROVE  /\ c.line[i] = <<k[c.start + i].text, k[c.start + i].ends>>
                 /\ i < n => ~k[c.start + i].ends
      BY <1>4, <1>6, <1>7, <2>1
    <2> QED  BY <1>4, <1>6, <1>7, <2>2, <2>4, <2>5 DEF Sampled
  <1>10. ASSUME NEW i \in 1 .. Len(checkpoints')
         PROVE  Sampled(checkpoints'[i], k)
    <2>1. checkpoints'[i] = c \/ \E j \in 1 .. Len(checkpoints) : checkpoints'[i] = checkpoints[j]
      BY <1>3, <1>6, <1>8, RememberedFrom
    <2>2. \A j \in 1 .. Len(checkpoints) : Sampled(checkpoints[j], k)
      BY DEF SampledInv, k
    <2> QED  BY <1>9, <2>1, <2>2
  <1> QED  BY <1>10 DEF k

\* The file that is open may have grown.
LEMMA SampledGrown ==
    ASSUME NEW s \in Samples, NEW k, NEW q, Len(k) \in Nat, Len(q) \in Nat, Len(k) <= Len(q),
           \A i \in 1 .. Len(k) : q[i] = k[i], Sampled(s, k)
    PROVE  Sampled(s, q)
  <1> DEFINE n == Len(s.line)
  <1>1. s.start \in Nat /\ n \in Nat
    <2>1. s.start \in Nat /\ s.line \in Seq(Word)
      BY DEF Samples
    <2> QED  BY <2>1
  <1>2. /\ 1 <= n /\ s.start + n <= Len(k) /\ s.partial = ~s.line[n][2]
        /\ \A i \in 1 .. n : /\ s.line[i] = <<k[s.start + i].text, k[s.start + i].ends>>
                             /\ i < n => ~k[s.start + i].ends
    BY DEF Sampled
  <1> HIDE DEF n
  <1>3. s.start + n <= Len(q)
    BY <1>1, <1>2
  <1>4. ASSUME NEW i \in 1 .. n PROVE q[s.start + i] = k[s.start + i]
    <2>1. s.start + i \in 1 .. Len(k)
      BY <1>1, <1>2
    <2> QED  BY <2>1
  <1> QED  BY <1>2, <1>3, <1>4 DEF Sampled, n

\* The comparison finds nothing wrong with a file never truncated.
LEMMA UntouchedPasses ==
    ASSUME TypeInv, SampledInv, Untouched, pc \in {"checkBefore", "checkAfter"}
    PROVE  ~(size < position \/ \E i \in DOMAIN checkpoints : ~Matches(checkpoints[i]))
  <1>1. position <= size /\ position \in Nat /\ size \in Nat
    BY DEF SampledInv, TypeInv, ReaderOK, ControlOK
  <1>2. ASSUME NEW i \in DOMAIN checkpoints PROVE Matches(checkpoints[i])
    <2>1. checkpoints \in Seq(Samples)
      BY DEF TypeInv, MemoryOK
    <2>2. i \in 1 .. Len(checkpoints) /\ checkpoints[i] \in Samples
      BY <1>2, <2>1
    <2>3. Sampled(checkpoints[i], files[source])
      BY <2>2 DEF SampledInv
    <2>4. source \in Files /\ files[source] \in Seq(Piece)
      BY OpenSource DEF TypeInv, Untouched
    <2> QED  BY <2>2, <2>3, <2>4, SampledMatches
  <1> QED  BY <1>1, <1>2

LEMMA SampledStep == TypeInv /\ FlowInv /\ SampledInv /\ [Next]_vars => SampledInv'
  <1> SUFFICES ASSUME TypeInv, FlowInv, SampledInv, [Next]_vars PROVE SampledInv'
    OBVIOUS
  <1>1. CASE UNCHANGED <<files, truncated, source, position, checkpoints, size>>
               /\ (pc' = pc \/ pc' \notin {"checkBefore", "checkAfter"})
    BY <1>1 DEF SampledInv, Untouched
  <1>2. /\ pc \in {"tail", "sample", "window", "reread", "read"} => source # NoFile
        /\ pc \in Closed => source = NoFile
    BY DEF TypeInv, ControlOK, Closed
  <1>3. CASE TailLine \/ SampleLine \/ WindowLine \/ ReadLine
    <2>1. /\ source # NoFile /\ TakeLine /\ pc \notin {"checkBefore", "checkAfter"}
          /\ UNCHANGED <<files, truncated, source, pc>>
      BY <1>2, <1>3 DEF TailLine, SampleLine, WindowLine, ReadLine, writerVars
    <2> QED  BY <2>1, SampledTakeLine
  <1>4. CASE Open
    <2>1. source = NoFile /\ checkpoints' = checkpoints
          /\ pc' \notin {"checkBefore", "checkAfter"}
      BY <1>2, <1>4 DEF Open, Closed
    <2>2. Len(checkpoints') = 0
      BY <2>1 DEF SampledInv
    <2>3. source' # NoFile
      BY <1>4 DEF Open
    <2> QED  BY <2>1, <2>2, <2>3 DEF SampledInv
  <1>5. CASE TailEnd \/ ShowLine \/ ShowEnd \/ ReadEnd
    BY <1>1, <1>5 DEF TailEnd, ShowLine, ShowEnd, ReadEnd, AfterTail, writerVars, readerVars
  <1>6. CASE SeekWindow \/ WindowEnd
    <2>1. /\ UNCHANGED <<files, truncated, source, checkpoints>>
          /\ pc' \notin {"checkBefore", "checkAfter"}
      BY <1>6 DEF SeekWindow, WindowEnd, AfterTail, writerVars
    <2> QED  BY <2>1 DEF SampledInv, Untouched
  <1>7. ASSUME NEW look \in {"before", "after"}, Stat(look)
        PROVE  SampledInv'
    <2>1. UNCHANGED <<files, truncated>>
      BY <1>7 DEF Stat, writerVars
    <2>2. CASE pc' = NextRead(look) /\ UNCHANGED <<size, readerVars, checkpoints, trail>>
      <3>1. pc' \notin {"checkBefore", "checkAfter"}
        BY <2>2 DEF NextRead
      <3> QED  BY <1>1, <2>1, <2>2, <3>1 DEF readerVars
    <2>3. CASE name = source /\ size' = Len(files[name]) /\ UNCHANGED <<readerVars, checkpoints, trail>>
      <3>1. ASSUME Untouched PROVE position <= Len(files[source])
        <4>1. position + Len(ahead) <= Len(files[source])
          BY <3>1, UntouchedCurrent DEF FlowInv, AheadInv, Untouched
        <4>2. position \in Nat /\ Len(ahead) \in Nat /\ Len(files[source]) \in Nat
          BY <3>1, OpenSource DEF TypeInv, ReaderOK, Untouched
        <4> QED  BY <4>1, <4>2
      <3> QED  BY <2>1, <2>3, <3>1 DEF SampledInv, Untouched, readerVars
    <2>4. CASE source' = NoFile /\ checkpoints' = <<>>
      BY <2>4 DEF SampledInv, Untouched
    <2> QED  BY <1>7, <2>2, <2>3, <2>4 DEF Stat
  <1>8. ASSUME NEW look \in {"before", "after"}, Check(look)
        PROVE  SampledInv'
    <2>1. /\ UNCHANGED <<files, truncated, source, size>>
          /\ pc' \notin {"checkBefore", "checkAfter"} /\ pc \in {"checkBefore", "checkAfter"}
      BY <1>8 DEF Check, CheckOf, NextRead, writerVars
    <2>2. CASE Untouched
      <3>1. UNCHANGED <<position, checkpoints, trail>>
        BY <1>8, <2>1, <2>2, UntouchedPasses DEF Check
      <3> QED  BY <1>1, <2>1, <3>1
    <2>3. CASE ~Untouched
      <3>1. checkpoints' = checkpoints \/ checkpoints' = <<>>
        BY <1>8 DEF Check
      <3> QED  BY <2>1, <2>3, <3>1 DEF SampledInv, Untouched
    <2> QED  BY <2>2, <2>3
  <1>9. CASE Reader
    BY <1>3, <1>4, <1>5, <1>6, <1>7, <1>8, <1>9 DEF Reader
  <1>10. CASE Stop
    BY <1>10 DEF Stop, SampledInv, Untouched
  <1>11. ASSUME UNCHANGED followerVars,
                Untouched' =>
                   /\ Untouched /\ Len(files[source]) <= Len(files'[source])
                   /\ Len(files[source]) \in Nat /\ Len(files'[source]) \in Nat
                   /\ \A i \in 1 .. Len(files[source]) : files'[source][i] = files[source][i]
         PROVE  SampledInv'
    <2>1. UNCHANGED <<source, position, checkpoints, size, pc>>
      BY <1>11 DEF followerVars, readerVars
    <2>2. ASSUME Untouched', NEW i \in 1 .. Len(checkpoints)
          PROVE  Sampled(checkpoints[i], files'[source])
      <3>1. checkpoints \in Seq(Samples)
        BY DEF TypeInv, MemoryOK
      <3>2. checkpoints[i] \in Samples
        BY <3>1
      <3>3. Sampled(checkpoints[i], files[source])
        BY <1>11, <2>2 DEF SampledInv
      <3> QED  BY <1>11, <2>2, <3>2, <3>3, SampledGrown
    <2> QED  BY <1>11, <2>1, <2>2 DEF SampledInv
  <1>12. ASSUME source # NoFile
         PROVE  /\ source \in Files /\ DOMAIN files = Files /\ files[source] \in Seq(Piece)
                /\ Len(files[source]) \in Nat /\ truncated \in [Files -> 0 .. MaxTruncations]
                /\ truncated[source] \in Nat
    <2>1. source \in Files /\ Len(files[source]) \in Nat /\ files[source] \in Seq(Piece)
      BY <1>12, OpenSource DEF TypeInv
    <2>2. DOMAIN files = Files /\ truncated \in [Files -> 0 .. MaxTruncations]
      BY DEF TypeInv, WritersOK
    <2>3. truncated[source] \in Nat
      BY <2>1, <2>2
    <2> QED  BY <2>1, <2>2, <2>3
  <1>13. ASSUME NEW f \in Files, NEW text \in Texts, NEW ends \in BOOLEAN, AppendTo(f, text, ends)
         PROVE  SampledInv'
    <2> DEFINE p == [id |-> pieces + 1, text |-> text, ends |-> ends,
                     due |-> f \in {source} \cap {name} /\ pc \notin Tailing]
    <2>1. files' = [files EXCEPT ![f] = Append(@, p)] /\ UNCHANGED <<truncated, followerVars>>
      BY <1>13 DEF AppendTo
    <2> HIDE DEF p
    <2>2. ASSUME source # NoFile
          PROVE  /\ Len(files'[source]) \in Nat /\ Len(files[source]) <= Len(files'[source])
                 /\ \A i \in 1 .. Len(files[source]) : files'[source][i] = files[source][i]
      <3>1. files'[source] = IF source = f THEN Append(files[source], p) ELSE files[source]
        BY <1>12, <2>1, <2>2, Zenon
      <3>2. /\ Len(Append(files[source], p)) = Len(files[source]) + 1
            /\ \A i \in 1 .. Len(files[source]) : Append(files[source], p)[i] = files[source][i]
        BY <1>12, <2>2
      <3> QED  BY <1>12, <2>2, <3>1, <3>2
    <2>3. Untouched' => Untouched /\ source # NoFile
      BY <2>1 DEF Untouched, followerVars, readerVars
    <2> QED  BY <1>11, <1>12, <2>1, <2>2, <2>3
  <1>14. CASE Truncate
    <2>1. /\ files' = [files EXCEPT ![name] = <<>>]
          /\ truncated' = [truncated EXCEPT ![name] = @ + 1]
          /\ UNCHANGED followerVars /\ source' = source
      BY <1>14 DEF Truncate, followerVars, readerVars
    <2>2. ASSUME Untouched'
          PROVE  files'[source] = files[source] /\ truncated'[source] = truncated[source]
                 /\ source # NoFile
      <3>1. source # NoFile /\ truncated'[source] = 0
        BY <2>1, <2>2 DEF Untouched
      <3>2. source # name
        <4> SUFFICES ASSUME source = name PROVE FALSE
          OBVIOUS
        <4>1. truncated'[source] = truncated[source] + 1
          BY <1>12, <2>1, <3>1
        <4> QED  BY <1>12, <3>1, <4>1
      <3> QED  BY <1>12, <2>1, <3>1, <3>2, Zenon
    <2>3. ASSUME Untouched' PROVE Untouched
      BY <2>1, <2>2, <2>3 DEF Untouched
    <2> QED  BY <1>11, <1>12, <2>1, <2>2, <2>3
  <1>15. CASE \E f \in Files \cup {NoFile} : Rename(f)
    BY <1>1, <1>15 DEF Rename, followerVars, readerVars
  <1>16. CASE UNCHANGED vars
    BY <1>1, <1>16 DEF vars, writerVars, followerVars, readerVars
  <1> QED  BY <1>9, <1>10, <1>13, <1>14, <1>15, <1>16 DEF Next, Writer

\* While the end of the file is looked for, nothing was given.
LEMMA FilesNothing ==
    ASSUME delivered' = <<>>,
           \A i \in 1 .. Len(context') : \A j \in 1 .. Len(context'[i]) :
               context'[i][j].file = source'
    PROVE  FilesInv' /\ Once(delivered', truncated')
  <1>1. Len(delivered') = 0
    OBVIOUS
  <1> QED  BY <1>1 DEF FilesInv, Once

\* Steps that leave what was given and keep nothing more.
LEMMA FilesKept ==
    ASSUME FilesInv, Once(delivered, truncated),
           UNCHANGED <<source, truncated, created, delivered, begun>>,
           context' = context \/ context' = <<>>,
           pc' = "open" => pc = "open",
           position' = position
    PROVE  FilesInv' /\ Once(delivered', truncated')
  <1>1. \A i \in 1 .. Len(context') : \A j \in 1 .. Len(context'[i]) : context'[i][j].file = source
    <2>1. CASE context' = context
      BY <2>1 DEF FilesInv
    <2>2. CASE context' = <<>>
      <3>1. Len(context') = 0
        BY <2>2
      <3> QED  BY <3>1
    <2> QED  BY <2>1, <2>2
  <1>2. FilesInv'
    BY <1>1 DEF FilesInv, Untouched
  <1> QED  BY <1>2

LEMMA FilesTailLine ==
    ASSUME TypeInv, FlowInv, FilesInv, TailLine
    PROVE  FilesInv' /\ Once(delivered', truncated')
  <1> DEFINE l == Given(NextLine)
             all == Append(context, l)
  <1>1. /\ source # NoFile /\ TakeLine /\ pc = "tail"
        /\ UNCHANGED <<source, delivered>>
        /\ context' = IF Len(all) > options.lines THEN Tail(all) ELSE all
    BY DEF TypeInv, ControlOK, TailLine, Closed
  <1>2. delivered' = <<>>
    BY <1>1 DEF FlowInv, PhaseInv, Tailing
  <1>3. source \in Files /\ NextLine \in Seq(Piece) /\ context \in Seq(Seq(Shown))
    BY <1>1, TakeLineTypes, OpenSource DEF TypeInv, MemoryOK
  <1>4. l \in Seq(Shown) /\ \A j \in 1 .. Len(l) : l[j].file = source
    BY <1>3, GivenFacts, GivenOf
  <1>5. /\ all \in Seq(Seq(Shown)) /\ Len(all) = Len(context) + 1 /\ Len(context) \in Nat
        /\ all[Len(context) + 1] = l /\ \A i \in 1 .. Len(context) : all[i] = context[i]
    BY <1>3, <1>4
  <1> HIDE DEF l, all
  <1>6. ASSUME NEW i \in 1 .. Len(all)
        PROVE  \A j \in 1 .. Len(all[i]) : all[i][j].file = source
    <2>1. CASE i = Len(context) + 1
      BY <1>4, <1>5, <2>1
    <2>2. CASE i # Len(context) + 1
      <3>1. i \in 1 .. Len(context) /\ all[i] = context[i]
        BY <1>5, <2>2
      <3> QED  BY <3>1 DEF FilesInv
    <2> QED  BY <2>1, <2>2
  <1>7. ASSUME NEW i \in 1 .. Len(context')
        PROVE  \A j \in 1 .. Len(context'[i]) : context'[i][j].file = source
    <2>1. CASE context' = all
      BY <1>6, <2>1
    <2>2. CASE context' = Tail(all)
      <3>1. all # <<>> /\ Len(all) \in Nat
        BY <1>5
      <3>2. Len(Tail(all)) = Len(all) - 1 /\ \A h \in 1 .. Len(Tail(all)) : Tail(all)[h] = all[h + 1]
        BY <1>5, <3>1, HeadTailProperties
      <3>3. i \in 1 .. Len(Tail(all)) /\ i + 1 \in 1 .. Len(all)
        BY <2>2, <3>1, <3>2
      <3>4. context'[i] = all[i + 1]
        BY <2>2, <3>2, <3>3
      <3> QED  BY <1>6, <3>3, <3>4
    <2> QED  BY <1>1, <2>1, <2>2
  <1> QED  BY <1>1, <1>2, <1>7, FilesNothing

LEMMA FilesShowLine ==
    ASSUME TypeInv, FlowInv, WritingInv, FilesInv, Once(delivered, truncated),
           TypeInv', FlowInv', ShowLine
    PROVE  FilesInv' /\ Once(delivered', truncated')
  <1> DEFINE l == Head(context)
             k == files[source]
  <1>1. /\ pc = "show" /\ pc' = pc /\ context # <<>> /\ pc \in Tailing /\ source # NoFile
        /\ delivered' = delivered \o l /\ context' = Tail(context)
        /\ UNCHANGED <<files, truncated, created, source, position, begun>>
    BY DEF TypeInv, ControlOK, ShowLine, writerVars, readerVars, history, Tailing, Closed
  <1>2. /\ context \in Seq(Seq(Shown)) /\ delivered \in Seq(Shown) /\ begun \in Begun
        /\ position \in Nat /\ source \in Nat /\ source \in Files /\ k \in Seq(Piece)
    <2>1. source \in Files /\ k \in Seq(Piece)
      BY <1>1, OpenSource DEF TypeInv
    <2> QED  BY <2>1 DEF TypeInv, MemoryOK, ReaderOK, Begun, Files
  <1>3. /\ l \in Seq(Shown) /\ l = context[1] /\ 1 \in 1 .. Len(context) /\ Len(context) \in Nat
        /\ Len(context') = Len(context) - 1
        /\ \A i \in 1 .. Len(context') : context'[i] = context[i + 1]
    <2>1. Len(context) \in Nat /\ 1 \in 1 .. Len(context)
      BY <1>1, <1>2
    <2> QED  BY <1>1, <1>2, <2>1, HeadTailProperties
  <1>4. /\ \A j \in 1 .. Len(l) : l[j].file = source
        /\ \A i \in 1 .. Len(delivered) : delivered[i].file <= source
    BY <1>1, <1>3 DEF FilesInv
  <1>5. begun.shown = 0
    BY <1>1 DEF FlowInv, PhaseInv
  <1>6. ASSUME Untouched
        PROVE  /\ \A i, j \in 1 .. Len(l) : i < j => l[i].id < l[j].id
               /\ \A i \in 1 .. Len(delivered), j \in 1 .. Len(l) :
                     delivered[i].file = source => delivered[i].id < l[j].id
    <2>1. Current
      BY <1>6, UntouchedCurrent DEF FlowInv
    <2>2. PICK a \in Places(context, position) :
             Offsets(context, source, k, a, position) /\ GivenTo(delivered, begun, source, k, a[1])
      BY <1>1, <2>1 DEF FlowInv, ShownInv
    <2>3. position <= Len(k)
      <3>1. position + Len(ahead) <= Len(k)
        BY <1>1, <2>1 DEF FlowInv, AheadInv
      <3>2. Len(ahead) \in Nat /\ Len(k) \in Nat
        BY <1>2 DEF TypeInv, ReaderOK
      <3> QED  BY <1>2, <3>1, <3>2
    <2>4. Rising(k)
      BY <1>2 DEF WritingInv
    <2> HIDE DEF k
    <2>5. /\ a[1] \in Nat /\ a[2] \in Nat /\ a[1] <= a[2] /\ a[2] <= position
          /\ LineIs(l, source, k, a[1], a[2])
      BY <1>1, <1>2, <2>2, OffsetsTail
    <2>6. Len(k) \in Nat
      BY <1>2
    <2>7. a[2] <= Len(k)
      BY <1>2, <2>3, <2>5, <2>6
    <2>8. \A i \in 1 .. Len(delivered) : i <= begun.shown => delivered[i].file # source
      BY <1>5
    <2> HIDE DEF l
    <2>9. k \in Seq(Piece) /\ delivered \in Seq(Shown) /\ begun \in Begun /\ l \in Seq(Shown)
      BY <1>2, <1>3
    <2>10. GivenTo(delivered, begun, source, k, a[1])
      BY <2>2
    <2> QED  BY <2>4, <2>5, <2>7, <2>8, <2>9, <2>10, RisingFurther
  <1> HIDE DEF l, k
  <1>7. Once(delivered', truncated)
    <2>1. truncated[source] = 0 => Untouched
      BY <1>1 DEF Untouched
    <2>2. delivered \in Seq(Shown) /\ l \in Seq(Shown) /\ source \in Nat
      BY <1>2, <1>3
    <2>3. Once(delivered \o l, truncated)
      BY <1>4, <1>6, <2>1, <2>2, OnceFurther
    <2> QED  BY <1>1, <2>3
  <1>8. \A i \in 1 .. Len(delivered') : delivered'[i].file <= source
    <2>1. delivered \in Seq(Shown) /\ l \in Seq(Shown) /\ source \in Nat
      BY <1>2, <1>3
    <2>2. \A i \in 1 .. Len(delivered \o l) : (delivered \o l)[i].file <= source
      BY <1>4, <2>1, FilesFurther
    <2> QED  BY <1>1, <2>2, Zenon
  <1>9. \A i \in 1 .. Len(context') : \A j \in 1 .. Len(context'[i]) : context'[i][j].file = source
    <2>1. \A i \in 1 .. Len(context') : i + 1 \in 1 .. Len(context) /\ context'[i] = context[i + 1]
      BY <1>3
    <2> QED  BY <2>1 DEF FilesInv
  <1>10. ASSUME Untouched', NEW i \in 1 .. Len(delivered'), position = 0 \/ i <= begun.shown
         PROVE  delivered'[i].file < source
    <2>1. Len(delivered') \in Nat
      BY DEF TypeInv, MemoryOK
    <2>2. position = 0
      BY <1>5, <1>10, <2>1
    <2>3. Current'
      BY <1>1, <2>2 DEF Current
    <2>4. PICK a \in Places(context', position') : GivenTo(delivered', begun', source', files'[source'], a[1])
      BY <1>1, <2>3 DEF FlowInv, ShownInv
    <2>5. a[1] \in 0 .. position'
      <3>1. 1 \in 1 .. Len(context') + 1
        BY <1>3
      <3> QED  BY <2>4, <3>1 DEF Places
    <2>6. Len(delivered') - begun.shown <= a[1]
      BY <1>1, <2>4 DEF GivenTo
    <2>7. a[1] = 0
      BY <1>1, <2>2, <2>5
    <2>8. Len(delivered') <= 0
      BY <1>5, <2>1, <2>6, <2>7
    <2> QED  BY <2>1, <2>8
  <1>11. FilesInv'
    BY <1>1, <1>8, <1>9, <1>10 DEF FilesInv
  <1> QED  BY <1>1, <1>7, <1>11

LEMMA FilesReadLine ==
    ASSUME TypeInv, FlowInv, WritingInv, FilesInv, Once(delivered, truncated), ReadLine
    PROVE  FilesInv' /\ Once(delivered', truncated')
  <1> DEFINE l == Given(NextLine)
             k == files[source]
  <1>1. /\ source # NoFile /\ TakeLine /\ pc \in {"reread", "read"} /\ pc' = pc
        /\ pc \notin Tailing /\ delivered' = delivered \o l
        /\ UNCHANGED <<files, truncated, created, source, context>>
    BY DEF TypeInv, ControlOK, ReadLine, Closed, Tailing, writerVars
  <1>2. /\ position \in Nat /\ position' \in Nat /\ position < position'
        /\ begun' \in Begun /\ (position > 0 => begun' = begun)
        /\ l \in Seq(Shown)
        /\ begun'.truncations <= truncated[source]
        /\ Current' => /\ Current /\ LineIs(l, source, k, position, position')
                       /\ position' <= Len(k)
    BY <1>1, TakeLineFlow DEF FlowInv
  <1>3. /\ delivered \in Seq(Shown) /\ source \in Nat /\ source \in Files /\ k \in Seq(Piece)
        /\ NextLine \in Seq(Piece)
    <2>1. source \in Files /\ k \in Seq(Piece) /\ NextLine \in Seq(Piece)
      BY <1>1, OpenSource, TakeLineTypes DEF TypeInv
    <2> QED  BY <2>1 DEF TypeInv, MemoryOK, Files
  <1>4. /\ \A j \in 1 .. Len(l) : l[j].file = source
        /\ \A i \in 1 .. Len(delivered) : delivered[i].file <= source
    <2>1. \A j \in 1 .. Len(l) : l[j].file = source
      BY <1>3, GivenOf
    <2> QED  BY <1>1, <2>1 DEF FilesInv
  <1>5. ASSUME Untouched
        PROVE  Current' /\ begun'.shown \in Nat /\ begun'.shown <= Len(delivered)
               /\ GivenTo(delivered, begun', source, k, position)
    <2>1. begun'.truncations \in Nat /\ begun'.shown \in Nat
      BY <1>2 DEF Begun
    <2>2. Current'
      BY <1>1, <1>2, <1>5, <2>1 DEF Current, Untouched
    <2>3. GivenTo(delivered, begun', source, k, position)
      BY <1>1, <2>2, GivenSoFar
    <2> QED  BY <2>1, <2>2, <2>3 DEF GivenTo
  <1>6. ASSUME Untouched, NEW i \in 1 .. Len(delivered), i <= begun'.shown
        PROVE  delivered[i].file < source
    <2>1. CASE position = 0
      BY <1>6, <2>1 DEF FilesInv
    <2>2. CASE position # 0
      <3>1. begun' = begun
        BY <1>2, <2>2
      <3> QED  BY <1>6, <3>1 DEF FilesInv
    <2> QED  BY <2>1, <2>2
  <1>7. ASSUME Untouched
        PROVE  /\ \A i, j \in 1 .. Len(l) : i < j => l[i].id < l[j].id
               /\ \A i \in 1 .. Len(delivered), j \in 1 .. Len(l) :
                     delivered[i].file = source => delivered[i].id < l[j].id
    <2>1. Rising(k) /\ LineIs(l, source, k, position, position') /\ position' <= Len(k)
          /\ GivenTo(delivered, begun', source, k, position) /\ position <= position'
      BY <1>2, <1>3, <1>5, <1>7 DEF WritingInv
    <2>2. \A i \in 1 .. Len(delivered) : i <= begun'.shown => delivered[i].file # source
      BY <1>3, <1>6, <1>7
    <2> HIDE DEF l, k
    <2> QED  BY <1>2, <1>3, <2>1, <2>2, RisingFurther
  <1> HIDE DEF l, k
  <1>8. Once(delivered', truncated)
    <2>1. truncated[source] = 0 => Untouched
      BY <1>1 DEF Untouched
    <2> QED  BY <1>1, <1>2, <1>3, <1>4, <1>7, <2>1, OnceFurther
  <1>9. \A i \in 1 .. Len(delivered') :
           /\ delivered'[i].file <= source
           /\ i <= Len(delivered) => i \in 1 .. Len(delivered) /\ delivered'[i] = delivered[i]
    <2>1. \A i \in 1 .. Len(delivered \o l) :
             /\ (delivered \o l)[i].file <= source
             /\ i <= Len(delivered) => i \in 1 .. Len(delivered) /\ (delivered \o l)[i] = delivered[i]
      BY <1>2, <1>3, <1>4, FilesFurther
    <2> QED  BY <1>1, <2>1, Zenon
  <1>10. ASSUME Untouched', NEW i \in 1 .. Len(delivered'), position' = 0 \/ i <= begun'.shown
         PROVE  delivered'[i].file < source
    <2>1. Untouched /\ position' # 0
      BY <1>1, <1>2, <1>10 DEF Untouched
    <2>2. begun'.shown \in Nat /\ begun'.shown <= Len(delivered) /\ i <= begun'.shown
      BY <1>5, <1>10, <2>1
    <2>3. i <= Len(delivered)
      <3>1. Len(delivered) \in Nat
        BY <1>3
      <3> QED  BY <2>2, <3>1
    <2> QED  BY <1>6, <1>9, <2>1, <2>2, <2>3
  <1>11. FilesInv'
    BY <1>1, <1>9, <1>10 DEF FilesInv
  <1> QED  BY <1>1, <1>8, <1>11

LEMMA FilesOpen ==
    ASSUME TypeInv, FlowInv, FilesInv, Once(delivered, truncated), Open
    PROVE  FilesInv' /\ Once(delivered', truncated')
  <1>1. /\ pc = "open" /\ pc' # "open" /\ source' = name /\ name # NoFile /\ context' = context
        /\ UNCHANGED <<truncated, created, delivered, begun>>
    BY DEF Open, writerVars, history
  <1>2. context = <<>>
    BY <1>1 DEF FlowInv, PhaseInv
  <1>3. name = created /\ created \in Nat
    BY <1>1 DEF TypeInv, WritersOK
  <1>4. \A i \in 1 .. Len(delivered) : delivered[i].file < created /\ delivered[i].file <= created
    <2>1. delivered \in Seq(Shown)
      BY DEF TypeInv, MemoryOK
    <2>2. \A i \in 1 .. Len(delivered) : delivered[i] \in Shown
      BY <2>1
    <2>3. \A i \in 1 .. Len(delivered) : delivered[i].file \in Nat
      BY <2>2 DEF Shown, Files
    <2>4. \A i \in 1 .. Len(delivered) : delivered[i].file < created
      BY <1>1 DEF FilesInv
    <2> QED  BY <1>3, <2>3, <2>4
  <1>5. Len(context') = 0
    BY <1>1, <1>2
  <1>6. FilesInv'
    BY <1>1, <1>3, <1>4, <1>5 DEF FilesInv
  <1> QED  BY <1>1, <1>6

LEMMA FilesStat ==
    ASSUME TypeInv, FlowInv, FilesInv, Once(delivered, truncated),
           NEW look \in {"before", "after"}, Stat(look)
    PROVE  FilesInv' /\ Once(delivered', truncated')
  <1>1. /\ pc = look /\ UNCHANGED <<truncated, created, delivered, begun, context>>
        /\ source # NoFile
    BY DEF Stat, writerVars, TypeInv, ControlOK, Closed
  <1>2. CASE pc' = NextRead(look) /\ UNCHANGED readerVars
    <2>1. pc' # "open"
      BY <1>2 DEF NextRead
    <2> QED  BY <1>1, <1>2, <2>1, FilesKept DEF readerVars
  <1>3. CASE pc' = CheckOf(look) /\ UNCHANGED readerVars
    <2>1. pc' # "open"
      BY <1>3 DEF CheckOf
    <2> QED  BY <1>1, <1>3, <2>1, FilesKept DEF readerVars
  <1>4. CASE name \notin {NoFile, source} /\ source' = NoFile
    <2>1. context = <<>>
      BY <1>1 DEF FlowInv, PhaseInv
    <2>2. Len(context') = 0
      BY <1>1, <2>1
    <2>3. name = created /\ created \in Nat /\ source \in 0 .. created /\ source # created
      BY <1>4 DEF TypeInv, WritersOK, ReaderOK
    <2>4. \A i \in 1 .. Len(delivered) : delivered[i].file < created
      <3>1. delivered \in Seq(Shown)
        BY DEF TypeInv, MemoryOK
      <3>2. \A i \in 1 .. Len(delivered) : delivered[i] \in Shown
        BY <3>1
      <3>3. \A i \in 1 .. Len(delivered) : delivered[i].file \in Nat
        BY <3>2 DEF Shown, Files
      <3>4. \A i \in 1 .. Len(delivered) : delivered[i].file <= source
        BY <1>1 DEF FilesInv
      <3>5. source < created
        BY <2>3
      <3> QED  BY <2>3, <3>3, <3>4, <3>5
    <2>5. FilesInv'
      BY <1>1, <1>4, <2>2, <2>4 DEF FilesInv, Untouched
    <2> QED  BY <1>1, <2>5
  <1> QED  BY <1>2, <1>3, <1>4 DEF Stat

LEMMA FilesCheck ==
    ASSUME TypeInv, FlowInv, SampledInv, FilesInv, Once(delivered, truncated),
           NEW look \in {"before", "after"}, Check(look)
    PROVE  FilesInv' /\ Once(delivered', truncated')
  <1>1. /\ UNCHANGED <<source, truncated, created, delivered, begun, context>>
        /\ pc \in {"checkBefore", "checkAfter"} /\ pc' # "open"
    BY DEF Check, CheckOf, NextRead, writerVars
  <1>2. CASE Untouched
    <2>1. position' = position
      BY <1>1, <1>2, UntouchedPasses DEF Check
    <2> QED  BY <1>1, <2>1, FilesKept
  <1>3. CASE ~Untouched
    <2>1. FilesInv'
      BY <1>1, <1>3 DEF FilesInv, Untouched
    <2> QED  BY <1>1, <2>1
  <1> QED  BY <1>2, <1>3

\* What the writers do only takes files from those never truncated.
LEMMA FilesWritten ==
    ASSUME TypeInv, FilesInv, Once(delivered, truncated), UNCHANGED followerVars,
           created' \in Nat, created <= created',
           \A f \in Files : truncated'[f] = 0 => truncated[f] = 0
    PROVE  FilesInv' /\ Once(delivered', truncated')
  <1>1. UNCHANGED <<pc, source, position, context, delivered, begun>>
    BY DEF followerVars, readerVars, history
  <1>2. delivered \in Seq(Shown) /\ created \in Nat
    BY DEF TypeInv, MemoryOK, WritersOK
  <1>3. \A i \in 1 .. Len(delivered) : delivered[i] \in Shown
    BY <1>2
  <1>4. \A i \in 1 .. Len(delivered) : delivered[i].file \in Files /\ delivered[i].file \in Nat
    BY <1>3 DEF Shown, Files
  <1>5. Untouched' => Untouched
    <2>1. source # NoFile => source \in Files
      BY OpenSource DEF TypeInv
    <2> QED  BY <1>1, <2>1 DEF Untouched
  <1>6. pc = "open" => \A i \in 1 .. Len(delivered) : delivered[i].file < created'
    BY <1>2, <1>4 DEF FilesInv
  <1>7. FilesInv'
    BY <1>1, <1>5, <1>6 DEF FilesInv
  <1>8. Once(delivered, truncated')
    BY <1>4 DEF Once
  <1> QED  BY <1>1, <1>7, <1>8

LEMMA FilesStep ==
    TypeInv /\ TypeInv' /\ FlowInv /\ FlowInv' /\ OnceInv /\ [Next]_vars
        => FilesInv' /\ Once(delivered', truncated')
  <1> SUFFICES ASSUME TypeInv, TypeInv', FlowInv, FlowInv', OnceInv, [Next]_vars
               PROVE  FilesInv' /\ Once(delivered', truncated')
    OBVIOUS
  <1>1. WritingInv /\ SampledInv /\ FilesInv /\ Once(delivered, truncated)
    BY DEF OnceInv
  <1>2. CASE Open \/ TailLine \/ ShowLine \/ ReadLine
    BY <1>1, <1>2, FilesOpen, FilesTailLine, FilesShowLine, FilesReadLine
  <1>3. CASE TailEnd \/ ShowEnd \/ ReadEnd
    BY <1>1, <1>3, FilesKept DEF TailEnd, ShowEnd, ReadEnd, AfterTail, writerVars, readerVars, history
  <1>4. CASE SampleLine \/ WindowLine \/ SeekWindow \/ WindowEnd
    <2>1. delivered = <<>> /\ context = <<>> /\ UNCHANGED <<delivered, context>>
      BY <1>4 DEF FlowInv, PhaseInv, Tailing, SampleLine, WindowLine, SeekWindow, WindowEnd
    <2>2. Len(context') = 0
      BY <2>1
    <2> QED  BY <2>1, <2>2, FilesNothing
  <1>5. CASE \E look \in {"before", "after"} : Stat(look) \/ Check(look)
    BY <1>1, <1>5, FilesStat, FilesCheck
  <1>6. CASE Reader
    BY <1>2, <1>3, <1>4, <1>5, <1>6 DEF Reader
  <1>7. CASE Stop
    <2>1. /\ source' = NoFile /\ context' = <<>> /\ pc' # "open"
          /\ UNCHANGED <<truncated, delivered>>
      BY <1>7 DEF Stop, writerVars
    <2>2. Len(context') = 0
      BY <2>1
    <2>3. FilesInv'
      BY <2>1, <2>2 DEF FilesInv, Untouched
    <2> QED  BY <1>1, <2>1, <2>3
  <1>8. CASE Writer
    <2>1. UNCHANGED followerVars
      BY <1>8 DEF Writer, AppendTo, Truncate, Rename
    <2>2. created \in Nat /\ created' \in Nat /\ truncated \in [Files -> 0 .. MaxTruncations]
      BY DEF TypeInv, WritersOK
    <2>3. created <= created'
      <3>1. created' = created \/ \E f \in Files \cup {NoFile} : Rename(f)
        BY <1>8, Zenon DEF Writer, AppendTo, Truncate
      <3>2. ASSUME NEW f \in Files \cup {NoFile}, Rename(f) PROVE created' \in {created, created + 1}
        BY <3>2 DEF Rename
      <3>3. created' \in {created, created + 1}
        BY <3>1, <3>2
      <3> QED  BY <2>2, <3>3
    <2>4. \A f \in Files : truncated'[f] = 0 => truncated[f] = 0
      <3>1. CASE truncated' = truncated
        BY <3>1
      <3>2. CASE Truncate
        <4>1. truncated' = [truncated EXCEPT ![name] = @ + 1]
          BY <3>2 DEF Truncate
        <4>2. ASSUME NEW f \in Files, truncated'[f] = 0 PROVE truncated[f] = 0
          <5>1. truncated[f] \in Nat
            BY <2>2
          <5>2. truncated'[f] = IF f = name THEN truncated[f] + 1 ELSE truncated[f]
            BY <2>2, <4>1
          <5> QED  BY <4>2, <5>1, <5>2
        <4> QED  BY <4>2
      <3> QED  BY <1>8, <3>1, <3>2 DEF Writer, AppendTo, Rename
    <2> QED  BY <1>1, <2>1, <2>2, <2>3, <2>4, FilesWritten
  <1>9. CASE UNCHANGED vars
    BY <1>1, <1>9, FilesKept DEF vars, writerVars, followerVars, readerVars, history
  <1> QED  BY <1>6, <1>7, <1>8, <1>9 DEF Next

LEMMA OnceStep ==
    TypeInv /\ TypeInv' /\ FlowInv /\ FlowInv' /\ OnceInv /\ [Next]_vars => OnceInv'
  BY WritingStep, SampledStep, FilesStep DEF OnceInv

LEMMA OnceInit == Init => OnceInv
  <1> SUFFICES ASSUME Init PROVE OnceInv
    OBVIOUS
  <1>1. /\ source = NoFile /\ Len(context) = 0 /\ Len(delivered) = 0 /\ checkpoints = <<>>
        /\ files = [f \in Files |-> <<>>]
    BY DEF Init
  <1>2. WritingInv
    <2>1. \A f \in Files : Len(files[f]) = 0
      BY <1>1
    <2> QED  BY <2>1 DEF WritingInv, Rising
  <1>3. SampledInv /\ FilesInv /\ Once(delivered, truncated)
    BY <1>1 DEF SampledInv, FilesInv, Once, Untouched
  <1> QED  BY <1>2, <1>3 DEF OnceInv

\* The comparison with the checkpoints never takes an append for a rewrite, so
\* that no piece of a file that is never truncated is processed twice, or
\* after a later one: neither when a partial line was read and completed
\* since, nor when the list of checkpoints had to give some up.
THEOREM EachPieceOnce == Spec => []DeliveredOnce
  <1>1. TypeInv /\ OnceInv => DeliveredOnce
    <2> SUFFICES ASSUME TypeInv, OnceInv PROVE DeliveredOnce
      OBVIOUS
    <2>1. delivered \in Seq(Shown)
      BY DEF TypeInv, MemoryOK
    <2>2. DOMAIN delivered = 1 .. Len(delivered)
      BY <2>1
    <2>3. Once(delivered, truncated)
      BY DEF OnceInv
    <2> QED  BY <2>2, <2>3, Zenon DEF DeliveredOnce, Once
  <1>2. TypeInv /\ FlowInv /\ OnceInv /\ [Next]_vars => TypeInv' /\ FlowInv' /\ OnceInv'
    BY TypeStep, FlowStep, OnceStep
  <1> QED  BY <1>1, <1>2, TypeInit, FlowInit, OnceInit, PTL DEF Spec
=============================================================================
