------------------------------ MODULE Follower ------------------------------
(***************************************************************************)
(* Following a file: _follow_file of qurtail.py, and _read_file_once, with *)
(* everything they call, against a writer that appends to the file,        *)
(* truncates it in place, renames or deletes it and creates it anew.       *)
(*                                                                         *)
(* A file is a sequence of pieces of text, of which some end a line; an    *)
(* offset counts pieces.  A piece is numbered by the order of writing, so  *)
(* that equal texts can be told apart.  The reader of the code is buffered *)
(* (io.TextIOWrapper): one read of the system fetches all that is left of  *)
(* the file, and the lines of it are handed out later from ahead.          *)
(***************************************************************************)
EXTENDS Integers, SequencesExt, FiniteSetsExt

CONSTANTS
    LineCounts,        \* what -n may say
    Limit,             \* FILE_CHECKPOINT_LIMIT
    Window,            \* FILE_TAIL_CHECKPOINT_BYTES
    Texts,             \* what a piece may say
    MaxPieces,         \* bound: pieces written
    MaxFiles,          \* bound: files created
    MaxTruncations     \* bound: truncations of each file

ASSUME FollowerAssumption ==
    /\ LineCounts \in SUBSET Nat
    /\ Limit \in Nat /\ Limit >= 2
    /\ Window \in Nat
    /\ MaxPieces \in Nat /\ MaxFiles \in Nat /\ MaxTruncations \in Nat

NoFile == 0
Files == 1 .. MaxFiles

VARIABLES
    options,           \* -n, and whether -f or -F is there
    files,             \* the pieces in each file
    created,           \* files created so far
    name,              \* the file the path leads to
    pieces,            \* pieces written so far
    truncated,         \* how often each file was truncated
    pc,                \* the follower
    source, position,  \* the open file and the offset in it
    ahead,             \* pieces read from the file and not handed out
    firstOpen,
    context,           \* the records _tail_existing has to show
    checkpoints,
    size,              \* path_stat.st_size
    delivered,         \* the pieces given to the reducer, each with its file
    trail,             \* history: offsets of the records read since the start
    begun              \* history: how the last reading from offset 0 began

writerVars == <<files, created, name, pieces, truncated>>
readerVars == <<source, position, ahead>>
history == <<trail, begun>>
followerVars == <<options, readerVars, pc, firstOpen, context, checkpoints, size, delivered,
                  history>>
vars == <<writerVars, followerVars>>

-----------------------------------------------------------------------------
(* The writers.                                                            *)

\* _tail_existing is running.
Tailing == {"tail", "show", "sample", "window"}

\* A writer that has opened file f before appends to it, wherever it is now.
\* A piece is due if f is being followed and still has its name.
AppendTo(f, text, ends) ==
    /\ f <= created /\ pieces < MaxPieces
    /\ pieces' = pieces + 1
    /\ files' = [files EXCEPT ![f] =
                    Append(@, [id |-> pieces + 1, text |-> text, ends |-> ends,
                               due |-> f \in {source} \cap {name} /\ pc \notin Tailing])]
    /\ UNCHANGED <<created, name, truncated, followerVars>>

\* A copy-truncate, or the first half of writing the file anew.
Truncate ==
    /\ name # NoFile /\ truncated[name] < MaxTruncations
    /\ files[name] # <<>>
    /\ files' = [files EXCEPT ![name] = <<>>]
    /\ truncated' = [truncated EXCEPT ![name] = @ + 1]
    /\ UNCHANGED <<created, name, pieces, followerVars>>

\* The path is renamed or deleted, created, or replaced by another file.
Rename(f) ==
    /\ f # name
    /\ f = NoFile \/ (f = created + 1 /\ f <= MaxFiles)
    /\ name' = f
    /\ created' = IF f = NoFile THEN created ELSE f
    /\ UNCHANGED <<files, pieces, truncated, followerVars>>

-----------------------------------------------------------------------------
(* Lines and checkpoints.                                                  *)

\* The number of pieces in the first line of s, which may lack its newline.
LineLength(s) ==
    LET ends == {i \in DOMAIN s : s[i].ends}
    IN  IF ends = {} THEN Len(s) ELSE Min(ends)
FirstLine(s) == SubSeq(s, 1, LineLength(s))

Rest(f, start) == SubSeq(files[f], start + 1, Len(files[f]))
Wording(s) == [i \in DOMAIN s |-> <<s[i].text, s[i].ends>>]

\* What the next readline sees: the lines fetched before, if one is complete,
\* otherwise also what is in the file by now.
Readable ==
    IF \E i \in DOMAIN ahead : ahead[i].ends THEN ahead
    ELSE ahead \o Rest(source, position + Len(ahead))

Checkpoint(start, line) ==
    [start |-> start, line |-> Wording(line), partial |-> ~line[Len(line)].ends]

\* Mutant of Remember: the oldest checkpoint is given up.
RememberRecent(samples, start, line) ==
    IF samples # <<>> /\ Last(samples).start = start
    THEN [samples EXCEPT ![Len(samples)] = Checkpoint(start, line)]
    ELSE Append(IF Len(samples) >= Limit THEN Tail(samples) ELSE samples,
                Checkpoint(start, line))

\* Mutant of Remember: all checkpoints are kept.
RememberAll(samples, start, line) ==
    IF samples # <<>> /\ Last(samples).start = start
    THEN [samples EXCEPT ![Len(samples)] = Checkpoint(start, line)]
    ELSE Append(samples, Checkpoint(start, line))

\* _remember_file_checkpoint.
Remember(samples, start, line) ==
    IF samples # <<>> /\ Last(samples).start = start
    THEN [samples EXCEPT ![Len(samples)] = Checkpoint(start, line)]
    ELSE Append(IF Len(samples) >= Limit THEN RemoveAt(samples, Limit \div 2 + 1)
                ELSE samples,
                Checkpoint(start, line))

\* Mutant of Matches: a partial last record must be there unchanged.
MatchesExactly(c) == Wording(FirstLine(Rest(source, c.start))) = c.line

\* _checkpoint_matches, for one checkpoint.
Matches(c) ==
    LET observed == Wording(FirstLine(Rest(source, c.start)))
    IN  IF c.partial THEN IsPrefix(c.line, observed) ELSE observed = c.line

-----------------------------------------------------------------------------
(* Reading.                                                                *)

Given(line) == [i \in DOMAIN line |-> [file |-> source, id |-> line[i].id]]

\* The offsets a checkpoint is taken of; a record read again replaces itself.
Trailed(start) == IF trail # <<>> /\ Last(trail) = start THEN trail ELSE Append(trail, start)

\* readline returns NextLine, or nothing at the end.
NextLine == FirstLine(Readable)
AtEnd == Readable = <<>>

TakeLine ==
    /\ ~AtEnd
    /\ position' = position + Len(NextLine)
    /\ ahead' = SubSeq(Readable, Len(NextLine) + 1, Len(Readable))
    /\ checkpoints' = Remember(checkpoints, position, NextLine)
    /\ trail' = Trailed(position)
    /\ begun' = IF position = 0
                THEN [shown |-> Len(delivered), truncations |-> truncated[source],
                      whole |-> pc \notin Tailing]
                ELSE begun

\* The path is there again, or for the first time.
Open ==
    /\ pc = "open" /\ name # NoFile
    /\ source' = name /\ position' = 0 /\ ahead' = <<>>
    /\ firstOpen' = FALSE
    /\ pc' = IF ~firstOpen THEN "reread" ELSE IF options.lines = 0 THEN "sample" ELSE "tail"
    /\ UNCHANGED <<writerVars, options, context, checkpoints, size, delivered, history>>

AfterTail == IF options.follow THEN "before" ELSE "finished"

\* _tail_existing with a context: the last records are kept.
TailLine ==
    /\ pc = "tail"
    /\ TakeLine
    /\ context' = LET all == Append(context, Given(NextLine))
                  IN  IF Len(all) > options.lines THEN Tail(all) ELSE all
    /\ UNCHANGED <<writerVars, options, pc, source, firstOpen, size, delivered>>

TailEnd ==
    /\ pc = "tail" /\ AtEnd
    /\ pc' = "show"
    /\ UNCHANGED <<writerVars, options, readerVars, firstOpen, context, checkpoints, size,
                   delivered, history>>

\* The records kept are processed, the oldest first.
ShowLine ==
    /\ pc = "show" /\ context # <<>>
    /\ delivered' = delivered \o Head(context)
    /\ context' = Tail(context)
    /\ UNCHANGED <<writerVars, options, pc, readerVars, firstOpen, checkpoints, size, history>>

ShowEnd ==
    /\ pc = "show" /\ context = <<>>
    /\ pc' = AfterTail
    /\ UNCHANGED <<writerVars, options, readerVars, firstOpen, context, checkpoints, size,
                   delivered, history>>

\* _tail_existing without one: samples of the first lines, ...
SampleLine ==
    /\ pc = "sample" /\ Len(trail) < Limit \div 2
    /\ TakeLine
    /\ UNCHANGED <<writerVars, options, pc, source, firstOpen, context, size, delivered>>

\* ... of the last ones, ...
SeekWindow ==
    /\ pc = "sample" /\ (Len(trail) = Limit \div 2 \/ AtEnd)
    /\ position' = Max({0, Len(files[source]) - Window})
    /\ ahead' = <<>>
    /\ pc' = "window"
    /\ UNCHANGED <<writerVars, options, source, firstOpen, context, checkpoints, size,
                   delivered, history>>

WindowLine ==
    /\ pc = "window"
    /\ TakeLine
    /\ UNCHANGED <<writerVars, options, pc, source, firstOpen, context, size, delivered>>

\* ... and the end of the file, which may have moved.
WindowEnd ==
    /\ pc = "window" /\ AtEnd
    /\ position' = Len(files[source])
    /\ pc' = AfterTail
    /\ UNCHANGED <<writerVars, options, source, ahead, firstOpen, context, checkpoints,
                   size, delivered, history>>

\* The loops that read and process, of a file opened anew or polled.
ReadLine ==
    /\ pc \in {"reread", "read"}
    /\ TakeLine
    /\ delivered' = delivered \o Given(NextLine)
    /\ UNCHANGED <<writerVars, options, pc, source, firstOpen, context, size>>

ReadEnd ==
    /\ pc \in {"reread", "read"} /\ AtEnd
    /\ pc' = IF pc = "reread" THEN "before" ELSE "after"
    /\ UNCHANGED <<writerVars, options, readerVars, firstOpen, context, checkpoints, size,
                   delivered, history>>

-----------------------------------------------------------------------------
(* Looking at the path: before reading on, and after the end was reached.  *)

NextRead(look) == IF look = "before" THEN "read" ELSE "before"
CheckOf(look) == IF look = "before" THEN "checkBefore" ELSE "checkAfter"

\* path.stat() and os.fstat(): the path may be gone, lead to another file, or
\* still to this one.
Stat(look) ==
    /\ pc = look
    /\ \/ /\ name = NoFile
          /\ pc' = NextRead(look)
          /\ UNCHANGED <<size, readerVars, checkpoints, trail>>
       \/ /\ name \notin {NoFile, source}
          /\ source' = NoFile /\ position' = 0 /\ ahead' = <<>>
          /\ checkpoints' = <<>> /\ trail' = <<>>
          /\ pc' = "open"
          /\ UNCHANGED size
       \/ /\ name = source
          /\ size' = Len(files[name])
          /\ pc' = CheckOf(look)
          /\ UNCHANGED <<readerVars, checkpoints, trail>>
    /\ UNCHANGED <<writerVars, options, firstOpen, context, delivered, begun>>

\* Mutant of Check: the offset is left where the last comparison ended.
CheckHere(look) ==
    /\ pc = CheckOf(look)
    /\ pc' = NextRead(look)
    /\ IF size < position \/ \E i \in DOMAIN checkpoints : ~Matches(checkpoints[i])
       THEN position' = 0 /\ checkpoints' = <<>> /\ trail' = <<>>
       ELSE /\ position' =
                  IF checkpoints = <<>> THEN position
                  ELSE Last(checkpoints).start
                         + LineLength(Rest(source, Last(checkpoints).start))
            /\ UNCHANGED <<checkpoints, trail>>
    /\ ahead' = <<>>
    /\ UNCHANGED <<writerVars, options, source, firstOpen, context, size, delivered, begun>>

\* Mutant of Check: what was read is not compared.
CheckSize(look) ==
    /\ pc = CheckOf(look)
    /\ pc' = NextRead(look)
    /\ IF size < position
       THEN position' = 0 /\ checkpoints' = <<>> /\ trail' = <<>>
       ELSE UNCHANGED <<position, checkpoints, trail>>
    /\ ahead' = <<>>
    /\ UNCHANGED <<writerVars, options, source, firstOpen, context, size, delivered, begun>>

\* The file is read from its start again if it has become shorter or says
\* something else where it was read; the size is that of the stat before.
Check(look) ==
    /\ pc = CheckOf(look)
    /\ pc' = NextRead(look)
    /\ IF size < position \/ \E i \in DOMAIN checkpoints : ~Matches(checkpoints[i])
       THEN position' = 0 /\ checkpoints' = <<>> /\ trail' = <<>>
       ELSE UNCHANGED <<position, checkpoints, trail>>
    /\ ahead' = <<>>
    /\ UNCHANGED <<writerVars, options, source, firstOpen, context, size, delivered, begun>>

\* An interrupt, or an error of the file or the output: finally closes it,
\* and the local variables are gone.
Stop ==
    /\ pc # "closed"
    /\ pc' = "closed"
    /\ source' = NoFile /\ position' = 0 /\ ahead' = <<>>
    /\ firstOpen' = FALSE /\ context' = <<>> /\ checkpoints' = <<>> /\ size' = 0
    /\ trail' = <<>>
    /\ UNCHANGED <<writerVars, options, delivered, begun>>

-----------------------------------------------------------------------------
Init ==
    /\ options \in [lines : LineCounts, follow : BOOLEAN]
    /\ files = [f \in Files |-> <<>>]
    /\ created = 0 /\ name = NoFile /\ pieces = 0 /\ truncated = [f \in Files |-> 0]
    /\ pc = "open" /\ source = NoFile /\ position = 0 /\ ahead = <<>>
    /\ firstOpen = TRUE /\ context = <<>> /\ checkpoints = <<>> /\ size = 0
    /\ delivered = <<>> /\ trail = <<>>
    /\ begun = [shown |-> 0, truncations |-> 0, whole |-> FALSE]

Reader ==
    \/ Open \/ TailLine \/ TailEnd \/ ShowLine \/ ShowEnd
    \/ SampleLine \/ SeekWindow \/ WindowLine \/ WindowEnd \/ ReadLine \/ ReadEnd
    \/ \E look \in {"before", "after"} : Stat(look) \/ Check(look)
\* What the writers do when nobody follows any more is left out.
Writer ==
    /\ pc # "closed"
    /\ \/ \E f \in Files, text \in Texts, ends \in BOOLEAN : AppendTo(f, text, ends)
       \/ Truncate
       \/ \E f \in Files \cup {NoFile} : Rename(f)

Next == Reader \/ Writer \/ Stop

Spec == Init /\ [][Next]_vars

\* The follower is scheduled and its sleep ends; nothing is assumed of the
\* writers.
FairSpec == Spec /\ WF_vars(Reader)

-----------------------------------------------------------------------------
(* Properties.                                                             *)

Piece == [id : 1 .. MaxPieces, text : Texts, ends : BOOLEAN, due : BOOLEAN]
Shown == [file : Files, id : 1 .. MaxPieces]

\* Every variable has its type.
TypeOK ==
    /\ options \in [lines : LineCounts, follow : BOOLEAN]
    /\ DOMAIN files = Files /\ \A f \in Files : files[f] \in Seq(Piece)
    /\ created \in 0 .. MaxFiles /\ name \in 0 .. created /\ pieces \in 0 .. MaxPieces
    /\ truncated \in [Files -> 0 .. MaxTruncations]
    /\ pc \in Tailing \cup {"open", "reread", "before", "checkBefore", "read", "after",
                            "checkAfter", "finished", "closed"}
    /\ source \in 0 .. created /\ position \in 0 .. MaxPieces
    /\ ahead \in Seq(Piece) /\ firstOpen \in BOOLEAN
    /\ context \in Seq(Seq(Shown)) /\ Len(context) <= options.lines
    /\ Len(checkpoints) <= Limit
    /\ size \in 0 .. MaxPieces
    /\ delivered \in Seq(Shown)
    /\ trail \in Seq(Nat) /\ begun \in [shown : Nat, truncations : Nat, whole : BOOLEAN]

\* No piece of a file that is never truncated is processed twice or out of
\* order, and no file after its successor: the checkpoints do not mistake an
\* append, also one that completes the last line, for a rewrite.
DeliveredOnce ==
    \A i, j \in DOMAIN delivered : i < j =>
        LET f == delivered[i].file
            g == delivered[j].file
        IN  f <= g /\ (f = g /\ truncated[f] = 0 => delivered[i].id < delivered[j].id)

\* Unless the file was truncated since it was last read from its beginning,
\* what was processed since then is all of it up to the offset: nothing is
\* skipped by the comparison with the checkpoints, which moves the offset, and
\* a rewritten file is shown from its first line on.  Of a file opened first
\* it is the end of that.
NothingSkipped ==
    (source # NoFile /\ pc \notin Tailing /\ position > 0
       /\ begun.truncations = truncated[source]) =>
        LET given == SubSeq(delivered, begun.shown + 1, Len(delivered))
            read == [i \in 1 .. position |-> [file |-> source, id |-> files[source][i].id]]
        IN  /\ position <= Len(files[source])
            /\ IF begun.whole THEN given = read ELSE IsSuffix(given, read)

\* The checkpoints are of the first and of the latest records read.
SamplesKept ==
    LET kept == Limit \div 2
    IN  [i \in DOMAIN checkpoints |-> checkpoints[i].start] =
            IF Len(trail) <= Limit THEN trail
            ELSE SubSeq(trail, 1, kept)
                   \o SubSeq(trail, Len(trail) - (Limit - kept) + 1, Len(trail))

\* Once the writers leave the path alone, the follower has the file it leads
\* to, has read it to its end, and finds there what it remembers: whatever
\* renames, truncations and rewrites came before, and between which of its
\* own steps.
CaughtUp ==
    /\ source = name
    /\ position = Len(files[name])
    /\ \A i \in DOMAIN checkpoints : Matches(checkpoints[i])
Settles ==
    <>[](name = NoFile \/ pc \in {"finished", "closed"} \/ CaughtUp)

\* README.md:61 "Both -f and -F keep following when the file is truncated,
\* replaced, or rotated": a line written to the file that is followed, while
\* it has its name, is shown before the next file is opened.
RotationComplete ==
    pc = "open" =>
        \A f \in Files : \A i \in DOMAIN files[f] :
            files[f][i].due => \E j \in DOMAIN delivered : delivered[j].id = files[f][i].id
=============================================================================
