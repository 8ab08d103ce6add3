----------------------------- MODULE RecordPairs -----------------------------
(***************************************************************************)
(* Records arriving one after the other at the reducer of qurtail.py, as   *)
(* far as _signature and the compiled matcher are concerned: the text of   *)
(* one record grows, is taken, and the matcher compiled from its signature *)
(* meets the next.  The properties of Signatures are stated of the record  *)
(* at hand, and of the pair.                                               *)
(***************************************************************************)
EXTENDS Signatures

CONSTANTS
    Tokens,            \* what text lines are made of
    Leaves,            \* what JSON objects are made of
    MaxTokens,         \* bounds of a model: tokens of the first line,
    MaxNext,           \* tokens of the one after it,
    MaxLeaves          \* and leaves of an object

Token == [kind : STRING, value : STRING]

ASSUME PairAssumption ==
    /\ Limit \in Nat \ {0}
    /\ MaxTokens \in Nat /\ MaxNext \in Nat /\ MaxLeaves \in Nat
    /\ Tokens \subseteq Token
    /\ \A l \in Leaves : l \in [path : Seq(STRING) \ {<<>>}, value : Token]

VARIABLES
    first,             \* the record the matcher was compiled from
    line,              \* the text of the record at hand,
    object             \* or its JSON value

vars == <<first, line, object>>

Init == first = <<>> /\ line = <<>> /\ object = {}

\* More text.  The matcher only meets lines with a leading timestamp.
Extend(t) ==
    /\ object = {}
    /\ Len(line) < IF first = <<>> THEN MaxTokens ELSE MaxNext
    /\ first # <<>> /\ line = <<>> => t.kind = "iso"
    /\ line' = Append(line, t)
    /\ UNCHANGED <<first, object>>

AddLeaf(l) ==
    /\ first = <<>> /\ line = <<>>
    /\ Cardinality(object) < MaxLeaves
    /\ \A k \in object : k.path # l.path
    /\ object' = object \cup {l}
    /\ UNCHANGED <<first, line>>

\* The line is printed and its fast signature becomes the recent one.
Take ==
    /\ first = <<>> /\ Len(line) <= MaxNext
    /\ FastName(line) # 0 /\ SignatureOf(line, FALSE) # NoSignature
    /\ first' = line
    /\ line' = <<>>
    /\ UNCHANGED object

Next ==
    \/ \E t \in Tokens : Extend(t)
    \/ \E l \in Leaves : AddLeaf(l)
    \/ Take

Spec == Init /\ [][Next]_vars

-----------------------------------------------------------------------------
(* Properties.                                                             *)

\* What the README lets a record differ in: a line, or the text of a
\* signature, without its timestamps, UUIDs and named identifiers, and with
\* --aggressive without its paths, hexadecimals and long integers.
EraseToken(t, aggressive) ==
    IF t.kind \in {"iso", "yearless", "syslog"} THEN Timestamp
    ELSE IF t.kind = "uuid" THEN Marked("<uuid>")
    ELSE IF aggressive /\ t.kind \in Broad THEN BroadMark(t.kind)
    ELSE IF t.kind \in Named /\ t.value # "none" THEN [t EXCEPT !.value = "<id>"]
    ELSE IF t.value \in Uuid THEN [t EXCEPT !.value = "<uuid>"]
    ELSE t

ClockFirst(l) == Len(l) > 1 /\ l[1].kind = "clock" /\ l[2].kind = "level"

Erase(l, aggressive) ==
    [i \in DOMAIN l |->
        IF i = 1 /\ ClockFirst(l) THEN Timestamp ELSE EraseToken(l[i], aggressive)]

\* A signature keeps everything of its record but the volatile values, each
\* pass leaving what the earlier ones put there: records with one signature
\* differ in nothing else, so no change of a status, a level or a state is
\* hidden (a literal mark such as <id> counts as the value it stands for).
OnlyVolatileErased ==
    \A aggressive \in BOOLEAN :
        LET s == SignatureOf(line, aggressive)
        IN  s # NoSignature => Erase(s.text, aggressive) = Erase(line, aggressive)

\* The compiled matcher hides only a record that differs from the printed one
\* in volatile values, of any length and shape, and misses a record with the
\* same signature only for a quoted value.
MatcherFaithful ==
    FastName(first) # 0 =>
        /\ Accepts(first, line) => Erase(line, FALSE) = Erase(first, FALSE)
        /\ (FastName(line) # 0 /\ FastSignature(line) = FastSignature(first)
             /\ line[FastName(line)].value # "quoted") => Accepts(first, line)

NamedIdKept(i) ==
    /\ line[i].kind \in Named /\ HasIdValue(line[i])
    /\ TextSignature(line, FALSE)[i].value \notin {"<id>", "<id>stray", "<uuid>"}

\* The short cuts compute what all the passes compute: the one for a leading
\* timestamp and one identifier, which also tells the same records apart, and
\* the one for a single identifier, taken only where no other value of its
\* spelling is left, whatever else in the line contains "id".
ShortCutsComplete ==
    /\ FastName(line) # 0 =>
           /\ FastSignature(line).text = TextSignature(line, FALSE)
           /\ FastName(first) # 0 =>
                  (FastSignature(first) = FastSignature(line)
                       <=> TextSignature(first, FALSE) = TextSignature(line, FALSE))
    /\ (\A i, j \in DOMAIN line : {line[i].kind, line[j].kind} \subseteq Named =>
             line[i].kind = line[j].kind)
       => \A i \in DOMAIN line : ~NamedIdKept(i)

\* Of a JSON object every leaf outside the identifiers and the metadata at
\* its top stays, under its path, however deep; nothing else is added.
JsonPayloadKept ==
    \A aggressive \in BOOLEAN :
        LET s == ObjectSignature(object, aggressive)
            Payload == {l \in object : /\ Range(l.path) \cap IdNames = {}
                                       /\ l.path[1] \notin MetadataNames}
            Erased(leaves) ==
                {[path |-> l.path, value |-> Erase(<<l.value>>, aggressive)] : l \in leaves}
        IN  s # NoSignature =>
                /\ Erased(Payload) \subseteq Erased(s.leaves)
                /\ \A l \in s.leaves : l.value \in {Marked("<id>"), Marked("<metadata>")}
                       \/ Erased({l}) \subseteq Erased(Payload)
=============================================================================
