----------------------------- MODULE Signatures -----------------------------
(***************************************************************************)
(* What makes two records the same for qurtail.py: _signature with its     *)
(* passes over a text line, its treatment of JSON objects, the short cuts  *)
(* it takes for common shapes, and the matcher compiled from a signature.  *)
(*                                                                         *)
(* A line is a sequence of tokens with a blank between them.  A token has  *)
(* the kind of text it is and a value; of a named identifier the kind says *)
(* how its name is spelled ("field" request_id=, "loose" Request_ID:,      *)
(* "glued" a name inside a longer word, "trace" traceparent=), for all the *)
(* names of _NAMED_ID_KEYS.  A replaced value is one of Marks, which a     *)
(* line may also contain literally.  A JSON object is a set of leaves, a   *)
(* path of names and a token each.                                         *)
(***************************************************************************)
EXTENDS Naturals, Sequences, SequencesExt

CONSTANTS
    Limit,             \* MAX_SIGNATURE_CHARACTERS, in the units of Weight
    NoSignature

Marked(k) == [kind |-> k, value |-> ""]
Timestamp == Marked("<timestamp>")

\* _ID_VALUE takes these as a whole; "idle" stands for values with "id" in
\* them, "long" for those that make a line exceed the limit.
Uuid == {"uuid1", "uuid2"}
Plain == {"a", "b", "idle", "long"} \cup Uuid
\* An opening quote is passed over; a closing one without it is "stray".
IdValues == Plain \cup {"quoted", "stray"}

Named == {"field", "loose", "trace"}
HasIdValue(t) == t.value \in IdValues

\* The sum of the numbers in w, counted one by one.
SumOf(w) == Cardinality(UNION {{i} \X (1 .. w[i]) : i \in DOMAIN w})

\* The characters of a token, or of what replaces it.
Weight(t) ==
    (IF t.kind \in {"field", "glued", "loose", "trace", "iso", "uuid"} THEN 2 ELSE 1)
    + (CASE t.value = "long" -> Limit [] t.value \in Uuid -> 1 [] OTHER -> 0)
Size(line) == SumOf([i \in DOMAIN line |-> Weight(line[i])])

\* Occurrences of "id" in a line; the mark <uuid> contains one.
IdsInName(t) == IF t.kind \in {"field", "glued", "idword", "<uuid>", "<id>"} THEN 1 ELSE 0
IdsInValue(t) == IF t.value \in {"idle", "<uuid>", "<id>"} THEN 1 ELSE 0
Ids(line) == SumOf([i \in DOMAIN line |-> IdsInName(line[i]) + IdsInValue(line[i])])
FoldedIds(line) ==
    Ids(line) + SumOf([i \in DOMAIN line |-> IF line[i].kind = "loose" THEN 1 ELSE 0])

Dashes(line) ==
    SumOf([i \in DOMAIN line |->
        (CASE line[i].kind = "iso" -> 2 [] line[i].kind \in {"uuid", "dashed"} -> 4 [] OTHER -> 0)
        + (IF line[i].value \in Uuid THEN 4 ELSE 0)])

\* The first token of one of these kinds, 0 if there is none.
First(line, kinds) == SelectInSeq(line, LAMBDA t : t.kind \in kinds)
Holds(line, kinds) == \E i \in DOMAIN line : line[i].kind \in kinds

-----------------------------------------------------------------------------
(* _text_signature: timestamps, UUIDs, named identifiers.  The tests that  *)
(* only save a pass with nothing to replace are left out.                  *)

Leading(line) == line # <<>> /\ line[1].kind = "iso"

\* Mutant of LeadingClock: a clock anywhere is a timestamp.
AnyClock(line) ==
    [i \in DOMAIN line |-> IF line[i].kind = "clock" THEN Timestamp ELSE line[i]]

LeadingClock(line) ==
    [i \in DOMAIN line |->
        IF i = 1 /\ Len(line) > 1 /\ line[1].kind = "clock" /\ line[2].kind = "level"
        THEN Timestamp ELSE line[i]]

\* After a leading timestamp no other is replaced.
Timestamps(line) ==
    IF Leading(line)
    THEN [i \in DOMAIN line |-> IF i = 1 THEN Timestamp ELSE line[i]]
    ELSE IF Holds(line, {"iso"})
         THEN [i \in DOMAIN line |-> IF line[i].kind = "iso" THEN Timestamp ELSE line[i]]
         ELSE LeadingClock([i \in DOMAIN line |->
                  IF line[i].kind = "syslog" THEN Timestamp ELSE line[i]])

Uuids(line) ==
    [i \in DOMAIN line |->
        IF line[i].kind = "uuid" THEN Marked("<uuid>")
        ELSE IF line[i].value \in Uuid THEN [line[i] EXCEPT !.value = "<uuid>"]
        ELSE line[i]]

\* The token whose value the first loop of _replace_single_named_id replaces.
ExactName(line) ==
    LET f == First(line, {"field", "glued"})
        t == First(line, {"trace"})
    IN  IF f # 0
        THEN IF line[f].kind = "field" /\ Ids(line) = 1 /\ HasIdValue(line[f]) THEN f ELSE 0
        ELSE IF /\ t # 0 /\ Ids(line) = 0 /\ HasIdValue(line[t])
                /\ \A i \in DOMAIN line : line[i].kind = "trace" => i = t
             THEN t ELSE 0

\* The second loop, in which case does not count; it adds the loose spelling.
FoldedName(line) ==
    LET f == First(line, {"field", "glued", "loose"})
    IN  IF /\ f # 0 /\ line[f].kind # "glued"
           /\ FoldedIds(line) = 1 /\ ~Holds(line, {"trace"})
           /\ HasIdValue(line[f])
        THEN f ELSE 0

SingleName(line) == IF ExactName(line) # 0 THEN ExactName(line) ELSE FoldedName(line)

\* A short cut keeps a stray quote, unless the spelling is loose.
ReplaceOne(t) ==
    [t EXCEPT !.value = IF @ = "stray" /\ t.kind # "loose" THEN "<id>stray" ELSE "<id>"]

NamedIds(line) ==
    IF SingleName(line) # 0
    THEN [i \in DOMAIN line |-> IF i = SingleName(line) THEN ReplaceOne(line[i]) ELSE line[i]]
    ELSE [i \in DOMAIN line |->
             IF line[i].kind \in Named /\ HasIdValue(line[i])
             THEN [line[i] EXCEPT !.value = "<id>"] ELSE line[i]]

\* _aggressive_text_signature.  "server" is a UNC path without a share,
\* "integer" one of four digits or more; of an ISO timestamp that is still
\* there only the year is one.
Broad == {"path", "hex", "integer", "number"}
BroadMark(k) ==
    CASE k = "path" -> Marked("<path>") [] k = "hex" -> Marked("<hex>") [] OTHER -> Marked("<integer>")
Aggressive(line) ==
    [i \in DOMAIN line |->
        CASE line[i].kind \in Broad -> BroadMark(line[i].kind)
          [] line[i].kind = "iso" -> [line[i] EXCEPT !.kind = "yearless"]
          [] OTHER -> line[i]]

TextSignature(line, aggressive) ==
    LET conservative == NamedIds(Uuids(Timestamps(line)))
    IN  IF aggressive THEN Aggressive(conservative) ELSE conservative

-----------------------------------------------------------------------------
(* _fast_text_signature and _compile_fast_text_matcher.                    *)

\* Mutant of FastName: the dashes are not counted.
FastNameDashed(line) == IF Leading(line) THEN ExactName(line) ELSE 0

FastName(line) ==
    IF Leading(line) /\ Dashes(Tail(line)) < 4 THEN ExactName(line) ELSE 0

\* The stable text before and after the identifier.
FastSignature(line) ==
    [form |-> "fast", at |-> FastName(line),
     text |-> [i \in DOMAIN line |-> CASE i = 1 -> Timestamp
                                       [] i = FastName(line) -> ReplaceOne(line[i])
                                       [] OTHER -> line[i]]]

\* Mutant of TakesValue: anything may stand between the prefix and the suffix.
TakesAnything(v, w) == TRUE

\* _ID_VALUE up to the suffix, which begins with the stray quote if there is one.
TakesValue(v, w) == IF v = "stray" THEN w = "stray" ELSE w \in Plain

\* The matcher compiled from the signature of first takes line.
Accepts(first, line) ==
    LET f == FastName(first)
    IN  /\ f # 0
        /\ Leading(line)
        /\ Len(line) = Len(first)
        /\ line[f].kind = first[f].kind
        /\ TakesValue(first[f].value, line[f].value)
        /\ \A i \in 2 .. Len(line) : i # f => line[i] = first[i]

\* _signature of a text line; one that begins like JSON and is not an object
\* has none.
TextForm(line, aggressive) == [form |-> "text", text |-> TextSignature(line, aggressive)]

SignatureOf(line, aggressive) ==
    IF Size(line) > Limit \/ (line # <<>> /\ line[1].kind = "brace") THEN NoSignature
    ELSE IF ~aggressive /\ FastName(line) # 0 THEN FastSignature(line)
    ELSE IF Size(TextSignature(line, aggressive)) + 1 > Limit THEN NoSignature
    ELSE TextForm(line, aggressive)

-----------------------------------------------------------------------------
(* _stable_json: the path of a leaf ends at the first volatile name.       *)

IdNames == {"requestid", "traceid"}
MetadataNames == {"timestamp", "host"}

\* Mutant of VolatileName: metadata names count at every depth.
VolatileAnywhere(path, i) == path[i] \in IdNames \cup MetadataNames

VolatileName(path, i) == path[i] \in IdNames \/ (i = 1 /\ path[i] \in MetadataNames)

Cut(path) ==
    LET V == {i \in DOMAIN path : VolatileName(path, i)}
    IN  CHOOSE i \in V : \A j \in V : i <= j

StableLeaf(leaf, aggressive) ==
    IF \E i \in DOMAIN leaf.path : VolatileName(leaf.path, i)
    THEN LET c == Cut(leaf.path)
         IN  [path |-> SubSeq(leaf.path, 1, c),
              value |-> Marked(IF leaf.path[c] \in IdNames THEN "<id>" ELSE "<metadata>")]
    ELSE [leaf EXCEPT !.value = TextSignature(<<@>>, aggressive)[1]]

StableJson(object, aggressive) == {StableLeaf(l, aggressive) : l \in object}

ObjectSize(leaves) == SumOf([l \in leaves |-> Len(l.path) + Weight(l.value)])

ObjectSignature(object, aggressive) ==
    IF ObjectSize(object) > Limit \/ ObjectSize(StableJson(object, aggressive)) + 1 > Limit
    THEN NoSignature
    ELSE [form |-> "json", leaves |-> StableJson(object, aggressive)]
=============================================================================
