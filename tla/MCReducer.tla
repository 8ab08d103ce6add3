----------------------------- MODULE MCReducer -----------------------------
(***************************************************************************)
(* Instances of Reducer for TLC, composed with Signatures: every record    *)
(* class has a text, and its signature and the matchers that accept it are *)
(* those of Signatures; the diagnostic expressions are given as TraitsOf.  *)
(*   same   a timestamp and an identifier: the shape matchers are for; as a*)
(*          timestamped record it ends a diagnostic                        *)
(*   long   differs from same in the identifier only, but passes the limit *)
(*          of a signature                                                 *)
(*   other, third   records of patterns of their own; third has no         *)
(*          timestamp and belongs to any diagnostic that is open           *)
(*   panic, frame   the start and an indented frame of a diagnostic        *)
(*   tagged a log line such as "ERROR SomeError: text": it opens a         *)
(*          diagnostic when none is open and ends one that is              *)
(***************************************************************************)
EXTENDS ReducerRefinement, TLC

CONSTANTS same, long, other, third, panic, frame, tagged, A, B, C, D, E

AllRecords == {same, long, other, third, panic, frame, tagged}
FewRecords == {same, long, other}
TimedRecords == {same, long, third}
AllPatterns == {A, B, C, D, E}

Norm == INSTANCE Signatures WITH Limit <- 9, NoSignature <- NoPattern

Token(k, v) == [kind |-> k, value |-> v]
Text(r) ==
    CASE r = same -> <<Token("iso", "1"), Token("field", "a")>>
      [] r = long -> <<Token("iso", "2"), Token("field", "long")>>
      [] r = other -> <<Token("iso", "1"), Token("word", "other")>>
      [] r = third -> <<Token("word", "third"), Token("trace", "b")>>
      [] r = panic -> <<Token("word", "panic:")>>
      [] r = tagged -> <<Token("level", "ERROR"), Token("word", "SomeError:")>>

MCSignature ==
    [r \in Records |-> CASE r = same -> A [] r = other -> B [] r = third -> C
                         [] r = panic -> D [] r = tagged -> E
                         [] OTHER -> NoPattern]
MCFastMatches == [p \in Patterns |-> IF p = A THEN {same, long} \cap Records ELSE {}]

\* The functions above are what Signatures makes of the texts; nobody asks for
\* the signature of an indented line.
ASSUME TextAssumption ==
    \A q, r \in Records \ {frame} :
        /\ (Norm!SignatureOf(Text(q), FALSE) = NoPattern) <=> (Signature[q] = NoPattern)
        /\ Signature[q] # NoPattern =>
               /\ (Norm!SignatureOf(Text(q), FALSE) = Norm!SignatureOf(Text(r), FALSE))
                      <=> (Signature[q] = Signature[r])
               /\ Norm!Accepts(Text(q), Text(r)) <=> r \in FastMatches[Signature[q]]

\* The diagnostic expressions, over the tokens of a text: a timestamp or a
\* level in front makes a record boundary, "panic:" starts a diagnostic, and a
\* name such as SomeError opens one, but not after a digit in front.
TraitsOf(t) ==
    (IF t[1].kind \in {"iso", "level"} THEN {"boundary"} ELSE {})
        \cup (IF t[1].value = "panic:" THEN {"opener", "start"} ELSE {})
        \cup (IF t[1].kind # "iso" /\ \E i \in DOMAIN t : t[i].value = "SomeError:"
              THEN {"opener"} ELSE {})
MCTraits == [r \in Records |-> IF r = frame THEN {"indented", "frame"} ELSE TraitsOf(Text(r))]
TimerSymmetry == Permutations(Timers)
=============================================================================
