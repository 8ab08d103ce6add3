--------------------------- MODULE MCRecordPairs ---------------------------
(***************************************************************************)
(* Instances of RecordPairs for TLC: tokens of every kind, identifiers     *)
(* with every value, literal marks, and JSON leaves at two depths.         *)
(***************************************************************************)
EXTENDS RecordPairs

T(k, V) == {[kind |-> k, value |-> v] : v \in V}

TextTokens ==
    T("iso", {"1", "2"}) \cup T("field", {"a", "b", "idle", "long", "uuid1", "quoted", "stray", "<id>"})
    \cup T("loose", {"a", "stray"}) \cup T("trace", {"a", "none"}) \cup T("glued", {"a", "uuid1"})
    \cup T("clock", {"1"}) \cup T("level", {"INFO"}) \cup T("syslog", {"1"}) \cup T("uuid", {"uuid1"})
    \cup T("word", {"ok"}) \cup T("idword", {"valid"}) \cup T("dashed", {"a-b-c-d-e"})
    \cup T("integer", {"1234"}) \cup T("brace", {"{"}) \cup T("<id>", {""})

L(p, t) == [path |-> p, value |-> t]
JsonTokens ==
    T("word", {"ok"}) \cup T("iso", {"1"}) \cup T("number", {"1234"}) \cup T("path", {"/a"})
JsonPaths ==
    {<<"requestid">>, <<"timestamp">>, <<"event">>, <<"ctx", "timestamp">>, <<"ctx", "traceid">>,
     <<"host", "name">>, <<"traceid", "a", "b">>}
JsonLeaves == {L(p, t) : p \in JsonPaths, t \in JsonTokens}
=============================================================================
