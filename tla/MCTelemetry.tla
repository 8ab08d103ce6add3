----------------------------- MODULE MCTelemetry -----------------------------
(***************************************************************************)
(* Instances of Telemetry for TLC: invocations with different max_files    *)
(* and max_file_bytes.  Two records fit into a file of size 3, or one that *)
(* takes it past the limit.                                                *)
(***************************************************************************)
EXTENDS Telemetry

CONSTANTS wide, narrow, single

Three == {wide, narrow, single}
None == {}
OnlyWide == {wide}
MCMaxSize == [p \in Invocations |-> IF p = single THEN 2 ELSE 3]
MCSizes == [e \in {"START", "FINISH"} |-> IF e = "START" THEN {1, 4} ELSE {2}]
MCMaxFiles == [p \in Invocations |-> IF p = wide THEN Top ELSE IF p = narrow THEN 2 ELSE 1]
=============================================================================
