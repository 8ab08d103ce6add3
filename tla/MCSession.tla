----------------------------- MODULE MCSession -----------------------------
(***************************************************************************)
(* Instances of Session for TLC: both modes.                               *)
(***************************************************************************)
EXTENDS Session

Both == {"stream", "run"}
=============================================================================
