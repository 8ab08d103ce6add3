------------------------------ MODULE MCRunner ------------------------------
(***************************************************************************)
(* Instances of Runner for TLC: a leader and one descendant.               *)
(***************************************************************************)
EXTENDS Runner

CONSTANTS shell, helper

Two == {shell, helper}
One == {shell}
None == {}
OneDaemon == {helper}
=============================================================================
