----------------------------- MODULE MCFollower -----------------------------
(***************************************************************************)
(* Instances of Follower for TLC.                                          *)
(***************************************************************************)
EXTENDS Follower

ContextOrNot == {0, 1}
OneText == {"x"}
=============================================================================
