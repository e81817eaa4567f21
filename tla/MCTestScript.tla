---------------------------- MODULE MCTestScript ----------------------------
(* Instances of TestScript for TLC: the values are in the .cfg files.      *)
EXTENDS TestScript
=============================================================================
