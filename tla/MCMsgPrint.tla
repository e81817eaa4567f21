----------------------------- MODULE MCMsgPrint -----------------------------
(* Instances of MsgPrint for TLC: the values are in the .cfg files.        *)
EXTENDS MsgPrint
=============================================================================
