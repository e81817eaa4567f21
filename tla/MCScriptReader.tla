--------------------------- MODULE MCScriptReader ---------------------------
(* An instance of ScriptReader for TLC: the values are in the .cfg file.   *)
EXTENDS ScriptReader
=============================================================================
