---------------------------- MODULE MCEthPortIO ----------------------------
(* Instances of EthPortIO for TLC: the values are in the .cfg files.       *)
EXTENDS EthPortIO
=============================================================================
