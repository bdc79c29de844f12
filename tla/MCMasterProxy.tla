---------------------------- MODULE MCMasterProxy ----------------------------
(* Instances of MasterProxy for TLC: the constants are set in the .cfg files. *)
EXTENDS MasterProxy
=============================================================================
