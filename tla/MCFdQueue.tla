------------------------------ MODULE MCFdQueue ------------------------------
(* Instances of FdQueue for TLC: the constants are set in the .cfg files.   *)
EXTENDS FdQueue
=============================================================================
