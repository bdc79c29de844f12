----------------------------- MODULE MCProxyFlow -----------------------------
(* Instances of ProxyFlow for TLC: the constants are set in the .cfg files. *)
EXTENDS ProxyFlow
=============================================================================
