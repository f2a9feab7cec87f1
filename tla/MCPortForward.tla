---------------------------- MODULE MCPortForward --------------------------
(* PortForward for TLC: the configuration gives the constants their values. *)
EXTENDS PortForward
=============================================================================
