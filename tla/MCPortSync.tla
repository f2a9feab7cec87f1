----------------------------- MODULE MCPortSync ----------------------------
(* PortSync for TLC: the configurations give the constants their values.   *)
EXTENDS PortSync
=============================================================================
