---------------------------- MODULE MCWireGuard ----------------------------
(* WireGuard on hosts of every kind.                                       *)
EXTENDS WireGuard
=============================================================================
