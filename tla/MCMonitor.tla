----------------------------- MODULE MCMonitor -----------------------------
(* Monitor in seconds, with windows on both sides of the timeout.          *)
EXTENDS Monitor
=============================================================================
