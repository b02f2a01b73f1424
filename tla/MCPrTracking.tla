---------------------------- MODULE MCPrTracking ----------------------------
(* PrTracking for TLC: the constants are given in Tracking.cfg. *)
EXTENDS PrTracking
=============================================================================
