------------------------------ MODULE MCDashboard ------------------------------
(* Dashboard for TLC: the constants are given in Dashboard.cfg. *)
EXTENDS Dashboard
=============================================================================
