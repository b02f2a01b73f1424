------------------------------ MODULE MCLifecycle ------------------------------
(* Values for model checking Lifecycle: an impatient operator sends both    *)
(* signals the process handles.                                             *)
EXTENDS Lifecycle

BothSignals == {"SIGTERM", "SIGINT"}

=============================================================================
