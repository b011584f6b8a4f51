---------------------------- MODULE MCDashboard ----------------------------
(* Constant values for model-checking Dashboard. *)
EXTENDS Dashboard
=============================================================================
