-------------------------- MODULE MCDecisionCycle --------------------------
(* Instance of DecisionCycle for TLC: its constants are numbers. *)
EXTENDS DecisionCycle

=============================================================================
