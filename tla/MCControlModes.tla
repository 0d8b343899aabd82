-------------------------- MODULE MCControlModes --------------------------
(* A small execution loop for TLC. *)
EXTENDS ControlModes
=============================================================================
