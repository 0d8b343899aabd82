-------------------------- MODULE MCStreamGroup --------------------------
(* A small bus for TLC: every entry may fail, be duplicated and outlive a  *)
(* restart.                                                                *)
EXTENDS StreamGroup
=============================================================================
