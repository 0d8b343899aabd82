-------------------------- MODULE MCPortfolioState --------------------------
(* Instance of PortfolioState for TLC: the orders are model values. *)
EXTENDS PortfolioState

=============================================================================
