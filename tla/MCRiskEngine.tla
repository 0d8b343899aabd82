--------------------------- MODULE MCRiskEngine ---------------------------
EXTENDS RiskEngine
=============================================================================
