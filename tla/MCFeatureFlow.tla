--------------------------- MODULE MCFeatureFlow ---------------------------
EXTENDS FeatureFlow
=============================================================================
