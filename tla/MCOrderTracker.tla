-------------------------- MODULE MCOrderTracker --------------------------
EXTENDS OrderTracker
=============================================================================
