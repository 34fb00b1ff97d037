---------------------------- MODULE MCDerivedRefresh ----------------------------
EXTENDS DerivedRefresh, TLC
==============================================================================
