---------------------------- MODULE MCSinceProtocol ----------------------------
EXTENDS SinceProtocol, TLC
==============================================================================
