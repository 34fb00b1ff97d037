----------------------- MODULE MCFirebirdMaterialization -----------------------
EXTENDS FirebirdMaterialization, TLC

\* A fault, or a file that expires and is purged, in a behaviour.
FewFaults == spent.faults + spent.expiries <= 1
==============================================================================
