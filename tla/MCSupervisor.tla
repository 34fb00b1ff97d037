----------------------------- MODULE MCSupervisor -----------------------------
EXTENDS Supervisor, TLC

CONSTANT c1

\* One command drains within a deadline, the other at once.
MCModes == [c \in Commands |-> {IF c = c1 THEN "SAFE" ELSE "IMMEDIATE"}]
==============================================================================
