---------------------------- MODULE CommandContract ----------------------------
(***************************************************************************)
(* The states a command of cw_system_commands may go through: the table    *)
(* TRANSITIONS of src/src/server/worker/commands.ts.  No statement of the  *)
(* program consults it; Supervisor shows that the statements obey it.      *)
(***************************************************************************)
CONSTANTS Commands

VARIABLES status

Terminal == {"DONE", "FORCED", "FAILED", "CANCELLED", "EXPIRED"}
Open == {"PENDING", "ACCEPTED", "DRAINING", "APPLYING"}

TRANSITIONS ==
  [s \in Open |->
     CASE s = "PENDING"  -> {"ACCEPTED", "CANCELLED", "EXPIRED", "FAILED"}
       [] s = "ACCEPTED" -> {"DRAINING", "APPLYING", "DONE", "FAILED"}
       [] s = "DRAINING" -> {"APPLYING", "DONE", "FORCED", "FAILED"}
       [] s = "APPLYING" -> {"DONE", "FORCED", "FAILED"}]

Init == status = [c \in Commands |-> "NONE"]

\* Several commands may move at once: a supervisor that boots fails them all.
Move ==
  /\ status' \in [Commands -> {"NONE", "GONE"} \cup Open \cup Terminal]
  /\ \A c \in Commands :
       \/ status'[c] = status[c]
       \/ status[c] = "NONE" /\ status'[c] = "PENDING"
       \/ status[c] \in Open /\ status'[c] \in TRANSITIONS[status[c]]
       \* Not in the table: the write of DRAINING was lost, that of the end was not.
       \/ status[c] = "ACCEPTED" /\ status'[c] = "FORCED"
       \/ status'[c] = "GONE"     \* deleted with its profile

Spec == Init /\ [][Move]_status
==============================================================================
