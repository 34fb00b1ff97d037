------------------------------ MODULE Supervisor ------------------------------
(***************************************************************************)
(* The supervisor of the worker processes (src/src/supervisor/core.ts) and *)
(* the commands an administrator gives it through cw_system_commands.      *)
(*                                                                         *)
(* A cycle of the supervisor loads the profiles and reconciles its slots   *)
(* with them, then claims and starts commands until none is pending, then  *)
(* enforces the deadlines and finishes the commands whose targets are      *)
(* done.  Requests, edits of profiles and exits of children happen between *)
(* those steps.  Deadlines and backoffs run out in steps of their own.     *)
(***************************************************************************)
EXTENDS Integers, FiniteSets

CONSTANTS
  ProfileIds,   \* rows of cw_worker_profiles
  Commands,     \* rows of cw_system_commands that may ever exist
  Modes,        \* the modes of each command: SAFE, IMMEDIATE or both
  MaxPatches,   \* bound on the edits of profiles
  MaxFaults,    \* bound on the faults: the database is lost while a command starts
                \* or ends, a supervisor or a child ends unasked
  Nothing       \* no profile, or no command

ASSUME SupervisorAssumption ==
  /\ IsFiniteSet(ProfileIds) /\ IsFiniteSet(Commands)
  /\ Nothing \notin ProfileIds \cup Commands
  /\ Modes \in [Commands -> SUBSET {"SAFE", "IMMEDIATE"}]
  /\ {MaxPatches, MaxFaults} \subseteq Nat

VARIABLES
  profile,   \* the rows: "on" (enabled), "off" or "deleted"
  cmd,       \* the commands: status, action, mode, profile
  slot,      \* the supervisor's slot of each profile
  active,    \* commands under way: kind, the children they wait for, forced
  sup,       \* [state, phase of the cycle, command being started]
  shown,     \* profiles with a process in the last summary published
  count      \* history: patches, outages and ends unasked so far

supervisorVars == <<profile, cmd, slot, active, sup, shown, count>>

ProfileActions == {"RESTART_PROFILE", "STOP_PROFILE", "START_PROFILE"}
Actions == ProfileActions \cup {"RESTART_ALL", "RESTART_SUPERVISOR"}
TerminalCommand == {"DONE", "FORCED", "FAILED", "CANCELLED", "EXPIRED"}
Open == {"PENDING", "ACCEPTED", "DRAINING", "APPLYING"}

\* A child is a number that tells it from the children commands wait for.
Children == 1..(Cardinality(Commands) + 1)

NoCommand == [status |-> "NONE", action |-> "RESTART_ALL", mode |-> "SAFE", profile |-> Nothing]
NoSlot == [known |-> FALSE, enabled |-> FALSE, child |-> 0, draining |-> FALSE,
           deadline |-> "none", term |-> FALSE, killAt |-> "none", killed |-> FALSE,
           backoff |-> FALSE]
NotActive == [kind |-> "none", old |-> [p \in ProfileIds |-> 0], forced |-> FALSE]

\* What onChildExit resets.
Exited(s) ==
  [s EXCEPT !.child = 0, !.draining = FALSE, !.deadline = "none", !.term = FALSE,
            !.killAt = "none", !.killed = FALSE]

Timer == {"none", "running", "over"}
Slot ==
  {s \in [known : BOOLEAN, enabled : BOOLEAN, child : {0} \cup Children, draining : BOOLEAN,
          deadline : Timer, term : BOOLEAN, killAt : Timer, killed : BOOLEAN, backoff : BOOLEAN] :
     /\ s.child = 0 => ~s.draining /\ s.deadline = "none" /\ ~s.term
     /\ s.term => s.draining}

\* The variables have their types, and a slot without a process is not
\* being drained.
SupervisorTypeOK ==
  /\ profile \in [ProfileIds -> {"on", "off", "deleted"}]
  /\ cmd \in [Commands -> [status : {"NONE", "CHECKED", "GONE"} \cup Open \cup TerminalCommand,
                           action : Actions, mode : {"SAFE", "IMMEDIATE"},
                           profile : ProfileIds \cup {Nothing}]]
  /\ slot \in [ProfileIds -> Slot]
  /\ active \in [Commands -> [kind : {"none", "restart", "stop", "supervisor"},
                              old : [ProfileIds -> {0} \cup Children], forced : BOOLEAN]]
  /\ sup \in [state : {"down", "up", "shutting", "terminating"}, phase : {"reconcile", "commands"},
              held : Commands \cup {Nothing}]
  /\ shown \subseteq ProfileIds
  /\ count \in [patch : Nat, outage : Nat, stop : Nat]

SupervisorInit ==
  /\ profile = [p \in ProfileIds |-> "on"]
  /\ cmd = [c \in Commands |-> NoCommand]
  /\ slot = [p \in ProfileIds |-> NoSlot]
  /\ active = [c \in Commands |-> NotActive]
  /\ sup = [state |-> "up", phase |-> "reconcile", held |-> Nothing]
  /\ shown = {}
  /\ count = [patch |-> 0, outage |-> 0, stop |-> 0]

------------------------------------------------------------------------------
(* Helpers *)

IsOpen(c) == cmd[c].status \in Open
InState(s) == {c \in Commands : cmd[c].status = s}

Live == {p \in ProfileIds : slot[p].child # 0}

Edit == count.patch < MaxPatches /\ count' = [count EXCEPT !.patch = @ + 1]

Fault(kind) ==
  /\ count.outage + count.stop < MaxFaults
  /\ count' = [count EXCEPT ![kind] = @ + 1]

\* Two commands that reach the same worker.
commandsConflict(a, p, c) ==
  a \notin ProfileActions \/ cmd[c].action \notin ProfileActions \/ cmd[c].profile = p

\* An object no command under way refers to.
Fresh(p) == CHOOSE g \in Children : \A c \in Commands : active[c].old[p] # g

Spawned(s, p) ==
  [s EXCEPT !.child = Fresh(p), !.draining = FALSE, !.deadline = "none", !.term = FALSE,
            !.killAt = "none", !.killed = FALSE, !.backoff = FALSE]

\* beginDrain: a safe drain keeps the first deadline it was given.
Drained(s, mode) ==
  IF s.child = 0 THEN s
  ELSE IF mode = "IMMEDIATE"
       THEN IF s.term THEN [s EXCEPT !.draining = TRUE]
            ELSE [s EXCEPT !.draining = TRUE, !.term = TRUE, !.killAt = "running"]
  ELSE IF s.deadline = "none" THEN [s EXCEPT !.draining = TRUE, !.deadline = "running"]
  ELSE [s EXCEPT !.draining = TRUE]

\* The row with a new status; what a settled row asked for is not read again.
WithStatus(c, status) ==
  IF status \in Open THEN [cmd[c] EXCEPT !.status = status]
                     ELSE [NoCommand EXCEPT !.status = status]

\* Mutant: a row that is terminal is written again.
StatusWritten_Always(c, status) ==
  IF cmd[c].status = "GONE" THEN cmd ELSE [cmd EXCEPT ![c] = WithStatus(c, status)]

\* updateCommand: a terminal row keeps its status.
StatusWritten(c, status) ==
  IF IsOpen(c) THEN [cmd EXCEPT ![c] = WithStatus(c, status)] ELSE cmd

------------------------------------------------------------------------------
(* The API *)

\* POST /system/commands looks for a conflict among the open commands ...
PostCheck(c) ==
  /\ cmd[c].status = "NONE" /\ sup.state # "down"
  /\ c = CHOOSE d \in Commands : cmd[d].status = "NONE"
  /\ \E a \in Actions, m \in Modes[c] \cup {"SAFE"}, p \in ProfileIds \cup {Nothing} :
       /\ (a \in ProfileActions) = (p # Nothing)
       /\ p # Nothing => profile[p] # "deleted"
       /\ m \in (IF a = "START_PROFILE" THEN {"SAFE"} ELSE Modes[c])
       /\ \A d \in Commands : IsOpen(d) => ~commandsConflict(a, p, d)
       /\ cmd' = [cmd EXCEPT ![c] = [status |-> "CHECKED", action |-> a, mode |-> m,
                                     profile |-> p]]
  /\ UNCHANGED <<profile, slot, active, sup, shown, count>>

\* ... and then creates its own; the foreign key refuses a deleted profile.
PostCreate(c) ==
  /\ cmd[c].status = "CHECKED"
  /\ cmd' = [cmd EXCEPT ![c] =
               WithStatus(c, IF cmd[c].profile # Nothing /\ profile[cmd[c].profile] = "deleted"
                             THEN "GONE" ELSE "PENDING")]
  /\ UNCHANGED <<profile, slot, active, sup, shown, count>>

\* DELETE /system/commands/:id, and the expiry of what waited for an hour.
Withdraw(c) ==
  /\ cmd[c].status = "PENDING"
  /\ \E s \in {"CANCELLED", "EXPIRED"} : cmd' = [cmd EXCEPT ![c] = WithStatus(c, s)]
  /\ UNCHANGED <<profile, slot, active, sup, shown, count>>

\* PATCH /worker-profiles/:id of the flag; commands are not consulted.
Patch(p) ==
  /\ profile[p] # "deleted"
  /\ Edit
  /\ profile' = [profile EXCEPT ![p] = IF @ = "on" THEN "off" ELSE "on"]
  /\ UNCHANGED <<cmd, slot, active, sup, shown>>

\* DELETE of a profile with no process in the last summary; its commands go
\* with it.
DeleteProfile(p) ==
  /\ profile[p] # "deleted" /\ p \notin shown
  /\ Edit
  /\ profile' = [profile EXCEPT ![p] = "deleted"]
  /\ cmd' = [c \in Commands |-> IF cmd[c].profile = p /\ IsOpen(c)
                                THEN WithStatus(c, "GONE") ELSE cmd[c]]
  /\ UNCHANGED <<slot, active, sup, shown>>

------------------------------------------------------------------------------
(* The cycle *)

\* Mutant: a profile that is not enabled is left alone.
Reconciled_Off(p) ==
  LET s == [slot[p] EXCEPT !.known = TRUE, !.enabled = (profile[p] = "on")]
  IN  IF s.enabled /\ s.child = 0 /\ sup.state = "up" /\ ~s.backoff THEN Spawned(s, p) ELSE s

Reconciled(p) ==
  LET s == [slot[p] EXCEPT !.known = TRUE, !.enabled = (profile[p] = "on")]
  IN  IF profile[p] = "deleted"
      THEN IF slot[p].child = 0 THEN NoSlot
           ELSE IF slot[p].draining THEN slot[p] ELSE Drained(slot[p], "SAFE")
      ELSE IF profile[p] = "off"
      THEN IF s.draining THEN s ELSE Drained(s, "SAFE")
      ELSE IF s.child = 0 /\ sup.state = "up" /\ ~s.backoff THEN Spawned(s, p) ELSE s

Reconcile ==
  /\ sup.state # "down" /\ sup.phase = "reconcile"
  /\ sup.state = "terminating" => Live # {}
  /\ slot' = [p \in ProfileIds |-> Reconciled(p)]
  /\ sup' = [sup EXCEPT !.phase = "commands"]
  /\ UNCHANGED <<profile, cmd, active, shown, count>>

ClaimCommand(c) ==
  /\ sup.state # "down" /\ sup.phase = "commands" /\ sup.held = Nothing
  /\ cmd[c].status = "PENDING"
  /\ cmd' = [cmd EXCEPT ![c].status = "ACCEPTED"]
  /\ sup' = [sup EXCEPT !.held = c]
  /\ UNCHANGED <<profile, slot, active, shown, count>>

\* The status a started command is given; the write may fail, and so may the
\* FAILED that reports it.  What was started stays started.
Reported(c, status) ==
  /\ sup' = [sup EXCEPT !.held = Nothing,
               !.state = IF cmd[c].action = "RESTART_SUPERVISOR" /\ @ = "up" THEN "shutting" ELSE @]
  /\ \/ cmd' = StatusWritten(c, status) /\ UNCHANGED count
     \/ Fault("outage") /\ (cmd' = StatusWritten(c, "FAILED") \/ UNCHANGED cmd)

Wait(c, kind, targets) ==
  active' = [active EXCEPT ![c] =
    [kind |-> kind, forced |-> FALSE,
     old |-> [p \in ProfileIds |-> IF p \in targets THEN slot[p].child ELSE 0]]]

\* RESTART_PROFILE or START_PROFILE of a profile without a process: starts it now.
StartNow(c) ==
  LET p == cmd[c].profile IN
  /\ \/ cmd[c].action = "RESTART_PROFILE" /\ slot[p].enabled /\ UNCHANGED profile
     \/ cmd[c].action = "START_PROFILE" /\ profile' = [profile EXCEPT ![p] = "on"]
  /\ slot[p].child = 0 \/ cmd[c].action = "START_PROFILE"
  /\ slot' = [slot EXCEPT ![p] =
       IF @.child = 0 /\ sup.state = "up" THEN Spawned([@ EXCEPT !.enabled = TRUE], p)
       ELSE [@ EXCEPT !.enabled = TRUE, !.backoff = FALSE]]
  /\ Reported(c, "DONE") /\ UNCHANGED active

\* RESTART_PROFILE of a running one: drains it and waits for another child.
StartRestart(c) ==
  LET p == cmd[c].profile IN
  /\ cmd[c].action = "RESTART_PROFILE" /\ slot[p].enabled /\ slot[p].child # 0
  /\ slot' = [slot EXCEPT ![p] = Drained(@, cmd[c].mode)]
  /\ Wait(c, "restart", {p}) /\ Reported(c, "DRAINING") /\ UNCHANGED profile

StartStop(c) ==
  LET p == cmd[c].profile IN
  /\ cmd[c].action = "STOP_PROFILE"
  /\ profile' = [profile EXCEPT ![p] = "off"]
  /\ slot' = [slot EXCEPT ![p] = Drained([@ EXCEPT !.enabled = FALSE], cmd[c].mode)]
  /\ IF slot[p].child = 0 THEN Reported(c, "DONE") /\ UNCHANGED active
     ELSE Reported(c, "DRAINING") /\ Wait(c, "stop", {p})

StartAll(c) ==
  LET on == {p \in ProfileIds : slot[p].known /\ slot[p].enabled} IN
  /\ cmd[c].action = "RESTART_ALL"
  /\ slot' = [p \in ProfileIds |-> IF p \notin on THEN slot[p]
                                 ELSE IF slot[p].child = 0 THEN [slot[p] EXCEPT !.backoff = FALSE]
                                 ELSE Drained(slot[p], cmd[c].mode)]
  /\ IF on \cap Live = {} THEN Reported(c, "DONE") /\ UNCHANGED active
     ELSE Reported(c, "DRAINING") /\ Wait(c, "restart", on \cap Live)
  /\ UNCHANGED profile

StartShutdown(c) ==
  /\ cmd[c].action = "RESTART_SUPERVISOR"
  /\ slot' = [p \in ProfileIds |-> Drained(slot[p], cmd[c].mode)]
  /\ Wait(c, "supervisor", Live)
  /\ Reported(c, IF Live = {} THEN "APPLYING" ELSE "DRAINING")
  /\ UNCHANGED profile

\* No slot for the profile, its row is gone, or a restart of one not enabled.
Refuse(c) ==
  LET p == cmd[c].profile IN
  /\ p # Nothing
  /\ \/ ~slot[p].known \/ (cmd[c].action # "RESTART_PROFILE" /\ profile[p] = "deleted")
     \/ cmd[c].action = "RESTART_PROFILE" /\ ~slot[p].enabled
  /\ Reported(c, "FAILED") /\ UNCHANGED <<profile, slot, active>>

StartCommand(c) ==
  /\ sup.held = c
  /\ \/ Refuse(c)
     \/ /\ cmd[c].profile # Nothing =>
             /\ slot[cmd[c].profile].known
             /\ cmd[c].action # "RESTART_PROFILE" => profile[cmd[c].profile] # "deleted"
        /\ \/ StartNow(c) \/ StartRestart(c) \/ StartStop(c) \/ StartAll(c) \/ StartShutdown(c)
  /\ UNCHANGED shown

\* Mutant: a process that ignores SIGTERM is not killed.
Enforced_NoKill(s) ==
  IF s.draining /\ ~s.term /\ s.deadline = "over"
  THEN [s EXCEPT !.term = TRUE, !.killAt = "running"] ELSE s

\* enforceDeadlines, for one slot.
Enforced(s) ==
  LET t == IF s.draining /\ ~s.term /\ s.deadline = "over"
           THEN [s EXCEPT !.term = TRUE, !.killAt = "running"] ELSE s
  IN  IF t.draining /\ t.term /\ t.killAt = "over"
      THEN [t EXCEPT !.killed = TRUE, !.killAt = "running"] ELSE t

\* Slots whose drain runs out in this cycle: the commands that wait for them are forced.
OutOfTime == {p \in ProfileIds : slot[p].draining /\ ~slot[p].term /\ slot[p].deadline = "over"}
Forced(c) == active[c].forced \/ \E p \in OutOfTime : active[c].old[p] # 0

Done(c) ==
  /\ active[c].kind # "none"
  /\ \A p \in ProfileIds : active[c].old[p] # 0 =>
       IF active[c].kind = "restart" THEN slot[p].child \notin {0, active[c].old[p]}
                                     ELSE slot[p].child = 0

\* The end of a cycle: deadlines, finished commands (whose last write may be
\* lost) and, every ten seconds, the summary.
Finish ==
  LET done == {c \in Commands : Done(c)} IN
  /\ sup.state # "down" /\ sup.phase = "commands" /\ sup.held = Nothing
  /\ InState("PENDING") = {}
  /\ slot' = [p \in ProfileIds |-> Enforced(slot[p])]
  /\ active' = [c \in Commands |->
       IF c \in done THEN NotActive ELSE [active[c] EXCEPT !.forced = Forced(c)]]
  /\ \E lost \in SUBSET done :
       /\ IF lost = {} THEN UNCHANGED count ELSE Fault("outage")
       /\ cmd' = [c \in Commands |->
            IF c \in done \ lost
            THEN StatusWritten(c, IF Forced(c) THEN "FORCED" ELSE "DONE")[c] ELSE cmd[c]]
  /\ IF \E c \in done : active[c].kind = "supervisor"
     THEN sup' = [sup EXCEPT !.state = "down", !.phase = "reconcile"] /\ shown' = {}
     ELSE sup' = [sup EXCEPT !.phase = "reconcile"] /\ shown' \in {shown, Live}
  /\ UNCHANGED profile

------------------------------------------------------------------------------
(* Time, children, and the end of the supervisor *)

Elapse(p) ==
  /\ \/ /\ slot[p].deadline = "running" /\ ~slot[p].term
        /\ slot' = [slot EXCEPT ![p].deadline = "over"]
     \/ /\ slot[p].killAt = "running" /\ ~slot[p].killed
        /\ slot' = [slot EXCEPT ![p].killAt = "over"]
     \/ slot[p].backoff /\ slot' = [slot EXCEPT ![p].backoff = FALSE]
  /\ UNCHANGED <<profile, cmd, active, sup, shown, count>>

\* onChildExit of a drained child: no backoff.
ChildExit(p) ==
  /\ slot[p].child # 0 /\ slot[p].draining
  /\ slot' = [slot EXCEPT ![p] = [Exited(@) EXCEPT !.backoff = FALSE]]
  /\ UNCHANGED <<profile, cmd, active, sup, shown, count>>

\* A child that ends unasked: a crash, or a clean exit of its own.
ChildEnds(p) ==
  /\ slot[p].child # 0 /\ ~slot[p].draining
  /\ Fault("stop")
  /\ \E b \in {slot[p].backoff, TRUE} : slot' = [slot EXCEPT ![p] = [Exited(@) EXCEPT !.backoff = b]]
  /\ UNCHANGED <<profile, cmd, active, sup, shown>>

\* SIGTERM of the supervisor: beginShutdown.
SupervisorTerminate ==
  /\ sup.state \in {"up", "shutting"}
  /\ Fault("stop")
  /\ sup' = [sup EXCEPT !.state = "terminating"]
  /\ slot' = [p \in ProfileIds |-> Drained(slot[p], "SAFE")]
  /\ UNCHANGED <<profile, cmd, active, shown>>

\* shutdown: between cycles, once no child is left.  A supervisor that shuts down
\* by a command exits through Finish.
SupervisorExit ==
  /\ sup.state = "terminating" /\ sup.phase = "reconcile" /\ Live = {}
  /\ sup' = [sup EXCEPT !.state = "down"]
  /\ shown' = {}
  /\ UNCHANGED <<profile, cmd, slot, active, count>>

SupervisorCrash ==
  /\ sup.state # "down"
  /\ Fault("stop")
  /\ sup' = [state |-> "down", phase |-> "reconcile", held |-> Nothing]
  /\ UNCHANGED <<profile, cmd, slot, active, shown>>

\* A supervisor starts: its children died with the last one, and commands
\* under way fail.
SupervisorBoot ==
  /\ sup.state = "down"
  /\ sup' = [state |-> "up", phase |-> "reconcile", held |-> Nothing]
  /\ slot' = [p \in ProfileIds |-> NoSlot]
  /\ active' = [c \in Commands |-> NotActive]
  /\ cmd' = [c \in Commands |-> IF cmd[c].status \in {"ACCEPTED", "DRAINING", "APPLYING"}
                                THEN WithStatus(c, "FAILED") ELSE cmd[c]]
  /\ UNCHANGED <<profile, shown, count>>

Cycle == Reconcile \/ (\E c \in Commands : ClaimCommand(c) \/ StartCommand(c)) \/ Finish

SupervisorNext ==
  \/ \E c \in Commands : PostCheck(c) \/ PostCreate(c) \/ Withdraw(c)
  \/ \E p \in ProfileIds : Patch(p) \/ DeleteProfile(p)
  \/ Cycle
  \/ \E p \in ProfileIds : Elapse(p) \/ ChildExit(p) \/ ChildEnds(p)
  \/ SupervisorTerminate \/ SupervisorExit \/ SupervisorCrash \/ SupervisorBoot

SupervisorSpec == SupervisorInit /\ [][SupervisorNext]_supervisorVars

\* The loop ticks, time passes, a supervisor that ended is started again, and
\* SIGKILL takes effect.  A child that is only asked to drain may never end.
SupervisorFairness ==
  /\ WF_supervisorVars(Cycle)
  /\ WF_supervisorVars(SupervisorExit) /\ WF_supervisorVars(SupervisorBoot)
  /\ \A p \in ProfileIds :
       /\ WF_supervisorVars(Elapse(p))
       /\ WF_supervisorVars(slot[p].killed /\ ChildExit(p))

SupervisorFairSpec == SupervisorSpec /\ SupervisorFairness

------------------------------------------------------------------------------
(* Properties *)

\* The statements that write a command's status obey the table TRANSITIONS,
\* which none of them consults.
CommandTable == INSTANCE CommandContract
  WITH status <- [c \in Commands |-> IF cmd[c].status = "CHECKED" THEN "NONE" ELSE cmd[c].status]
CommandStates == CommandTable!Spec

\* What the profiles say contradicts what the command waits for: a target of a
\* restart is switched off or deleted, the target of a stop is switched on.
Contradicted(c) ==
  \E p \in ProfileIds : active[c].old[p] # 0 /\
    CASE active[c].kind = "restart" -> profile[p] # "on"
      [] active[c].kind = "stop"    -> profile[p] = "on"
      [] OTHER                      -> FALSE

\* A command ends, unless a profile contradicts it or its last write was lost:
\* then it stays open, and so do the commands it conflicts with.
CommandSettles ==
  \A c \in Commands :
    IsOpen(c) ~> (~IsOpen(c) \/ Contradicted(c) \/ count.outage > 0)

\* A profile switched off or deleted loses its process, one switched on has one.
ProfileObeyed ==
  \A p \in ProfileIds :
    /\ profile[p] # "on" ~> (slot[p].child = 0 \/ profile[p] = "on")
    /\ profile[p] = "on" ~> (slot[p].child # 0 \/ profile[p] # "on")

==============================================================================
