---------------------------- MODULE NodeConnect ----------------------------
(***************************************************************************)
(* The life of one node in the panel: its row in the database, the         *)
(* controllers NodeManager registers for it, the connects that start the   *)
(* node, and everything that changes or overrides them: edits by an        *)
(* operator, the traffic limit, the health check, the restart of all nodes *)
(* (app/operation/node.py, app/node/__init__.py, app/jobs/node_checker.py  *)
(* and app/db/crud/node.py, in the role that runs nodes itself).           *)
(*                                                                         *)
(* All of them are coroutines of one process that suspend at every query   *)
(* and every call to the node, so what one of them read is old when it     *)
(* writes.  A controller object is one of Gens, used again once nothing    *)
(* refers to it; settings are the number of edits that led to them.        *)
(***************************************************************************)
EXTENDS Integers, FiniteSets

CONSTANTS
  Operations,   \* what may happen beside connects and health checks
  BadSettings,  \* settings create_node of the bridge refuses
  MaxEdits,     \* bound: edits of the node
  MaxGens,      \* bound: controllers in memory at a time
  MaxFaults     \* bound: calls to the node that fail, crashes of its core

AllOperations == {"modify", "disable", "remove", "limit", "restart", "bulk"}

ASSUME ConstantsAssumption ==
  /\ Operations \subseteq AllOperations
  /\ BadSettings \subseteq Nat
  /\ MaxEdits \in Nat
  /\ MaxGens \in Nat \ {0}
  /\ MaxFaults \in Nat

VARIABLES
  \* The row: status, settings, and whether used_traffic reached data_limit.
  status, settings, over,
  \* NodeManager: the registered controller (0: none), and of every controller
  \* its health, its settings, and how far its shutdown is.
  current, health, genSettings, shutdown,
  running,      \* the node: the controller whose Start it runs, 0 for none
  att,          \* the connects under way: the guarded single one, a bulk one
  connectReq,   \* a call of connect_single_node that has not run yet
  op, opOld,    \* the edit under way, and the controller it replaced
  lim,          \* check_node_limits, between its steps
  hc,           \* process_node_health_check, between its steps
  faults

row   == <<status, settings, over>>
gvars == <<current, health, genSettings, shutdown>>
vars  == <<row, gvars, running, att, connectReq, op, opOld, lim, hc, faults>>

-----------------------------------------------------------------------------
Gens     == 1 .. MaxGens
Settings == 0 .. MaxEdits
Active   == {"connecting", "connected", "error"}
Idle     == [pc |-> "none", settings |-> 0, gen |-> 0, old |-> 0]
NoCheck  == [pc |-> "none", gen |-> 0, status |-> "none", health |-> "none"]
Healths  == {"NOT_CONNECTED", "BROKEN", "HEALTHY", "INVALID"}
Attempts == [pc : {"none", "update", "stopOld", "start", "answer",
                   "connected", "error"},
             settings : Settings, gen : 0 .. MaxGens, old : 0 .. MaxGens]
Checks   == [pc : {"none", "stats", "recovered", "broken"},
             gen : 0 .. MaxGens, status : Active \cup {"none"},
             health : Healths \cup {"none"}]

TypeOK ==
  /\ status \in Active \cup {"disabled", "limited", "deleted"}
  /\ settings \in Settings
  /\ over \in BOOLEAN
  /\ current \in 0 .. MaxGens
  /\ health \in [Gens -> Healths]
  /\ genSettings \in [Gens -> Settings]
  /\ shutdown \in [Gens -> {"none", "task", "stop", "done"}]
  /\ running \in 0 .. MaxGens
  /\ att \in [{"single", "bulk"} -> Attempts]
  /\ connectReq \in BOOLEAN
  /\ op \in {"none", "disconnect", "update", "stopOld", "delete"}
  /\ opOld \in 0 .. MaxGens
  /\ lim \in {"none", "picked", "disconnected"}
  /\ hc \in Checks
  /\ faults \in 0 .. MaxFaults

\* create_node: the row, a controller, and a connect in the background.
Init ==
  /\ status = "connecting" /\ settings = 0 /\ over = FALSE
  /\ current = 1
  /\ health = [g \in Gens |-> "NOT_CONNECTED"]
  /\ genSettings = [g \in Gens |-> 0]
  /\ shutdown = [g \in Gens |-> "none"]
  /\ running = 0
  /\ att = [a \in {"single", "bulk"} |-> Idle]
  /\ connectReq = TRUE
  /\ op = "none" /\ opOld = 0
  /\ lim = "none"
  /\ hc = NoCheck
  /\ faults = 0

-----------------------------------------------------------------------------
(* NodeManager.                                                            *)

\* A controller object nothing refers to any more.
Unused(g) ==
  /\ g \notin {current, running, opOld, hc.gen}
  /\ shutdown[g] \in {"none", "done"}
  /\ \A a \in DOMAIN att : g \notin {att[a].gen, att[a].old}
  /\ health[g] \in {"NOT_CONNECTED", "INVALID"}

NewGen == CHOOSE g \in Gens : Unused(g)

\* Mutant: the replaced controller is shut down and stays in the registry.
RegisterLate(s) ==
  /\ \E g \in Gens : Unused(g)
  /\ genSettings' = [genSettings EXCEPT ![NewGen] = s]
  /\ current' = IF current = 0 THEN NewGen ELSE current
  /\ health' = [g \in Gens |-> IF g = NewGen THEN "NOT_CONNECTED"
                              ELSE IF g = current THEN "INVALID" ELSE health[g]]
  /\ shutdown' = [g \in Gens |-> IF g = NewGen THEN "none"
                                ELSE IF g = current THEN "stop" ELSE shutdown[g]]

\* NodeManager.update_node up to the wait for the old controller's stop(): the
\* new controller is registered, the old one set INVALID.
Register(s) ==
  /\ \E g \in Gens : Unused(g)
  /\ current' = NewGen
  /\ genSettings' = [genSettings EXCEPT ![NewGen] = s]
  /\ health' = [g \in Gens |-> IF g = NewGen THEN "NOT_CONNECTED"
                              ELSE IF g = current THEN "INVALID" ELSE health[g]]
  /\ shutdown' = [g \in Gens |-> IF g = NewGen THEN "none"
                                ELSE IF g = current THEN "stop" ELSE shutdown[g]]

\* Mutant: a failed update leaves a placeholder in the registry.
RegisterPlaceholder ==
  /\ current' = -1
  /\ UNCHANGED <<genSettings, health, shutdown>>

\* update_node when the bridge refuses the settings: the old controller is
\* out of the registry and nobody stops it.
RegisterRefused ==
  /\ current' = 0
  /\ UNCHANGED <<genSettings, health, shutdown>>

\* NodeManager.remove_node leaves the shutdown to a task of its own.
Unregister ==
  /\ current' = 0
  /\ shutdown' = IF current = 0 THEN shutdown
                 ELSE [shutdown EXCEPT ![current] = "task"]
  /\ UNCHANGED <<genSettings, health>>

\* _shutdown_node of that task: set_health, then stop().
ShutdownBegins(g) ==
  /\ shutdown[g] = "task"
  /\ health' = [health EXCEPT ![g] = "INVALID"]
  /\ shutdown' = [shutdown EXCEPT ![g] = "stop"]
  /\ UNCHANGED <<row, current, genSettings, running, att, connectReq, op,
                 opOld, lim, hc, faults>>

\* The controller's _node_lock is held by a start that has reached the node.
Starting(g) == \E a \in DOMAIN att : att[a].pc = "answer" /\ att[a].gen = g

\* stop() disconnects and sends Stop, which ends whatever the node runs.
ShutdownEnds(g) ==
  /\ shutdown[g] = "stop"
  /\ ~Starting(g)
  /\ shutdown' = [shutdown EXCEPT ![g] = "done"]
  /\ running' \in {0, running}
  /\ UNCHANGED <<row, current, health, genSettings, att, connectReq, op,
                 opOld, lim, hc, faults>>

Stopped(g) == g \in Gens => shutdown[g] = "done"

-----------------------------------------------------------------------------
(* Connecting: _connect_single_node_local and _connect_nodes_bulk_local.   *)

NotConnecting == <<op, opOld, lim, hc>>

Goto(a, pc) == att' = [att EXCEPT ![a].pc = pc]

\* The row is read; the queries for cores and users follow.
ReadRow(a) ==
  att' = IF status \in Active
           THEN [att EXCEPT ![a] = [Idle EXCEPT !.pc = "update",
                                                !.settings = settings]]
           ELSE att

\* Mutant: no _CONNECTING_NODES.
ConnectUnguarded ==
  /\ connectReq
  /\ connectReq' = FALSE
  /\ IF att["single"].pc = "none" THEN ReadRow("single") ELSE ReadRow("bulk")
  /\ UNCHANGED <<row, gvars, running, faults, NotConnecting>>

\* A single connect, unless _CONNECTING_NODES has one for the node.
ConnectSingle ==
  /\ connectReq
  /\ connectReq' = FALSE
  /\ IF att["single"].pc = "none" THEN ReadRow("single") ELSE UNCHANGED att
  /\ UNCHANGED <<row, gvars, running, faults, NotConnecting>>

\* The restart of all nodes, or of those that use a core, is not guarded.
ConnectBulk ==
  /\ "bulk" \in Operations
  /\ att["bulk"].pc = "none"
  /\ status \in Active
  /\ ReadRow("bulk")
  /\ UNCHANGED <<row, gvars, running, connectReq, faults, NotConnecting>>

\* The connect puts a controller with the settings it read in place.
UpdateNode(a) ==
  /\ att[a].pc = "update"
  /\ IF att[a].settings \in BadSettings
       THEN /\ RegisterRefused
            /\ Goto(a, "error")
       ELSE /\ Register(att[a].settings)
            /\ att' = [att EXCEPT ![a].pc = "stopOld", ![a].old = current]
  /\ UNCHANGED <<row, running, connectReq, faults, NotConnecting>>

\* Mutant: update_node leaves the stop of the old controller to a task.
BeginStartEarly(a) ==
  /\ att[a].pc = "stopOld"
  /\ att' = [att EXCEPT ![a] =
              IF current = 0 \/ health[current] = "INVALID" THEN Idle
              ELSE [@ EXCEPT !.pc = "start", !.gen = current]]
  /\ UNCHANGED <<row, gvars, running, connectReq, faults, NotConnecting>>

\* connect_node takes whatever controller is registered by now, and start
\* checks its health before it waits for the lock.
BeginStart(a) ==
  /\ att[a].pc = "stopOld"
  /\ Stopped(att[a].old)
  /\ att' = [att EXCEPT ![a] =
              IF current = 0 \/ health[current] = "INVALID" THEN Idle
              ELSE [@ EXCEPT !.pc = "start", !.gen = current]]
  /\ UNCHANGED <<row, gvars, running, connectReq, faults, NotConnecting>>

\* The node executes Start: it drops what it ran before.
NodeStarts(a) ==
  /\ att[a].pc = "start"
  /\ ~Starting(att[a].gen)
  /\ running' = att[a].gen
  /\ Goto(a, "answer")
  /\ UNCHANGED <<row, gvars, connectReq, faults, NotConnecting>>

\* Start fails, or its answer does not arrive.
StartFails(a) ==
  /\ att[a].pc \in {"start", "answer"}
  /\ faults < MaxFaults
  /\ faults' = faults + 1
  /\ Goto(a, "error")
  /\ UNCHANGED <<row, gvars, running, connectReq, NotConnecting>>

\* Mutant: connect() does not look for INVALID.
ConnectAnyway(a) ==
  /\ att[a].pc = "answer"
  /\ Goto(a, "connected")
  /\ health' = [health EXCEPT ![att[a].gen] = "HEALTHY"]
  /\ UNCHANGED <<row, current, genSettings, shutdown, running, connectReq,
                 faults, NotConnecting>>

\* connect() of the bridge; error -4 ends the connect without a status.
Connect(a) ==
  /\ att[a].pc = "answer"
  /\ IF health[att[a].gen] = "INVALID"
       THEN /\ att' = [att EXCEPT ![a] = Idle]
            /\ UNCHANGED health
       ELSE /\ Goto(a, "connected")
            /\ health' = [health EXCEPT ![att[a].gen] = "HEALTHY"]
  /\ UNCHANGED <<row, current, genSettings, shutdown, running, connectReq,
                 faults, NotConnecting>>

\* update_node_status: an UPDATE without a condition on the old status.
SetStatus(s) ==
  /\ status' = IF status = "deleted" THEN status ELSE s
  /\ UNCHANGED <<settings, over>>

WriteStatus(a) ==
  /\ att[a].pc \in {"connected", "error"}
  /\ SetStatus(att[a].pc)
  /\ att' = [att EXCEPT ![a] = Idle]
  /\ UNCHANGED <<gvars, running, connectReq, faults, NotConnecting>>

-----------------------------------------------------------------------------
(* Operators: modify_node, remove_node, reset_node_usage, restart_node.    *)

NotEditing == <<running, att, lim, hc, faults>>

\* crud.modify_node decides the status; the edit may also raise data_limit.
Modify(disable, raised) ==
  /\ op = "none"
  /\ status # "deleted"
  /\ settings < MaxEdits
  /\ IF disable THEN "disable" \in Operations ELSE "modify" \in Operations
  /\ settings' = settings + 1
  /\ over' = (over /\ ~raised)
  /\ status' = IF over' THEN "limited"
               ELSE IF disable THEN "disabled" ELSE "connecting"
  /\ op' = IF status' = "connecting" THEN "update" ELSE "disconnect"
  /\ UNCHANGED <<gvars, connectReq, opOld, NotEditing>>

ModifyDisconnects ==
  /\ op = "disconnect"
  /\ Unregister
  /\ op' = "none"
  /\ UNCHANGED <<row, connectReq, opOld, NotEditing>>

ModifyUpdates ==
  /\ op = "update"
  /\ settings \notin BadSettings
  /\ Register(settings)
  /\ op' = "stopOld"
  /\ opOld' = current
  /\ UNCHANGED <<row, connectReq, NotEditing>>

ModifyRefused ==
  /\ op = "update"
  /\ settings \in BadSettings
  /\ RegisterRefused
  /\ SetStatus("error")
  /\ op' = "none"
  /\ UNCHANGED <<connectReq, opOld, NotEditing>>

\* The edit ends with a connect in the background.
ModifyConnects ==
  /\ op = "stopOld"
  /\ Stopped(opOld)
  /\ connectReq' = TRUE
  /\ op' = "none"
  /\ opOld' = 0
  /\ UNCHANGED <<row, gvars, NotEditing>>

Remove ==
  /\ "remove" \in Operations
  /\ op = "none"
  /\ status # "deleted"
  /\ Unregister
  /\ op' = "delete"
  /\ UNCHANGED <<row, connectReq, opOld, NotEditing>>

RemoveRow ==
  /\ op = "delete"
  /\ status' = "deleted"
  /\ op' = "none"
  /\ UNCHANGED <<settings, over, gvars, connectReq, opOld, NotEditing>>

ResetUsage ==
  /\ op = "none"
  /\ over
  /\ over' = FALSE
  /\ status' = IF status = "limited" THEN "connecting" ELSE status
  /\ connectReq' = (connectReq \/ status = "limited")
  /\ UNCHANGED <<settings, gvars, op, opOld, NotEditing>>

RestartNode ==
  /\ "restart" \in Operations
  /\ status # "deleted"
  /\ connectReq' = TRUE
  /\ UNCHANGED <<row, gvars, op, opOld, NotEditing>>

-----------------------------------------------------------------------------
(* Jobs: check_node_limits and process_node_health_check.                  *)

NotLimiting == <<running, att, connectReq, op, opOld, hc, faults>>

\* Usage recording takes the node over its data_limit.
Traffic ==
  /\ "limit" \in Operations
  /\ running # 0
  /\ ~over
  /\ over' = TRUE
  /\ UNCHANGED <<status, settings, gvars, lim, NotLimiting>>

LimitPicks ==
  /\ lim = "none"
  /\ over /\ status \in Active
  /\ lim' = "picked"
  /\ UNCHANGED <<row, gvars, NotLimiting>>

LimitDisconnects ==
  /\ lim = "picked"
  /\ Unregister
  /\ lim' = "disconnected"
  /\ UNCHANGED <<row, NotLimiting>>

LimitWrites ==
  /\ lim = "disconnected"
  /\ SetStatus("limited")
  /\ lim' = "none"
  /\ UNCHANGED <<gvars, NotLimiting>>

NotChecking == <<att, op, opOld, lim>>

\* The health check reads the row, the registry and the controller's health.
CheckBegins ==
  /\ hc.pc = "none"
  /\ status \in Active /\ current # 0
  /\ health[current] \in {"BROKEN", "HEALTHY"}
  /\ hc' = [pc |-> "stats", gen |-> current, status |-> status,
            health |-> health[current]]
  /\ UNCHANGED <<row, gvars, running, connectReq, faults, NotChecking>>

\* The worker of the controller failed too often and requires a hard reset.
CheckHardResets ==
  /\ hc.pc = "none"
  /\ status \in Active /\ current # 0
  /\ health[current] \in {"BROKEN", "HEALTHY"}
  /\ faults < MaxFaults
  /\ faults' = faults + 1
  /\ connectReq' = TRUE
  /\ UNCHANGED <<row, gvars, running, hc, NotChecking>>

\* Mutant: only a node that was never tried is connected again.
CheckReconnectsOnce ==
  /\ hc.pc = "none"
  /\ status = "connecting" /\ current # 0
  /\ health[current] = "NOT_CONNECTED"
  /\ connectReq' = TRUE
  /\ UNCHANGED <<row, gvars, running, hc, faults, NotChecking>>

\* A controller that was never connected is connected again.
CheckReconnects ==
  /\ hc.pc = "none"
  /\ status \in Active /\ current # 0
  /\ health[current] = "NOT_CONNECTED"
  /\ connectReq' = TRUE
  /\ UNCHANGED <<row, gvars, running, hc, faults, NotChecking>>

SetHealth(g, h) ==
  health' = IF health[g] = "INVALID" THEN health ELSE [health EXCEPT ![g] = h]

\* The node answers.
CheckOk ==
  /\ hc.pc = "stats"
  /\ running # 0
  /\ IF hc.health = "BROKEN" THEN SetHealth(hc.gen, "HEALTHY")
                             ELSE UNCHANGED health
  /\ hc' = IF hc.status = "connected" THEN NoCheck
           ELSE [hc EXCEPT !.pc = "recovered"]
  /\ UNCHANGED <<row, current, genSettings, shutdown, running, connectReq,
                 faults, NotChecking>>

\* The node runs no core, or the call fails.
CheckFails ==
  /\ hc.pc = "stats"
  /\ \/ running = 0 /\ UNCHANGED faults
     \/ faults < MaxFaults /\ faults' = faults + 1
  /\ SetHealth(hc.gen, "BROKEN")
  /\ hc' = [hc EXCEPT !.pc = "broken"]
  /\ UNCHANGED <<row, current, genSettings, shutdown, running, connectReq,
                 NotChecking>>

\* The status is written; an error code other than a timeout or a core that is
\* down also gets a reconnect.
CheckWrites ==
  /\ hc.pc \in {"recovered", "broken"}
  /\ SetStatus(IF hc.pc = "recovered" THEN "connected" ELSE "error")
  /\ connectReq' \in {connectReq, connectReq \/ hc.pc = "broken"}
  /\ hc' = NoCheck
  /\ UNCHANGED <<gvars, running, faults, NotChecking>>

\* External: the core of the node goes down.
NodeCrashes ==
  /\ running # 0
  /\ faults < MaxFaults
  /\ faults' = faults + 1
  /\ running' = 0
  /\ UNCHANGED <<row, gvars, att, connectReq, op, opOld, lim, hc>>

-----------------------------------------------------------------------------
ConnectStep(a) ==
  \/ UpdateNode(a)
  \/ BeginStart(a)
  \/ NodeStarts(a)
  \/ Connect(a)
  \/ WriteStatus(a)

OperatorStep == ModifyDisconnects \/ ModifyUpdates \/ ModifyRefused
                \/ ModifyConnects \/ RemoveRow

CheckStep == CheckOk \/ CheckFails \/ CheckWrites

LimitStep == LimitDisconnects \/ LimitWrites

Next ==
  \/ \E g \in Gens : ShutdownBegins(g) \/ ShutdownEnds(g)
  \/ ConnectSingle \/ ConnectBulk
  \/ \E a \in DOMAIN att : ConnectStep(a) \/ StartFails(a)
  \/ \E disable, raised \in BOOLEAN : Modify(disable, raised)
  \/ OperatorStep
  \/ Remove \/ ResetUsage \/ RestartNode
  \/ Traffic \/ LimitPicks \/ LimitStep
  \/ CheckBegins \/ CheckHardResets \/ CheckReconnects \/ CheckStep
  \/ NodeCrashes

Spec == Init /\ [][Next]_vars

\* A coroutine that can go on goes on, because every query and every call to
\* the node has a timeout, and the scheduler runs the two checks forever.
\* Nothing is assumed of what operators do.
FairSpec ==
  /\ Spec
  /\ \A g \in Gens : WF_vars(ShutdownBegins(g)) /\ WF_vars(ShutdownEnds(g))
  /\ WF_vars(ConnectSingle)
  /\ \A a \in {"single", "bulk"} : WF_vars(ConnectStep(a) \/ StartFails(a))
  /\ WF_vars(OperatorStep)
  /\ WF_vars(LimitPicks) /\ WF_vars(LimitStep)
  /\ WF_vars(CheckBegins) /\ WF_vars(CheckReconnects) /\ WF_vars(CheckStep)

-----------------------------------------------------------------------------
(* Properties.                                                             *)

\* Nothing is under way that would still change the node or its row.
Quiet ==
  /\ \A a \in DOMAIN att : att[a].pc = "none"
  /\ ~connectReq
  /\ op = "none" /\ lim = "none" /\ hc.pc = "none"
  /\ \A g \in Gens : shutdown[g] \in {"none", "done"}

\* What keeps a shut down controller down: it was set INVALID before its stop
\* began, and set_health and connect leave an INVALID one alone.
ShutdownIsInvalid ==
  /\ current # 0 => shutdown[current] = "none"
  /\ \A g \in Gens : shutdown[g] \in {"stop", "done"} => health[g] = "INVALID"

\* The registered controller is never one that was shut down: the health check
\* ignores an INVALID controller, so the node would be lost for good.
RegisteredIsValid == current # 0 => health[current] # "INVALID"

\* A controller that was replaced never comes back to life, although a start
\* of it may be on its way to the node when it is replaced.
ReplacedStaysDown ==
  [][\A g \in Gens :
       shutdown[g] \in {"stop", "done"} /\ shutdown'[g] # "none"
         => health'[g] = "INVALID"]_vars

\* "Two connects racing for the same node therefore destroy each other": no
\* start of another connect reaches the node between a start and the status
\* the first one writes.
NoRacingStarts ==
  \A a, b \in DOMAIN att :
    a # b => ~(/\ att[a].pc \in {"start", "answer"}
               /\ att[b].pc \in {"answer", "connected"})

\* A healthy controller that is left alone is the one the node runs, unless
\* the node's core went down by itself.
HealthyRuns ==
  Quiet /\ current # 0 /\ faults = 0 /\ health[current] = "HEALTHY"
    => running = current

\* A node that is to be connected and has a controller is connected sooner or
\* later, whatever start or health check fails on the way.
EventuallyConnected ==
  status \in Active /\ current # 0 /\ health[current] = "NOT_CONNECTED"
    ~> \/ current # 0 /\ health[current] = "HEALTHY"
       \/ current = 0
       \/ status \notin Active
=============================================================================
