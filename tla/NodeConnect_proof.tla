------------------------- MODULE NodeConnect_proof -------------------------
(***************************************************************************)
(* Proofs about NodeConnect, for every set of operations and refused       *)
(* settings and every number of edits, controllers and faults.             *)
(***************************************************************************)
EXTENDS NodeConnect, TLAPS

Inv == TypeOK /\ ShutdownIsInvalid /\ RegisteredIsValid

\* A new controller is an object nothing refers to.
LEMMA NewGenUnused ==
  ASSUME \E g \in Gens : Unused(g)
  PROVE  NewGen \in Gens /\ Unused(NewGen)
BY DEF NewGen

LEMMA InitInv == Init => Inv
<1> SUFFICES ASSUME Init
             PROVE  Inv
  OBVIOUS
<1>1. Idle \in Attempts
  BY ConstantsAssumption DEF Idle, Attempts, Settings
<1>2. NoCheck \in Checks
  BY ConstantsAssumption DEF NoCheck, Checks
<1>3. TypeOK
  <2>1. /\ status \in Active \cup {"disabled", "limited", "deleted"}
        /\ settings \in Settings
        /\ current \in 0 .. MaxGens
        /\ running \in 0 .. MaxGens
        /\ opOld \in 0 .. MaxGens
        /\ faults \in 0 .. MaxFaults
    BY ConstantsAssumption DEF Init, Settings, Active
  <2>2. /\ health \in [Gens -> Healths]
        /\ genSettings \in [Gens -> Settings]
        /\ shutdown \in [Gens -> {"none", "task", "stop", "done"}]
    BY ConstantsAssumption DEF Init, Healths, Settings
  <2>3. /\ over \in BOOLEAN
        /\ connectReq \in BOOLEAN
        /\ op \in {"none", "disconnect", "update", "stopOld", "delete"}
        /\ lim \in {"none", "picked", "disconnected"}
    BY DEF Init
  <2>4. /\ att \in [{"single", "bulk"} -> Attempts]
        /\ hc \in Checks
    BY <1>1, <1>2 DEF Init
  <2> QED
    BY <2>1, <2>2, <2>3, <2>4 DEF TypeOK
<1>4. ShutdownIsInvalid
  BY ConstantsAssumption DEF Init, ShutdownIsInvalid, Gens
<1>5. RegisteredIsValid
  BY ConstantsAssumption DEF Init, RegisteredIsValid, Gens
<1> QED
  BY <1>3, <1>4, <1>5 DEF Inv

\* The registry and the controllers, the part of the state the invariant is
\* about.
Registry ==
  /\ current \in 0 .. MaxGens
  /\ health \in [Gens -> Healths]
  /\ shutdown \in [Gens -> {"none", "task", "stop", "done"}]
  /\ genSettings \in [Gens -> Settings]
  /\ ShutdownIsInvalid
  /\ RegisteredIsValid

\* What a step may do to a controller whose shutdown has begun.
KeepsDown ==
  \A g \in Gens :
    shutdown[g] \in {"stop", "done"} => shutdown'[g] \in {"none", "stop", "done"}

LEMMA RegisterKeeps ==
  ASSUME Registry, NEW s \in Settings, Register(s)
  PROVE  Registry' /\ KeepsDown
<1>1. NewGen \in Gens /\ Unused(NewGen)
  BY NewGenUnused DEF Register
<1>2. NewGen # current
  BY <1>1 DEF Unused
<1> QED
  BY <1>1, <1>2, ConstantsAssumption
     DEF Register, Registry, KeepsDown, ShutdownIsInvalid, RegisteredIsValid,
         Gens, Healths

LEMMA RegisterRefusedKeeps ==
  ASSUME Registry, RegisterRefused
  PROVE  Registry' /\ KeepsDown
BY ConstantsAssumption
   DEF RegisterRefused, Registry, KeepsDown, ShutdownIsInvalid,
       RegisteredIsValid

LEMMA UnregisterKeeps ==
  ASSUME Registry, Unregister
  PROVE  Registry' /\ KeepsDown
BY ConstantsAssumption
   DEF Unregister, Registry, KeepsDown, ShutdownIsInvalid, RegisteredIsValid,
       Gens

\* The health of a controller that is not INVALID may change to anything else.
LEMMA HealthKeeps ==
  ASSUME Registry, NEW g, NEW h \in Healths \ {"INVALID"},
         \/ health' = health
         \/ health[g] # "INVALID" /\ health' = [health EXCEPT ![g] = h],
         UNCHANGED <<current, genSettings, shutdown>>
  PROVE  Registry' /\ KeepsDown
<1>1. CASE health' = health
  BY <1>1 DEF Registry, KeepsDown, ShutdownIsInvalid, RegisteredIsValid
<1>2. CASE health[g] # "INVALID" /\ health' = [health EXCEPT ![g] = h]
  <2>1. health' \in [Gens -> Healths]
    BY <1>2 DEF Registry
  <2>2. \A k \in Gens : health'[k] = IF k = g THEN h ELSE health[k]
    BY <1>2 DEF Registry
  <2> QED
    BY <1>2, <2>1, <2>2, ConstantsAssumption
       DEF Registry, KeepsDown, ShutdownIsInvalid, RegisteredIsValid, Gens
<1> QED
  BY <1>1, <1>2

LEMMA UnchangedKeeps ==
  ASSUME Registry, UNCHANGED gvars
  PROVE  Registry' /\ KeepsDown
BY DEF gvars, Registry, KeepsDown, ShutdownIsInvalid, RegisteredIsValid

-----------------------------------------------------------------------------
\* The rest of the state: the row, the node and the coroutines.
Others ==
  /\ status \in Active \cup {"disabled", "limited", "deleted"}
  /\ settings \in Settings
  /\ over \in BOOLEAN
  /\ running \in 0 .. MaxGens
  /\ att \in [{"single", "bulk"} -> Attempts]
  /\ connectReq \in BOOLEAN
  /\ op \in {"none", "disconnect", "update", "stopOld", "delete"}
  /\ opOld \in 0 .. MaxGens
  /\ lim \in {"none", "picked", "disconnected"}
  /\ hc \in Checks
  /\ faults \in 0 .. MaxFaults

LEMMA InvParts == Inv <=> Registry /\ Others
BY DEF Inv, TypeOK, Registry, Others

LEMMA IdleType == Idle \in Attempts
BY ConstantsAssumption DEF Idle, Attempts, Settings

LEMMA NoCheckType == NoCheck \in Checks
BY ConstantsAssumption DEF NoCheck, Checks

LEMMA AttemptParts ==
  ASSUME NEW r \in Attempts
  PROVE  /\ r.settings \in Settings
         /\ r.gen \in 0 .. MaxGens
         /\ r.old \in 0 .. MaxGens
BY DEF Attempts

LEMMA AttType ==
  ASSUME att \in [{"single", "bulk"} -> Attempts],
         NEW a \in {"single", "bulk"}, NEW r \in Attempts
  PROVE  [att EXCEPT ![a] = r] \in [{"single", "bulk"} -> Attempts]
OBVIOUS

LEMMA GotoType ==
  ASSUME att \in [{"single", "bulk"} -> Attempts],
         NEW a \in {"single", "bulk"},
         NEW pc \in {"none", "update", "stopOld", "start", "answer",
                     "connected", "error"},
         Goto(a, pc)
  PROVE  att' \in [{"single", "bulk"} -> Attempts]
<1>1. att[a] \in Attempts
  OBVIOUS
<1>2. [att[a] EXCEPT !.pc = pc] \in Attempts
  BY <1>1 DEF Attempts
<1>3. att' = [att EXCEPT ![a] = [att[a] EXCEPT !.pc = pc]]
  BY DEF Goto
<1> QED
  BY <1>2, <1>3, AttType

-----------------------------------------------------------------------------
(* Connecting.                                                             *)

LEMMA ReadRowType ==
  ASSUME Others, NEW a \in {"single", "bulk"}, ReadRow(a)
  PROVE  att' \in [{"single", "bulk"} -> Attempts]
<1>1. [Idle EXCEPT !.pc = "update", !.settings = settings] \in Attempts
  BY IdleType DEF Others, Attempts
<1> QED
  BY <1>1, AttType DEF ReadRow, Others

LEMMA ConnectStepKeeps ==
  ASSUME Registry, Others, NEW a \in {"single", "bulk"}, ConnectStep(a)
  PROVE  Registry' /\ Others' /\ KeepsDown
<1>0. /\ att \in [{"single", "bulk"} -> Attempts]
      /\ att[a] \in Attempts
      /\ att[a].settings \in Settings
      /\ att[a].gen \in 0 .. MaxGens
  BY AttemptParts DEF Others
<1>1. CASE UpdateNode(a)
  <2>1. CASE att[a].settings \in BadSettings
    <3>1. RegisterRefused /\ Goto(a, "error")
      BY <1>1, <2>1 DEF UpdateNode
    <3>2. Registry' /\ KeepsDown
      BY <3>1, RegisterRefusedKeeps
    <3>3. att' \in [{"single", "bulk"} -> Attempts]
      BY <1>0, <3>1, GotoType
    <3> QED
      BY <1>1, <3>2, <3>3 DEF UpdateNode, Others, row, NotConnecting
  <2>2. CASE att[a].settings \notin BadSettings
    <3>1. /\ Register(att[a].settings)
          /\ att' = [att EXCEPT ![a].pc = "stopOld", ![a].old = current]
      BY <1>1, <2>2 DEF UpdateNode
    <3>2. Registry' /\ KeepsDown
      BY <1>0, <3>1, RegisterKeeps
    <3>3. [att[a] EXCEPT !.pc = "stopOld", !.old = current] \in Attempts
      BY <1>0 DEF Attempts, Registry
    <3>4. att' = [att EXCEPT ![a] = [att[a] EXCEPT !.pc = "stopOld", !.old = current]]
      BY <1>0, <3>1
    <3>5. att' \in [{"single", "bulk"} -> Attempts]
      BY <1>0, <3>3, <3>4, AttType
    <3> QED
      BY <1>1, <3>2, <3>5 DEF UpdateNode, Others, row, NotConnecting
  <2> QED
    BY <2>1, <2>2
<1>2. CASE BeginStart(a)
  <2>1. [att[a] EXCEPT !.pc = "start", !.gen = current] \in Attempts
    BY <1>0 DEF Attempts, Registry
  <2>2. att' \in [{"single", "bulk"} -> Attempts]
    <3>1. CASE \/ current = 0
               \/ health[current] = "INVALID"
      BY <1>2, <3>1, <1>0, IdleType, AttType DEF BeginStart
    <3>2. CASE ~(\/ current = 0
                 \/ health[current] = "INVALID")
      BY <1>2, <3>2, <2>1, <1>0, AttType DEF BeginStart
    <3> QED
      BY <3>1, <3>2
  <2>3. Registry' /\ KeepsDown
    BY <1>2, UnchangedKeeps DEF BeginStart
  <2> QED
    BY <1>2, <2>2, <2>3 DEF BeginStart, Others, row, NotConnecting
<1>3. CASE NodeStarts(a)
  <2>1. att' \in [{"single", "bulk"} -> Attempts]
    BY <1>0, <1>3, GotoType DEF NodeStarts
  <2>2. Registry' /\ KeepsDown
    BY <1>3, UnchangedKeeps DEF NodeStarts
  <2> QED
    BY <1>0, <1>3, <2>1, <2>2 DEF NodeStarts, Others, row, NotConnecting
<1>4. CASE Connect(a)
  <2>1. CASE health[att[a].gen] = "INVALID"
    <3>1. att' \in [{"single", "bulk"} -> Attempts]
      BY <1>0, <1>4, <2>1, IdleType, AttType DEF Connect
    <3>2. UNCHANGED gvars
      BY <1>4, <2>1 DEF Connect, gvars
    <3>3. Registry' /\ KeepsDown
      BY <3>2, UnchangedKeeps
    <3> QED
      BY <1>4, <3>1, <3>3 DEF Connect, Others, row, NotConnecting
  <2>2. CASE health[att[a].gen] # "INVALID"
    <3>1. att' \in [{"single", "bulk"} -> Attempts]
      BY <1>0, <1>4, <2>2, GotoType DEF Connect
    <3>2. /\ health' = [health EXCEPT ![att[a].gen] = "HEALTHY"]
          /\ UNCHANGED <<current, genSettings, shutdown>>
      BY <1>4, <2>2 DEF Connect
    <3>3. "HEALTHY" \in Healths \ {"INVALID"}
      BY DEF Healths
    <3>4. Registry' /\ KeepsDown
      BY <2>2, <3>2, <3>3, HealthKeeps
    <3> QED
      BY <1>4, <3>1, <3>4 DEF Connect, Others, row, NotConnecting
  <2> QED
    BY <2>1, <2>2
<1>5. CASE WriteStatus(a)
  <2>1. att' \in [{"single", "bulk"} -> Attempts]
    BY <1>0, <1>5, IdleType, AttType DEF WriteStatus
  <2>2. Registry' /\ KeepsDown
    BY <1>5, UnchangedKeeps DEF WriteStatus
  <2>3. /\ status' \in Active \cup {"disabled", "limited", "deleted"}
        /\ UNCHANGED <<settings, over>>
    BY <1>5 DEF WriteStatus, SetStatus, Others, Active
  <2> QED
    BY <1>5, <2>1, <2>2, <2>3 DEF WriteStatus, Others, NotConnecting
<1> QED
  BY <1>1, <1>2, <1>3, <1>4, <1>5 DEF ConnectStep

LEMMA ConnectBeginsKeeps ==
  ASSUME Registry, Others,
         \/ ConnectSingle
         \/ ConnectBulk
         \/ \E a \in DOMAIN att : StartFails(a)
  PROVE  Registry' /\ Others' /\ KeepsDown
<1>1. CASE ConnectSingle
  <2>1. att' \in [{"single", "bulk"} -> Attempts]
    BY <1>1, ReadRowType DEF ConnectSingle, Others
  <2>2. Registry' /\ KeepsDown
    BY <1>1, UnchangedKeeps DEF ConnectSingle
  <2>3. connectReq' \in BOOLEAN
    BY <1>1 DEF ConnectSingle
  <2> QED
    BY <1>1, <2>1, <2>2, <2>3 DEF ConnectSingle, Others, row, NotConnecting
<1>2. CASE ConnectBulk
  <2>1. att' \in [{"single", "bulk"} -> Attempts]
    BY <1>2, ReadRowType DEF ConnectBulk
  <2>2. Registry' /\ KeepsDown
    BY <1>2, UnchangedKeeps DEF ConnectBulk
  <2> QED
    BY <1>2, <2>1, <2>2 DEF ConnectBulk, Others, row, NotConnecting
<1>3. CASE \E a \in DOMAIN att : StartFails(a)
  <2>1. PICK a \in {"single", "bulk"} : StartFails(a)
    BY <1>3 DEF Others
  <2>2. att' \in [{"single", "bulk"} -> Attempts]
    BY <2>1, GotoType DEF StartFails, Others
  <2>3. Registry' /\ KeepsDown
    BY <2>1, UnchangedKeeps DEF StartFails
  <2>4. faults' \in 0 .. MaxFaults
    BY <2>1, ConstantsAssumption DEF StartFails, Others
  <2> QED
    BY <2>1, <2>2, <2>3, <2>4 DEF StartFails, Others, row, NotConnecting
<1> QED
  BY <1>1, <1>2, <1>3

LEMMA ShutdownKeeps ==
  ASSUME Registry, Others, NEW g \in Gens,
         \/ ShutdownBegins(g)
         \/ ShutdownEnds(g)
  PROVE  Registry' /\ Others' /\ KeepsDown
<1>1. CASE ShutdownBegins(g)
  <2>1. g # current
    BY <1>1 DEF ShutdownBegins, Registry, ShutdownIsInvalid, Gens
  <2>2. Registry' /\ KeepsDown
    BY <1>1, <2>1
       DEF ShutdownBegins, Registry, KeepsDown, ShutdownIsInvalid,
           RegisteredIsValid, Healths, Gens
  <2> QED
    BY <1>1, <2>2 DEF ShutdownBegins, Others, row
<1>2. CASE ShutdownEnds(g)
  <2>1. Registry' /\ KeepsDown
    BY <1>2
       DEF ShutdownEnds, Registry, KeepsDown, ShutdownIsInvalid,
           RegisteredIsValid, Gens
  <2>2. running' \in 0 .. MaxGens
    BY <1>2, ConstantsAssumption DEF ShutdownEnds, Others
  <2> QED
    BY <1>2, <2>1, <2>2 DEF ShutdownEnds, Others, row
<1> QED
  BY <1>1, <1>2

-----------------------------------------------------------------------------
(* Operators.                                                              *)

\* Where an edit leaves the row.
LEMMA ModifyType ==
  ASSUME Others, NEW disable \in BOOLEAN, NEW raised \in BOOLEAN,
         Modify(disable, raised)
  PROVE  /\ status' \in Active \cup {"disabled", "limited", "deleted"}
         /\ settings' \in Settings
         /\ over' \in BOOLEAN
         /\ op' \in {"none", "disconnect", "update", "stopOld", "delete"}
<1>1. settings' \in Settings
  BY ConstantsAssumption DEF Modify, Others, Settings
<1>2. over' \in BOOLEAN
  BY DEF Modify
<1>3. status' \in {"limited", "disabled", "connecting"}
  BY DEF Modify
<1>4. op' \in {"update", "disconnect"}
  BY DEF Modify
<1> QED
  BY <1>1, <1>2, <1>3, <1>4 DEF Active

LEMMA OperatorKeeps ==
  ASSUME Registry, Others,
         \/ \E disable, raised \in BOOLEAN : Modify(disable, raised)
         \/ OperatorStep
         \/ Remove
         \/ ResetUsage
         \/ RestartNode
  PROVE  Registry' /\ Others' /\ KeepsDown
<1>1. CASE \E disable, raised \in BOOLEAN : Modify(disable, raised)
  <2>1. PICK disable, raised \in BOOLEAN : Modify(disable, raised)
    BY <1>1
  <2>2. Registry' /\ KeepsDown
    BY <2>1, UnchangedKeeps DEF Modify
  <2> QED
    BY <2>1, <2>2, ModifyType DEF Modify, Others, NotEditing
<1>2. CASE ModifyDisconnects
  <2>1. Registry' /\ KeepsDown
    BY <1>2, UnregisterKeeps DEF ModifyDisconnects
  <2> QED
    BY <1>2, <2>1 DEF ModifyDisconnects, Others, row, NotEditing
<1>3. CASE ModifyUpdates
  <2>1. Registry' /\ KeepsDown
    BY <1>3, RegisterKeeps DEF ModifyUpdates, Others
  <2>2. opOld' \in 0 .. MaxGens
    BY <1>3 DEF ModifyUpdates, Registry
  <2> QED
    BY <1>3, <2>1, <2>2 DEF ModifyUpdates, Others, row, NotEditing
<1>4. CASE ModifyRefused
  <2>1. Registry' /\ KeepsDown
    BY <1>4, RegisterRefusedKeeps DEF ModifyRefused
  <2>2. status' \in Active \cup {"disabled", "limited", "deleted"}
    BY <1>4 DEF ModifyRefused, SetStatus, Others, Active
  <2> QED
    BY <1>4, <2>1, <2>2 DEF ModifyRefused, SetStatus, Others, NotEditing
<1>5. CASE ModifyConnects
  <2>1. Registry' /\ KeepsDown
    BY <1>5, UnchangedKeeps DEF ModifyConnects
  <2>2. connectReq' \in BOOLEAN
    BY <1>5 DEF ModifyConnects
  <2> QED
    BY <1>5, <2>1, <2>2, ConstantsAssumption
       DEF ModifyConnects, Others, row, NotEditing
<1>6. CASE RemoveRow
  <2>1. Registry' /\ KeepsDown
    BY <1>6, UnchangedKeeps DEF RemoveRow
  <2> QED
    BY <1>6, <2>1 DEF RemoveRow, Others, NotEditing
<1>7. CASE Remove
  <2>1. Registry' /\ KeepsDown
    BY <1>7, UnregisterKeeps DEF Remove
  <2> QED
    BY <1>7, <2>1 DEF Remove, Others, row, NotEditing
<1>8. CASE ResetUsage
  <2>1. Registry' /\ KeepsDown
    BY <1>8, UnchangedKeeps DEF ResetUsage
  <2>2. over' \in BOOLEAN /\ connectReq' \in BOOLEAN
    BY <1>8 DEF ResetUsage
  <2>3. status' \in Active \cup {"disabled", "limited", "deleted"}
    BY <1>8 DEF ResetUsage, Others, Active
  <2> QED
    BY <1>8, <2>1, <2>2, <2>3 DEF ResetUsage, Others, NotEditing
<1>9. CASE RestartNode
  <2>1. Registry' /\ KeepsDown
    BY <1>9, UnchangedKeeps DEF RestartNode
  <2>2. connectReq' \in BOOLEAN
    BY <1>9 DEF RestartNode
  <2> QED
    BY <1>9, <2>1, <2>2 DEF RestartNode, Others, row, NotEditing
<1> QED
  BY <1>1, <1>2, <1>3, <1>4, <1>5, <1>6, <1>7, <1>8, <1>9 DEF OperatorStep

-----------------------------------------------------------------------------
(* Jobs.                                                                   *)

LEMMA LimitKeeps ==
  ASSUME Registry, Others,
         \/ Traffic
         \/ LimitPicks
         \/ LimitStep
  PROVE  Registry' /\ Others' /\ KeepsDown
<1>1. CASE Traffic
  <2>1. Registry' /\ KeepsDown
    BY <1>1, UnchangedKeeps DEF Traffic
  <2>2. over' \in BOOLEAN
    BY <1>1 DEF Traffic
  <2> QED
    BY <1>1, <2>1, <2>2 DEF Traffic, Others, NotLimiting
<1>2. CASE LimitPicks
  <2>1. Registry' /\ KeepsDown
    BY <1>2, UnchangedKeeps DEF LimitPicks
  <2> QED
    BY <1>2, <2>1 DEF LimitPicks, Others, row, NotLimiting
<1>3. CASE LimitDisconnects
  <2>1. Registry' /\ KeepsDown
    BY <1>3, UnregisterKeeps DEF LimitDisconnects
  <2> QED
    BY <1>3, <2>1 DEF LimitDisconnects, Others, row, NotLimiting
<1>4. CASE LimitWrites
  <2>1. Registry' /\ KeepsDown
    BY <1>4, UnchangedKeeps DEF LimitWrites
  <2>2. status' \in Active \cup {"disabled", "limited", "deleted"}
    BY <1>4 DEF LimitWrites, SetStatus, Others, Active
  <2> QED
    BY <1>4, <2>1, <2>2 DEF LimitWrites, SetStatus, Others, NotLimiting
<1> QED
  BY <1>1, <1>2, <1>3, <1>4 DEF LimitStep

\* set_health never touches an INVALID controller.
LEMMA SetHealthKeeps ==
  ASSUME Registry, NEW g, NEW h \in Healths \ {"INVALID"}, SetHealth(g, h),
         UNCHANGED <<current, genSettings, shutdown>>
  PROVE  Registry' /\ KeepsDown
BY HealthKeeps DEF SetHealth

LEMMA CheckKeeps ==
  ASSUME Registry, Others,
         \/ CheckBegins
         \/ CheckHardResets
         \/ CheckReconnects
         \/ CheckStep
  PROVE  Registry' /\ Others' /\ KeepsDown
<1>0. "HEALTHY" \in Healths \ {"INVALID"} /\ "BROKEN" \in Healths \ {"INVALID"}
  BY DEF Healths
<1>1. CASE CheckBegins
  <2>1. Registry' /\ KeepsDown
    BY <1>1, UnchangedKeeps DEF CheckBegins
  <2>2. hc' \in Checks
    BY <1>1 DEF CheckBegins, Checks, Registry, Healths
  <2> QED
    BY <1>1, <2>1, <2>2 DEF CheckBegins, Others, row, NotChecking
<1>2. CASE CheckHardResets
  <2>1. Registry' /\ KeepsDown
    BY <1>2, UnchangedKeeps DEF CheckHardResets
  <2>2. connectReq' \in BOOLEAN
    BY <1>2 DEF CheckHardResets
  <2>3. faults' \in 0 .. MaxFaults
    BY <1>2, ConstantsAssumption DEF CheckHardResets, Others
  <2> QED
    BY <1>2, <2>1, <2>2, <2>3 DEF CheckHardResets, Others, row, NotChecking
<1>3. CASE CheckReconnects
  <2>1. Registry' /\ KeepsDown
    BY <1>3, UnchangedKeeps DEF CheckReconnects
  <2>2. connectReq' \in BOOLEAN
    BY <1>3 DEF CheckReconnects
  <2> QED
    BY <1>3, <2>1, <2>2 DEF CheckReconnects, Others, row, NotChecking
<1>4. CASE CheckOk
  <2>1. Registry' /\ KeepsDown
    <3>1. CASE hc.health = "BROKEN"
      BY <1>0, <1>4, <3>1, SetHealthKeeps DEF CheckOk
    <3>2. CASE hc.health # "BROKEN"
      BY <1>4, <3>2, UnchangedKeeps DEF CheckOk, gvars
    <3> QED
      BY <3>1, <3>2
  <2>2. hc' \in Checks
    <3>1. [hc EXCEPT !.pc = "recovered"] \in Checks
      BY DEF Others, Checks
    <3> QED
      BY <1>4, <3>1, NoCheckType DEF CheckOk
  <2> QED
    BY <1>4, <2>1, <2>2 DEF CheckOk, Others, row, NotChecking
<1>5. CASE CheckFails
  <2>1. Registry' /\ KeepsDown
    BY <1>0, <1>5, SetHealthKeeps DEF CheckFails
  <2>2. [hc EXCEPT !.pc = "broken"] \in Checks
    BY DEF Others, Checks
  <2>3. faults' \in 0 .. MaxFaults
    BY <1>5, ConstantsAssumption DEF CheckFails, Others
  <2> QED
    BY <1>5, <2>1, <2>2, <2>3 DEF CheckFails, Others, row, NotChecking
<1>6. CASE CheckWrites
  <2>1. Registry' /\ KeepsDown
    BY <1>6, UnchangedKeeps DEF CheckWrites
  <2>2. status' \in Active \cup {"disabled", "limited", "deleted"}
    BY <1>6 DEF CheckWrites, SetStatus, Others, Active
  <2>3. connectReq' \in BOOLEAN
    BY <1>6 DEF CheckWrites, Others
  <2> QED
    BY <1>6, <2>1, <2>2, <2>3, NoCheckType
       DEF CheckWrites, SetStatus, Others, NotChecking
<1> QED
  BY <1>1, <1>2, <1>3, <1>4, <1>5, <1>6 DEF CheckStep

LEMMA NodeCrashesKeeps ==
  ASSUME Registry, Others, NodeCrashes
  PROVE  Registry' /\ Others' /\ KeepsDown
<1>1. Registry' /\ KeepsDown
  BY UnchangedKeeps DEF NodeCrashes
<1>2. faults' \in 0 .. MaxFaults /\ running' \in 0 .. MaxGens
  BY ConstantsAssumption DEF NodeCrashes, Others
<1> QED
  BY <1>1, <1>2 DEF NodeCrashes, Others, row

-----------------------------------------------------------------------------
LEMMA NextKeeps == Inv /\ [Next]_vars => Inv' /\ KeepsDown
<1> SUFFICES ASSUME Inv, [Next]_vars
             PROVE  Inv' /\ KeepsDown
  OBVIOUS
<1>0. Registry /\ Others
  BY InvParts
<1>1. CASE \E g \in Gens : \/ ShutdownBegins(g)
                           \/ ShutdownEnds(g)
  BY <1>0, <1>1, ShutdownKeeps DEF Inv, TypeOK, Registry, Others
<1>2. CASE \E a \in DOMAIN att : ConnectStep(a)
  <2>1. PICK a \in {"single", "bulk"} : ConnectStep(a)
    BY <1>0, <1>2 DEF Others
  <2> QED
    BY <1>0, <2>1, ConnectStepKeeps DEF Inv, TypeOK, Registry, Others
<1>3. CASE \/ ConnectSingle
           \/ ConnectBulk
           \/ \E a \in DOMAIN att : StartFails(a)
  BY <1>0, <1>3, ConnectBeginsKeeps DEF Inv, TypeOK, Registry, Others
<1>4. CASE \/ \E disable, raised \in BOOLEAN : Modify(disable, raised)
           \/ OperatorStep
           \/ Remove
           \/ ResetUsage
           \/ RestartNode
  BY <1>0, <1>4, OperatorKeeps DEF Inv, TypeOK, Registry, Others
<1>5. CASE \/ Traffic
           \/ LimitPicks
           \/ LimitStep
  BY <1>0, <1>5, LimitKeeps DEF Inv, TypeOK, Registry, Others
<1>6. CASE \/ CheckBegins
           \/ CheckHardResets
           \/ CheckReconnects
           \/ CheckStep
  BY <1>0, <1>6, CheckKeeps DEF Inv, TypeOK, Registry, Others
<1>7. CASE NodeCrashes
  BY <1>0, <1>7, NodeCrashesKeeps DEF Inv, TypeOK, Registry, Others
<1>8. CASE UNCHANGED vars
  <2>1. Registry' /\ KeepsDown
    BY <1>0, <1>8, UnchangedKeeps DEF vars
  <2>2. Others'
    BY <1>0, <1>8 DEF vars, row, Others
  <2> QED
    BY <2>1, <2>2 DEF Inv, TypeOK, Registry, Others
<1> QED
  BY <1>1, <1>2, <1>3, <1>4, <1>5, <1>6, <1>7, <1>8 DEF Next

LEMMA InvHolds == Spec => []Inv
BY InitInv, NextKeeps, PTL DEF Spec

\* The state of the node's row, controllers and coroutines is always of its
\* type: no order of the coroutines of operation/node.py and node_checker.py
\* leaves a reference to a controller that does not exist.
THEOREM TypeCorrect == Spec => []TypeOK
<1>1. Inv => TypeOK
  BY DEF Inv
<1> QED
  BY <1>1, InvHolds, PTL

\* NodeManager never has a controller registered that was shut down, however
\* update_node, remove_node, connects and health checks interleave.
THEOREM RegistryIsValid == Spec => []RegisteredIsValid
<1>1. Inv => RegisteredIsValid
  BY DEF Inv
<1> QED
  BY <1>1, InvHolds, PTL

\* A controller whose stop() has begun is INVALID ever after, although a start
\* or a health check of it may be under way.
THEOREM ReplacedIsFinal == Spec => ReplacedStaysDown
<1>1. ASSUME Inv, Inv', KeepsDown
      PROVE  \A g \in Gens :
               shutdown[g] \in {"stop", "done"} /\ shutdown'[g] # "none"
                 => health'[g] = "INVALID"
  BY <1>1 DEF KeepsDown, Inv, ShutdownIsInvalid
<1>2. Inv /\ Inv' /\ [Next]_vars
        => [\A g \in Gens :
              shutdown[g] \in {"stop", "done"} /\ shutdown'[g] # "none"
                => health'[g] = "INVALID"]_vars
  BY <1>1, NextKeeps
<1> QED
  BY <1>2, InvHolds, PTL DEF Spec, ReplacedStaysDown

-----------------------------------------------------------------------------
(* A node whose connects are all guarded by _CONNECTING_NODES.             *)

OnlySingle == att["bulk"].pc = "none"

\* Every step of a connect starts from an attempt that is under way.
LEMMA AttemptUnderWay ==
  ASSUME NEW a, ConnectStep(a) \/ StartFails(a)
  PROVE  att[a].pc # "none"
BY DEF ConnectStep, UpdateNode, BeginStart, NodeStarts, Connect, WriteStatus, StartFails

\* A connect leaves the other one alone.
LEMMA AttemptsApart ==
  ASSUME TypeOK, NEW a \in {"single", "bulk"}, ConnectStep(a) \/ StartFails(a),
         NEW b \in {"single", "bulk"}, a # b
  PROVE  att'[b] = att[b]
BY DEF TypeOK, ConnectStep, UpdateNode, BeginStart, NodeStarts, Connect, WriteStatus,
       StartFails, Goto

LEMMA OnlySingleStep ==
  ASSUME "bulk" \notin Operations
  PROVE  TypeOK /\ OnlySingle /\ [Next]_vars => OnlySingle'
<1> SUFFICES ASSUME TypeOK, OnlySingle, [Next]_vars
             PROVE  OnlySingle'
  OBVIOUS
<1>1. ASSUME NEW a \in DOMAIN att, ConnectStep(a) \/ StartFails(a)
      PROVE  OnlySingle'
  <2>1. a = "single"
    BY <1>1, AttemptUnderWay DEF OnlySingle, TypeOK
  <2> QED
    BY <1>1, <2>1, AttemptsApart DEF OnlySingle
<1>2. CASE ConnectSingle
  BY <1>2 DEF ConnectSingle, ReadRow, OnlySingle, TypeOK
<1>3. ~ConnectBulk
  BY DEF ConnectBulk
<1>4. ASSUME UNCHANGED att
      PROVE  OnlySingle'
  BY <1>4 DEF OnlySingle
<1>5. ASSUME NEW g \in Gens, ShutdownBegins(g) \/ ShutdownEnds(g)
      PROVE  OnlySingle'
  BY <1>4, <1>5 DEF ShutdownBegins, ShutdownEnds
<1>6. CASE \/ \E disable, raised \in BOOLEAN : Modify(disable, raised)
           \/ OperatorStep \/ Remove \/ ResetUsage \/ RestartNode
  BY <1>4, <1>6 DEF Modify, OperatorStep, ModifyDisconnects, ModifyUpdates,
                    ModifyRefused, ModifyConnects, RemoveRow, Remove, ResetUsage,
                    RestartNode, NotEditing
<1>7. CASE Traffic \/ LimitPicks \/ LimitStep
  BY <1>4, <1>7 DEF Traffic, LimitPicks, LimitStep, LimitDisconnects, LimitWrites,
                    NotLimiting
<1>8. CASE CheckBegins \/ CheckHardResets \/ CheckReconnects \/ CheckStep \/ NodeCrashes
  BY <1>4, <1>8 DEF CheckBegins, CheckHardResets, CheckReconnects, CheckStep, CheckOk,
                    CheckFails, CheckWrites, NodeCrashes, NotChecking
<1>9. CASE UNCHANGED vars
  BY <1>4, <1>9 DEF vars
<1> QED
  BY <1>1, <1>2, <1>3, <1>5, <1>6, <1>7, <1>8, <1>9 DEF Next

\* Without a restart of all nodes no two connects are between their start and the
\* status they write: _CONNECTING_NODES keeps "two connects racing for the same
\* node" apart, whatever edits, limits and health checks ask for a connect.
THEOREM StartsDoNotRace ==
  ASSUME "bulk" \notin Operations
  PROVE  Spec => []NoRacingStarts
<1>1. Init => OnlySingle
  BY DEF Init, OnlySingle, Idle
<1>2. TypeOK /\ OnlySingle => NoRacingStarts
  BY DEF TypeOK, OnlySingle, NoRacingStarts
<1>3. TypeOK /\ OnlySingle /\ [Next]_vars => OnlySingle'
  BY OnlySingleStep
<1> QED
  BY <1>1, <1>2, <1>3, TypeCorrect, PTL DEF Spec

-----------------------------------------------------------------------------
(***************************************************************************)
(* A node that is left alone: connects, health checks, restarts of the one *)
(* node and any number of faults, but no edit, limit or restart of all.    *)
(* The property is not claimed for the rest: the stop of a controller that *)
(* was replaced by one of those may reach the node after the next start.   *)
(***************************************************************************)

single == att["single"]

Undisturbed == op = "none" /\ lim = "none" /\ ~over

\* The only shutdown under way is the one the single connect waits for.
OneShutdown ==
  \A g \in Gens :
    /\ shutdown[g] # "task"
    /\ shutdown[g] = "stop" => single.pc = "stopOld" /\ single.old = g

\* The connect starts the controller it registered, which was never connected.
OwnStart ==
  /\ single.pc = "stopOld" => current # 0 /\ health[current] = "NOT_CONNECTED"
  /\ single.pc \in {"start", "answer", "connected"} =>
       current # 0 /\ single.gen = current

\* Until the first fault the node runs the controller that was connected, and a
\* health check of a registered controller has seen it connected.
RunsCurrent ==
  /\ single.pc = "answer" /\ faults = 0 => running = current
  /\ current # 0 /\ faults = 0 /\ health[current] \in {"HEALTHY", "BROKEN"} =>
       running = current
  /\ hc.pc = "stats" =>
       /\ hc.gen # 0
       /\ hc.gen = current => health[current] \in {"HEALTHY", "BROKEN"}

LeftAlone == OnlySingle /\ Undisturbed /\ OneShutdown /\ OwnStart /\ RunsCurrent

LEMMA LeftAloneRegisters ==
  ASSUME TypeOK, LeftAlone, UpdateNode("single"), att["single"].settings \notin BadSettings
  PROVE  OneShutdown' /\ OwnStart' /\ RunsCurrent'
<1>1. /\ Register(single.settings)
      /\ att' = [att EXCEPT !["single"].pc = "stopOld", !["single"].old = current]
      /\ single.pc = "update"
      /\ UNCHANGED <<running, faults, hc>>
  BY DEF UpdateNode, single, NotConnecting
<1>2. NewGen \in Gens /\ Unused(NewGen) /\ NewGen # 0
  BY <1>1, NewGenUnused DEF Register, Gens
<1>3. single'.pc = "stopOld" /\ single'.old = current
  BY <1>1 DEF TypeOK, Attempts, single
<1>4. current' = NewGen /\ health'[NewGen] = "NOT_CONNECTED"
  BY <1>1, <1>2 DEF Register
<1>5. OneShutdown'
  BY <1>1, <1>3 DEF LeftAlone, OneShutdown, Register
<1>6. OwnStart' /\ RunsCurrent'
  BY <1>1, <1>2, <1>3, <1>4 DEF LeftAlone, OwnStart, RunsCurrent, Unused
<1> QED
  BY <1>5, <1>6

LEMMA LeftAloneConnects ==
  ASSUME TypeOK, LeftAlone, ConnectStep("single") \/ StartFails("single")
  PROVE  OneShutdown' /\ OwnStart' /\ RunsCurrent'
<1> USE DEF TypeOK, Attempts, LeftAlone, OneShutdown, OwnStart, RunsCurrent, single
<1>1. CASE UpdateNode("single")
  <2>1. CASE att["single"].settings \in BadSettings
    BY <1>1, <2>1 DEF UpdateNode, RegisterRefused, Goto, NotConnecting
  <2> QED
    BY <1>1, <2>1, LeftAloneRegisters
<1>2. CASE BeginStart("single")
  BY <1>2 DEF BeginStart, Stopped, gvars, NotConnecting, Idle
<1>3. CASE NodeStarts("single")
  BY <1>3 DEF NodeStarts, Goto, gvars, NotConnecting
<1>4. CASE Connect("single")
  BY <1>4 DEF Connect, Goto, NotConnecting, Idle
<1>5. CASE WriteStatus("single")
  BY <1>5 DEF WriteStatus, gvars, NotConnecting, Idle
<1>6. CASE StartFails("single")
  BY <1>6 DEF StartFails, Goto, gvars, NotConnecting
<1> QED
  BY <1>1, <1>2, <1>3, <1>4, <1>5, <1>6 DEF ConnectStep

LEMMA LeftAloneShutdown ==
  ASSUME TypeOK, LeftAlone, NEW g \in Gens, ShutdownBegins(g) \/ ShutdownEnds(g)
  PROVE  LeftAlone'
<1>1. /\ shutdown[g] = "stop" /\ shutdown' = [shutdown EXCEPT ![g] = "done"]
      /\ single.pc = "stopOld"
      /\ UNCHANGED <<att, op, lim, over, current, health, faults, hc>>
  BY DEF ShutdownBegins, ShutdownEnds, row, LeftAlone, OneShutdown
<1>2. OneShutdown'
  BY <1>1 DEF TypeOK, LeftAlone, OneShutdown, single
<1>3. RunsCurrent'
  BY <1>1 DEF LeftAlone, OwnStart, RunsCurrent, single
<1>4. OnlySingle' /\ Undisturbed' /\ OwnStart'
  BY <1>1 DEF LeftAlone, OnlySingle, Undisturbed, OwnStart, single
<1> QED
  BY <1>2, <1>3, <1>4 DEF LeftAlone

\* set_health of a check moves a connected controller between healthy and broken.
LEMMA SetHealthConnected ==
  ASSUME TypeOK, current # 0, NEW h \in {"HEALTHY", "BROKEN"},
         SetHealth(hc.gen, h) \/ UNCHANGED health,
         hc.gen = current => health[current] \in {"HEALTHY", "BROKEN"}
  PROVE  /\ health[current] = "NOT_CONNECTED" => health'[current] = health[current]
         /\ health'[current] \in {"HEALTHY", "BROKEN"} <=>
              health[current] \in {"HEALTHY", "BROKEN"}
<1>1. current \in Gens /\ health \in [Gens -> Healths]
  BY DEF TypeOK, Gens
<1>2. CASE hc.gen = current
  BY <1>1, <1>2 DEF SetHealth
<1>3. CASE hc.gen # current
  BY <1>1, <1>3 DEF SetHealth
<1> QED
  BY <1>2, <1>3

LEMMA LeftAloneChecks ==
  ASSUME TypeOK, LeftAlone,
         CheckBegins \/ CheckHardResets \/ CheckReconnects \/ CheckStep \/ NodeCrashes
  PROVE  LeftAlone'
<1>1. UNCHANGED <<att, op, lim, over, current, shutdown>>
  BY DEF CheckBegins, CheckHardResets, CheckReconnects, CheckStep, CheckOk, CheckFails,
         CheckWrites, NodeCrashes, row, gvars, NotChecking, SetStatus
<1>2. OnlySingle' /\ Undisturbed' /\ OneShutdown'
  BY <1>1 DEF LeftAlone, OnlySingle, Undisturbed, OneShutdown, single
<1> SUFFICES OwnStart' /\ RunsCurrent'
  BY <1>2 DEF LeftAlone
<1> USE DEF TypeOK, Checks, Gens, LeftAlone, OwnStart, RunsCurrent, single
<1>3. CASE CheckBegins
  BY <1>1, <1>3 DEF CheckBegins, row, gvars
<1>4. CASE CheckHardResets \/ CheckReconnects
  BY <1>1, <1>4, ConstantsAssumption DEF CheckHardResets, CheckReconnects, row, gvars
<1>5. CASE CheckOk
  <2>1. hc.pc = "stats" /\ (SetHealth(hc.gen, "HEALTHY") \/ UNCHANGED health)
    BY <1>5 DEF CheckOk
  <2>2. hc'.pc # "stats" /\ UNCHANGED <<running, faults>>
    BY <1>5 DEF CheckOk, NoCheck
  <2> QED
    BY <1>1, <2>1, <2>2, SetHealthConnected
<1>6. CASE CheckFails
  <2>1. hc.pc = "stats" /\ SetHealth(hc.gen, "BROKEN")
    BY <1>6 DEF CheckFails
  <2>2. hc'.pc # "stats" /\ UNCHANGED running /\ (faults' = 0 => faults = 0)
    <3>1. hc'.pc = "broken" /\ UNCHANGED running
      BY <1>6 DEF CheckFails
    <3>2. faults' = 0 => faults = 0
      BY <1>6, ConstantsAssumption DEF CheckFails
    <3> QED
      BY <3>1, <3>2
  <2> QED
    BY <1>1, <2>1, <2>2, SetHealthConnected
<1>7. CASE CheckWrites
  BY <1>1, <1>7 DEF CheckWrites, NoCheck, gvars
<1>8. CASE NodeCrashes
  BY <1>1, <1>8 DEF NodeCrashes, gvars
<1> QED
  BY <1>3, <1>4, <1>5, <1>6, <1>7, <1>8 DEF CheckStep

LEMMA LeftAloneStep ==
  ASSUME Operations \subseteq {"restart"}
  PROVE  TypeOK /\ LeftAlone /\ [Next]_vars => LeftAlone'
<1> SUFFICES ASSUME TypeOK, LeftAlone, [Next]_vars
             PROVE  LeftAlone'
  OBVIOUS
<1>1. OnlySingle'
  BY OnlySingleStep DEF LeftAlone
<1>2. ASSUME NEW a \in DOMAIN att, ConnectStep(a) \/ StartFails(a)
      PROVE  LeftAlone'
  <2>1. a = "single"
    BY <1>2, AttemptUnderWay DEF LeftAlone, OnlySingle, TypeOK
  <2>2. UNCHANGED <<op, lim, over>>
    BY <1>2 DEF ConnectStep, UpdateNode, BeginStart, NodeStarts, Connect, WriteStatus,
                StartFails, SetStatus, NotConnecting, row
  <2> QED
    BY <1>1, <1>2, <2>1, <2>2, LeftAloneConnects DEF LeftAlone, Undisturbed
<1>3. ASSUME UNCHANGED <<gvars, running, op, lim, over, hc, faults>>,
             single' = single \/ (single.pc = "none" /\ single'.pc \in {"none", "update"})
      PROVE  LeftAlone'
  <2>1. OneShutdown' /\ OwnStart'
    BY <1>3 DEF gvars, LeftAlone, OneShutdown, OwnStart
  <2>2. RunsCurrent'
    BY <1>3 DEF gvars, LeftAlone, RunsCurrent
  <2> QED
    BY <1>1, <1>3, <2>1, <2>2 DEF LeftAlone, Undisturbed
<1>4. CASE ConnectSingle
  <2>1. single' = single \/ (single.pc = "none" /\ single'.pc \in {"none", "update"})
    BY <1>4 DEF ConnectSingle, ReadRow, Idle, TypeOK, single
  <2> QED
    BY <1>3, <1>4, <2>1 DEF ConnectSingle, row, NotConnecting
<1>5. CASE RestartNode \/ UNCHANGED vars
  BY <1>3, <1>5 DEF RestartNode, NotEditing, row, vars, single
<1>6. \A disable, raised \in BOOLEAN : ~Modify(disable, raised)
  BY DEF Modify
<1>7. /\ ~OperatorStep /\ ~Remove /\ ~ResetUsage /\ ~ConnectBulk
      /\ ~Traffic /\ ~LimitPicks /\ ~LimitStep
  BY DEF LeftAlone, Undisturbed, OperatorStep, ModifyDisconnects, ModifyUpdates,
         ModifyRefused, ModifyConnects, RemoveRow, Remove, ResetUsage, ConnectBulk,
         Traffic, LimitPicks, LimitStep, LimitDisconnects, LimitWrites
<1>8. CASE \E g \in Gens : ShutdownBegins(g) \/ ShutdownEnds(g)
  BY <1>8, LeftAloneShutdown
<1>9. CASE CheckBegins \/ CheckHardResets \/ CheckReconnects \/ CheckStep \/ NodeCrashes
  BY <1>9, LeftAloneChecks
<1> QED
  BY <1>2, <1>4, <1>5, <1>6, <1>7, <1>8, <1>9 DEF Next

\* On a node that is left alone, the controller whose connect succeeded is the one the
\* node runs until the first fault: neither the stop of a controller it replaced nor a
\* health check that was under way takes the node from it.
THEOREM HealthyIsRunning ==
  ASSUME Operations \subseteq {"restart"}
  PROVE  Spec => []HealthyRuns
<1>1. Init => LeftAlone
  BY ConstantsAssumption
     DEF Init, LeftAlone, OnlySingle, Undisturbed, OneShutdown, OwnStart, RunsCurrent,
         single, Idle, NoCheck, Gens
<1>2. LeftAlone => HealthyRuns
  BY DEF LeftAlone, RunsCurrent, HealthyRuns
<1>3. TypeOK /\ LeftAlone /\ [Next]_vars => LeftAlone'
  BY LeftAloneStep
<1> QED
  BY <1>1, <1>2, <1>3, TypeCorrect, PTL DEF Spec
=============================================================================
