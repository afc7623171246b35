---------------------------- MODULE RecordUsages ----------------------------
(***************************************************************************)
(* The job record_user_usages of app/jobs/record_usages.py.                *)
(*                                                                         *)
(* Every cycle asks each healthy node for its per-user counters with       *)
(* get_stats(reset=True), which zeroes them on the node; from that moment  *)
(* the only copy of the window is in the job's memory.  The job then       *)
(* applies the node's usage coefficient, looks the users up, and writes    *)
(* three tables one after the other, each in its own transaction: the      *)
(* users' used_traffic, the admins' used_traffic, and the per node and     *)
(* user chart (node_user_usages).  A write that is certain to have rolled  *)
(* back is parked in a process-global buffer and folded into the next      *)
(* cycle.                                                                  *)
(*                                                                         *)
(* The scheduler runs the job with max_instances=1, so there is one pc.    *)
(* The dictionaries keyed by id are functions in which 0 means no entry.   *)
(***************************************************************************)
EXTENDS Integers, FiniteSets, FiniteSetsExt

CONSTANTS
  Users, Admins, Nodes,
  NoAdmin,          \* the admin_id of a user that has none
  Owner,            \* [Users -> Admins \cup {NoAdmin}]: User.admin_id
  Coefficients,     \* numerators of the usage coefficients an operator may set
  CoeffUnit,        \* the numerator that stands for 1.0
  AdminLimit,       \* [Admins -> Nat]: Admin.data_limit, 0 for no limit
  BatchSize,        \* rows per chart statement; 0: all rows in one (PostgreSQL)
  RecordChart,      \* not usage_settings.disable_recording_node_usage
  MaxRetries,       \* max_retries of safe_execute
  Faults,           \* the faults that may happen, a subset of FaultKinds
  MaxTraffic,       \* bound: units of traffic in a behaviour
  MaxFaults         \* bound: faults in a behaviour

FaultKinds == {"deadlock", "ambiguous", "crash", "answer", "extra", "enforce"}

ASSUME ConstantsAssumption ==
  /\ IsFiniteSet(Users)
  /\ NoAdmin \notin Admins
  /\ Owner \in [Users -> Admins \cup {NoAdmin}]
  /\ Coefficients \subseteq Nat
  /\ CoeffUnit \in Nat \ {0}
  /\ CoeffUnit \in Coefficients
  /\ AdminLimit \in [Admins -> Nat]
  /\ BatchSize \in Nat
  /\ RecordChart \in BOOLEAN
  /\ MaxRetries \in Nat \ {0}
  /\ Faults \subseteq FaultKinds
  /\ MaxTraffic \in Nat
  /\ MaxFaults \in Nat

VARIABLES
  \* The nodes: traffic counted since the last reset, and the coefficient.
  counter, coeff,
  \* The database.
  exists, userUsed, adminUsed, adminStatus, chart,
  \* The process-global carry buffers.
  carriedUser, carriedAdmin, carriedParams, carriedCoeff,
  \* The locals of the running cycle.
  pc, todo, win, winCoeff, usersUsage, valid, adminUsage, attempt,
  batch, batchCoeff, rows,
  \* Bounds, and the history of what left the nodes' counters.
  traffic, faults, due, dueChart

nodeVars  == <<counter, coeff>>
userVars  == <<exists, userUsed>>
adminVars == <<adminUsed, adminStatus>>
carryVars == <<carriedUser, carriedAdmin, carriedParams, carriedCoeff>>
usageVars == <<win, winCoeff, usersUsage, valid, adminUsage>>
batchVars == <<batch, batchCoeff, rows>>
history   == <<due, dueChart>>
vars == <<nodeVars, userVars, adminVars, chart, carryVars, pc, todo, usageVars,
          attempt, batchVars, traffic, faults, history>>

-----------------------------------------------------------------------------
NoUsers  == [u \in Users |-> 0]
NoAdmins == [a \in Admins |-> 0]
NoRows   == [n \in Nodes |-> NoUsers]
Unit     == [n \in Nodes |-> CoeffUnit]

Usages == [Nodes -> [Users -> Nat]]

\* int(value * coeff), with the coefficient a fraction of CoeffUnit.
Scale(v, c) == (v * c) \div CoeffUnit

PCs == {"idle", "collect", "lookup", "user", "admin", "enforce", "rows", "retry",
        "chart"}

\* One type invariant: the buffers are per-id amounts, and an attempt is one
\* of range(max_retries) of safe_execute.
TypeOK ==
  /\ counter \in Usages
  /\ coeff \in [Nodes -> Coefficients]
  /\ exists \subseteq Users
  /\ userUsed \in [Users -> Nat]
  /\ adminUsed \in [Admins -> Nat]
  /\ adminStatus \in [Admins -> {"active", "limited"}]
  /\ chart \in Usages
  /\ carriedUser \in [Users -> Nat]
  /\ carriedAdmin \in [Admins -> Nat]
  /\ carriedParams \in Usages
  /\ carriedCoeff \in [Nodes -> Coefficients]
  /\ pc \in PCs
  /\ todo \subseteq Nodes \cup Users
  /\ win \in Usages
  /\ winCoeff \in [Nodes -> Coefficients]
  /\ usersUsage \in [Users -> Nat]
  /\ valid \subseteq Users
  /\ adminUsage \in [Admins -> Nat]
  /\ attempt \in 0 .. MaxRetries - 1
  /\ batch \in Usages
  /\ batchCoeff \in [Nodes -> Coefficients]
  /\ rows \subseteq Nodes \X Users
  /\ traffic \in 0 .. MaxTraffic
  /\ faults \in 0 .. MaxFaults
  /\ due \in [Users -> Nat]
  /\ dueChart \in Usages

Init ==
  /\ counter = NoRows
  /\ coeff = Unit
  /\ exists = Users
  /\ userUsed = NoUsers
  /\ adminUsed = NoAdmins
  /\ adminStatus = [a \in Admins |-> "active"]
  /\ chart = NoRows
  /\ carriedUser = NoUsers
  /\ carriedAdmin = NoAdmins
  /\ carriedParams = NoRows
  /\ carriedCoeff = Unit
  /\ pc = "idle"
  /\ todo = {}
  /\ win = NoRows
  /\ winCoeff = Unit
  /\ usersUsage = NoUsers
  /\ valid = {}
  /\ adminUsage = NoAdmins
  /\ attempt = 0
  /\ batch = NoRows
  /\ batchCoeff = Unit
  /\ rows = {}
  /\ traffic = 0
  /\ faults = 0
  /\ due = NoUsers
  /\ dueChart = NoRows

-----------------------------------------------------------------------------
(* The environment: clients use the nodes, operators edit users and nodes. *)

Traffic(n, u) ==
  /\ traffic < MaxTraffic
  /\ traffic' = traffic + 1
  /\ counter' = [counter EXCEPT ![n][u] = @ + 1]
  /\ UNCHANGED <<coeff, userVars, adminVars, chart, carryVars, pc, todo,
                 usageVars, attempt, batchVars, faults, history>>

SetCoefficient(n, c) ==
  /\ coeff[n] # c
  /\ coeff' = [coeff EXCEPT ![n] = c]
  /\ UNCHANGED <<counter, userVars, adminVars, chart, carryVars, pc, todo,
                 usageVars, attempt, batchVars, traffic, faults, history>>

\* The row goes, and its node_user_usages rows with it (ON DELETE CASCADE).
DeleteUser(u) ==
  /\ u \in exists
  /\ exists' = exists \ {u}
  /\ chart' = [n \in Nodes |-> [chart[n] EXCEPT ![u] = 0]]
  /\ UNCHANGED <<nodeVars, userUsed, adminVars, carryVars, pc, todo,
                 usageVars, attempt, batchVars, traffic, faults, history>>

-----------------------------------------------------------------------------
(* One cycle.                                                              *)

\* A fault of kind k happens in this step.
Fault(k) ==
  /\ k \in Faults
  /\ faults < MaxFaults
  /\ faults' = faults + 1

\* The locals of a cycle are gone when it returns or raises.
EndCycle ==
  /\ pc' = "idle"
  /\ todo' = {}
  /\ win' = NoRows /\ winCoeff' = Unit
  /\ usersUsage' = NoUsers /\ adminUsage' = NoAdmins /\ valid' = {}
  /\ attempt' = 0
  /\ batch' = NoRows /\ batchCoeff' = Unit /\ rows' = {}

\* node_manager.get_healthy_nodes() and get_extra(): the coefficients are
\* read once, before any counter is.  With no healthy node the cycle returns.
\* A get_extra() that raises leaves the coefficient at 1.0.
StartCycle(healthy) ==
  /\ pc = "idle"
  /\ healthy # {}
  /\ pc' = "collect"
  /\ todo' = healthy
  /\ \/ winCoeff' = coeff /\ UNCHANGED faults
     \/ \E n \in healthy :
          /\ Fault("extra")
          /\ winCoeff' = [coeff EXCEPT ![n] = CoeffUnit]
  /\ UNCHANGED <<nodeVars, userVars, adminVars, chart, carryVars, win,
                 usersUsage, valid, adminUsage, attempt, batchVars, traffic,
                 history>>

\* get_stats(reset=True) on node n zeroes its counters.
ResetCounters(n) ==
  /\ counter' = [counter EXCEPT ![n] = NoUsers]
  /\ due' = [u \in Users |-> due[u] + Scale(counter[n][u], winCoeff[n])]
  /\ dueChart' = [dueChart EXCEPT ![n] =
       [u \in Users |-> @[u] + Scale(counter[n][u], winCoeff[n])]]

\* calculate_users_usage: each node's values are scaled, then summed.
AddUsage(n) ==
  [u \in Users |-> usersUsage[u] + Scale(counter[n][u], winCoeff[n])]

CollectNode(n) ==
  /\ pc = "collect" /\ n \in todo
  /\ todo' = todo \ {n}
  /\ ResetCounters(n)
  /\ win' = [win EXCEPT ![n] = counter[n]]
  /\ usersUsage' = AddUsage(n)
  /\ UNCHANGED <<coeff, userVars, adminVars, chart, carryVars, pc, winCoeff,
                 valid, adminUsage, attempt, batchVars, traffic, faults>>

\* get_users_stats answers [] when the call fails: before the node saw it, or
\* after the node had reset its counters.
NodeFails(n) ==
  /\ pc = "collect" /\ n \in todo
  /\ Fault("answer")
  /\ todo' = todo \ {n}
  /\ ResetCounters(n) \/ UNCHANGED <<counter, history>>
  /\ UNCHANGED <<coeff, userVars, adminVars, chart, carryVars, pc, usageVars,
                 attempt, batchVars, traffic>>

\* The uids in users_usage: those with a counter above zero on some node.
Reported == {u \in Users : \E n \in Nodes : win[n][u] > 0}

Carrying ==
  \/ carriedUser # NoUsers
  \/ carriedAdmin # NoAdmins
  \/ carriedParams # NoRows

\* Mutant: a cycle without fresh usage returns although a window is parked.
CollectedForgetsCarried ==
  /\ pc = "collect" /\ todo = {}
  /\ UNCHANGED <<nodeVars, userVars, adminVars, chart, carryVars, traffic,
                 faults, history>>
  /\ \/ Reported = {} /\ EndCycle
     \/ /\ Reported # {}
        /\ pc' = "lookup"
        /\ todo' = Reported
        /\ UNCHANGED <<usageVars, attempt, batchVars>>

\* All nodes have answered: nothing at all to record, or on to the lookup.
Collected ==
  /\ pc = "collect" /\ todo = {}
  /\ UNCHANGED <<nodeVars, userVars, adminVars, chart, carryVars, traffic,
                 faults, history>>
  /\ \/ Reported = {} /\ ~Carrying /\ EndCycle
     \/ /\ Reported # {} \/ Carrying
        /\ pc' = "lookup"
        /\ todo' = Reported
        /\ UNCHANGED <<usageVars, attempt, batchVars>>

\* calculate_admin_usage: select(User.id, User.admin_id), a batch of uids at a
\* time; a user deleted meanwhile is not in the answer.
LookupUser(u) ==
  /\ pc = "lookup" /\ u \in todo
  /\ todo' = todo \ {u}
  /\ IF u \in exists
     THEN /\ valid' = valid \cup {u}
          /\ adminUsage' = IF Owner[u] = NoAdmin THEN adminUsage
                           ELSE [adminUsage EXCEPT ![Owner[u]] = @ + usersUsage[u]]
     ELSE UNCHANGED <<valid, adminUsage>>
  /\ UNCHANGED <<nodeVars, userVars, adminVars, chart, carryVars, pc, win,
                 winCoeff, usersUsage, attempt, batchVars, traffic, faults,
                 history>>

\* Mutant: a carried amount replaces the fresh one instead of adding to it.
MergeUsageReplaces ==
  [u \in Users |-> IF carriedUser[u] > 0 THEN carriedUser[u]
                   ELSE IF u \in valid THEN usersUsage[u] ELSE 0]

\* valid_users_usage, merged with what an earlier cycle could not write.
MergeUsage ==
  [u \in Users |-> carriedUser[u] + IF u \in valid THEN usersUsage[u] ELSE 0]

\* admin_usage, to which the carried admin totals are added.
MergeAdminUsage == [a \in Admins |-> adminUsage[a] + carriedAdmin[a]]

\* The lookup is done: nothing to write, or the carried amounts are folded in.
\* The user buffer is emptied here, before the write it feeds is attempted.
Fold ==
  /\ pc = "lookup" /\ todo = {}
  /\ UNCHANGED <<nodeVars, userVars, adminVars, chart, carriedAdmin,
                 carriedParams, carriedCoeff, traffic, faults, history>>
  /\ \/ valid = {} /\ ~Carrying /\ EndCycle /\ UNCHANGED carriedUser
     \/ /\ valid # {} \/ Carrying
        /\ pc' = "user"
        /\ usersUsage' = MergeUsage
        /\ adminUsage' = MergeAdminUsage
        /\ carriedUser' = NoUsers
        /\ UNCHANGED <<todo, win, winCoeff, valid, attempt, batchVars>>

\* update(User) ... used_traffic + value, one transaction for all users; a
\* user deleted meanwhile matches no row.
AddToUsers ==
  [u \in Users |-> userUsed[u] + IF u \in exists THEN usersUsage[u] ELSE 0]

\* Mutant: the admin buffer is not emptied before the write it feeds.
CommitUsersKeepsCarried ==
  /\ pc = "user"
  /\ userUsed' = AddToUsers
  /\ pc' = "admin"
  /\ usersUsage' = NoUsers
  /\ attempt' = 0
  /\ UNCHANGED <<nodeVars, exists, adminVars, chart, carryVars, todo, win,
                 winCoeff, valid, adminUsage, batchVars, traffic, faults,
                 history>>

\* The user write returned, or there was none to do.  The admin buffer is
\* emptied on the way to the admin write.
CommitUsers ==
  /\ pc = "user"
  /\ userUsed' = AddToUsers
  /\ pc' = "admin"
  /\ usersUsage' = NoUsers
  /\ carriedAdmin' = NoAdmins
  /\ attempt' = 0
  /\ UNCHANGED <<nodeVars, exists, adminVars, chart, carriedUser,
                 carriedParams, carriedCoeff, todo, win, winCoeff, valid,
                 adminUsage, batchVars, traffic, faults, history>>

\* The dictionary admin_usage has an entry.
HasAdminUsage ==
  \/ adminUsage # NoAdmins
  \/ \E u \in valid : Owner[u] # NoAdmin

AddToAdmins == [a \in Admins |-> adminUsed[a] + adminUsage[a]]

\* The admin write returned, or there was none to do.
CommitAdmins ==
  /\ pc = "admin"
  /\ adminUsed' = AddToAdmins
  /\ pc' = IF HasAdminUsage THEN "enforce" ELSE "rows"
  /\ adminUsage' = NoAdmins
  /\ attempt' = 0
  /\ UNCHANGED <<nodeVars, userVars, adminStatus, chart, carryVars, todo, win,
                 winCoeff, usersUsage, valid, batchVars, traffic, faults,
                 history>>

\* Mutant: an admin is limited only once it is past its limit.
PastLimit ==
  {a \in Admins : /\ adminStatus[a] = "active"
                  /\ AdminLimit[a] > 0
                  /\ adminUsed[a] > AdminLimit[a]}

\* get_active_to_limited_admins
OverLimit ==
  {a \in Admins : /\ adminStatus[a] = "active"
                  /\ AdminLimit[a] > 0
                  /\ adminUsed[a] >= AdminLimit[a]}

\* enforce_admin_limits_now commits admin by admin; an exception in the middle
\* is logged and swallowed.
Enforce ==
  /\ pc = "enforce"
  /\ pc' = "rows"
  /\ \E flipped \in SUBSET OverLimit :
       /\ adminStatus' = [a \in Admins |->
            IF a \in flipped THEN "limited" ELSE adminStatus[a]]
       /\ IF flipped = OverLimit THEN UNCHANGED faults ELSE Fault("enforce")
  /\ UNCHANGED <<nodeVars, userVars, adminUsed, chart, carryVars, todo,
                 usageVars, attempt, batchVars, traffic, history>>

\* filtered_node_params: the window's rows of users that were looked up.
FilteredParams ==
  [n \in Nodes |-> [u \in Users |-> IF u \in valid THEN win[n][u] ELSE 0]]

RowsOf(params) == {r \in Nodes \X Users : params[r[1]][r[2]] > 0}

\* Start the write of a batch of chart rows with the given coefficients.
WriteRows(step, params, coefficients) ==
  /\ pc' = step
  /\ batch' = params
  /\ batchCoeff' = coefficients
  /\ rows' = RowsOf(params)

\* Mutant: the parked batch is re-scaled by this cycle's coefficients.
RetryRowsRescaled ==
  /\ pc = "rows" /\ RecordChart
  /\ carriedParams # NoRows
  /\ WriteRows("retry", carriedParams, winCoeff)
  /\ carriedParams' = NoRows
  /\ carriedCoeff' = Unit
  /\ UNCHANGED <<nodeVars, userVars, adminVars, chart, carriedUser,
                 carriedAdmin, todo, usageVars, attempt, traffic, faults,
                 history>>

\* After the totals come the chart rows: first the batch an earlier cycle
\* parked, on its own and with its own coefficients, then this cycle's.
RetryRows ==
  /\ pc = "rows" /\ RecordChart
  /\ carriedParams # NoRows
  /\ WriteRows("retry", carriedParams, carriedCoeff)
  /\ carriedParams' = NoRows
  /\ carriedCoeff' = Unit
  /\ UNCHANGED <<nodeVars, userVars, adminVars, chart, carriedUser,
                 carriedAdmin, todo, usageVars, attempt, traffic, faults,
                 history>>

FreshRows ==
  /\ pc = "rows" /\ RecordChart
  /\ carriedParams = NoRows
  /\ RowsOf(FilteredParams) # {}
  /\ WriteRows("chart", FilteredParams, winCoeff)
  /\ win' = NoRows
  /\ UNCHANGED <<nodeVars, userVars, adminVars, chart, carryVars, todo,
                 winCoeff, usersUsage, valid, adminUsage, attempt, traffic,
                 faults, history>>

NoMoreRows ==
  /\ pc = "rows"
  /\ ~RecordChart \/ (carriedParams = NoRows /\ RowsOf(FilteredParams) = {})
  /\ EndCycle
  /\ UNCHANGED <<nodeVars, userVars, adminVars, chart, carryVars, traffic,
                 faults, history>>

\* record_user_stats_batched: the rows one statement writes.  Where the
\* dialect has no batch size, all of them.
NextBatches ==
  IF BatchSize = 0 THEN {rows}
  ELSE {b \in SUBSET rows :
          Cardinality(b) = IF Cardinality(rows) < BatchSize
                           THEN Cardinality(rows) ELSE BatchSize}

\* The upsert joins the users table: rows of a deleted user are left out.
AddToChart(b) ==
  [n \in Nodes |-> [u \in Users |->
     chart[n][u] + IF <<n, u>> \in b /\ u \in exists
                   THEN Scale(batch[n][u], batchCoeff[n]) ELSE 0]]

\* Each statement is a transaction of its own.
CommitRows(b) ==
  /\ pc \in {"retry", "chart"}
  /\ b \in NextBatches
  /\ chart' = AddToChart(b)
  /\ UNCHANGED <<nodeVars, userVars, adminVars, carryVars, traffic, faults,
                 history>>
  /\ \/ /\ b # rows
        /\ rows' = rows \ b
        /\ attempt' = 0
        /\ UNCHANGED <<pc, todo, usageVars, batch, batchCoeff>>
     \/ /\ b = rows /\ pc = "retry"
        /\ pc' = "rows"
        /\ rows' = {} /\ batch' = NoRows /\ batchCoeff' = Unit
        /\ attempt' = 0
        /\ UNCHANGED <<todo, usageVars>>
     \/ b = rows /\ pc = "chart" /\ EndCycle

-----------------------------------------------------------------------------
(* What can go wrong.                                                      *)

\* A statement is inside safe_execute.
InWrite ==
  \/ pc = "user" /\ usersUsage # NoUsers
  \/ pc = "admin" /\ HasAdminUsage
  \/ pc \in {"retry", "chart"}

\* Mutant: one attempt more than range(max_retries) has.
CanRetryOnceMore == attempt < MaxRetries

CanRetry == attempt < MaxRetries - 1

\* A deadlock, lock wait timeout or locked database: the transaction rolled
\* back, and safe_execute tries again in a new one.
Deadlock ==
  /\ InWrite /\ CanRetry
  /\ Fault("deadlock")
  /\ attempt' = attempt + 1
  /\ UNCHANGED <<nodeVars, userVars, adminVars, chart, carryVars, pc, todo,
                 usageVars, batchVars, traffic, history>>

\* Mutant: the admins' totals are parked when the user write fails, although
\* the user window they belong to may still be dropped.
ParkAdminsToo ==
  /\ carriedUser' = IF pc = "user" THEN usersUsage ELSE carriedUser
  /\ carriedAdmin' = IF pc \in {"user", "admin"} THEN adminUsage ELSE carriedAdmin
  /\ IF pc \in {"retry", "chart"}
     THEN carriedParams' = batch /\ carriedCoeff' = batchCoeff
     ELSE UNCHANGED <<carriedParams, carriedCoeff>>

\* _write_rolled_back: what the failed write would have added is parked.
Park ==
  /\ carriedUser' = IF pc = "user" THEN usersUsage ELSE carriedUser
  /\ carriedAdmin' = IF pc = "admin" THEN adminUsage ELSE carriedAdmin
  /\ IF pc \in {"retry", "chart"}
     THEN carriedParams' = batch /\ carriedCoeff' = batchCoeff
     ELSE UNCHANGED <<carriedParams, carriedCoeff>>

\* The last attempt deadlocked too: the exception ends the cycle.
RollBack ==
  /\ InWrite /\ ~CanRetry
  /\ Fault("deadlock")
  /\ Park
  /\ EndCycle
  /\ UNCHANGED <<nodeVars, userVars, adminVars, chart, traffic, history>>

\* The statement in flight took effect on the server, or did not.
MaybeLanded ==
  \/ UNCHANGED <<userUsed, adminUsed, chart>>
  \/ pc = "user" /\ userUsed' = AddToUsers /\ UNCHANGED <<adminUsed, chart>>
  \/ pc = "admin" /\ adminUsed' = AddToAdmins /\ UNCHANGED <<userUsed, chart>>
  \/ /\ pc \in {"retry", "chart"}
     /\ \E b \in NextBatches : chart' = AddToChart(b)
     /\ UNCHANGED <<userUsed, adminUsed>>

\* Mutant: the window is parked whatever the error was.
AmbiguousParks ==
  /\ pc # "idle"
  /\ Fault("ambiguous")
  /\ MaybeLanded
  /\ Park
  /\ EndCycle
  /\ UNCHANGED <<nodeVars, exists, adminStatus, traffic, history>>

\* A connection lost around COMMIT, an unknown error, or the 120 s timeout of
\* record_user_usages cancelling the cycle at any await: nothing is parked.
Ambiguous ==
  /\ pc # "idle"
  /\ Fault("ambiguous")
  /\ MaybeLanded
  /\ EndCycle
  /\ UNCHANGED <<nodeVars, exists, adminStatus, carryVars, traffic, history>>

\* The process dies and restarts: the buffers go too.
Crash ==
  /\ Fault("crash")
  /\ MaybeLanded
  /\ EndCycle
  /\ carriedUser' = NoUsers
  /\ carriedAdmin' = NoAdmins
  /\ carriedParams' = NoRows
  /\ carriedCoeff' = Unit
  /\ UNCHANGED <<nodeVars, exists, adminStatus, traffic, history>>

-----------------------------------------------------------------------------
Environment ==
  \/ \E n \in Nodes, u \in Users : Traffic(n, u)
  \/ \E n \in Nodes, c \in Coefficients : SetCoefficient(n, c)
  \/ \E u \in Users : DeleteUser(u)

Cycle ==
  \/ \E n \in Nodes : CollectNode(n)
  \/ Collected
  \/ \E u \in Users : LookupUser(u)
  \/ Fold
  \/ CommitUsers
  \/ CommitAdmins
  \/ Enforce
  \/ RetryRows
  \/ FreshRows
  \/ NoMoreRows
  \/ \E b \in SUBSET rows : CommitRows(b)

Failure ==
  \/ \E n \in Nodes : NodeFails(n)
  \/ Deadlock
  \/ RollBack
  \/ Ambiguous
  \/ Crash

Next ==
  \/ Environment
  \/ \E healthy \in SUBSET Nodes : StartCycle(healthy)
  \/ Cycle
  \/ Failure

Spec == Init /\ [][Next]_vars

\* The scheduler starts the job again and again, every so often with all nodes
\* healthy, and a running cycle goes on unless a fault ends it.
FairSpec ==
  /\ Spec
  /\ SF_vars(StartCycle(Nodes))
  /\ WF_vars(Cycle)

-----------------------------------------------------------------------------
(* The ledgers of the users and of the admins.                             *)

OwnedBy(a) == {u \in Users : Owner[u] = a}

OwnedSum(usage, a, among) == MapThenSumSet(LAMBDA u : usage[u], OwnedBy(a) \cap among)

\* On its way to a user: in the running cycle, or parked.
UserPending == [u \in Users |-> usersUsage[u] + carriedUser[u]]

\* On its way to an admin: parked, or in the running cycle, there by user until the
\* user is looked up.  From Fold to CommitUsers the parked amount is in adminUsage too.
AdminPending ==
  [a \in Admins |->
     CASE pc = "collect" -> carriedAdmin[a] + OwnedSum(usersUsage, a, Users)
       [] pc = "lookup"  -> carriedAdmin[a] + adminUsage[a] + OwnedSum(usersUsage, a, todo)
       [] pc = "user"    -> adminUsage[a]
       [] OTHER          -> carriedAdmin[a] + adminUsage[a]]

UserLedgerOf == INSTANCE UsageLedger WITH
  Accounts <- Users, taken <- due, pending <- UserPending, billed <- userUsed

AdminLedgerOf == INSTANCE UsageLedger WITH
  Accounts <- Admins, taken <- [a \in Admins |-> OwnedSum(due, a, Users)],
  pending <- AdminPending, billed <- adminUsed

-----------------------------------------------------------------------------
(* Properties.                                                             *)

\* Each window that is taken off the nodes reaches the users' rows as a whole and
\* once, or not at all, under every fault and over any number of cycles: for the
\* users the job implements a ledger on which traffic is billed once or lost.
UsersBilledOnceOrLost == UserLedgerOf!LedgerSpec

\* And so it does for the admins, whose totals pass through a write and a buffer of
\* their own.
AdminsBilledOnceOrLost == AdminLedgerOf!LedgerSpec

\* The user table is written before the admin table and the cycle stops at
\* the first failure, so while no user is deleted an admin's total is never
\* ahead of the sum over its users.
AdminNeverAheadOfUsers ==
  exists = Users =>
    \A a \in Admins :
      adminUsed[a] <= OwnedSum(userUsed, a, Users)

\* The chart shows no more traffic than was collected, each window at the
\* coefficients in force when it was collected, also when it is written by a
\* later cycle: retrying "shifts where the traffic appears on the chart but
\* never how much of it there is".
ChartNeverOvercounts ==
  \A n \in Nodes, u \in Users :
    chart[n][u] + Scale(carriedParams[n][u], carriedCoeff[n]) <= dueChart[n][u]

\* When deadlocks are all that goes wrong, every unit taken off a node is on
\* its way to its user: written, parked, or in the running cycle.
LossBecomesDelay ==
  \A u \in exists : userUsed[u] + carriedUser[u] + usersUsage[u] = due[u]

\* An admin at its data_limit is active only until the enforcement that
\* follows the write that took it there.
AdminLimitEnforced ==
  \A a \in Admins :
    AdminLimit[a] > 0 /\ adminUsed[a] >= AdminLimit[a] /\ pc # "enforce"
      => adminStatus[a] = "limited"

\* When deadlocks are all that goes wrong and come to an end, what was taken
\* off the nodes is eventually on the users' rows, parked windows included,
\* even when no user ever uses a node again.
UsageEventuallyBilled ==
  \A u \in Users : []<>(u \in exists => userUsed[u] = due[u])

=============================================================================
