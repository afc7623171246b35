----------------------------- MODULE NodeBridge -----------------------------
(***************************************************************************)
(* One Controller of the node bridge (PasarGuardNodeBridge/controller.py   *)
(* with its gRPC and REST subclasses) and the node it talks to.            *)
(*                                                                         *)
(* User updates reach the node over three paths.  update_user queues the   *)
(* user in _pending_users and makes sure a lazy sync worker runs, which    *)
(* drains the queue, sends the batch and requeues what failed.  Bulk       *)
(* changes bypass the queue: NodeManager._sync_user_batch_to_node sends    *)
(* them directly.  A full sync (sync_users) replaces all users of the node *)
(* with a snapshot of the database, as start does.                         *)
(*                                                                         *)
(* Everything runs on one event loop, and a lock that is free is taken     *)
(* without suspending, so a step lasts from one suspension to the next.    *)
(* A user's configuration is its version: the n-th change dispatched to    *)
(* this controller.  0 is the user as the node had it before, and in the   *)
(* queue and in batches it means that the user is not there.               *)
(***************************************************************************)
EXTENDS Integers, FiniteSets

CONSTANTS
  Users,
  HardResetThreshold,   \* _hard_reset_threshold
  ChunkedFrom,          \* batches of at least this size are sent chunked
  Callers,              \* the direct paths in use, a subset of {"bulk", "full"}
  MaxVersion,           \* bound: changes per user
  MaxFailures           \* bound: where _user_sync_failure_count stops counting

ASSUME ConstantsAssumption ==
  /\ HardResetThreshold \in Nat \ {0}
  /\ ChunkedFrom \in Nat \ {0}
  /\ Callers \subseteq {"bulk", "full"}
  /\ MaxVersion \in Nat
  /\ MaxFailures \in Nat /\ MaxFailures >= HardResetThreshold

VARIABLES
  node,       \* the users as the node has them
  latest,     \* history: the last change dispatched to this controller
  \* The queue and its event.
  pending, work,
  \* The sync worker: where it is, the batch it drained and how far it got,
  \* and whether a caller waits for _sync_worker_lock to start a new one.
  worker, drained, unsent, failed, waiter,
  failures, hardReset, health, shutdown,
  \* The coroutines of start, stop, sync_users, a bulk update, and a health
  \* check; lock is the owner of _node_lock.
  lock, startPc, startUsers, stopPc, fullPc, fullUsers, bulkPc, bulk, checked

queueVars  == <<pending, work>>
workerVars == <<worker, drained, unsent, failed, waiter>>
resetVars  == <<failures, hardReset>>
startVars  == <<startPc, startUsers>>
fullVars   == <<fullPc, fullUsers>>
bulkVars   == <<bulkPc, bulk>>
vars == <<node, latest, queueVars, workerVars, resetVars, health, shutdown,
          lock, startVars, stopPc, fullVars, bulkVars, checked>>

-----------------------------------------------------------------------------
Versions == 0 .. MaxVersion
NoOne    == [u \in Users |-> 0]
Healths  == {"NOT_CONNECTED", "BROKEN", "HEALTHY", "INVALID"}

In(batch) == {u \in Users : batch[u] # 0}

\* batch on top of f, as far as it covers the users S.
Apply(f, batch, S) == [u \in Users |-> IF u \in S THEN batch[u] ELSE f[u]]

TypeOK ==
  /\ node \in [Users -> Versions]
  /\ latest \in [Users -> Versions]
  /\ pending \in [Users -> Versions]
  /\ work \in BOOLEAN
  /\ worker \in {"none", "ready", "waiting", "expiring", "sending", "chunked",
                 "backoff", "cancelled"}
  /\ drained \in [Users -> Versions]
  /\ unsent \subseteq Users
  /\ failed \subseteq Users
  /\ waiter \in BOOLEAN
  /\ failures \in 0 .. MaxFailures
  /\ hardReset \in BOOLEAN
  /\ health \in Healths
  /\ shutdown \in BOOLEAN
  /\ lock \in {"free", "start", "stop", "full", "bulk", "worker"}
  /\ startPc \in {"none", "lock", "rpc", "answer", "cleanup", "done"}
  /\ startUsers \in [Users -> Versions]
  /\ stopPc \in {"none", "lock", "cleanup", "rpc", "done"}
  /\ fullPc \in {"none", "lock", "rpc"}
  /\ fullUsers \in [Users -> Versions]
  /\ bulkPc \in {"none", "chunk", "rpc", "stream"}
  /\ bulk \in [Users -> Versions]
  /\ checked \in Healths \cup {"none"}

Init ==
  /\ node = NoOne
  /\ latest = NoOne
  /\ pending = NoOne
  /\ work = FALSE
  /\ worker = "none"
  /\ drained = NoOne
  /\ unsent = {}
  /\ failed = {}
  /\ waiter = FALSE
  /\ failures = 0
  /\ hardReset = FALSE
  /\ health = "NOT_CONNECTED"
  /\ shutdown = FALSE
  /\ lock = "free"
  /\ startPc = "none"
  /\ startUsers = NoOne
  /\ stopPc = "none"
  /\ fullPc = "none"
  /\ fullUsers = NoOne
  /\ bulkPc = "none"
  /\ bulk = NoOne
  /\ checked = "none"

-----------------------------------------------------------------------------
(* The queue.                                                              *)

\* _ensure_sync_worker_running: a caller that finds _sync_worker_lock held by
\* a cleanup waits for it and starts a worker afterwards.
EnsureSyncWorkerRunning ==
  /\ worker' = IF worker = "none" THEN "ready" ELSE worker
  /\ waiter' = (waiter \/ worker = "cancelled")
  /\ UNCHANGED <<drained, unsent, failed>>

\* Mutants of update_user: a change does not replace the one that is queued;
\* the event is set only when a worker has to be started.
UpdateUsersKeepsFirst(S) ==
  /\ \A u \in S : latest[u] < MaxVersion
  /\ latest' = [u \in Users |-> IF u \in S THEN latest[u] + 1 ELSE latest[u]]
  /\ pending' = Apply(pending, latest', S \ In(pending))
  /\ work' = TRUE
  /\ EnsureSyncWorkerRunning
  /\ UNCHANGED <<node, resetVars, health, shutdown, lock, startVars, stopPc,
                 fullVars, bulkVars, checked>>
UpdateUsersQuietly(S) ==
  /\ \A u \in S : latest[u] < MaxVersion
  /\ latest' = [u \in Users |-> IF u \in S THEN latest[u] + 1 ELSE latest[u]]
  /\ pending' = Apply(pending, latest', S)
  /\ work' = (work \/ worker = "none")
  /\ EnsureSyncWorkerRunning
  /\ UNCHANGED <<node, resetVars, health, shutdown, lock, startVars, stopPc,
                 fullVars, bulkVars, checked>>

\* update_user and update_users: the users S change and are queued.
UpdateUsers(S) ==
  /\ \A u \in S : latest[u] < MaxVersion
  /\ latest' = [u \in Users |-> IF u \in S THEN latest[u] + 1 ELSE latest[u]]
  /\ pending' = Apply(pending, latest', S)
  /\ work' = TRUE
  /\ EnsureSyncWorkerRunning
  /\ UNCHANGED <<node, resetVars, health, shutdown, lock, startVars, stopPc,
                 fullVars, bulkVars, checked>>

\* Mutants of _requeue_failed_users: the failed batch replaces what was queued
\* meanwhile, or what was queued is not looked at and the batch is dropped.
RequeueOverwrites(S) ==
  /\ pending' = Apply(pending, drained, S)
  /\ work' = (work \/ In(pending') # {})
RequeueDrops(S) == UNCHANGED <<pending, work>>

\* _requeue_failed_users, for the users S of the drained batch.
Requeue(S) ==
  /\ pending' = Apply(pending, drained, S \ In(pending))
  /\ work' = (work \/ In(pending') # {})

\* Mutant: the counter never asks for the hard reset.
CountOnly ==
  /\ failures' = IF failures < MaxFailures THEN failures + 1 ELSE failures
  /\ UNCHANGED hardReset

\* _increment_user_sync_failure; the model's counter stops at MaxFailures.
IncrementFailure ==
  /\ failures' = IF failures < MaxFailures THEN failures + 1 ELSE failures
  /\ hardReset' = (hardReset \/ failures' >= HardResetThreshold)

\* Mutant: a success takes back one failure instead of all.
OneFailureLess ==
  /\ failures' = failures - 1
  /\ hardReset' = FALSE

\* _reset_user_sync_failure_count
ResetFailures ==
  /\ failures' = 0
  /\ hardReset' = FALSE

-----------------------------------------------------------------------------
(* The sync worker.                                                        *)

NoBatch ==
  /\ drained' = NoOne
  /\ unsent' = {}
  /\ failed' = {}

Rest == <<latest, shutdown, startVars, stopPc, fullVars, bulkVars, checked>>

\* The top of the loop, reached by a new worker, after a batch and after a
\* backoff: without work the worker goes to sleep on the event.
GoToSleep ==
  /\ worker = "ready"
  /\ ~shutdown
  /\ ~work
  /\ worker' = "waiting"
  /\ UNCHANGED <<drained, unsent, failed, waiter, node, queueVars, resetVars,
                 health, lock, Rest>>

\* The worker is at the point where it looks at the health of the node.
Awake == \/ worker = "ready" /\ ~shutdown /\ work
         \/ worker = "waiting" /\ work

WorkerExits ==
  /\ \/ worker = "ready" /\ shutdown
     \/ Awake /\ health \in {"NOT_CONNECTED", "INVALID"}
     \/ worker = "expiring"
  /\ worker' = "none"
  /\ UNCHANGED <<drained, unsent, failed, waiter, node, queueVars, resetVars,
                 health, lock, Rest>>

\* The idle timer fires.  When the event was set just before, or is set before
\* the worker runs again, wait_for raises TimeoutError all the same.
IdleTimeout ==
  /\ worker = "waiting"
  /\ worker' = "expiring"
  /\ UNCHANGED <<drained, unsent, failed, waiter, node, queueVars, resetVars,
                 health, lock, Rest>>

WaitWhileBroken ==
  /\ Awake
  /\ health = "BROKEN"
  /\ worker' = "backoff"
  /\ UNCHANGED <<drained, unsent, failed, waiter, node, queueVars, resetVars,
                 health, lock, Rest>>

\* Mutant: the worker does not look at the health of the node.
DrainAnyHealth ==
  /\ Awake
  /\ In(pending) # {}
  /\ drained' = pending
  /\ unsent' = In(pending)
  /\ failed' = {}
  /\ pending' = NoOne
  /\ work' = FALSE
  /\ worker' = IF Cardinality(In(pending)) >= ChunkedFrom THEN "chunked"
                                                          ELSE "sending"
  /\ UNCHANGED <<waiter, node, resetVars, health, lock, Rest>>

\* _drain_pending_users and the choice between the two ways to send a batch.
Drain ==
  /\ Awake
  /\ health = "HEALTHY"
  /\ In(pending) # {}
  /\ drained' = pending
  /\ unsent' = In(pending)
  /\ failed' = {}
  /\ pending' = NoOne
  /\ work' = FALSE
  /\ worker' = IF Cardinality(In(pending)) >= ChunkedFrom THEN "chunked"
                                                          ELSE "sending"
  /\ UNCHANGED <<waiter, node, resetVars, health, lock, Rest>>

\* _sync_batch_users: one message per user, while other coroutines run.
SendUser(u) ==
  /\ worker = "sending"
  /\ u \in unsent
  /\ node' = [node EXCEPT ![u] = drained[u]]
  /\ unsent' = unsent \ {u}
  /\ UNCHANGED <<worker, drained, failed, waiter, queueVars, resetVars, health,
                 lock, Rest>>

\* A message that fails; the node may have seen it.
SendUserFails(u) ==
  /\ worker = "sending"
  /\ u \in unsent
  /\ node' \in {node, [node EXCEPT ![u] = drained[u]]}
  /\ unsent' = unsent \ {u}
  /\ failed' = failed \cup {u}
  /\ UNCHANGED <<worker, drained, waiter, queueVars, resetVars, health, lock,
                 Rest>>

BatchSent ==
  /\ worker = "sending" /\ unsent = {} /\ failed = {}
  /\ ResetFailures
  /\ worker' = "ready"
  /\ NoBatch
  /\ UNCHANGED <<waiter, node, queueVars, health, lock, Rest>>

\* Some messages failed: they are queued again and the worker backs off.
BatchPartlyFailed ==
  /\ worker = "sending" /\ unsent = {} /\ failed # {}
  /\ Requeue(failed)
  /\ IncrementFailure
  /\ worker' = "backoff"
  /\ NoBatch
  /\ UNCHANGED <<waiter, node, health, lock, Rest>>

\* The stream breaks, or sending raises: all users count as failed, those
\* applied included.
StreamFails ==
  /\ worker = "sending"
  /\ Requeue(In(drained))
  /\ IncrementFailure
  /\ worker' = "backoff"
  /\ NoBatch
  /\ UNCHANGED <<waiter, node, health, lock, Rest>>

\* sync_users_chunked takes _node_lock.
ChunkedBegins ==
  /\ worker = "chunked"
  /\ lock = "free"
  /\ lock' = "worker"
  /\ UNCHANGED <<workerVars, node, queueVars, resetVars, health, Rest>>

ChunkedSent ==
  /\ worker = "chunked" /\ lock = "worker"
  /\ node' = Apply(node, drained, In(drained))
  /\ lock' = "free"
  /\ ResetFailures
  /\ worker' = "ready"
  /\ NoBatch
  /\ UNCHANGED <<waiter, queueVars, health, Rest>>

\* The call fails; the node may have applied it.
ChunkedFails ==
  /\ worker = "chunked" /\ lock = "worker"
  /\ node' \in {node, Apply(node, drained, In(drained))}
  /\ lock' = "free"
  /\ Requeue(In(drained))
  /\ IncrementFailure
  /\ worker' = "backoff"
  /\ NoBatch
  /\ UNCHANGED <<waiter, health, Rest>>

BackoffEnds ==
  /\ worker = "backoff"
  /\ worker' = "ready"
  /\ UNCHANGED <<drained, unsent, failed, waiter, node, queueVars, resetVars,
                 health, lock, Rest>>

-----------------------------------------------------------------------------
(* start and stop.                                                         *)

NotStarting == <<stopPc, fullVars, bulkVars, checked, latest>>

\* start, called once on every controller with the users the caller read.
Start ==
  /\ startPc = "none"
  /\ health # "INVALID"
  /\ startPc' = "lock"
  /\ startUsers' = latest
  /\ UNCHANGED <<node, queueVars, workerVars, resetVars, health, shutdown,
                 lock, NotStarting>>

StartLocked ==
  /\ startPc = "lock"
  /\ lock = "free"
  /\ lock' = "start"
  /\ startPc' = "rpc"
  /\ UNCHANGED <<node, queueVars, workerVars, resetVars, health, shutdown,
                 startUsers, NotStarting>>

\* The node starts its core with the users it was sent.
NodeStarts ==
  /\ startPc = "rpc"
  /\ node' = startUsers
  /\ startPc' = "answer"
  /\ UNCHANGED <<queueVars, workerVars, resetVars, health, shutdown, lock,
                 startUsers, NotStarting>>

\* The call fails, or its answer is lost.
StartFails ==
  /\ startPc \in {"rpc", "answer"}
  /\ startPc' = "done"
  /\ lock' = "free"
  /\ UNCHANGED <<node, queueVars, workerVars, resetVars, health, shutdown,
                 startUsers, NotStarting>>

\* connect() on the answer, without a suspension.
Connected ==
  /\ startPc = "answer"
  /\ health # "INVALID"
  /\ shutdown' = FALSE
  /\ ResetFailures
  /\ health' = "HEALTHY"
  /\ startPc' = "done"
  /\ lock' = "free"
  /\ UNCHANGED <<node, queueVars, workerVars, startUsers, NotStarting>>

\* The first half of disconnect(), up to the wait for the cancelled worker,
\* which is no wait when no worker runs.
CancelWorker ==
  /\ shutdown' = TRUE
  /\ worker' = IF worker = "none" THEN "none" ELSE "cancelled"
  /\ UNCHANGED <<drained, unsent, failed, waiter, queueVars, health>>

\* Mutant: disconnect() leaves the worker alone.
ClearQueueOnly ==
  /\ pending' = NoOne
  /\ work' = FALSE
  /\ worker' = IF worker = "cancelled" THEN "backoff" ELSE worker
  /\ waiter' = FALSE
  /\ UNCHANGED <<drained, unsent, failed>>
  /\ health' = IF health = "INVALID" THEN health ELSE "NOT_CONNECTED"

\* The second half: the worker is gone and took its batch with it, the queue
\* is cleared, and a caller that waited starts a worker on the empty queue.
ClearQueue ==
  /\ worker \in {"none", "cancelled"}
  /\ pending' = NoOne
  /\ work' = FALSE
  /\ worker' = IF waiter THEN "ready" ELSE "none"
  /\ waiter' = FALSE
  /\ NoBatch
  /\ health' = IF health = "INVALID" THEN health ELSE "NOT_CONNECTED"

\* connect() raises: the controller was invalidated meanwhile, or the answer
\* names no version.  start then disconnects.
ConnectRefused ==
  /\ startPc = "answer"
  /\ ResetFailures
  /\ CancelWorker
  /\ startPc' = "cleanup"
  /\ UNCHANGED <<node, lock, startUsers, NotStarting>>

StartDisconnected ==
  /\ startPc = "cleanup"
  /\ ClearQueue
  /\ startPc' = "done"
  /\ lock' = "free"
  /\ UNCHANGED <<node, resetVars, shutdown, startUsers, NotStarting>>

NotStopping == <<node, latest, resetVars, startVars, fullVars, bulkVars, checked>>

\* Mutant: set_health trusts its caller.
OverwriteHealth(h) == health' = h

\* set_health
SetHealth(h) == health' = IF health = "INVALID" THEN health ELSE h

\* NodeManager._shutdown_node, for a controller that was replaced or removed.
ShutdownNode ==
  /\ stopPc = "none"
  /\ SetHealth("INVALID")
  /\ stopPc' = "lock"
  /\ UNCHANGED <<queueVars, workerVars, shutdown, lock, NotStopping>>

\* shutdown_nodes at the end of the process: stop() alone, which does nothing
\* for a controller that is not connected.
StopNode ==
  /\ stopPc = "none"
  /\ stopPc' = IF health = "NOT_CONNECTED" THEN "done" ELSE "lock"
  /\ UNCHANGED <<queueVars, workerVars, health, shutdown, lock, NotStopping>>

StopLocked ==
  /\ stopPc = "lock"
  /\ lock = "free"
  /\ lock' = "stop"
  /\ CancelWorker
  /\ stopPc' = "cleanup"
  /\ UNCHANGED NotStopping

StopDisconnected ==
  /\ stopPc = "cleanup"
  /\ ClearQueue
  /\ stopPc' = "rpc"
  /\ UNCHANGED <<shutdown, lock, NotStopping>>

\* The Stop call returns or fails.
Stopped ==
  /\ stopPc = "rpc"
  /\ stopPc' = "done"
  /\ lock' = "free"
  /\ UNCHANGED <<queueVars, workerVars, health, shutdown, NotStopping>>

-----------------------------------------------------------------------------
(* Health checks: verify_node_backend_health of app/jobs/node_checker.py.  *)

NotChecking == <<node, latest, queueVars, workerVars, resetVars, shutdown, lock,
                 startVars, stopPc, fullVars, bulkVars>>

CheckBegins ==
  /\ checked = "none"
  /\ health \notin {"NOT_CONNECTED", "INVALID"}
  /\ checked' = health
  /\ UNCHANGED <<health, NotChecking>>

\* The node answered: the health that was read before the call decides.
CheckOk ==
  /\ checked # "none"
  /\ IF checked # "HEALTHY" THEN SetHealth("HEALTHY") ELSE UNCHANGED health
  /\ checked' = "none"
  /\ UNCHANGED NotChecking

CheckFails ==
  /\ checked # "none"
  /\ SetHealth("BROKEN")
  /\ checked' = "none"
  /\ UNCHANGED NotChecking

-----------------------------------------------------------------------------
(* The direct paths.                                                       *)

NotFull == <<latest, workerVars, resetVars, health, shutdown, startVars, stopPc,
             bulkVars, checked>>

\* sync_users with the users of the database, and flush_pending_users first
\* when the operator asked for it.
FullSync(flush) ==
  /\ "full" \in Callers
  /\ fullPc = "none"
  /\ fullUsers' = latest
  /\ pending' = IF flush THEN NoOne ELSE pending
  /\ work' = (work /\ ~flush)
  /\ fullPc' = "lock"
  /\ UNCHANGED <<node, lock, NotFull>>

FullSyncLocked ==
  /\ fullPc = "lock"
  /\ lock = "free"
  /\ lock' = "full"
  /\ fullPc' = "rpc"
  /\ UNCHANGED <<node, queueVars, fullUsers, NotFull>>

\* The node replaces its users, or the call fails.
FullSyncDone ==
  /\ fullPc = "rpc"
  /\ node' \in {node, fullUsers}
  /\ lock' = "free"
  /\ fullPc' = "none"
  /\ UNCHANGED <<queueVars, fullUsers, NotFull>>

NotBulk == <<queueVars, workerVars, resetVars, health, shutdown, startVars,
             stopPc, fullVars, checked>>

\* NodeManager._sync_users_to_node, under the node's user sync lock: the users
\* S change and go straight to sync_users_chunked.
BulkUpdate(S) ==
  /\ "bulk" \in Callers
  /\ bulkPc = "none"
  /\ \A u \in S : latest[u] < MaxVersion
  /\ latest' = [u \in Users |-> IF u \in S THEN latest[u] + 1 ELSE latest[u]]
  /\ bulk' = Apply(NoOne, latest', S)
  /\ bulkPc' = "chunk"
  /\ UNCHANGED <<node, lock, NotBulk>>

BulkLocked ==
  /\ bulkPc = "chunk"
  /\ lock = "free"
  /\ lock' = "bulk"
  /\ bulkPc' = "rpc"
  /\ UNCHANGED <<node, latest, bulk, NotBulk>>

BulkDone ==
  /\ bulkPc = "rpc"
  /\ node' = Apply(node, bulk, In(bulk))
  /\ lock' = "free"
  /\ bulkPc' = "none"
  /\ UNCHANGED <<latest, bulk, NotBulk>>

BulkFails ==
  /\ bulkPc = "rpc"
  /\ lock' = "free"
  /\ bulkPc' = "stream"
  /\ UNCHANGED <<node, latest, bulk, NotBulk>>

\* The fallback to _sync_batch_users; those that fail again are only logged.
BulkStreamed ==
  /\ bulkPc = "stream"
  /\ \E S \in SUBSET In(bulk) : node' = Apply(node, bulk, S)
  /\ bulkPc' = "none"
  /\ UNCHANGED <<lock, latest, bulk, NotBulk>>

-----------------------------------------------------------------------------
WorkerStep ==
  \/ GoToSleep \/ WorkerExits \/ WaitWhileBroken \/ Drain
  \/ \E u \in Users : SendUser(u) \/ SendUserFails(u)
  \/ BatchSent \/ BatchPartlyFailed \/ StreamFails
  \/ ChunkedBegins \/ ChunkedSent \/ ChunkedFails
  \/ BackoffEnds

StartStep == \/ StartLocked \/ NodeStarts \/ StartFails \/ Connected
             \/ ConnectRefused \/ StartDisconnected

StopStep == StopLocked \/ StopDisconnected \/ Stopped

FullStep == FullSyncLocked \/ FullSyncDone

BulkStep == BulkLocked \/ BulkDone \/ BulkFails \/ BulkStreamed

Next ==
  \/ \E S \in (SUBSET Users) \ {{}} : UpdateUsers(S)
  \/ WorkerStep
  \/ IdleTimeout
  \/ Start \/ StartStep
  \/ ShutdownNode \/ StopNode \/ StopStep
  \/ CheckBegins \/ CheckOk \/ CheckFails
  \/ \E flush \in BOOLEAN : FullSync(flush)
  \/ FullStep
  \/ \E S \in (SUBSET Users) \ {{}} : BulkUpdate(S)
  \/ BulkStep

Spec == Init /\ [][Next]_vars

\* A task that can run is run by the event loop, and every call to the node is
\* bounded by a timeout.  Nothing is assumed of what the node answers.
FairSpec ==
  /\ Spec
  /\ WF_vars(WorkerStep)
  /\ WF_vars(StartStep)
  /\ WF_vars(StopStep)
  /\ WF_vars(FullStep)
  /\ WF_vars(BulkStep)
  /\ WF_vars(CheckOk \/ CheckFails)

-----------------------------------------------------------------------------
(* Properties.                                                             *)

\* The start of the controller has succeeded and nobody has begun to stop it.
Up == startPc = "done" /\ stopPc = "none" /\ health \in {"HEALTHY", "BROKEN"}

\* The event is set exactly while users are queued, over drains, requeues,
\* flushes and cleanups: a worker never sleeps on a queue that has work, and
\* never spins on an empty one.
WorkIffPending == work <=> (In(pending) # {})

\* What is queued for a user is its latest change, however the batch that
\* failed and the changes made meanwhile interleave: "Latest version wins",
\* and "Only re-queue if there's no newer version pending".
PendingIsLatest ==
  \A u \in In(pending) : pending[u] = latest[u]

\* While the controller is up the latest change of a user is on the node, or
\* queued, or in the batch being sent: failing batches, restarts of the worker
\* and changes made while start was under way lose nothing.
NoUpdateLost ==
  Up => \A u \in Users : latest[u] \in {node[u], pending[u], drained[u]}

\* While the controller is up, the node never goes back to an older
\* configuration of a user: "Latest version wins".
NodeNeverGoesBack ==
  [][Up => \A u \in Users : node'[u] >= node[u]]_vars

\* A controller that NodeManager has shut down stays invalid, whichever start,
\* stop or health check was under way with an older view of its health, and
\* takes no new batch off its queue.
InvalidIsFinal ==
  [][health = "INVALID" =>
       /\ health' = "INVALID"
       /\ \A u \in Users : drained'[u] \in {0, drained[u]}]_vars

\* Once stop has returned, nothing of this controller writes to the node any
\* more through the queue, so that a successor can be started safely.
StopSilences == stopPc = "done" /\ health = "INVALID" => In(drained) = {}

\* A hard reset is asked for exactly when the last batches failed often enough
\* in a row, also across a connect in between.
HardResetAfterFailures == hardReset <=> failures >= HardResetThreshold

\* An update in the hands of the worker is delivered, unless the health check
\* finds the node broken or the failures get it a hard reset: a node that
\* answers health checks and rejects updates cannot go unnoticed.
FailureEscalates ==
  \A u \in Users, v \in 1 .. MaxVersion :
    (drained[u] = v /\ worker # "cancelled")
      ~> (node[u] >= v \/ hardReset \/ ~Up \/ health = "BROKEN")

\* An update that is queued on a controller that stays healthy is taken up by
\* a worker: "Ensure worker is running to process the update".
QueuedIsTakenUp ==
  \A u \in Users :
    (pending[u] > node[u] /\ Up)
      ~> (pending[u] <= node[u] \/ ~Up \/ health = "BROKEN")
=============================================================================
