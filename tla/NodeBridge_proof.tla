--------------------------- MODULE NodeBridge_proof ---------------------------
(***************************************************************************)
(* Proofs about NodeBridge, for every set of users, every threshold and    *)
(* any number of changes and failures.                                     *)
(***************************************************************************)
EXTENDS NodeBridge, TLAPS

-----------------------------------------------------------------------------
(* Types.                                                                  *)

\* A batch on top of a configuration of all users is one.
LEMMA ApplyType ==
  ASSUME NEW f \in [Users -> Versions], NEW b \in [Users -> Versions], NEW S
  PROVE  Apply(f, b, S) \in [Users -> Versions]
BY DEF Apply

LEMMA NoOneType == NoOne \in [Users -> Versions]
BY ConstantsAssumption DEF NoOne, Versions

LEMMA InitType == Init => TypeOK
<1>1. 0 \in 0 .. MaxFailures
  BY ConstantsAssumption
<1> QED
  BY <1>1, NoOneType DEF Init, TypeOK, Healths

\* The versions that a change of the users S leaves them with.
LEMMA ChangeType ==
  ASSUME TypeOK, NEW S, \A u \in S : latest[u] < MaxVersion,
         latest' = [u \in Users |-> IF u \in S THEN latest[u] + 1 ELSE latest[u]]
  PROVE  latest' \in [Users -> Versions]
BY ConstantsAssumption DEF TypeOK, Versions

\* The operations on the queue, the counter and the batch return their types.
LEMMA RequeueType ==
  ASSUME TypeOK, NEW S, Requeue(S)
  PROVE  pending' \in [Users -> Versions] /\ work' \in BOOLEAN
BY ApplyType DEF TypeOK, Requeue

LEMMA CounterType ==
  ASSUME TypeOK, IncrementFailure \/ ResetFailures
  PROVE  failures' \in 0 .. MaxFailures /\ hardReset' \in BOOLEAN
<1>1. failures' \in 0 .. MaxFailures
  BY ConstantsAssumption DEF TypeOK, IncrementFailure, ResetFailures
<1>2. hardReset' \in BOOLEAN
  BY DEF TypeOK, IncrementFailure, ResetFailures
<1> QED
  BY <1>1, <1>2

LEMMA ClearQueueType ==
  ASSUME TypeOK, ClearQueue
  PROVE  /\ pending' \in [Users -> Versions] /\ work' \in BOOLEAN
         /\ worker' \in {"none", "ready"} /\ waiter' \in BOOLEAN
         /\ drained' \in [Users -> Versions] /\ unsent' = {} /\ failed' = {}
         /\ health' \in Healths
BY NoOneType DEF TypeOK, ClearQueue, NoBatch, Healths

LEMMA WorkerType == TypeOK /\ (WorkerStep \/ IdleTimeout) => TypeOK'
<1> SUFFICES ASSUME TypeOK, WorkerStep \/ IdleTimeout
             PROVE  TypeOK'
  OBVIOUS
<1> USE DEF queueVars, workerVars, resetVars, startVars, fullVars, bulkVars, Rest
<1>1. CASE GoToSleep \/ WorkerExits \/ IdleTimeout \/ WaitWhileBroken \/ BackoffEnds
  BY <1>1 DEF GoToSleep, WorkerExits, IdleTimeout, WaitWhileBroken, BackoffEnds,
              TypeOK
<1>2. CASE Drain
  <2>1. work' \in BOOLEAN
    BY <1>2 DEF Drain
  <2> QED
    BY <1>2, <2>1, NoOneType DEF Drain, In, TypeOK
<1>3. ASSUME NEW u \in Users, SendUser(u) \/ SendUserFails(u)
      PROVE  TypeOK'
  BY <1>3 DEF SendUser, SendUserFails, TypeOK
<1>4. CASE BatchSent
  BY <1>4, CounterType, NoOneType DEF BatchSent, NoBatch, TypeOK
<1>5. CASE BatchPartlyFailed
  BY <1>5, CounterType, RequeueType, NoOneType DEF BatchPartlyFailed, NoBatch, TypeOK
<1>6. CASE StreamFails
  BY <1>6, CounterType, RequeueType, NoOneType DEF StreamFails, NoBatch, TypeOK
<1>7. CASE ChunkedBegins
  BY <1>7 DEF ChunkedBegins, TypeOK
<1>8. CASE ChunkedSent
  BY <1>8, CounterType, ApplyType, NoOneType DEF ChunkedSent, NoBatch, TypeOK
<1>9. CASE ChunkedFails
  BY <1>9, CounterType, RequeueType, ApplyType, NoOneType
     DEF ChunkedFails, NoBatch, TypeOK
<1> QED
  BY <1>1, <1>2, <1>3, <1>4, <1>5, <1>6, <1>7, <1>8, <1>9 DEF WorkerStep

LEMMA ConnectType ==
  TypeOK /\ (Start \/ StartStep \/ ShutdownNode \/ StopNode \/ StopStep) => TypeOK'
<1> SUFFICES ASSUME TypeOK, Start \/ StartStep \/ ShutdownNode \/ StopNode \/ StopStep
             PROVE  TypeOK'
  OBVIOUS
<1> USE DEF queueVars, workerVars, resetVars, startVars, fullVars, bulkVars,
            NotStarting, NotStopping
<1>1. CASE Start \/ StartLocked \/ NodeStarts \/ StartFails
  BY <1>1 DEF Start, StartLocked, NodeStarts, StartFails, TypeOK
<1>2. CASE Connected
  <2>1. shutdown' \in BOOLEAN
    BY <1>2 DEF Connected
  <2> QED
    BY <1>2, <2>1, CounterType DEF Connected, TypeOK, Healths
<1>3. CASE ConnectRefused
  BY <1>3, CounterType DEF ConnectRefused, CancelWorker, TypeOK
<1>4. CASE StartDisconnected
  BY <1>4, ClearQueueType DEF StartDisconnected, TypeOK
<1>5. CASE ShutdownNode \/ StopNode
  BY <1>5 DEF ShutdownNode, StopNode, SetHealth, TypeOK, Healths
<1>6. CASE StopLocked \/ Stopped
  <2>1. shutdown' \in BOOLEAN
    BY <1>6 DEF StopLocked, Stopped, CancelWorker, TypeOK
  <2> QED
    BY <1>6, <2>1 DEF StopLocked, Stopped, CancelWorker, TypeOK
<1>7. CASE StopDisconnected
  BY <1>7, ClearQueueType DEF StopDisconnected, TypeOK
<1> QED
  BY <1>1, <1>2, <1>3, <1>4, <1>5, <1>6, <1>7 DEF StartStep, StopStep

LEMMA CheckType == TypeOK /\ (CheckBegins \/ CheckOk \/ CheckFails) => TypeOK'
BY DEF CheckBegins, CheckOk, CheckFails, SetHealth, NotChecking, TypeOK, Healths,
       queueVars, workerVars, resetVars, startVars, fullVars, bulkVars

LEMMA UpdateType ==
  ASSUME TypeOK, NEW S \in SUBSET Users, UpdateUsers(S) \/ BulkUpdate(S)
  PROVE  TypeOK'
<1> USE DEF queueVars, workerVars, resetVars, startVars, fullVars, bulkVars, NotBulk
<1>1. latest' \in [Users -> Versions]
  BY ChangeType DEF UpdateUsers, BulkUpdate
<1>2. CASE UpdateUsers(S)
  BY <1>1, <1>2, ApplyType DEF UpdateUsers, EnsureSyncWorkerRunning, TypeOK
<1>3. CASE BulkUpdate(S)
  BY <1>1, <1>3, ApplyType, NoOneType DEF BulkUpdate, TypeOK
<1> QED
  BY <1>2, <1>3

LEMMA DirectType ==
  TypeOK /\ ((\E flush \in BOOLEAN : FullSync(flush)) \/ FullStep \/ BulkStep) => TypeOK'
<1> SUFFICES ASSUME TypeOK,
                    (\E flush \in BOOLEAN : FullSync(flush)) \/ FullStep \/ BulkStep
             PROVE  TypeOK'
  OBVIOUS
<1> USE DEF queueVars, workerVars, resetVars, startVars, fullVars, bulkVars,
            NotFull, NotBulk
<1>1. ASSUME NEW flush \in BOOLEAN, FullSync(flush)
      PROVE  TypeOK'
  BY <1>1, NoOneType DEF FullSync, TypeOK
<1>2. CASE FullSyncLocked \/ FullSyncDone
  BY <1>2 DEF FullSyncLocked, FullSyncDone, TypeOK
<1>3. CASE BulkLocked \/ BulkFails
  BY <1>3 DEF BulkLocked, BulkFails, TypeOK
<1>4. CASE BulkDone \/ BulkStreamed
  BY <1>4, ApplyType DEF BulkDone, BulkStreamed, TypeOK
<1> QED
  BY <1>1, <1>2, <1>3, <1>4 DEF FullStep, BulkStep

LEMMA NextType == TypeOK /\ [Next]_vars => TypeOK'
<1>1. TypeOK /\ UNCHANGED vars => TypeOK'
  BY DEF vars, TypeOK, queueVars, workerVars, resetVars, startVars, fullVars, bulkVars
<1> QED
  BY <1>1, WorkerType, ConnectType, CheckType, UpdateType, DirectType DEF Next

\* Type correctness: the worker, the coroutines of start, stop and the direct
\* paths, and the owner of the lock are where the code can be.
THEOREM TypeCorrect == Spec => []TypeOK
BY InitType, NextType, PTL DEF Spec

-----------------------------------------------------------------------------
(* The event of the queue.                                                 *)

LEMMA WorkFrame ==
  ASSUME WorkIffPending, UNCHANGED queueVars
  PROVE  WorkIffPending'
BY DEF WorkIffPending, queueVars, In

LEMMA WorkRequeue ==
  ASSUME TypeOK, WorkIffPending, NEW S, Requeue(S)
  PROVE  WorkIffPending'
<1>1. ASSUME NEW u \in In(pending)
      PROVE  u \in In(pending)'
  BY <1>1 DEF Requeue, Apply, In
<1>2. In(pending)' = In(pending')
  BY DEF In
<1>3. CASE In(pending) = {}
  BY <1>2, <1>3 DEF Requeue, WorkIffPending
<1>4. CASE In(pending) # {}
  BY <1>1, <1>4 DEF Requeue, WorkIffPending
<1> QED
  BY <1>3, <1>4

LEMMA WorkEmptied ==
  ASSUME pending' = NoOne, work' = FALSE
  PROVE  WorkIffPending'
BY DEF WorkIffPending, In, NoOne

LEMMA WorkStep == TypeOK /\ WorkIffPending /\ [Next]_vars => WorkIffPending'
<1> SUFFICES ASSUME TypeOK, WorkIffPending, [Next]_vars
             PROVE  WorkIffPending'
  OBVIOUS
<1> USE DEF startVars, fullVars, bulkVars
<1>1. ASSUME NEW S \in (SUBSET Users) \ {{}}, UpdateUsers(S)
      PROVE  WorkIffPending'
  <2>1. PICK u \in S : TRUE
    OBVIOUS
  <2>2. pending'[u] = latest[u] + 1 /\ latest[u] \in Nat
    BY <1>1 DEF UpdateUsers, Apply, TypeOK, Versions
  <2>3. u \in In(pending)'
    BY <2>2 DEF In
  <2>4. work' = TRUE
    BY <1>1 DEF UpdateUsers
  <2> QED
    BY <2>3, <2>4 DEF WorkIffPending
<1>2. CASE WorkerStep \/ IdleTimeout
  <2>1. CASE GoToSleep \/ WorkerExits \/ IdleTimeout \/ WaitWhileBroken \/ BackoffEnds
    BY <2>1, WorkFrame
       DEF GoToSleep, WorkerExits, IdleTimeout, WaitWhileBroken, BackoffEnds
  <2>2. CASE Drain
    BY <2>2, WorkEmptied DEF Drain
  <2>3. ASSUME NEW u \in Users, SendUser(u) \/ SendUserFails(u)
        PROVE  WorkIffPending'
    BY <2>3, WorkFrame DEF SendUser, SendUserFails
  <2>4. CASE BatchPartlyFailed \/ StreamFails \/ ChunkedFails
    BY <2>4, WorkRequeue DEF BatchPartlyFailed, StreamFails, ChunkedFails
  <2>5. CASE BatchSent \/ ChunkedBegins \/ ChunkedSent
    BY <2>5, WorkFrame DEF BatchSent, ChunkedBegins, ChunkedSent
  <2> QED
    BY <1>2, <2>1, <2>2, <2>3, <2>4, <2>5 DEF WorkerStep
<1>3. CASE Start \/ StartStep \/ ShutdownNode \/ StopNode \/ StopStep
  <2>1. CASE StartDisconnected \/ StopDisconnected
    BY <2>1, WorkEmptied DEF StartDisconnected, StopDisconnected, ClearQueue
  <2>2. CASE ~(StartDisconnected \/ StopDisconnected)
    BY <1>3, <2>2, WorkFrame
       DEF Start, StartStep, StartLocked, NodeStarts, StartFails, Connected,
           ConnectRefused, ShutdownNode, StopNode, StopStep, StopLocked, Stopped,
           CancelWorker
  <2> QED
    BY <2>1, <2>2
<1>4. CASE CheckBegins \/ CheckOk \/ CheckFails
  BY <1>4, WorkFrame DEF CheckBegins, CheckOk, CheckFails, NotChecking
<1>5. ASSUME NEW flush \in BOOLEAN, FullSync(flush)
      PROVE  WorkIffPending'
  <2>1. CASE flush = TRUE
    <3>1. pending' = NoOne
      BY <1>5, <2>1 DEF FullSync
    <3>2. work' = FALSE
      BY <1>5, <2>1 DEF FullSync
    <3> QED
      BY <3>1, <3>2, WorkEmptied
  <2>2. CASE flush = FALSE
    <3>1. pending' = pending
      BY <1>5, <2>2 DEF FullSync
    <3>2. work' = work
      BY <1>5, <2>2 DEF FullSync, TypeOK
    <3> QED
      BY <3>1, <3>2, WorkFrame DEF queueVars
  <2> QED
    BY <2>1, <2>2
<1>6. CASE FullStep \/ BulkStep
  BY <1>6, WorkFrame DEF FullStep, FullSyncLocked, FullSyncDone, BulkStep, BulkLocked,
                         BulkDone, BulkFails, BulkStreamed, NotBulk
<1>7. ASSUME NEW S \in (SUBSET Users) \ {{}}, BulkUpdate(S)
      PROVE  WorkIffPending'
  BY <1>7, WorkFrame DEF BulkUpdate, NotBulk
<1>8. CASE UNCHANGED vars
  BY <1>8, WorkFrame DEF vars
<1> QED
  BY <1>1, <1>2, <1>3, <1>4, <1>5, <1>6, <1>7, <1>8 DEF Next

\* The event is set exactly while users are queued, over drains, requeues, flushes
\* and cleanups, so that a worker neither sleeps on work nor spins without any.
THEOREM NoLostWakeup == Spec => []WorkIffPending
<1>1. Init => WorkIffPending
  BY DEF Init, WorkIffPending, In, NoOne
<1> QED
  BY <1>1, WorkStep, TypeCorrect, PTL DEF Spec

-----------------------------------------------------------------------------
(* The hard reset.                                                         *)

LEMMA ResetFrame ==
  ASSUME HardResetAfterFailures, UNCHANGED resetVars
  PROVE  HardResetAfterFailures'
BY DEF HardResetAfterFailures, resetVars

\* The counter stops at MaxFailures, which is no smaller than the threshold, so
\* that what is above the threshold stays there until a batch succeeds.
LEMMA ResetCounted ==
  ASSUME TypeOK, HardResetAfterFailures, IncrementFailure
  PROVE  HardResetAfterFailures'
<1>1. /\ failures \in Nat /\ HardResetThreshold \in Nat /\ MaxFailures \in Nat
      /\ failures <= MaxFailures /\ HardResetThreshold <= MaxFailures
  BY ConstantsAssumption DEF TypeOK
<1>2. failures' >= failures /\ failures' \in Nat
  BY <1>1 DEF IncrementFailure
<1>3. hardReset => failures' >= HardResetThreshold
  BY <1>1, <1>2 DEF HardResetAfterFailures
<1> QED
  BY <1>3 DEF HardResetAfterFailures, IncrementFailure

LEMMA ResetCleared ==
  ASSUME ResetFailures
  PROVE  HardResetAfterFailures'
<1>1. ~(failures' >= HardResetThreshold)
  BY ConstantsAssumption DEF ResetFailures
<1> QED
  BY <1>1 DEF HardResetAfterFailures, ResetFailures

LEMMA ResetStep ==
  TypeOK /\ HardResetAfterFailures /\ [Next]_vars => HardResetAfterFailures'
<1> SUFFICES ASSUME TypeOK, HardResetAfterFailures, [Next]_vars
             PROVE  HardResetAfterFailures'
  OBVIOUS
<1> USE DEF startVars, fullVars, bulkVars
<1>1. CASE WorkerStep \/ IdleTimeout
  <2>1. CASE BatchSent \/ ChunkedSent
    BY <2>1, ResetCleared DEF BatchSent, ChunkedSent
  <2>2. CASE BatchPartlyFailed \/ StreamFails \/ ChunkedFails
    BY <2>2, ResetCounted DEF BatchPartlyFailed, StreamFails, ChunkedFails
  <2>3. ASSUME NEW u \in Users, SendUser(u) \/ SendUserFails(u)
        PROVE  HardResetAfterFailures'
    BY <2>3, ResetFrame DEF SendUser, SendUserFails
  <2>4. CASE \/ GoToSleep \/ WorkerExits \/ IdleTimeout \/ WaitWhileBroken
             \/ BackoffEnds \/ Drain \/ ChunkedBegins
    BY <2>4, ResetFrame DEF GoToSleep, WorkerExits, IdleTimeout, WaitWhileBroken,
                            BackoffEnds, Drain, ChunkedBegins
  <2> QED
    BY <1>1, <2>1, <2>2, <2>3, <2>4 DEF WorkerStep
<1>2. CASE Start \/ StartStep \/ ShutdownNode \/ StopNode \/ StopStep
  <2>1. CASE Connected \/ ConnectRefused
    BY <2>1, ResetCleared DEF Connected, ConnectRefused
  <2>2. CASE ~(Connected \/ ConnectRefused)
    BY <1>2, <2>2, ResetFrame
       DEF Start, StartStep, StartLocked, NodeStarts, StartFails, StartDisconnected,
           ShutdownNode, StopNode, StopStep, StopLocked, StopDisconnected, Stopped,
           NotStopping
  <2> QED
    BY <2>1, <2>2
<1>3. CASE CheckBegins \/ CheckOk \/ CheckFails
  BY <1>3, ResetFrame DEF CheckBegins, CheckOk, CheckFails, NotChecking
<1>4. ASSUME NEW S \in SUBSET Users, UpdateUsers(S) \/ BulkUpdate(S)
      PROVE  HardResetAfterFailures'
  BY <1>4, ResetFrame DEF UpdateUsers, BulkUpdate, NotBulk
<1>5. CASE (\E flush \in BOOLEAN : FullSync(flush)) \/ FullStep \/ BulkStep
  BY <1>5, ResetFrame DEF FullSync, FullStep, FullSyncLocked, FullSyncDone, BulkStep,
                          BulkLocked, BulkDone, BulkFails, BulkStreamed, NotFull, NotBulk
<1>6. CASE UNCHANGED vars
  BY <1>6, ResetFrame DEF vars
<1> QED
  BY <1>1, <1>2, <1>3, <1>4, <1>5, <1>6 DEF Next

\* A hard reset is asked for exactly when the last batches failed often enough in a
\* row, whatever starts and stops happen in between.
THEOREM HardResetIsDue == Spec => []HardResetAfterFailures
<1>1. Init => HardResetAfterFailures
  BY ConstantsAssumption DEF Init, HardResetAfterFailures
<1> QED
  BY <1>1, ResetStep, TypeCorrect, PTL DEF Spec

-----------------------------------------------------------------------------
(* A controller that was shut down.                                        *)

\* What a step leaves of the batch and of the health.  Only a drain takes a batch,
\* and it needs a healthy node.
BatchShrinks == UNCHANGED drained \/ drained' = NoOne

LEMMA WorkerShrinks ==
  ASSUME WorkerStep \/ IdleTimeout
  PROVE  UNCHANGED health /\ (BatchShrinks \/ health = "HEALTHY")
BY DEF WorkerStep, IdleTimeout, GoToSleep, WorkerExits, WaitWhileBroken, Drain,
       SendUser, SendUserFails, BatchSent, BatchPartlyFailed, StreamFails,
       ChunkedBegins, ChunkedSent, ChunkedFails, BackoffEnds, NoBatch, BatchShrinks,
       workerVars

LEMMA ConnectShrinks ==
  ASSUME Start \/ StartStep \/ ShutdownNode \/ StopNode \/ StopStep
  PROVE  BatchShrinks /\ (health = "INVALID" => health' = "INVALID")
BY DEF Start, StartStep, StartLocked, NodeStarts, StartFails, Connected, ConnectRefused,
       StartDisconnected, ShutdownNode, StopNode, StopStep, StopLocked,
       StopDisconnected, Stopped, CancelWorker, ClearQueue, NoBatch, SetHealth,
       BatchShrinks, workerVars

LEMMA OthersShrink ==
  ASSUME \/ \E S \in SUBSET Users : UpdateUsers(S) \/ BulkUpdate(S)
         \/ CheckBegins \/ CheckOk \/ CheckFails
         \/ \E flush \in BOOLEAN : FullSync(flush)
         \/ FullStep \/ BulkStep
  PROVE  UNCHANGED drained /\ (health = "INVALID" => health' = "INVALID")
BY DEF UpdateUsers, EnsureSyncWorkerRunning, BulkUpdate, CheckBegins, CheckOk,
       CheckFails, SetHealth, NotChecking, FullSync, FullStep, FullSyncLocked,
       FullSyncDone, BulkStep, BulkLocked, BulkDone, BulkFails, BulkStreamed, NotFull,
       NotBulk, workerVars

\* A controller that was shut down stays invalid, whichever start, stop or health
\* check was under way with an older view of its health, and takes no new batch off
\* its queue.
THEOREM ShutdownIsFinal == Spec => InvalidIsFinal
<1>1. ASSUME [Next]_vars, health = "INVALID"
      PROVE  health' = "INVALID" /\ BatchShrinks
  BY <1>1, WorkerShrinks, ConnectShrinks, OthersShrink
     DEF Next, vars, workerVars, BatchShrinks
<1>2. BatchShrinks => \A u \in Users : drained'[u] \in {0, drained[u]}
  BY DEF BatchShrinks, NoOne
<1>3. [Next]_vars => [health = "INVALID" =>
                        /\ health' = "INVALID"
                        /\ \A u \in Users : drained'[u] \in {0, drained[u]}]_vars
  BY <1>1, <1>2
<1> QED
  BY <1>3, PTL DEF Spec, InvalidIsFinal

\* Between the cleanup of stop and its end the batch of the worker is gone, and a
\* controller that is invalid gets no other.
Silenced ==
  health = "INVALID" =>
    /\ stopPc # "none"
    /\ stopPc \in {"rpc", "done"} => drained = NoOne

LEMMA SilencedStep == Silenced /\ [Next]_vars => Silenced'
<1> SUFFICES ASSUME Silenced, [Next]_vars
             PROVE  Silenced'
  OBVIOUS
<1>1. CASE WorkerStep \/ IdleTimeout
  <2>1. UNCHANGED stopPc
    BY <1>1 DEF WorkerStep, IdleTimeout, GoToSleep, WorkerExits, WaitWhileBroken,
                Drain, SendUser, SendUserFails, BatchSent, BatchPartlyFailed,
                StreamFails, ChunkedBegins, ChunkedSent, ChunkedFails, BackoffEnds, Rest
  <2> QED
    BY <1>1, <2>1, WorkerShrinks DEF Silenced, BatchShrinks
<1>2. CASE Start \/ StartStep
  BY <1>2, ConnectShrinks
     DEF Start, StartStep, StartLocked, NodeStarts, StartFails, Connected,
         ConnectRefused, StartDisconnected, CancelWorker, ClearQueue, NotStarting,
         Silenced, BatchShrinks
<1>3. CASE ShutdownNode \/ StopNode
  BY <1>3 DEF ShutdownNode, StopNode, Silenced
<1>4. CASE StopStep
  BY <1>4, ConnectShrinks
     DEF StopStep, StopLocked, StopDisconnected, Stopped, CancelWorker, ClearQueue,
         NoBatch, Silenced, BatchShrinks
<1>5. ASSUME UNCHANGED <<drained, stopPc>>, health' = "INVALID" => health = "INVALID"
      PROVE  Silenced'
  BY <1>5 DEF Silenced
<1>6. CASE CheckBegins \/ CheckOk \/ CheckFails
  BY <1>5, <1>6 DEF CheckBegins, CheckOk, CheckFails, SetHealth, NotChecking, workerVars
<1>7. ASSUME NEW S \in SUBSET Users, UpdateUsers(S) \/ BulkUpdate(S)
      PROVE  Silenced'
  BY <1>5, <1>7 DEF UpdateUsers, EnsureSyncWorkerRunning, BulkUpdate, NotBulk, workerVars
<1>8. CASE (\E flush \in BOOLEAN : FullSync(flush)) \/ FullStep \/ BulkStep
  BY <1>5, <1>8 DEF FullSync, FullStep, FullSyncLocked, FullSyncDone, BulkStep,
                    BulkLocked, BulkDone, BulkFails, BulkStreamed, NotFull, NotBulk,
                    workerVars
<1>9. CASE UNCHANGED vars
  BY <1>5, <1>9 DEF vars, workerVars
<1> QED
  BY <1>1, <1>2, <1>3, <1>4, <1>6, <1>7, <1>8, <1>9 DEF Next

\* Once stop has returned for a controller that was shut down, its worker has no
\* batch it could still write to the node, which by then may have a successor.
THEOREM StoppedIsSilent == Spec => []StopSilences
<1>1. Init => Silenced
  BY DEF Init, Silenced
<1>2. Silenced => StopSilences
  BY DEF Silenced, StopSilences, In, NoOne
<1> QED
  BY <1>1, <1>2, SilencedStep, PTL DEF Spec

-----------------------------------------------------------------------------
(***************************************************************************)
(* The versions of a user on a controller whose updates all go through the *)
(* queue.  A bulk update or a full sync overtakes what is queued, and the  *)
(* properties are not claimed for them.                                    *)
(***************************************************************************)

NoDirectPath == bulkPc = "none" /\ fullPc = "none"

\* Where a controller without a started node has its worker: it never had a batch.
\* A check that is under way saw the node connected, unless a stop has begun.
Connecting ==
  /\ health \in {"HEALTHY", "BROKEN"} \/ checked # "none" => startPc = "done"
  /\ checked # "none" /\ stopPc = "none" => health \in {"HEALTHY", "BROKEN"}
  /\ startPc # "done" => drained = NoOne

\* What the worker has done with its batch.
BatchInv ==
  /\ worker \notin {"sending", "chunked", "cancelled"} => drained = NoOne
  /\ worker = "sending" =>
       /\ unsent \cup failed \subseteq In(drained)
       /\ \A u \in In(drained) \ (unsent \cup failed) : node[u] = drained[u]

\* Of the versions of a user in different places none is ahead of the latest, and
\* where an older one is in the batch the latest is queued behind it.
VersionInv ==
  \A u \in Users :
    /\ node[u] <= latest[u] /\ startUsers[u] <= latest[u]
    /\ pending[u] \in {0, latest[u]}
    /\ drained[u] \in {0, latest[u]} \/ pending[u] # 0
    /\ drained[u] # 0 => node[u] <= drained[u] /\ drained[u] <= latest[u]

\* The latest version is on its way, from the moment start has read the users.
Covered ==
  stopPc = "none" => \A u \in Users :
    /\ startPc \in {"lock", "rpc"} => latest[u] \in {startUsers[u], pending[u]}
    /\ startPc = "answer" => latest[u] \in {node[u], pending[u]}
    /\ startPc = "done" /\ health \in {"HEALTHY", "BROKEN"} =>
         latest[u] \in {node[u], pending[u], drained[u]}

QueueInv == NoDirectPath /\ Connecting /\ BatchInv /\ VersionInv /\ Covered

\* What a requeue leaves in the queue: the batch where nothing newer is queued.
LEMMA RequeueEach ==
  ASSUME TypeOK, NEW S \in SUBSET Users, Requeue(S), NEW u \in Users
  PROVE  pending'[u] = IF u \in S /\ pending[u] = 0 THEN drained[u] ELSE pending[u]
BY DEF TypeOK, Requeue, Apply, In

\* A batch that goes back into the queue, as far as it is not on the node.
LEMMA RequeueKeeps ==
  ASSUME TypeOK, QueueInv, NEW S \in SUBSET Users, Requeue(S), NoBatch,
         \A u \in Users : u \in S \/ node[u] = drained[u] \/ drained[u] = 0,
         UNCHANGED <<node, latest, startUsers, startPc, stopPc, health>>
  PROVE  VersionInv' /\ Covered'
<1> DEFINE VersionsOf(u) ==
             /\ node[u] <= latest[u] /\ startUsers[u] <= latest[u]
             /\ pending[u] \in {0, latest[u]}
             /\ drained[u] \in {0, latest[u]} \/ pending[u] # 0
             /\ drained[u] # 0 => node[u] <= drained[u] /\ drained[u] <= latest[u]
<1>1. ASSUME NEW u \in Users
      PROVE  /\ pending'[u] = IF u \in S /\ pending[u] = 0 THEN drained[u]
                                                            ELSE pending[u]
             /\ drained'[u] = 0
  BY <1>1, RequeueEach DEF NoBatch, NoOne
<1>2. ASSUME NEW u \in Users
      PROVE  VersionsOf(u)
  BY <1>2 DEF QueueInv, VersionInv
<1>3. VersionInv'
  BY <1>1, <1>2 DEF VersionInv, TypeOK
<1>4. Covered'
  BY <1>1, <1>2 DEF Covered, QueueInv, TypeOK
<1> QED
  BY <1>3, <1>4

LEMMA QueueWorker ==
  ASSUME TypeOK, QueueInv, WorkerStep \/ IdleTimeout
  PROVE  QueueInv'
<1> USE DEF Rest, startVars, fullVars, bulkVars, queueVars, workerVars
<1> USE DEF QueueInv, NoDirectPath, Connecting, BatchInv, VersionInv, Covered
<1>1. CASE GoToSleep \/ WorkerExits \/ IdleTimeout \/ WaitWhileBroken \/ BackoffEnds
  BY <1>1 DEF GoToSleep, WorkerExits, IdleTimeout, WaitWhileBroken, BackoffEnds, Awake
<1>a. ASSUME NEW u \in Users
      PROVE  /\ node[u] \in Nat /\ latest[u] \in Nat /\ pending[u] \in Nat
             /\ drained[u] \in Nat /\ startUsers[u] \in Nat
  BY <1>a, ConstantsAssumption DEF TypeOK, Versions
<1>2. CASE Drain
  <2>1. drained = NoOne /\ drained' = pending /\ pending' = NoOne
    BY <1>2 DEF Drain, Awake
  <2>2. /\ health = "HEALTHY" /\ worker' \in {"sending", "chunked"}
        /\ unsent' = In(pending) /\ failed' = {}
        /\ UNCHANGED <<node, latest, health, startPc, startUsers, stopPc, fullPc,
                       bulkPc, checked>>
    BY <1>2 DEF Drain
  <2>3. NoDirectPath' /\ Connecting' /\ BatchInv'
    BY <2>1, <2>2 DEF In
  <2>4. VersionInv'
    BY <1>a, <2>1, <2>2 DEF NoOne
  <2>5. Covered'
    BY <1>a, <2>1, <2>2 DEF NoOne
  <2> QED
    BY <2>3, <2>4, <2>5
<1>3. ASSUME NEW u \in Users, SendUser(u) \/ SendUserFails(u)
      PROVE  QueueInv'
  <2>1. /\ worker = "sending" /\ u \in unsent
        /\ node' \in {node, [node EXCEPT ![u] = drained[u]]}
        /\ \/ node' = [node EXCEPT ![u] = drained[u]] /\ failed' = failed
           \/ failed' = failed \cup {u}
        /\ unsent' = unsent \ {u}
        /\ UNCHANGED <<worker, drained, pending, latest, health, startPc, startUsers,
                       stopPc, fullPc, bulkPc, checked>>
    BY <1>3 DEF SendUser, SendUserFails
  <2>2. \A v \in Users : \/ node'[v] = node[v]
                         \/ v = u /\ node'[v] = drained[v] /\ drained[v] # 0
    BY <2>1 DEF TypeOK, In
  <2>3. NoDirectPath' /\ Connecting'
    BY <2>1
  <2>4. BatchInv'
    BY <2>1 DEF TypeOK, In
  <2>5. VersionInv'
    BY <1>a, <2>1, <2>2
  <2>6. startPc = "done"
    BY <2>1 DEF TypeOK, In, NoOne
  <2>7. Covered'
    BY <1>a, <2>1, <2>2, <2>6
  <2> QED
    BY <2>3, <2>4, <2>5, <2>7
<1>4. CASE BatchSent
  BY <1>4 DEF BatchSent, NoBatch, In, NoOne, TypeOK
<1>5. CASE BatchPartlyFailed
  <2>1. failed \in SUBSET Users /\ Requeue(failed) /\ NoBatch
    BY <1>5 DEF BatchPartlyFailed, TypeOK
  <2>2. \A u \in Users : u \in failed \/ node[u] = drained[u] \/ drained[u] = 0
    BY <1>5 DEF BatchPartlyFailed, In
  <2>3. VersionInv' /\ Covered'
    BY <1>5, <2>1, <2>2, RequeueKeeps DEF BatchPartlyFailed
  <2>4. NoDirectPath' /\ Connecting' /\ BatchInv'
    BY <1>5 DEF BatchPartlyFailed, NoBatch
  <2> QED
    BY <2>3, <2>4
<1>6. CASE StreamFails
  <2>1. In(drained) \in SUBSET Users /\ Requeue(In(drained)) /\ NoBatch
    BY <1>6 DEF StreamFails, In
  <2>2. \A u \in Users : u \in In(drained) \/ node[u] = drained[u] \/ drained[u] = 0
    BY DEF In
  <2>3. VersionInv' /\ Covered'
    BY <1>6, <2>1, <2>2, RequeueKeeps DEF StreamFails
  <2>4. NoDirectPath' /\ Connecting' /\ BatchInv'
    BY <1>6 DEF StreamFails, NoBatch
  <2> QED
    BY <2>3, <2>4
<1>7. CASE ChunkedBegins
  BY <1>7 DEF ChunkedBegins
<1>8. CASE ChunkedSent
  BY <1>8 DEF ChunkedSent, Apply, NoBatch, In, NoOne, TypeOK
<1>9. CASE ChunkedFails
  BY <1>9 DEF ChunkedFails, Requeue, Apply, NoBatch, In, NoOne, TypeOK
<1> QED
  BY <1>1, <1>2, <1>3, <1>4, <1>5, <1>6, <1>7, <1>8, <1>9 DEF WorkerStep

LEMMA QueueStart ==
  ASSUME TypeOK, QueueInv, Start \/ StartStep
  PROVE  QueueInv'
<1> USE DEF NotStarting, queueVars, workerVars, fullVars, bulkVars
<1> USE DEF QueueInv, NoDirectPath, Connecting, BatchInv, VersionInv, Covered
<1>a. ASSUME NEW u \in Users
      PROVE  latest[u] \in Nat
  BY <1>a, ConstantsAssumption DEF TypeOK, Versions
<1>1. CASE Start
  BY <1>1, <1>a DEF Start
<1>2. CASE StartLocked
  BY <1>2 DEF StartLocked
<1>3. CASE NodeStarts
  <2>1. drained = NoOne
    BY <1>3 DEF NodeStarts
  <2> QED
    BY <1>3, <2>1 DEF NodeStarts, NoOne, In
<1>4. CASE StartFails
  BY <1>4 DEF StartFails
<1>5. CASE Connected
  BY <1>5 DEF Connected
<1>6. CASE ConnectRefused
  BY <1>6 DEF ConnectRefused, CancelWorker
<1>7. CASE StartDisconnected
  <2>1. /\ pending' = NoOne /\ drained' = NoOne /\ unsent' = {} /\ failed' = {}
        /\ worker' \in {"none", "ready"} /\ startPc' = "done"
        /\ health' \notin {"HEALTHY", "BROKEN"} /\ checked = "none"
        /\ UNCHANGED <<node, latest, startUsers, stopPc, fullPc, bulkPc, checked>>
    BY <1>7 DEF StartDisconnected, ClearQueue, NoBatch
  <2> QED
    BY <1>a, <2>1 DEF NoOne
<1> QED
  BY <1>1, <1>2, <1>3, <1>4, <1>5, <1>6, <1>7 DEF StartStep

LEMMA QueueStop ==
  ASSUME TypeOK, QueueInv, ShutdownNode \/ StopNode \/ StopStep
  PROVE  QueueInv'
<1> USE DEF NotStopping, queueVars, workerVars, startVars, fullVars, bulkVars
<1> USE DEF QueueInv, NoDirectPath, Connecting, BatchInv, VersionInv, Covered
<1>1. CASE ShutdownNode
  BY <1>1 DEF ShutdownNode, SetHealth
<1>2. CASE StopNode
  BY <1>2 DEF StopNode
<1>3. CASE StopLocked
  BY <1>3 DEF StopLocked, CancelWorker
<1>4. CASE StopDisconnected
  <2>1. /\ pending' = NoOne /\ drained' = NoOne /\ unsent' = {} /\ failed' = {}
        /\ worker' \in {"none", "ready"} /\ stopPc' = "rpc"
        /\ health' \notin {"HEALTHY", "BROKEN"}
        /\ UNCHANGED <<node, latest, startUsers, startPc, fullPc, bulkPc, checked>>
    BY <1>4 DEF StopDisconnected, ClearQueue, NoBatch
  <2> QED
    BY <2>1 DEF NoOne
<1>5. CASE Stopped
  BY <1>5 DEF Stopped
<1> QED
  BY <1>1, <1>2, <1>3, <1>4, <1>5 DEF StopStep

LEMMA QueueCheck ==
  ASSUME TypeOK, QueueInv, CheckBegins \/ CheckOk \/ CheckFails
  PROVE  QueueInv'
<1>1. /\ UNCHANGED <<node, latest, pending, worker, drained, unsent, failed, startPc,
                     startUsers, stopPc, fullPc, bulkPc>>
      /\ \/ checked' = "none"
         \/ checked' = health /\ health' = health
      /\ (health \in {"HEALTHY", "BROKEN"}) \/ checked # "none"
      /\ health' \in {"HEALTHY", "BROKEN"} \/ (health' = health)
  BY DEF TypeOK, Healths, CheckBegins, CheckOk, CheckFails, SetHealth, NotChecking,
         queueVars, workerVars, startVars, fullVars, bulkVars
<1>2. health = "INVALID" => health' = health
  BY DEF CheckBegins, CheckOk, CheckFails, SetHealth
<1>3. NoDirectPath' /\ BatchInv' /\ VersionInv'
  BY <1>1 DEF QueueInv, NoDirectPath, BatchInv, VersionInv
<1>4. Connecting'
  BY <1>1, <1>2 DEF QueueInv, Connecting
<1>5. Covered'
  BY <1>1, <1>2 DEF QueueInv, Connecting, Covered
<1> QED
  BY <1>3, <1>4, <1>5 DEF QueueInv

LEMMA QueueUpdate ==
  ASSUME TypeOK, QueueInv, NEW S \in SUBSET Users, UpdateUsers(S)
  PROVE  QueueInv'
<1> USE DEF QueueInv, NoDirectPath, Connecting, BatchInv, VersionInv, Covered
<1>1. /\ UNCHANGED <<node, drained, unsent, failed, health, startPc, startUsers,
                     stopPc, fullPc, bulkPc, checked>>
      /\ worker' = worker \/ (worker = "none" /\ worker' = "ready")
  BY DEF UpdateUsers, EnsureSyncWorkerRunning, startVars, fullVars, bulkVars
<1>2. ASSUME NEW u \in Users
      PROVE  /\ node[u] \in Nat /\ latest[u] \in Nat /\ pending[u] \in Nat
             /\ drained[u] \in Nat /\ startUsers[u] \in Nat
             /\ \/ u \in S /\ latest'[u] = latest[u] + 1 /\ pending'[u] = latest[u] + 1
                \/ latest'[u] = latest[u] /\ pending'[u] = pending[u]
  BY <1>2, ConstantsAssumption DEF TypeOK, Versions, UpdateUsers, Apply
<1>3. NoDirectPath' /\ Connecting' /\ BatchInv'
  BY <1>1
<1>4. VersionInv'
  BY <1>1, <1>2
<1>5. Covered'
  BY <1>1, <1>2
<1> QED
  BY <1>3, <1>4, <1>5

LEMMA QueueStep ==
  ASSUME Callers = {}
  PROVE  TypeOK /\ QueueInv /\ [Next]_vars => QueueInv'
<1> SUFFICES ASSUME TypeOK, QueueInv, [Next]_vars
             PROVE  QueueInv'
  OBVIOUS
<1>1. CASE WorkerStep \/ IdleTimeout
  BY <1>1, QueueWorker
<1>2. CASE Start \/ StartStep
  BY <1>2, QueueStart
<1>3. CASE ShutdownNode \/ StopNode \/ StopStep
  BY <1>3, QueueStop
<1>4. CASE CheckBegins \/ CheckOk \/ CheckFails
  BY <1>4, QueueCheck
<1>5. ASSUME NEW S \in SUBSET Users, UpdateUsers(S)
      PROVE  QueueInv'
  BY <1>5, QueueUpdate
<1>6. ASSUME NEW S \in SUBSET Users
      PROVE  ~BulkUpdate(S)
  BY DEF BulkUpdate
<1>7. ~(\E flush \in BOOLEAN : FullSync(flush))
  BY DEF FullSync
<1>8. ~FullStep /\ ~BulkStep
  BY DEF QueueInv, NoDirectPath, FullStep, FullSyncLocked, FullSyncDone, BulkStep,
         BulkLocked, BulkDone, BulkFails, BulkStreamed
<1>9. CASE UNCHANGED vars
  BY <1>9 DEF vars, queueVars, workerVars, startVars, fullVars, bulkVars, QueueInv,
              NoDirectPath, Connecting, BatchInv, VersionInv, Covered
<1> QED
  BY <1>1, <1>2, <1>3, <1>4, <1>5, <1>6, <1>7, <1>8, <1>9 DEF Next

LEMMA QueueCorrect ==
  ASSUME Callers = {}
  PROVE  Spec => []QueueInv
<1>1. Init => QueueInv
  BY DEF Init, QueueInv, NoDirectPath, Connecting, BatchInv, VersionInv, Covered, NoOne
<1>2. TypeOK /\ QueueInv /\ [Next]_vars => QueueInv'
  BY QueueStep
<1> QED
  BY <1>1, <1>2, TypeCorrect, PTL DEF Spec

\* "Latest version wins": what is queued for a user is its latest change, however a
\* batch that failed and the changes made meanwhile interleave.
THEOREM QueuedIsLatest ==
  ASSUME Callers = {}
  PROVE  Spec => []PendingIsLatest
<1>1. QueueInv => PendingIsLatest
  BY DEF QueueInv, VersionInv, PendingIsLatest, In
<1> QED
  BY <1>1, QueueCorrect, PTL

\* While the controller is up the latest change of each user is on the node, queued
\* or in the batch, over failing batches, changes made during start and restarts
\* of the worker.
THEOREM NothingLost ==
  ASSUME Callers = {}
  PROVE  Spec => []NoUpdateLost
<1>1. QueueInv => NoUpdateLost
  BY DEF QueueInv, Covered, NoUpdateLost, Up
<1> QED
  BY <1>1, QueueCorrect, PTL

\* While the controller is up no step replaces a user on the node by an older one:
\* only the worker writes to the node then, and its batch is never behind the node.
THEOREM NodeMovesForward ==
  ASSUME Callers = {}
  PROVE  Spec => NodeNeverGoesBack
<1>1. ASSUME TypeOK, QueueInv, [Next]_vars, Up, NEW u \in Users
      PROVE  node'[u] >= node[u]
  <2>1. node[u] \in Nat /\ (drained[u] # 0 => node[u] <= drained[u])
    BY <1>1, ConstantsAssumption DEF TypeOK, Versions, QueueInv, VersionInv
  <2>2. SUFFICES node'[u] = node[u] \/ (drained[u] # 0 /\ node'[u] = drained[u])
    BY <1>1, <2>1, ConstantsAssumption DEF TypeOK, Versions, QueueInv, VersionInv
  <2>3. CASE WorkerStep \/ IdleTimeout
    <3>1. ASSUME NEW v \in Users, SendUser(v) \/ SendUserFails(v)
          PROVE  node'[u] = node[u] \/ (drained[u] # 0 /\ node'[u] = drained[u])
      BY <1>1, <3>1 DEF SendUser, SendUserFails, TypeOK, QueueInv, BatchInv, In
    <3>2. CASE ChunkedSent \/ ChunkedFails
      BY <3>2 DEF ChunkedSent, ChunkedFails, Apply, In
    <3>3. CASE \/ GoToSleep \/ WorkerExits \/ IdleTimeout \/ WaitWhileBroken
               \/ BackoffEnds \/ Drain \/ BatchSent \/ BatchPartlyFailed
               \/ StreamFails \/ ChunkedBegins
      BY <3>3 DEF GoToSleep, WorkerExits, IdleTimeout, WaitWhileBroken, BackoffEnds,
                  Drain, BatchSent, BatchPartlyFailed, StreamFails, ChunkedBegins
    <3> QED
      BY <2>3, <3>1, <3>2, <3>3 DEF WorkerStep
  <2>4. CASE Start \/ StartStep
    BY <1>1, <2>4 DEF Up, Start, StartStep, StartLocked, NodeStarts, StartFails,
                      Connected, ConnectRefused, StartDisconnected
  <2>5. CASE \/ ShutdownNode \/ StopNode \/ StopStep
             \/ CheckBegins \/ CheckOk \/ CheckFails
             \/ \E S \in SUBSET Users : UpdateUsers(S) \/ BulkUpdate(S)
             \/ \E flush \in BOOLEAN : FullSync(flush)
    BY <2>5 DEF ShutdownNode, StopNode, StopStep, StopLocked, StopDisconnected, Stopped,
                NotStopping, CheckBegins, CheckOk, CheckFails, NotChecking,
                UpdateUsers, BulkUpdate, FullSync
  <2>6. ~FullStep /\ ~BulkStep
    BY <1>1 DEF QueueInv, NoDirectPath, FullStep, FullSyncLocked, FullSyncDone,
                BulkStep, BulkLocked, BulkDone, BulkFails, BulkStreamed
  <2>7. CASE UNCHANGED vars
    BY <2>7 DEF vars
  <2> QED
    BY <1>1, <2>3, <2>4, <2>5, <2>6, <2>7 DEF Next
<1>2. TypeOK /\ QueueInv /\ [Next]_vars =>
        [Up => \A u \in Users : node'[u] >= node[u]]_vars
  BY <1>1
<1> QED
  BY <1>2, TypeCorrect, QueueCorrect, PTL DEF Spec, NodeNeverGoesBack
=============================================================================
