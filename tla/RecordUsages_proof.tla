------------------------- MODULE RecordUsages_proof -------------------------
(***************************************************************************)
(* Proofs about RecordUsages, for every set of users, admins and nodes,    *)
(* every coefficient and every number of faults.                           *)
(***************************************************************************)
EXTENDS RecordUsages, FiniteSetTheorems, WellFoundedInduction, TLAPS

\* int(value * coeff) of a natural value is a natural number.
LEMMA ScaleNat ==
  ASSUME NEW v \in Nat, NEW c \in Nat
  PROVE  Scale(v, c) \in Nat
<1>1. v * c \in Nat
  OBVIOUS
<1>2. \A x \in Nat, d \in Nat \ {0} : x \div d \in Nat
  OBVIOUS
<1> QED
  BY <1>1, <1>2, ConstantsAssumption DEF Scale

\* No traffic costs nothing at any coefficient.
LEMMA ScaleZero ==
  ASSUME NEW c \in Nat
  PROVE  Scale(0, c) = 0
<1>1. 0 * c = 0
  OBVIOUS
<1>2. \A d \in Nat \ {0} : 0 \div d = 0
  OBVIOUS
<1> QED
  BY <1>1, <1>2, ConstantsAssumption DEF Scale

\* Every entry of a table of naturals, scaled by the coefficient of its node,
\* is a natural number.
LEMMA ScaledEntry ==
  ASSUME NEW p \in Usages, NEW c \in [Nodes -> Coefficients],
         NEW n \in Nodes, NEW u \in Users
  PROVE  Scale(p[n][u], c[n]) \in Nat
<1>1. p[n][u] \in Nat
  BY DEF Usages
<1>2. c[n] \in Nat
  BY ConstantsAssumption
<1> QED
  BY <1>1, <1>2, ScaleNat

LEMMA InitType == Init => TypeOK
BY ConstantsAssumption
   DEF Init, TypeOK, Usages, NoRows, NoUsers, NoAdmins, Unit, PCs

\* What the end of a cycle leaves in the locals is of the right type.
LEMMA EndCycleType ==
  ASSUME EndCycle
  PROVE  /\ pc' \in PCs
         /\ todo' \subseteq Nodes \cup Users
         /\ win' \in Usages
         /\ winCoeff' \in [Nodes -> Coefficients]
         /\ usersUsage' \in [Users -> Nat]
         /\ valid' \subseteq Users
         /\ adminUsage' \in [Admins -> Nat]
         /\ attempt' \in 0 .. MaxRetries - 1
         /\ batch' \in Usages
         /\ batchCoeff' \in [Nodes -> Coefficients]
         /\ rows' \subseteq Nodes \X Users
BY ConstantsAssumption
   DEF EndCycle, Usages, NoRows, NoUsers, NoAdmins, Unit, PCs

LEMMA EnvironmentType == TypeOK /\ Environment => TypeOK'
<1> SUFFICES ASSUME TypeOK, Environment
             PROVE  TypeOK'
  OBVIOUS
<1> USE DEF TypeOK, Usages
<1>1. ASSUME NEW n \in Nodes, NEW u \in Users, Traffic(n, u)
      PROVE  TypeOK'
  BY <1>1, ConstantsAssumption
     DEF Traffic, userVars, adminVars, carryVars, usageVars, batchVars, history
<1>2. ASSUME NEW n \in Nodes, NEW c \in Coefficients, SetCoefficient(n, c)
      PROVE  TypeOK'
  BY <1>2 DEF SetCoefficient, userVars, adminVars, carryVars, usageVars,
              batchVars, history
<1>3. ASSUME NEW u \in Users, DeleteUser(u)
      PROVE  TypeOK'
  BY <1>3 DEF DeleteUser, nodeVars, adminVars, carryVars, usageVars,
              batchVars, history
<1> QED
  BY <1>1, <1>2, <1>3 DEF Environment

\* Scaled amounts added to a ledger of naturals leave it one.
LEMMA ResetType ==
  ASSUME TypeOK, NEW n \in Nodes, ResetCounters(n)
  PROVE  counter' \in Usages /\ due' \in [Users -> Nat] /\ dueChart' \in Usages
<1>1. \A u \in Users : Scale(counter[n][u], winCoeff[n]) \in Nat
  BY ScaledEntry DEF TypeOK
<1>2. NoUsers \in [Users -> Nat]
  BY DEF NoUsers
<1> QED
  BY <1>1, <1>2 DEF TypeOK, Usages, ResetCounters

\* The chart stays a table of naturals when rows of the batch are added.
LEMMA AddToChartType ==
  ASSUME TypeOK, NEW b
  PROVE  AddToChart(b) \in Usages
<1>1. \A n \in Nodes, u \in Users : Scale(batch[n][u], batchCoeff[n]) \in Nat
  BY ScaledEntry DEF TypeOK
<1> QED
  BY <1>1 DEF TypeOK, Usages, AddToChart

LEMMA CycleType == TypeOK /\ Cycle => TypeOK'
<1> SUFFICES ASSUME TypeOK, Cycle
             PROVE  TypeOK'
  OBVIOUS
<1> USE DEF nodeVars, userVars, adminVars, carryVars, usageVars, batchVars,
            history
<1>1. ASSUME NEW n \in Nodes, CollectNode(n)
      PROVE  TypeOK'
  <2>1. \A u \in Users : Scale(counter[n][u], winCoeff[n]) \in Nat
    BY ScaledEntry DEF TypeOK
  <2>2. usersUsage' \in [Users -> Nat]
    BY <1>1, <2>1 DEF CollectNode, AddUsage, TypeOK
  <2>3. win' \in Usages
    BY <1>1 DEF CollectNode, TypeOK, Usages
  <2> QED
    BY <1>1, <2>2, <2>3, ResetType DEF CollectNode, TypeOK
<1>2. ASSUME Collected
      PROVE  TypeOK'
  <2>1. CASE EndCycle
    BY <1>2, <2>1, EndCycleType DEF Collected, TypeOK
  <2>2. CASE ~EndCycle
    BY <1>2, <2>2 DEF Collected, TypeOK, PCs, Reported
  <2> QED
    BY <2>1, <2>2
<1>3. ASSUME NEW u \in Users, LookupUser(u)
      PROVE  TypeOK'
  BY <1>3, ConstantsAssumption DEF LookupUser, TypeOK
<1>4. ASSUME Fold
      PROVE  TypeOK'
  <2>1. CASE EndCycle /\ UNCHANGED carriedUser
    BY <1>4, <2>1, EndCycleType DEF Fold, TypeOK
  <2>2. CASE ~(EndCycle /\ UNCHANGED carriedUser)
    BY <1>4, <2>2 DEF Fold, TypeOK, PCs, MergeUsage, MergeAdminUsage, NoUsers
  <2> QED
    BY <2>1, <2>2
<1>5. ASSUME CommitUsers
      PROVE  TypeOK'
  BY <1>5, ConstantsAssumption
     DEF CommitUsers, TypeOK, PCs, AddToUsers, NoUsers, NoAdmins
<1>6. ASSUME CommitAdmins
      PROVE  TypeOK'
  BY <1>6, ConstantsAssumption
     DEF CommitAdmins, TypeOK, PCs, AddToAdmins, NoAdmins
<1>7. ASSUME Enforce
      PROVE  TypeOK'
  BY <1>7, ConstantsAssumption DEF Enforce, TypeOK, PCs, OverLimit, Fault
<1>8. ASSUME RetryRows
      PROVE  TypeOK'
  BY <1>8, ConstantsAssumption
     DEF RetryRows, WriteRows, RowsOf, TypeOK, PCs, NoRows, NoUsers, Unit,
         Usages
<1>9. ASSUME FreshRows
      PROVE  TypeOK'
  BY <1>9, ConstantsAssumption
     DEF FreshRows, WriteRows, RowsOf, FilteredParams, TypeOK, PCs, NoRows,
         NoUsers, Usages
<1>10. ASSUME NoMoreRows
       PROVE  TypeOK'
  BY <1>10, EndCycleType DEF NoMoreRows, TypeOK
<1>11. ASSUME NEW b \in SUBSET rows, CommitRows(b)
       PROVE  TypeOK'
  <2>1. chart' \in Usages
    BY <1>11, AddToChartType DEF CommitRows
  <2>2. CASE EndCycle
    BY <1>11, <2>1, <2>2, EndCycleType DEF CommitRows, TypeOK
  <2>3. CASE ~EndCycle
    BY <1>11, <2>1, <2>3, ConstantsAssumption
       DEF CommitRows, TypeOK, PCs, NoRows, NoUsers, Unit, Usages
  <2> QED
    BY <2>2, <2>3
<1> QED
  BY <1>1, <1>2, <1>3, <1>4, <1>5, <1>6, <1>7, <1>8, <1>9, <1>10, <1>11
     DEF Cycle

LEMMA FailureType == TypeOK /\ Failure => TypeOK'
<1> SUFFICES ASSUME TypeOK, Failure
             PROVE  TypeOK'
  OBVIOUS
<1> USE DEF nodeVars, userVars, adminVars, carryVars, usageVars, batchVars,
            history
<1>f. ASSUME NEW k \in FaultKinds, Fault(k)
      PROVE  faults' \in 0 .. MaxFaults
  BY <1>f, ConstantsAssumption DEF Fault, TypeOK
<1>1. ASSUME NEW n \in Nodes, NodeFails(n)
      PROVE  TypeOK'
  BY <1>1, <1>f, ResetType DEF NodeFails, TypeOK, FaultKinds
<1>2. ASSUME Deadlock
      PROVE  TypeOK'
  BY <1>2, <1>f, ConstantsAssumption DEF Deadlock, CanRetry, TypeOK, FaultKinds
<1>3. ASSUME RollBack
      PROVE  TypeOK'
  BY <1>3, <1>f, EndCycleType DEF RollBack, Park, TypeOK, FaultKinds
<1>4. ASSUME MaybeLanded
      PROVE  /\ userUsed' \in [Users -> Nat]
             /\ adminUsed' \in [Admins -> Nat]
             /\ chart' \in Usages
  <2>1. ASSUME NEW b \in NextBatches
        PROVE  AddToChart(b) \in Usages
    BY AddToChartType
  <2> QED
    BY <1>4, <2>1 DEF MaybeLanded, AddToUsers, AddToAdmins, TypeOK
<1>5. ASSUME Ambiguous
      PROVE  TypeOK'
  BY <1>5, <1>f, <1>4, EndCycleType DEF Ambiguous, TypeOK, FaultKinds
<1>6. ASSUME Crash
      PROVE  TypeOK'
  BY <1>6, <1>f, <1>4, EndCycleType, ConstantsAssumption
     DEF Crash, TypeOK, FaultKinds, NoUsers, NoAdmins, NoRows, Unit, Usages
<1> QED
  BY <1>1, <1>2, <1>3, <1>5, <1>6 DEF Failure

LEMMA StartCycleType ==
  ASSUME TypeOK, NEW healthy \in SUBSET Nodes, StartCycle(healthy)
  PROVE  TypeOK'
BY ConstantsAssumption
   DEF StartCycle, Fault, TypeOK, PCs, nodeVars, userVars, adminVars,
       carryVars, usageVars, batchVars, history

LEMMA NextType == TypeOK /\ [Next]_vars => TypeOK'
<1> SUFFICES ASSUME TypeOK, [Next]_vars
             PROVE  TypeOK'
  OBVIOUS
<1>1. CASE UNCHANGED vars
  BY <1>1 DEF TypeOK, vars, nodeVars, userVars, adminVars, carryVars,
              usageVars, batchVars, history
<1> QED
  BY <1>1, EnvironmentType, StartCycleType, CycleType, FailureType DEF Next

\* Type correctness: in every behaviour the job's buffers hold natural amounts
\* per id and safe_execute stays within its attempts.
THEOREM TypeCorrect == Spec => []TypeOK
BY InitType, NextType, PTL DEF Spec

-----------------------------------------------------------------------------
(***************************************************************************)
(* No user is billed twice.  UserNeverOverbilled is not inductive: a       *)
(* window in flight is in neither the table nor the buffer.  The ledger    *)
(* adds what the running cycle holds.                                      *)
(***************************************************************************)
\* Whatever fails, and wherever, no user is billed for more than the traffic
\* that was taken off the nodes, counting what a buffer will still add.  This
\* is what _write_rolled_back and the emptying of _carried_user_usage before
\* the write are for.
UserNeverOverbilled ==
  \A u \in Users : userUsed[u] + carriedUser[u] <= due[u]

\* The same with what the running cycle holds.
UserLedger ==
  \A u \in Users : userUsed[u] + carriedUser[u] + usersUsage[u] <= due[u]

\* A step that touches none of the four columns of the ledger keeps it.
LEMMA UserLedgerFrame ==
  ASSUME UserLedger, UNCHANGED <<userUsed, carriedUser, usersUsage, due>>
  PROVE  UserLedger'
BY DEF UserLedger

\* Ending the cycle drops what is in flight; the rest of the ledger stays.
LEMMA UserLedgerDrop ==
  ASSUME TypeOK, UserLedger, EndCycle,
         UNCHANGED <<userUsed, carriedUser, due>>
  PROVE  UserLedger'
BY DEF TypeOK, UserLedger, EndCycle, NoUsers

\* A write whose outcome is unknown either landed or did not, and its window
\* is in no buffer afterwards.
LEMMA UserLedgerLanded ==
  ASSUME TypeOK, UserLedger, MaybeLanded, EndCycle, UNCHANGED due,
         \/ UNCHANGED carriedUser
         \/ carriedUser' = NoUsers
  PROVE  UserLedger'
<1> SUFFICES ASSUME NEW u \in Users
             PROVE  userUsed'[u] + carriedUser'[u] + usersUsage'[u] <= due'[u]
  BY DEF UserLedger
<1>1. /\ userUsed[u] \in Nat /\ carriedUser[u] \in Nat /\ usersUsage[u] \in Nat
      /\ due[u] \in Nat
      /\ userUsed[u] + carriedUser[u] + usersUsage[u] <= due[u]
  BY DEF TypeOK, UserLedger
<1>2. /\ userUsed'[u] \in Nat
      /\ userUsed'[u] <= userUsed[u] + usersUsage[u]
  BY <1>1 DEF MaybeLanded, AddToUsers
<1>3. carriedUser'[u] \in Nat /\ carriedUser'[u] <= carriedUser[u]
  BY <1>1 DEF NoUsers
<1>4. usersUsage'[u] = 0
  BY DEF EndCycle, NoUsers
<1> QED
  BY <1>1, <1>2, <1>3, <1>4

LEMMA UserLedgerStep == TypeOK /\ UserLedger /\ [Next]_vars => UserLedger'
<1> SUFFICES ASSUME TypeOK, UserLedger, [Next]_vars
             PROVE  UserLedger'
  OBVIOUS
<1> USE DEF nodeVars, userVars, adminVars, carryVars, usageVars, batchVars,
            history
<1>1. ASSUME NEW n \in Nodes, ResetCounters(n), UNCHANGED <<userUsed, carriedUser>>,
             \/ usersUsage' = AddUsage(n)
             \/ UNCHANGED usersUsage
      PROVE  UserLedger'
  <2> SUFFICES ASSUME NEW u \in Users
               PROVE  userUsed'[u] + carriedUser'[u] + usersUsage'[u] <= due'[u]
    BY DEF UserLedger
  <2> DEFINE s == Scale(counter[n][u], winCoeff[n])
  <2>1. s \in Nat
    BY ScaledEntry DEF TypeOK
  <2>2. /\ userUsed[u] \in Nat /\ carriedUser[u] \in Nat
        /\ usersUsage[u] \in Nat /\ due[u] \in Nat
        /\ userUsed[u] + carriedUser[u] + usersUsage[u] <= due[u]
    BY DEF TypeOK, UserLedger
  <2>3. due'[u] = due[u] + s
    BY <1>1 DEF ResetCounters
  <2>4. usersUsage'[u] = usersUsage[u] + s \/ usersUsage'[u] = usersUsage[u]
    BY <1>1 DEF AddUsage
  <2> HIDE DEF s
  <2> QED
    BY <1>1, <2>1, <2>2, <2>3, <2>4
<1>2. CASE Environment
  BY <1>2, UserLedgerFrame DEF Environment, Traffic, SetCoefficient, DeleteUser
<1>3. ASSUME NEW healthy \in SUBSET Nodes, StartCycle(healthy)
      PROVE  UserLedger'
  BY <1>3, UserLedgerFrame DEF StartCycle
<1>4. CASE Cycle
  <2>1. ASSUME NEW n \in Nodes, CollectNode(n)
        PROVE  UserLedger'
    BY <1>1, <2>1 DEF CollectNode
  <2>2. CASE Collected
    BY <2>2, UserLedgerFrame, UserLedgerDrop DEF Collected
  <2>3. ASSUME NEW u \in Users, LookupUser(u)
        PROVE  UserLedger'
    BY <2>3, UserLedgerFrame DEF LookupUser
  <2>4. CASE Fold
    <3>1. CASE EndCycle /\ UNCHANGED carriedUser
      BY <2>4, <3>1, UserLedgerDrop DEF Fold
    <3>2. CASE usersUsage' = MergeUsage /\ carriedUser' = NoUsers
      BY <2>4, <3>2 DEF Fold, MergeUsage, NoUsers, TypeOK, UserLedger
    <3> QED
      BY <2>4, <3>1, <3>2 DEF Fold
  <2>5. CASE CommitUsers
    BY <2>5 DEF CommitUsers, AddToUsers, NoUsers, TypeOK, UserLedger
  <2>6. CASE CommitAdmins \/ Enforce \/ RetryRows \/ FreshRows
    BY <2>6, UserLedgerFrame
       DEF CommitAdmins, Enforce, RetryRows, FreshRows
  <2>7. CASE NoMoreRows
    BY <2>7, UserLedgerDrop DEF NoMoreRows
  <2>8. ASSUME NEW b \in SUBSET rows, CommitRows(b)
        PROVE  UserLedger'
    BY <2>8, UserLedgerFrame, UserLedgerDrop DEF CommitRows
  <2> QED
    BY <1>4, <2>1, <2>2, <2>3, <2>4, <2>5, <2>6, <2>7, <2>8 DEF Cycle
<1>5. CASE Failure
  <2>1. ASSUME NEW n \in Nodes, NodeFails(n)
        PROVE  UserLedger'
    BY <1>1, <2>1, UserLedgerFrame DEF NodeFails
  <2>2. CASE Deadlock
    BY <2>2, UserLedgerFrame DEF Deadlock
  <2>3. CASE RollBack
    BY <2>3 DEF RollBack, Park, EndCycle, NoUsers, TypeOK, UserLedger
  <2>4. CASE Ambiguous
    BY <2>4, UserLedgerLanded DEF Ambiguous
  <2>5. CASE Crash
    BY <2>5, UserLedgerLanded DEF Crash
  <2> QED
    BY <1>5, <2>1, <2>2, <2>3, <2>4, <2>5 DEF Failure
<1>6. CASE UNCHANGED vars
  BY <1>6, UserLedgerFrame DEF vars
<1> QED
  BY <1>2, <1>3, <1>4, <1>5, <1>6 DEF Next

\* No double billing: whatever mix of deadlocks, ambiguous failures, timeouts,
\* crashes and lost answers a behaviour has, and however many users and nodes
\* there are, a user's used_traffic plus what the carry buffer still holds for
\* it never exceeds the scaled traffic that was taken off the nodes.
THEOREM NoDoubleBilling == Spec => []UserNeverOverbilled
<1>1. Init => UserLedger
  BY DEF Init, UserLedger, NoUsers
<1>2. TypeOK /\ UserLedger => UserNeverOverbilled
  BY DEF TypeOK, UserLedger, UserNeverOverbilled
<1> QED
  BY <1>1, <1>2, TypeCorrect, UserLedgerStep, PTL DEF Spec

-----------------------------------------------------------------------------
(***************************************************************************)
(* The chart, where one statement writes a whole batch (BatchSize = 0).    *)
(* The ledger of a chart cell counts the parked batch, the batch being     *)
(* written and the window not yet batched, each at its own coefficients.   *)
(***************************************************************************)
Held(p, c, n, u) == Scale(p[n][u], c[n])

ChartLedger ==
  \A n \in Nodes, u \in Users :
    chart[n][u] + Held(carriedParams, carriedCoeff, n, u)
                + Held(batch, batchCoeff, n, u)
                + Held(win, winCoeff, n, u) <= dueChart[n][u]

\* Between cycles no window is held, so that the snapshot of the coefficients
\* at the start of the next one re-scales nothing.
IdleIsEmpty == pc = "idle" => win = NoRows

ChartInv == ChartLedger /\ IdleIsEmpty

\* The amounts of one cell are natural numbers and satisfy the ledger.
LEMMA ChartCell ==
  ASSUME TypeOK, ChartLedger, NEW n \in Nodes, NEW u \in Users
  PROVE  /\ chart[n][u] \in Nat /\ dueChart[n][u] \in Nat
         /\ Held(carriedParams, carriedCoeff, n, u) \in Nat
         /\ Held(batch, batchCoeff, n, u) \in Nat
         /\ Held(win, winCoeff, n, u) \in Nat
         /\ chart[n][u] + Held(carriedParams, carriedCoeff, n, u)
                + Held(batch, batchCoeff, n, u)
                + Held(win, winCoeff, n, u) <= dueChart[n][u]
<1>1. chart[n][u] \in Nat /\ dueChart[n][u] \in Nat
  BY DEF TypeOK, Usages
<1> QED
  BY <1>1, ScaledEntry DEF TypeOK, Held, ChartLedger

\* Nothing is held in an empty table, at whatever coefficients.
LEMMA HeldNothing ==
  ASSUME NEW c \in [Nodes -> Coefficients], NEW n \in Nodes, NEW u \in Users
  PROVE  Held(NoRows, c, n, u) = 0
<1>1. NoRows[n][u] = 0
  BY DEF NoRows, NoUsers
<1>2. c[n] \in Nat
  BY ConstantsAssumption
<1> QED
  BY <1>1, <1>2, ScaleZero DEF Held

LEMMA UnitType == Unit \in [Nodes -> Coefficients]
BY ConstantsAssumption DEF Unit

\* At the end of a cycle nothing is held but what is parked.
LEMMA EndCycleHeld ==
  ASSUME EndCycle, NEW n \in Nodes, NEW u \in Users
  PROVE  Held(batch, batchCoeff, n, u)' = 0 /\ Held(win, winCoeff, n, u)' = 0
<1>1. /\ batch' = NoRows /\ batchCoeff' = Unit
      /\ win' = NoRows /\ winCoeff' = Unit
  BY DEF EndCycle
<1> QED
  BY <1>1, HeldNothing, UnitType DEF Held

\* A statement adds at most what the batch holds for a cell.
LEMMA AddToChartCell ==
  ASSUME TypeOK, NEW b, NEW n \in Nodes, NEW u \in Users
  PROVE  /\ AddToChart(b)[n][u] \in Nat
         /\ AddToChart(b)[n][u] <= chart[n][u] + Held(batch, batchCoeff, n, u)
<1>1. chart[n][u] \in Nat /\ Held(batch, batchCoeff, n, u) \in Nat
  BY ScaledEntry DEF TypeOK, Usages, Held
<1> QED
  BY <1>1 DEF AddToChart, Held

LEMMA ChartFrame ==
  ASSUME ChartInv, pc' = "idle" => pc = "idle",
         UNCHANGED <<chart, carriedParams, carriedCoeff, batch, batchCoeff, win,
                     winCoeff, dueChart>>
  PROVE  ChartInv'
BY DEF ChartInv, ChartLedger, IdleIsEmpty, Held

\* The cycle ends with the chart at most one statement ahead and the buffer
\* unchanged or emptied.
LEMMA ChartDrop ==
  ASSUME TypeOK, ChartInv, EndCycle, UNCHANGED dueChart,
         UNCHANGED chart \/ \E b : chart' = AddToChart(b),
         \/ UNCHANGED <<carriedParams, carriedCoeff>>
         \/ carriedParams' = NoRows /\ carriedCoeff' = Unit
  PROVE  ChartInv'
<1>1. IdleIsEmpty'
  BY DEF EndCycle, IdleIsEmpty
<1>2. ASSUME NEW n \in Nodes, NEW u \in Users
      PROVE  chart'[n][u] + Held(carriedParams, carriedCoeff, n, u)'
                + Held(batch, batchCoeff, n, u)'
                + Held(win, winCoeff, n, u)' <= dueChart'[n][u]
  <2>1. /\ Held(carriedParams, carriedCoeff, n, u)' \in Nat
        /\ Held(carriedParams, carriedCoeff, n, u)'
             <= Held(carriedParams, carriedCoeff, n, u)
    BY ChartCell, HeldNothing, UnitType DEF ChartInv, Held
  <2>2. /\ chart'[n][u] \in Nat
        /\ chart'[n][u] <= chart[n][u] + Held(batch, batchCoeff, n, u)
    BY ChartCell, AddToChartCell DEF ChartInv
  <2> QED
    BY <2>1, <2>2, ChartCell, EndCycleHeld DEF ChartInv
<1> QED
  BY <1>1, <1>2 DEF ChartInv, ChartLedger, Held

LEMMA ChartStep ==
  ASSUME BatchSize = 0, TypeOK, ChartInv, [Next]_vars
  PROVE  ChartInv'
<1> USE DEF nodeVars, userVars, adminVars, carryVars, usageVars, batchVars,
            history
<1>0. TypeOK'
  BY NextType
<1>1. ASSUME NEW n \in Nodes, ResetCounters(n), pc' # "idle", UNCHANGED winCoeff,
             UNCHANGED <<chart, carriedParams, carriedCoeff, batch, batchCoeff>>,
             win' = [win EXCEPT ![n] = counter[n]] \/ UNCHANGED win
      PROVE  ChartInv'
  <2>1. ASSUME NEW m \in Nodes, NEW u \in Users
        PROVE  chart'[m][u] + Held(carriedParams, carriedCoeff, m, u)'
                  + Held(batch, batchCoeff, m, u)'
                  + Held(win, winCoeff, m, u)' <= dueChart'[m][u]
    <3> DEFINE s == Scale(counter[n][u], winCoeff[n])
    <3>1. s \in Nat
      BY ScaledEntry DEF TypeOK
    <3>2. \/ Held(win, winCoeff, m, u)' = Held(win, winCoeff, m, u)
          \/ m = n /\ Held(win, winCoeff, m, u)' = s
      BY <1>1 DEF Held, TypeOK, Usages
    <3>3. dueChart'[m][u] = IF m = n THEN dueChart[m][u] + s ELSE dueChart[m][u]
      BY <1>1 DEF ResetCounters, TypeOK, Usages
    <3>4. /\ chart'[m][u] = chart[m][u]
          /\ Held(carriedParams, carriedCoeff, m, u)'
               = Held(carriedParams, carriedCoeff, m, u)
          /\ Held(batch, batchCoeff, m, u)' = Held(batch, batchCoeff, m, u)
      BY <1>1 DEF Held
    <3> HIDE DEF s
    <3> QED
      BY <3>1, <3>2, <3>3, <3>4, ChartCell DEF ChartInv
  <2> QED
    BY <1>1, <2>1 DEF ChartInv, ChartLedger, IdleIsEmpty, Held
<1>2. CASE Environment
  <2>1. ASSUME NEW u \in Users, DeleteUser(u)
        PROVE  ChartInv'
    <3>1. ASSUME NEW m \in Nodes, NEW w \in Users
          PROVE  chart'[m][w] \in Nat /\ chart'[m][w] <= chart[m][w]
      BY <2>1 DEF DeleteUser, TypeOK, Usages
    <3>2. ASSUME NEW m \in Nodes, NEW w \in Users
          PROVE  chart'[m][w] + Held(carriedParams, carriedCoeff, m, w)
                    + Held(batch, batchCoeff, m, w)
                    + Held(win, winCoeff, m, w) <= dueChart[m][w]
      BY <3>1, ChartCell DEF ChartInv
    <3> QED
      BY <2>1, <3>2 DEF DeleteUser, ChartInv, ChartLedger, IdleIsEmpty, Held
  <2> QED
    BY <1>2, <2>1, ChartFrame DEF Environment, Traffic, SetCoefficient
<1>3. ASSUME NEW healthy \in SUBSET Nodes, StartCycle(healthy)
      PROVE  ChartInv'
  <2>1. win = NoRows /\ win' = NoRows
    BY <1>3 DEF StartCycle, ChartInv, IdleIsEmpty
  <2>2. ASSUME NEW n \in Nodes, NEW u \in Users
        PROVE  Held(win, winCoeff, n, u) = 0 /\ Held(win, winCoeff, n, u)' = 0
    <3>1. winCoeff \in [Nodes -> Coefficients] /\ winCoeff' \in [Nodes -> Coefficients]
      BY <1>0 DEF TypeOK
    <3> QED
      BY <2>1, <3>1, HeldNothing DEF Held
  <2>3. ASSUME NEW n \in Nodes, NEW u \in Users
        PROVE  chart'[n][u] + Held(carriedParams, carriedCoeff, n, u)'
                  + Held(batch, batchCoeff, n, u)'
                  + Held(win, winCoeff, n, u)' <= dueChart'[n][u]
    BY <1>3, <2>2, ChartCell DEF StartCycle, ChartInv, Held
  <2> QED
    BY <1>3, <2>3 DEF StartCycle, ChartInv, ChartLedger, IdleIsEmpty, Held
<1>4. CASE Cycle
  <2>1. ASSUME NEW n \in Nodes, CollectNode(n)
        PROVE  ChartInv'
    BY <1>1, <2>1 DEF CollectNode
  <2>2. CASE Collected
    BY <2>2, ChartFrame, ChartDrop DEF Collected
  <2>3. ASSUME NEW u \in Users, LookupUser(u)
        PROVE  ChartInv'
    BY <2>3, ChartFrame DEF LookupUser
  <2>4. CASE Fold
    BY <2>4, ChartFrame, ChartDrop DEF Fold
  <2>5. CASE CommitUsers \/ CommitAdmins \/ Enforce
    BY <2>5, ChartFrame DEF CommitUsers, CommitAdmins, Enforce
  <2>6. CASE RetryRows
    <3>1. ASSUME NEW n \in Nodes, NEW u \in Users
          PROVE  /\ Held(carriedParams, carriedCoeff, n, u)' = 0
                 /\ Held(batch, batchCoeff, n, u)'
                      = Held(carriedParams, carriedCoeff, n, u)
      BY <2>6, HeldNothing, UnitType DEF RetryRows, WriteRows, Held
    <3>2. ASSUME NEW n \in Nodes, NEW u \in Users
          PROVE  chart'[n][u] + Held(carriedParams, carriedCoeff, n, u)'
                    + Held(batch, batchCoeff, n, u)'
                    + Held(win, winCoeff, n, u)' <= dueChart'[n][u]
      BY <2>6, <3>1, ChartCell DEF RetryRows, ChartInv, Held
    <3> QED
      BY <2>6, <3>2
         DEF RetryRows, WriteRows, ChartInv, ChartLedger, IdleIsEmpty, Held
  <2>7. CASE FreshRows
    <3>1. ASSUME NEW n \in Nodes, NEW u \in Users
          PROVE  /\ Held(win, winCoeff, n, u)' = 0
                 /\ Held(batch, batchCoeff, n, u)'
                      \in {0, Held(win, winCoeff, n, u)}
      <4>1. winCoeff \in [Nodes -> Coefficients] /\ winCoeff[n] \in Nat
        BY ConstantsAssumption DEF TypeOK
      <4>2. batch'[n][u] \in {0, win[n][u]} /\ batchCoeff' = winCoeff
        BY <2>7 DEF FreshRows, WriteRows, FilteredParams
      <4>3. win' = NoRows /\ winCoeff' = winCoeff
        BY <2>7 DEF FreshRows
      <4> QED
        BY <4>1, <4>2, <4>3, HeldNothing, ScaleZero DEF Held
    <3>2. ASSUME NEW n \in Nodes, NEW u \in Users
          PROVE  chart'[n][u] + Held(carriedParams, carriedCoeff, n, u)'
                    + Held(batch, batchCoeff, n, u)'
                    + Held(win, winCoeff, n, u)' <= dueChart'[n][u]
      BY <2>7, <3>1, ChartCell DEF FreshRows, ChartInv, Held
    <3> QED
      BY <2>7, <3>2
         DEF FreshRows, WriteRows, ChartInv, ChartLedger, IdleIsEmpty, Held
  <2>8. CASE NoMoreRows
    BY <2>8, ChartDrop DEF NoMoreRows
  <2>9. ASSUME NEW b \in SUBSET rows, CommitRows(b)
        PROVE  ChartInv'
    <3>1. b = rows
      BY <2>9 DEF CommitRows, NextBatches
    <3>2. CASE EndCycle
      BY <2>9, <3>2, ChartDrop DEF CommitRows
    <3>3. CASE ~EndCycle
      <4>1. /\ chart' = AddToChart(b) /\ pc' = "rows"
            /\ batch' = NoRows /\ batchCoeff' = Unit
            /\ UNCHANGED <<win, winCoeff, carriedParams, carriedCoeff, dueChart>>
        BY <2>9, <3>1, <3>3 DEF CommitRows
      <4>2. ASSUME NEW n \in Nodes, NEW u \in Users
            PROVE  Held(batch, batchCoeff, n, u)' = 0
        BY <4>1, HeldNothing, UnitType DEF Held
      <4>3. ASSUME NEW n \in Nodes, NEW u \in Users
            PROVE  chart'[n][u] + Held(carriedParams, carriedCoeff, n, u)'
                      + Held(batch, batchCoeff, n, u)'
                      + Held(win, winCoeff, n, u)' <= dueChart'[n][u]
        BY <4>1, <4>2, ChartCell, AddToChartCell DEF ChartInv, Held
      <4> QED
        BY <4>1, <4>3 DEF ChartInv, ChartLedger, IdleIsEmpty, Held
    <3> QED
      BY <3>2, <3>3
  <2> QED
    BY <1>4, <2>1, <2>2, <2>3, <2>4, <2>5, <2>6, <2>7, <2>8, <2>9 DEF Cycle
<1>5. CASE Failure
  <2>1. ASSUME NEW n \in Nodes, NodeFails(n)
        PROVE  ChartInv'
    BY <1>1, <2>1, ChartFrame DEF NodeFails
  <2>2. CASE Deadlock
    BY <2>2, ChartFrame DEF Deadlock
  <2>3. CASE RollBack
    <3>1. CASE pc \in {"retry", "chart"}
      <4>1. /\ carriedParams' = batch /\ carriedCoeff' = batchCoeff
            /\ EndCycle /\ UNCHANGED <<chart, dueChart>>
        BY <2>3, <3>1 DEF RollBack, Park
      <4>2. ASSUME NEW n \in Nodes, NEW u \in Users
            PROVE  chart'[n][u] + Held(carriedParams, carriedCoeff, n, u)'
                      + Held(batch, batchCoeff, n, u)'
                      + Held(win, winCoeff, n, u)' <= dueChart'[n][u]
        <5>1. Held(carriedParams, carriedCoeff, n, u)'
                = Held(batch, batchCoeff, n, u)
          BY <4>1 DEF Held
        <5> QED
          BY <4>1, <5>1, ChartCell, EndCycleHeld DEF ChartInv
      <4> QED
        BY <4>1, <4>2 DEF EndCycle, ChartInv, ChartLedger, IdleIsEmpty, Held
    <3>2. CASE pc \notin {"retry", "chart"}
      BY <2>3, <3>2, ChartDrop DEF RollBack, Park
    <3> QED
      BY <3>1, <3>2
  <2>4. CASE Ambiguous
    <3>1. UNCHANGED chart \/ \E b : chart' = AddToChart(b)
      BY <2>4 DEF Ambiguous, MaybeLanded
    <3> QED
      BY <2>4, <3>1, ChartDrop DEF Ambiguous
  <2>5. CASE Crash
    <3>1. UNCHANGED chart \/ \E b : chart' = AddToChart(b)
      BY <2>5 DEF Crash, MaybeLanded
    <3> QED
      BY <2>5, <3>1, ChartDrop DEF Crash
  <2> QED
    BY <1>5, <2>1, <2>2, <2>3, <2>4, <2>5 DEF Failure
<1>6. CASE UNCHANGED vars
  BY <1>6, ChartFrame DEF vars
<1> QED
  BY <1>2, <1>3, <1>4, <1>5, <1>6 DEF Next

\* Where one statement writes a whole batch (PostgreSQL), the chart never
\* shows more traffic than was collected: a retried window is counted once and
\* at the coefficients it was collected with.  With smaller batches the claim
\* is false: a deadlock parks rows that earlier statements have committed.
THEOREM ChartCountsOnce ==
  ASSUME BatchSize = 0
  PROVE  Spec => []ChartNeverOvercounts
<1>1. Init => ChartInv
  <2> SUFFICES ASSUME Init
               PROVE  ChartInv
    OBVIOUS
  <2>1. ASSUME NEW n \in Nodes, NEW u \in Users
        PROVE  /\ chart[n][u] = 0 /\ dueChart[n][u] = 0
               /\ Held(carriedParams, carriedCoeff, n, u) = 0
               /\ Held(batch, batchCoeff, n, u) = 0
               /\ Held(win, winCoeff, n, u) = 0
    BY HeldNothing, UnitType DEF Init, NoRows, NoUsers
  <2> QED
    BY <2>1 DEF Init, ChartInv, ChartLedger, IdleIsEmpty
<1>2. TypeOK /\ ChartInv => ChartNeverOvercounts
  <2> SUFFICES ASSUME TypeOK, ChartInv, NEW n \in Nodes, NEW u \in Users
               PROVE  chart[n][u] + Held(carriedParams, carriedCoeff, n, u)
                        <= dueChart[n][u]
    BY DEF ChartNeverOvercounts, Held
  <2> QED
    BY ChartCell DEF ChartInv
<1>3. TypeOK /\ ChartInv /\ [Next]_vars => ChartInv'
  BY ChartStep
<1> QED
  BY <1>1, <1>2, <1>3, TypeCorrect, PTL DEF Spec

-----------------------------------------------------------------------------
(***************************************************************************)
(* The admins' limits.  The property is inductive: the one step that moves *)
(* an admin's total leads to the enforcement, and only the enforcement     *)
(* leaves it.                                                              *)
(***************************************************************************)

\* A step that leaves the admins' rows alone and is not the end of the
\* enforcement keeps the property.
LEMMA LimitFrame ==
  ASSUME AdminLimitEnforced, UNCHANGED <<adminUsed, adminStatus>>,
         pc = "enforce" => pc' = "enforce"
  PROVE  AdminLimitEnforced'
BY DEF AdminLimitEnforced

LEMMA LimitCommit ==
  ASSUME TypeOK, AdminLimitEnforced, CommitAdmins
  PROVE  AdminLimitEnforced'
<1>1. CASE HasAdminUsage
  BY <1>1 DEF CommitAdmins, AdminLimitEnforced
<1>2. CASE ~HasAdminUsage
  <2> SUFFICES ASSUME NEW a \in Admins, AdminLimit[a] > 0,
                      adminUsed'[a] >= AdminLimit[a]
               PROVE  adminStatus'[a] = "limited"
    BY DEF AdminLimitEnforced
  <2>1. adminUsed'[a] = adminUsed[a]
    BY <1>2 DEF CommitAdmins, AddToAdmins, HasAdminUsage, NoAdmins, TypeOK
  <2> QED
    BY <2>1 DEF CommitAdmins, AdminLimitEnforced, adminVars
<1> QED
  BY <1>1, <1>2

LEMMA LimitEnforce ==
  ASSUME "enforce" \notin Faults, TypeOK, Enforce
  PROVE  AdminLimitEnforced'
<1>1. adminStatus' = [a \in Admins |-> IF a \in OverLimit THEN "limited"
                                       ELSE adminStatus[a]]
  BY DEF Enforce, Fault
<1> SUFFICES ASSUME NEW a \in Admins, AdminLimit[a] > 0,
                    adminUsed[a] >= AdminLimit[a]
             PROVE  adminStatus'[a] = "limited"
  BY DEF AdminLimitEnforced, Enforce
<1> QED
  BY <1>1 DEF OverLimit, TypeOK

\* Where no enforcement fails and every failed write rolled back, an admin that
\* has reached its data_limit is limited before the cycle goes on to the chart.
THEOREM LimitsAreEnforced ==
  ASSUME Faults \subseteq {"deadlock", "extra", "answer"}
  PROVE  Spec => []AdminLimitEnforced
<1> USE DEF nodeVars, userVars, adminVars, carryVars, usageVars, batchVars,
            history
<1>1. Init => AdminLimitEnforced
  BY ConstantsAssumption DEF Init, AdminLimitEnforced, NoAdmins
<1>2. TypeOK /\ AdminLimitEnforced /\ [Next]_vars => AdminLimitEnforced'
  <2> SUFFICES ASSUME TypeOK, AdminLimitEnforced, [Next]_vars
               PROVE  AdminLimitEnforced'
    OBVIOUS
  <2>1. CASE UNCHANGED vars
    BY <2>1, LimitFrame DEF vars
  <2>2. CASE Environment
    BY <2>2, LimitFrame DEF Environment, Traffic, SetCoefficient, DeleteUser
  <2>3. ASSUME NEW healthy \in SUBSET Nodes, StartCycle(healthy)
        PROVE  AdminLimitEnforced'
    BY <2>3, LimitFrame DEF StartCycle
  <2>4. CASE Cycle
    <3>1. CASE Collected \/ Fold \/ NoMoreRows
      BY <3>1, LimitFrame DEF Collected, Fold, NoMoreRows
    <3>2. CASE CommitUsers \/ RetryRows \/ FreshRows
      BY <3>2, LimitFrame DEF CommitUsers, RetryRows, FreshRows
    <3>3. CASE \/ \E n \in Nodes : CollectNode(n)
               \/ \E u \in Users : LookupUser(u)
      BY <3>3, LimitFrame DEF CollectNode, LookupUser
    <3>4. CASE \E b \in SUBSET rows : CommitRows(b)
      BY <3>4, LimitFrame DEF CommitRows
    <3> QED
      BY <2>4, <3>1, <3>2, <3>3, <3>4, LimitCommit, LimitEnforce DEF Cycle
  <2>5. CASE Failure
    <3>1. ~Ambiguous /\ ~Crash
      BY DEF Ambiguous, Crash, Fault
    <3>2. CASE \E n \in Nodes : NodeFails(n)
      BY <3>2, LimitFrame DEF NodeFails
    <3>3. CASE Deadlock \/ RollBack
      BY <3>3, LimitFrame DEF Deadlock, RollBack, InWrite
    <3> QED
      BY <2>5, <3>1, <3>2, <3>3 DEF Failure
  <2> QED
    BY <2>1, <2>2, <2>3, <2>4, <2>5 DEF Next
<1> QED
  BY <1>1, <1>2, TypeCorrect, PTL DEF Spec

-----------------------------------------------------------------------------
(* The job implements the ledger of UsageLedger for its users, and loses   *)
(* nothing where every failed write rolled back.                           *)

\* The buffer of the users is empty while the write it was folded into is under
\* way: Fold hands it over.  Without this a write would bill less than all that is
\* on its way.
UserBufferHandedOver == pc = "user" => carriedUser = NoUsers

\* Every step keeps the hand-over; only Fold enters the user write.
LEMMA HandedOverStep ==
  ASSUME UserBufferHandedOver, [Next]_vars
  PROVE  UserBufferHandedOver'
<1> USE DEF nodeVars, userVars, adminVars, carryVars, usageVars, batchVars,
            history, UserBufferHandedOver
<1>1. CASE UNCHANGED vars
  BY <1>1 DEF vars
<1>2. CASE Environment
  BY <1>2 DEF Environment, Traffic, SetCoefficient, DeleteUser
<1>3. ASSUME NEW healthy \in SUBSET Nodes, StartCycle(healthy)
      PROVE  UserBufferHandedOver'
  BY <1>3 DEF StartCycle
<1>4. CASE Cycle
  BY <1>4 DEF Cycle, CollectNode, Collected, LookupUser, Fold, CommitUsers,
              CommitAdmins, Enforce, RetryRows, FreshRows, NoMoreRows,
              CommitRows, WriteRows, EndCycle
<1>5. CASE Failure
  BY <1>5 DEF Failure, NodeFails, Deadlock, RollBack, Ambiguous, Crash, EndCycle
<1> QED
  BY <1>1, <1>2, <1>3, <1>4, <1>5 DEF Next

\* What is on its way to a user, as a sum of naturals.
LEMMA PendingType ==
  ASSUME TypeOK, NEW u \in Users
  PROVE  /\ UserPending[u] = usersUsage[u] + carriedUser[u]
         /\ usersUsage[u] \in Nat /\ carriedUser[u] \in Nat
         /\ userUsed[u] \in Nat /\ due[u] \in Nat
BY DEF TypeOK, UserPending

\* A step that leaves the four columns alone is no step of the ledger.
LEMMA UserLedgerStutters ==
  ASSUME UNCHANGED <<userUsed, carriedUser, usersUsage, due>>
  PROVE  UNCHANGED UserLedgerOf!ledger
BY DEF UserLedgerOf!ledger, UserPending

\* A step after which no more is on its way, and nothing new is billed, loses.
LEMMA UserLedgerLoses ==
  ASSUME TypeOK, TypeOK', UNCHANGED <<userUsed, due>>,
         \A u \in Users : usersUsage'[u] + carriedUser'[u] <= usersUsage[u] + carriedUser[u]
  PROVE  UserLedgerOf!Lose
<1> SUFFICES ASSUME NEW u \in Users
             PROVE  0 <= UserPending'[u] /\ UserPending'[u] <= UserPending[u]
  BY DEF UserLedgerOf!Lose
<1>1. UserPending'[u] = usersUsage'[u] + carriedUser'[u]
  BY DEF UserPending
<1>2. usersUsage'[u] \in Nat /\ carriedUser'[u] \in Nat
  BY DEF TypeOK
<1> QED
  BY <1>1, <1>2, PendingType

\* Zeroing a node's counters takes, whether its answer arrives or not.
LEMMA UserLedgerTakes ==
  ASSUME TypeOK, NEW n \in Nodes, ResetCounters(n),
         UNCHANGED <<userUsed, carriedUser>>,
         usersUsage' = AddUsage(n) \/ UNCHANGED usersUsage
  PROVE  UserLedgerOf!Take
<1> SUFFICES ASSUME NEW u \in Users
             PROVE  /\ due[u] <= due'[u]
                    /\ UserPending[u] <= UserPending'[u]
                    /\ UserPending'[u] - UserPending[u] <= due'[u] - due[u]
  BY DEF UserLedgerOf!Take
<1> DEFINE s == Scale(counter[n][u], winCoeff[n])
<1>1. s \in Nat
  BY ScaledEntry DEF TypeOK
<1>2. due'[u] = due[u] + s
  BY DEF ResetCounters
<1>3. usersUsage'[u] = usersUsage[u] + s \/ usersUsage'[u] = usersUsage[u]
  BY DEF AddUsage
<1>4. UserPending'[u] = usersUsage'[u] + carriedUser[u]
  BY DEF UserPending
<1> HIDE DEF s
<1> QED
  BY <1>1, <1>2, <1>3, <1>4, PendingType

\* The user write bills all that is on its way, but not to deleted users.
LEMMA UserLedgerBills ==
  ASSUME TypeOK, UserBufferHandedOver, pc = "user", userUsed' = AddToUsers,
         usersUsage' = NoUsers, carriedUser' = NoUsers, UNCHANGED due
  PROVE  UserLedgerOf!Bill
<1> SUFFICES ASSUME NEW u \in Users
             PROVE  /\ userUsed'[u] \in {userUsed[u], userUsed[u] + UserPending[u]}
                    /\ UserPending'[u] = 0
  BY DEF UserLedgerOf!Bill
<1>1. UserPending[u] = usersUsage[u]
  BY PendingType DEF UserBufferHandedOver, NoUsers
<1>2. userUsed'[u] = userUsed[u] + IF u \in exists THEN usersUsage[u] ELSE 0
  BY DEF AddToUsers
<1>3. UserPending'[u] = 0
  BY DEF UserPending, NoUsers
<1> QED
  BY <1>1, <1>2, <1>3, PendingType

\* A write of unknown outcome, after which the cycle is over: billed or lost.
LEMMA UserLedgerEnd ==
  ASSUME TypeOK, TypeOK', UserBufferHandedOver, MaybeLanded, EndCycle,
         UNCHANGED due, UNCHANGED carriedUser \/ carriedUser' = NoUsers
  PROVE  UserLedgerOf!LedgerNext
<1>1. CASE UNCHANGED userUsed
  <2> SUFFICES ASSUME NEW u \in Users
               PROVE  usersUsage'[u] + carriedUser'[u] <= usersUsage[u] + carriedUser[u]
    BY <1>1, UserLedgerLoses DEF UserLedgerOf!LedgerNext
  <2>1. usersUsage'[u] = 0
    BY DEF EndCycle, NoUsers
  <2>2. carriedUser'[u] \in {carriedUser[u], 0}
    BY DEF NoUsers
  <2> QED
    BY <2>1, <2>2, PendingType
<1>2. CASE pc = "user" /\ userUsed' = AddToUsers
  <2>1. usersUsage' = NoUsers /\ carriedUser' = NoUsers
    BY <1>2 DEF EndCycle, UserBufferHandedOver
  <2> QED
    BY <1>2, <2>1, UserLedgerBills DEF UserLedgerOf!LedgerNext
<1> QED
  BY <1>1, <1>2 DEF MaybeLanded

\* A cycle that ends without a write loses, unless it parks what it had.
LEMMA UserLedgerDrops ==
  ASSUME TypeOK, TypeOK', EndCycle, UNCHANGED <<userUsed, due>>,
         \/ UNCHANGED carriedUser
         \/ pc = "user" /\ UserBufferHandedOver /\ carriedUser' = usersUsage
  PROVE  UserLedgerOf!LedgerNext
<1> SUFFICES ASSUME NEW u \in Users
             PROVE  usersUsage'[u] + carriedUser'[u] <= usersUsage[u] + carriedUser[u]
  BY UserLedgerLoses DEF UserLedgerOf!LedgerNext
<1>1. usersUsage'[u] = 0
  BY DEF EndCycle, NoUsers
<1>2. carriedUser'[u] \in {carriedUser[u], usersUsage[u]}
  OBVIOUS
<1> QED
  BY <1>1, <1>2, PendingType

\* Every step of the job is a step of the ledger, or none.
LEMMA UserLedgerRefines ==
  ASSUME TypeOK, TypeOK', UserBufferHandedOver, [Next]_vars
  PROVE  [UserLedgerOf!LedgerNext]_(UserLedgerOf!ledger)
<1> USE DEF nodeVars, userVars, adminVars, carryVars, usageVars, batchVars,
            history
<1>1. CASE UNCHANGED vars
  BY <1>1, UserLedgerStutters DEF vars
<1>2. CASE Environment
  BY <1>2, UserLedgerStutters DEF Environment, Traffic, SetCoefficient, DeleteUser
<1>3. ASSUME NEW healthy \in SUBSET Nodes, StartCycle(healthy)
      PROVE  UNCHANGED UserLedgerOf!ledger
  BY <1>3, UserLedgerStutters DEF StartCycle
<1>4. CASE Cycle
  <2>1. ASSUME NEW n \in Nodes, CollectNode(n)
        PROVE  UserLedgerOf!LedgerNext
    BY <2>1, UserLedgerTakes DEF CollectNode, UserLedgerOf!LedgerNext
  <2>2. CASE Collected
    BY <2>2, UserLedgerStutters, UserLedgerDrops DEF Collected
  <2>3. ASSUME NEW u \in Users, LookupUser(u)
        PROVE  UNCHANGED UserLedgerOf!ledger
    BY <2>3, UserLedgerStutters DEF LookupUser
  <2>4. CASE Fold
    <3>1. CASE EndCycle /\ UNCHANGED carriedUser
      BY <2>4, <3>1, UserLedgerDrops DEF Fold
    <3>2. CASE usersUsage' = MergeUsage /\ carriedUser' = NoUsers
      <4> SUFFICES ASSUME NEW u \in Users
                   PROVE  usersUsage'[u] + carriedUser'[u]
                            <= usersUsage[u] + carriedUser[u]
        BY <2>4, <3>2, UserLedgerLoses DEF Fold, UserLedgerOf!LedgerNext
      <4>1. carriedUser'[u] = 0
        BY <3>2 DEF NoUsers
      <4>2. usersUsage'[u] = carriedUser[u] + IF u \in valid THEN usersUsage[u] ELSE 0
        BY <3>2 DEF MergeUsage
      <4> QED
        BY <4>1, <4>2, PendingType
    <3> QED
      BY <2>4, <3>1, <3>2 DEF Fold
  <2>5. CASE CommitUsers
    <3>1. carriedUser' = NoUsers
      BY <2>5 DEF CommitUsers, UserBufferHandedOver
    <3> QED
      BY <2>5, <3>1, UserLedgerBills DEF CommitUsers, UserLedgerOf!LedgerNext
  <2>6. CASE CommitAdmins \/ Enforce \/ RetryRows
    BY <2>6, UserLedgerStutters DEF CommitAdmins, Enforce, RetryRows
  <2>7. CASE FreshRows
    BY <2>7, UserLedgerStutters DEF FreshRows
  <2>8. CASE NoMoreRows
    BY <2>8, UserLedgerDrops DEF NoMoreRows
  <2>9. ASSUME NEW b \in SUBSET rows, CommitRows(b)
        PROVE  [UserLedgerOf!LedgerNext]_(UserLedgerOf!ledger)
    BY <2>9, UserLedgerStutters, UserLedgerDrops DEF CommitRows
  <2> QED
    BY <1>4, <2>1, <2>2, <2>3, <2>4, <2>5, <2>6, <2>7, <2>8, <2>9 DEF Cycle
<1>5. CASE Failure
  <2>1. ASSUME NEW n \in Nodes, NodeFails(n)
        PROVE  [UserLedgerOf!LedgerNext]_(UserLedgerOf!ledger)
    <3>1. CASE ResetCounters(n)
      BY <2>1, <3>1, UserLedgerTakes DEF NodeFails, UserLedgerOf!LedgerNext
    <3>2. CASE UNCHANGED <<counter, history>>
      BY <2>1, <3>2, UserLedgerStutters DEF NodeFails
    <3> QED
      BY <2>1, <3>1, <3>2 DEF NodeFails
  <2>2. CASE Deadlock
    BY <2>2, UserLedgerStutters DEF Deadlock
  <2>3. CASE RollBack
    BY <2>3, UserLedgerDrops DEF RollBack, Park
  <2>4. CASE Ambiguous
    BY <2>4, UserLedgerEnd DEF Ambiguous
  <2>5. CASE Crash
    BY <2>5, UserLedgerEnd DEF Crash
  <2> QED
    BY <1>5, <2>1, <2>2, <2>3, <2>4, <2>5 DEF Failure
<1> QED
  BY <1>1, <1>2, <1>3, <1>4, <1>5 DEF Next

\* The job implements the ledger of UsageLedger for its users: under every fault
\* and over any number of cycles, what was taken off the nodes is billed to its
\* user as a whole and once, or lost.
THEOREM UsersLedgerImplemented == Spec => UsersBilledOnceOrLost
<1>1. Init => UserLedgerOf!LedgerInit /\ UserBufferHandedOver
  BY DEF Init, UserLedgerOf!LedgerInit, UserBufferHandedOver, UserPending, NoUsers
<1> QED
  BY <1>1, InitType, NextType, HandedOverStep, UserLedgerRefines, PTL
     DEF Spec, UsersBilledOnceOrLost, UserLedgerOf!LedgerSpec

-----------------------------------------------------------------------------
(***************************************************************************)
(* Nothing is lost.  LossBecomesDelay is not inductive: a cycle could end  *)
(* or fold while it still holds usage of a user it does not know.          *)
(***************************************************************************)
\* What is in flight to a user stays known to the cycle: a node is read once, a
\* user with usage was reported and is looked up, and nothing is left over for a
\* cycle that ends after the user write.
DelayInv ==
  /\ LossBecomesDelay
  /\ UserBufferHandedOver
  /\ pc = "idle" => win = NoRows
  /\ pc = "collect" =>
       /\ \A n \in todo : win[n] = NoUsers
       /\ \A u \in Users : usersUsage[u] > 0 => u \in Reported
  /\ pc = "lookup" =>
       \A u \in exists : usersUsage[u] > 0 => u \in valid \cup todo
  /\ pc \notin {"collect", "lookup", "user"} => usersUsage = NoUsers

\* The columns of a user that exists, as naturals that add up.
LEMMA Conserved ==
  ASSUME TypeOK, LossBecomesDelay, NEW u \in exists
  PROVE  /\ userUsed[u] \in Nat /\ carriedUser[u] \in Nat
         /\ usersUsage[u] \in Nat /\ due[u] \in Nat
         /\ userUsed[u] + carriedUser[u] + usersUsage[u] = due[u]
BY DEF TypeOK, LossBecomesDelay

\* A cycle may end when nothing is in flight to a user that still exists.
LEMMA DelayDrop ==
  ASSUME TypeOK, DelayInv, EndCycle, UNCHANGED <<exists, userUsed, due>>,
         \A u \in exists : carriedUser'[u] = carriedUser[u] + usersUsage[u]
  PROVE  DelayInv'
<1>1. LossBecomesDelay'
  <2> SUFFICES ASSUME NEW u \in exists
               PROVE  userUsed[u] + carriedUser'[u] + usersUsage'[u] = due[u]
    BY DEF LossBecomesDelay
  <2>1. usersUsage'[u] = 0
    BY DEF EndCycle, NoUsers, TypeOK
  <2> QED
    BY <2>1, Conserved DEF DelayInv
<1> QED
  BY <1>1 DEF DelayInv, EndCycle, UserBufferHandedOver

\* A step that leaves the columns and the window alone.
LEMMA DelayFrame ==
  ASSUME DelayInv, UNCHANGED <<userUsed, carriedUser, usersUsage, due>>,
         exists' \subseteq exists, UNCHANGED <<pc, todo, win, valid>>
  PROVE  DelayInv'
BY DEF DelayInv, LossBecomesDelay, UserBufferHandedOver, Reported

\* A step after the user write has nothing in flight.
LEMMA DelayAfter ==
  ASSUME DelayInv, UNCHANGED <<exists, userUsed, carriedUser, usersUsage, due>>,
         usersUsage = NoUsers,
         pc' \notin {"idle", "collect", "lookup", "user"}
  PROVE  DelayInv'
BY DEF DelayInv, LossBecomesDelay, UserBufferHandedOver

\* What a node's counters lose, the cycle holds.
LEMMA DelayCollect ==
  ASSUME TypeOK, DelayInv, NEW n \in Nodes, CollectNode(n)
  PROVE  DelayInv'
<1> USE DEF nodeVars, userVars, adminVars, carryVars, usageVars, batchVars,
            history
<1>0. ASSUME NEW u \in Users
      PROVE  /\ Scale(counter[n][u], winCoeff[n]) \in Nat
             /\ due'[u] = due[u] + Scale(counter[n][u], winCoeff[n])
             /\ usersUsage'[u] = usersUsage[u] + Scale(counter[n][u], winCoeff[n])
  BY ScaledEntry DEF CollectNode, ResetCounters, AddUsage, TypeOK
<1>1. LossBecomesDelay'
  <2> SUFFICES ASSUME NEW u \in exists
               PROVE  userUsed[u] + carriedUser[u] + usersUsage'[u] = due'[u]
    BY DEF LossBecomesDelay, CollectNode
  <2>1. u \in Users
    BY DEF TypeOK
  <2> DEFINE s == Scale(counter[n][u], winCoeff[n])
  <2>2. s \in Nat /\ due'[u] = due[u] + s /\ usersUsage'[u] = usersUsage[u] + s
    BY <1>0, <2>1
  <2> HIDE DEF s
  <2> QED
    BY <2>2, Conserved DEF DelayInv
<1>2. \A m \in todo' : win'[m] = NoUsers
  BY DEF CollectNode, DelayInv, TypeOK, Usages
<1>3. ASSUME NEW u \in Users, usersUsage'[u] > 0
      PROVE  u \in Reported'
  <2>1. win' \in Usages /\ win'[n][u] = counter[n][u] /\ counter[n][u] \in Nat
    BY DEF CollectNode, TypeOK, Usages
  <2>2. CASE counter[n][u] > 0
    BY <2>1, <2>2 DEF Reported
  <2>3. CASE counter[n][u] = 0
    <3>1. winCoeff[n] \in Nat
      BY ConstantsAssumption DEF TypeOK
    <3>2. usersUsage[u] \in Nat
      BY DEF TypeOK
    <3>3. usersUsage[u] > 0
      BY <1>0, <1>3, <2>3, <3>1, <3>2, ScaleZero
    <3>4. PICK m \in Nodes : win[m][u] > 0
      BY <3>3 DEF DelayInv, CollectNode, Reported
    <3>5. win[n][u] = 0
      BY DEF DelayInv, CollectNode, NoUsers
    <3>6. win'[m][u] = win[m][u]
      BY <3>4, <3>5 DEF CollectNode, TypeOK, Usages
    <3> QED
      BY <3>4, <3>6 DEF Reported
  <2> QED
    BY <2>1, <2>2, <2>3
<1> QED
  BY <1>1, <1>2, <1>3 DEF DelayInv, CollectNode, UserBufferHandedOver

\* The parked and the fresh amounts of a user that exists become one.
LEMMA DelayFold ==
  ASSUME TypeOK, DelayInv, Fold
  PROVE  DelayInv'
<1> USE DEF nodeVars, userVars, adminVars, carryVars, usageVars, batchVars,
            history
<1>1. ASSUME NEW u \in exists, u \notin valid
      PROVE  usersUsage[u] = 0
  BY <1>1 DEF Fold, DelayInv, TypeOK
<1>2. CASE valid = {} /\ EndCycle /\ UNCHANGED carriedUser
  BY <1>1, <1>2, DelayDrop, Conserved DEF Fold, DelayInv
<1>3. CASE pc' = "user" /\ usersUsage' = MergeUsage /\ carriedUser' = NoUsers
  <2>1. LossBecomesDelay'
    <3> SUFFICES ASSUME NEW u \in exists
                 PROVE  userUsed[u] + carriedUser'[u] + usersUsage'[u] = due[u]
      BY DEF LossBecomesDelay, Fold
    <3>1. carriedUser'[u] = 0 /\ usersUsage'[u] = carriedUser[u] + usersUsage[u]
      BY <1>1, <1>3, Conserved DEF NoUsers, MergeUsage, TypeOK, DelayInv
    <3> QED
      BY <3>1, Conserved DEF DelayInv
  <2> QED
    BY <1>3, <2>1 DEF DelayInv, UserBufferHandedOver
<1> QED
  BY <1>2, <1>3 DEF Fold

\* What the cycle held, the user's row has.
LEMMA DelayCommit ==
  ASSUME TypeOK, DelayInv, CommitUsers
  PROVE  DelayInv'
<1> USE DEF nodeVars, userVars, adminVars, carryVars, usageVars, batchVars,
            history
<1>1. LossBecomesDelay'
  <2> SUFFICES ASSUME NEW u \in exists
               PROVE  userUsed'[u] + carriedUser'[u] + usersUsage'[u] = due[u]
    BY DEF LossBecomesDelay, CommitUsers
  <2>1. /\ userUsed'[u] = userUsed[u] + usersUsage[u]
        /\ carriedUser'[u] = carriedUser[u] /\ usersUsage'[u] = 0
    BY DEF CommitUsers, AddToUsers, NoUsers, TypeOK
  <2> QED
    BY <2>1, Conserved DEF DelayInv
<1> QED
  BY <1>1 DEF DelayInv, CommitUsers, UserBufferHandedOver

\* Without a lost answer, an unknown outcome or a crash no step loses anything.
LEMMA DelayStep ==
  ASSUME Faults \subseteq {"deadlock", "extra", "enforce"},
         TypeOK, DelayInv, [Next]_vars
  PROVE  DelayInv'
<1> USE DEF nodeVars, userVars, adminVars, carryVars, usageVars, batchVars,
            history
<1>1. CASE UNCHANGED vars
  BY <1>1, DelayFrame DEF vars
<1>2. CASE Environment
  BY <1>2, DelayFrame DEF Environment, Traffic, SetCoefficient, DeleteUser
<1>3. ASSUME NEW healthy \in SUBSET Nodes, StartCycle(healthy)
      PROVE  DelayInv'
  BY <1>3 DEF StartCycle, DelayInv, LossBecomesDelay, UserBufferHandedOver,
              NoUsers, NoRows
<1>d. ASSUME EndCycle, pc \notin {"collect", "lookup", "user"},
             UNCHANGED <<exists, userUsed, carriedUser, due>>
      PROVE  DelayInv'
  BY <1>d, DelayDrop, Conserved DEF DelayInv, NoUsers, TypeOK
<1>4. CASE Cycle
  <2>1. CASE Collected
    <3>1. ASSUME NEW u \in exists, Reported = {}
          PROVE  usersUsage[u] = 0
      BY <2>1, <3>1 DEF Collected, DelayInv, TypeOK
    <3>2. CASE Reported = {} /\ EndCycle
      BY <2>1, <3>1, <3>2, DelayDrop, Conserved DEF Collected, DelayInv
    <3>3. CASE ~EndCycle
      BY <2>1, <3>3 DEF Collected, DelayInv, LossBecomesDelay, TypeOK,
                        UserBufferHandedOver
    <3> QED
      BY <2>1, <3>2, <3>3 DEF Collected, EndCycle
  <2>2. ASSUME NEW u \in Users, LookupUser(u)
        PROVE  DelayInv'
    BY <2>2 DEF LookupUser, DelayInv, LossBecomesDelay, UserBufferHandedOver
  <2>3. CASE CommitAdmins \/ Enforce \/ RetryRows \/ FreshRows
    BY <2>3, DelayAfter DEF CommitAdmins, Enforce, RetryRows, FreshRows,
                            WriteRows, DelayInv
  <2>4. CASE NoMoreRows
    BY <2>4, <1>d DEF NoMoreRows
  <2>5. ASSUME NEW b \in SUBSET rows, CommitRows(b)
        PROVE  DelayInv'
    BY <2>5, <1>d, DelayAfter DEF CommitRows, DelayInv
  <2> QED
    BY <1>4, <2>1, <2>2, <2>3, <2>4, <2>5, DelayCollect, DelayFold, DelayCommit
       DEF Cycle
<1>5. CASE Failure
  <2>1. ASSUME NEW k \in {"answer", "ambiguous", "crash"}
        PROVE  ~Fault(k)
    BY <2>1 DEF Fault
  <2>2. CASE Deadlock
    BY <2>2, DelayFrame DEF Deadlock
  <2>3. CASE RollBack
    <3>1. CASE pc = "user"
      <4>1. carriedUser = NoUsers /\ carriedUser' = usersUsage
        BY <2>3, <3>1 DEF RollBack, Park, DelayInv, UserBufferHandedOver
      <4>2. \A u \in exists : carriedUser'[u] = carriedUser[u] + usersUsage[u]
        BY <4>1 DEF NoUsers, TypeOK
      <4> QED
        BY <2>3, <4>2, DelayDrop DEF RollBack
    <3>2. CASE pc # "user"
      BY <2>3, <3>2, <1>d DEF RollBack, Park, InWrite
    <3> QED
      BY <3>1, <3>2
  <2> QED
    BY <1>5, <2>1, <2>2, <2>3 DEF Failure, NodeFails, Ambiguous, Crash
<1> QED
  BY <1>1, <1>2, <1>3, <1>4, <1>5 DEF Next

\* "Loss becomes delay": where deadlocks, a failing get_extra and a failing
\* enforcement are the only faults, every unit taken off a node is written, parked
\* or in the running cycle, for every user that still exists.
THEOREM LossIsDelay ==
  ASSUME Faults \subseteq {"deadlock", "extra", "enforce"}
  PROVE  Spec => []LossBecomesDelay
<1>1. Init => DelayInv
  BY DEF Init, DelayInv, LossBecomesDelay, UserBufferHandedOver, NoUsers
<1>2. TypeOK /\ DelayInv /\ [Next]_vars => DelayInv'
  BY DelayStep
<1>3. DelayInv => LossBecomesDelay
  BY DEF DelayInv
<1> QED
  BY <1>1, <1>2, <1>3, TypeCorrect, PTL DEF Spec

-----------------------------------------------------------------------------
(***************************************************************************)
(* The totals of the admins, which are sums over the users they own: no    *)
(* admin is ever ahead of its users, and the job implements the ledger of  *)
(* UsageLedger for its admins too.                                         *)
(***************************************************************************)
-----------------------------------------------------------------------------
(***************************************************************************)
(* Sums.  The community module folds a set with a recursive function on    *)
(* its subsets; what it computes is shown by induction on finite sets,     *)
(* with the induction hypothesis as a set of subsets.                      *)
(***************************************************************************)
\* A family of subsets that holds each set of which it holds all the sets with one
\* element less, holds the whole set.
LEMMA SubsetInduction ==
  ASSUME NEW S, IsFiniteSet(S), NEW Good,
         \A T \in SUBSET S : (\A x \in T : T \ {x} \in Good) => T \in Good
  PROVE  \A T \in SUBSET S : T \in Good
<1> DEFINE Bad == {T \in SUBSET S : T \notin Good}
<1>1. CASE Bad = {}
  BY <1>1
<1>2. CASE Bad # {}
  <2>1. IsWellFoundedOn(StrictSubsetOrdering(S), SUBSET S)
    BY FS_StrictSubsetOrderingWellFounded, FS_FiniteSubsetsOfFinite
  <2>2. PICK T \in Bad : \A R \in Bad : ~(<<R, T>> \in StrictSubsetOrdering(S))
    BY <1>2, <2>1, WFMin
  <2>3. ASSUME NEW x \in T
        PROVE  T \ {x} \in Good
    <3>1. <<T \ {x}, T>> \in StrictSubsetOrdering(S)
      BY <2>3 DEF StrictSubsetOrdering
    <3> QED
      BY <2>2, <3>1
  <2> QED
    BY <2>2, <2>3
<1> QED
  BY <1>1, <1>2

\* The element the fold takes first, and the function it is defined by.
First(s) == CHOOSE x \in s : TRUE

Sums(g, f, S) ==
  g = [s \in SUBSET S |-> IF s = {} THEN 0 ELSE f[First(s)] + g[s \ {First(s)}]]

Total(f, S) == (CHOOSE g : Sums(g, f, S))[S]

LEMMA OwnedSumIsTotal ==
  ASSUME NEW f, NEW a, NEW among
  PROVE  OwnedSum(f, a, among) = Total(f, OwnedBy(a) \cap among)
BY DEF OwnedSum, MapThenSumSet, MapThenFoldSet, Total, Sums, First

LEMMA FirstOf ==
  ASSUME NEW S, S # {}
  PROVE  First(S) \in S
BY DEF First

\* What such a function is worth, entry by entry.
LEMMA SumsAre ==
  ASSUME NEW f, NEW S, NEW g, Sums(g, f, S), NEW s \in SUBSET S
  PROVE  g[s] = IF s = {} THEN 0 ELSE f[First(s)] + g[s \ {First(s)}]
<1>1. g = [t \in SUBSET S |-> IF t = {} THEN 0 ELSE f[First(t)] + g[t \ {First(t)}]]
  BY DEF Sums
<1> QED
  BY <1>1

\* Two of them agree where both are defined.
LEMMA SumsAgree ==
  ASSUME NEW f, NEW S, IsFiniteSet(S), NEW A \in SUBSET S, NEW B \in SUBSET S,
         NEW g, Sums(g, f, A), NEW h, Sums(h, f, B)
  PROVE  \A s \in SUBSET S : s \subseteq A /\ s \subseteq B => g[s] = h[s]
<1> DEFINE Good == {s \in SUBSET S : s \subseteq A /\ s \subseteq B => g[s] = h[s]}
<1>1. ASSUME NEW s \in SUBSET S, \A x \in s : s \ {x} \in Good,
             s \subseteq A, s \subseteq B
      PROVE  g[s] = h[s]
  <2>1. CASE s = {}
    BY <1>1, <2>1, SumsAre
  <2>2. CASE s # {}
    <3>1. First(s) \in s
      BY <2>2, FirstOf
    <3>2. g[s \ {First(s)}] = h[s \ {First(s)}]
      BY <1>1, <3>1
    <3>3. g[s] = f[First(s)] + g[s \ {First(s)}]
      BY <1>1, <2>2, SumsAre
    <3>4. h[s] = f[First(s)] + h[s \ {First(s)}]
      BY <1>1, <2>2, SumsAre
    <3> QED
      BY <3>2, <3>3, <3>4
  <2> QED
    BY <2>1, <2>2
<1>2. \A s \in SUBSET S : (\A x \in s : s \ {x} \in Good) => s \in Good
  BY <1>1
<1>3. \A s \in SUBSET S : s \in Good
  <2> HIDE DEF Good
  <2> QED
    BY <1>2, SubsetInduction
<1> QED
  BY <1>3

\* There is one for every finite set.
LEMMA SumsExist ==
  ASSUME NEW f, NEW S, IsFiniteSet(S)
  PROVE  \A T \in SUBSET S : \E g : Sums(g, f, T)
<1> DEFINE Good == {T \in SUBSET S : \E g : Sums(g, f, T)}
<1>1. ASSUME NEW T \in SUBSET S, \A x \in T : T \ {x} \in Good
      PROVE  \E g : Sums(g, f, T)
  <2> DEFINE G(x)    == CHOOSE g : Sums(g, f, T \ {x})
             Out(s)  == CHOOSE x \in T : x \notin s
             less(s) == s \ {First(s)}
             val(s)  == IF s = {} THEN 0 ELSE f[First(s)] + G(Out(less(s)))[less(s)]
             k       == [s \in SUBSET T |-> val(s)]
  <2>1. ASSUME NEW x \in T
        PROVE  Sums(G(x), f, T \ {x})
    BY <1>1, <2>1
  <2>2. ASSUME NEW s \in SUBSET T, s # T
        PROVE  Out(s) \in T /\ Out(s) \notin s /\ s \in SUBSET (T \ {Out(s)})
    BY <2>2
  <2> HIDE DEF G, Out
  <2>3. ASSUME NEW s \in SUBSET T, s # T
        PROVE  k[s] = G(Out(s))[s]
    <3>1. G(Out(s))[s] = IF s = {} THEN 0 ELSE f[First(s)] + G(Out(s))[less(s)]
      <4> DEFINE A == T \ {Out(s)}
                 g == G(Out(s))
      <4>1. Sums(g, f, A) /\ s \in SUBSET A
        BY <2>1, <2>2, <2>3
      <4> HIDE DEF A, g
      <4>2. g[s] = IF s = {} THEN 0 ELSE f[First(s)] + g[s \ {First(s)}]
        BY <4>1, SumsAre
      <4> QED
        BY <4>2 DEF g
    <3>2. k[s] = val(s)
      BY <2>3
    <3>3. CASE s = {}
      BY <3>1, <3>2, <3>3
    <3>4. CASE s # {}
      <4>1. First(s) \in s
        BY <3>4, FirstOf
      <4>2. less(s) \in SUBSET T /\ less(s) # T
        BY <2>3, <4>1
      <4>3. /\ Out(less(s)) \in T /\ less(s) \in SUBSET (T \ {Out(less(s))})
            /\ Out(s) \in T /\ less(s) \in SUBSET (T \ {Out(s)})
        BY <2>2, <2>3, <4>2
      <4>4. G(Out(less(s)))[less(s)] = G(Out(s))[less(s)]
        <5> DEFINE A == T \ {Out(less(s))}
                   B == T \ {Out(s)}
                   l == less(s)
                   g == G(Out(less(s)))
                   h == G(Out(s))
        <5>1. Sums(g, f, A) /\ Sums(h, f, B) /\ A \in SUBSET S /\ B \in SUBSET S
          BY <1>1, <2>1, <4>3
        <5>2. l \subseteq A /\ l \subseteq B /\ l \in SUBSET S
          BY <1>1, <4>2, <4>3
        <5> HIDE DEF A, B, l, g, h
        <5>3. g[l] = h[l]
          BY <5>1, <5>2, SumsAgree
        <5> QED
          BY <5>3 DEF l, g, h
      <4> QED
        BY <3>1, <3>2, <3>4, <4>4
    <3> QED
      BY <3>3, <3>4
  <2>4. ASSUME NEW s \in SUBSET T
        PROVE  k[s] = IF s = {} THEN 0 ELSE f[First(s)] + k[s \ {First(s)}]
    <3>1. k[s] = val(s)
      BY <2>4
    <3>2. CASE s # {}
      <4>1. First(s) \in s
        BY <3>2, FirstOf
      <4>2. less(s) \in SUBSET T /\ less(s) # T
        BY <2>4, <4>1
      <4>3. k[less(s)] = G(Out(less(s)))[less(s)]
        <5> HIDE DEF k, less
        <5> QED
          BY <2>3, <4>2
      <4> QED
        BY <3>1, <3>2, <4>3
    <3> QED
      BY <3>1, <3>2
  <2>5. k = [s \in SUBSET T |-> k[s]]
    OBVIOUS
  <2> HIDE DEF k
  <2>6. k = [s \in SUBSET T |-> IF s = {} THEN 0 ELSE f[First(s)] + k[s \ {First(s)}]]
    BY <2>4, <2>5
  <2> QED
    BY <2>6 DEF Sums
<1>2. \A T \in SUBSET S : (\A x \in T : T \ {x} \in Good) => T \in Good
  BY <1>1
<1>3. \A T \in SUBSET S : T \in Good
  <2> HIDE DEF Good
  <2> QED
    BY <1>2, SubsetInduction
<1> QED
  BY <1>3

\* The sum of no entries, and of one more.
LEMMA TotalUnfolds ==
  ASSUME NEW f, NEW S, IsFiniteSet(S)
  PROVE  Total(f, S) = IF S = {} THEN 0 ELSE f[First(S)] + Total(f, S \ {First(S)})
<1> DEFINE R == S \ {First(S)}
           g == CHOOSE k : Sums(k, f, S)
           h == CHOOSE k : Sums(k, f, R)
<1>1. R \in SUBSET S /\ S \in SUBSET S
  OBVIOUS
<1>2. (\E k : Sums(k, f, S)) /\ (\E k : Sums(k, f, R))
  <2> HIDE DEF R
  <2> QED
    BY <1>1, SumsExist
<1>3. Sums(g, f, S) /\ Sums(h, f, R)
  BY <1>2
<1>4. Total(f, S) = g[S] /\ Total(f, R) = h[R]
  BY DEF Total
<1> HIDE DEF g, h
<1>5. g[S] = IF S = {} THEN 0 ELSE f[First(S)] + g[R]
  BY <1>1, <1>3, SumsAre
<1>6. g[R] = h[R]
  <2> HIDE DEF R
  <2>1. \A s \in SUBSET S : s \subseteq S /\ s \subseteq R => g[s] = h[s]
    BY <1>1, <1>3, SumsAgree
  <2> QED
    BY <1>1, <2>1
<1> QED
  BY <1>4, <1>5, <1>6

\* A sum of naturals is a natural.
LEMMA TotalNat ==
  ASSUME NEW f, NEW S, IsFiniteSet(S), \A u \in S : f[u] \in Nat
  PROVE  \A T \in SUBSET S : Total(f, T) \in Nat
<1> DEFINE Good == {T \in SUBSET S : Total(f, T) \in Nat}
<1>1. ASSUME NEW T \in SUBSET S, \A x \in T : T \ {x} \in Good
      PROVE  Total(f, T) \in Nat
  <2>1. IsFiniteSet(T)
    BY FS_Subset
  <2>2. CASE T = {}
    <3>1. Total(f, T) = 0
      BY <2>1, <2>2, TotalUnfolds
    <3> QED
      BY <3>1
  <2>3. CASE T # {}
    <3>1. First(T) \in T /\ f[First(T)] \in Nat
      BY <2>3, FirstOf
    <3>2. Total(f, T \ {First(T)}) \in Nat
      BY <1>1, <3>1
    <3>3. Total(f, T) = f[First(T)] + Total(f, T \ {First(T)})
      BY <2>1, <2>3, TotalUnfolds
    <3> QED
      BY <3>1, <3>2, <3>3
  <2> QED
    BY <2>2, <2>3
<1>2. \A T \in SUBSET S : (\A x \in T : T \ {x} \in Good) => T \in Good
  BY <1>1
<1>3. \A T \in SUBSET S : T \in Good
  <2> HIDE DEF Good
  <2> QED
    BY <1>2, SubsetInduction
<1> QED
  BY <1>3

\* It does not matter which element is taken first.
LEMMA TotalTakes ==
  ASSUME NEW f, NEW S, IsFiniteSet(S), \A u \in S : f[u] \in Nat
  PROVE  \A T \in SUBSET S : \A u \in T : Total(f, T) = f[u] + Total(f, T \ {u})
<1> DEFINE Good == {T \in SUBSET S : \A u \in T : Total(f, T) = f[u] + Total(f, T \ {u})}
<1>1. ASSUME NEW T \in SUBSET S, \A x \in T : T \ {x} \in Good, NEW u \in T
      PROVE  Total(f, T) = f[u] + Total(f, T \ {u})
  <2> DEFINE c == First(T)
  <2>1. c \in T /\ IsFiniteSet(T)
    BY FirstOf, FS_Subset
  <2>2. Total(f, T) = f[c] + Total(f, T \ {c})
    BY <2>1, TotalUnfolds
  <2> HIDE DEF c
  <2>3. CASE u = c
    BY <2>2, <2>3
  <2>4. CASE u # c
    <3>1. Total(f, T \ {c}) = f[u] + Total(f, (T \ {c}) \ {u})
      BY <1>1, <2>1, <2>4
    <3>2. Total(f, T \ {u}) = f[c] + Total(f, (T \ {u}) \ {c})
      BY <1>1, <2>1, <2>4
    <3>3. (T \ {c}) \ {u} = (T \ {u}) \ {c}
      OBVIOUS
    <3>4. Total(f, (T \ {c}) \ {u}) \in Nat /\ f[u] \in Nat /\ f[c] \in Nat
      BY <2>1, TotalNat
    <3> QED
      BY <2>2, <3>1, <3>2, <3>3, <3>4
  <2> QED
    BY <2>3, <2>4
<1>2. \A T \in SUBSET S : (\A x \in T : T \ {x} \in Good) => T \in Good
  BY <1>1
<1>3. \A T \in SUBSET S : T \in Good
  <2> HIDE DEF Good
  <2> QED
    BY <1>2, SubsetInduction
<1> QED
  BY <1>3

\* The sum of what is added entry by entry, and of nothing.
LEMMA TotalAdds ==
  ASSUME NEW f, NEW g, NEW h, NEW S, IsFiniteSet(S),
         \A u \in S : f[u] \in Nat /\ g[u] \in Nat /\ h[u] = f[u] + g[u]
  PROVE  Total(h, S) = Total(f, S) + Total(g, S)
<1> DEFINE Good == {T \in SUBSET S : Total(h, T) = Total(f, T) + Total(g, T)}
<1>1. ASSUME NEW T \in SUBSET S, \A x \in T : T \ {x} \in Good
      PROVE  Total(h, T) = Total(f, T) + Total(g, T)
  <2>1. IsFiniteSet(T)
    BY FS_Subset
  <2>2. CASE T = {}
    <3>1. Total(f, T) = 0 /\ Total(g, T) = 0 /\ Total(h, T) = 0
      BY <2>1, <2>2, TotalUnfolds
    <3> QED
      BY <3>1
  <2>3. CASE T # {}
    <3> DEFINE c == First(T)
    <3>1. c \in T
      BY <2>3, FirstOf
    <3>2. /\ Total(f, T) = f[c] + Total(f, T \ {c})
          /\ Total(g, T) = g[c] + Total(g, T \ {c})
          /\ Total(h, T) = h[c] + Total(h, T \ {c})
      BY <2>1, <2>3, TotalUnfolds
    <3> HIDE DEF c
    <3>3. Total(h, T \ {c}) = Total(f, T \ {c}) + Total(g, T \ {c})
      BY <1>1, <3>1
    <3>4. /\ Total(f, T \ {c}) \in Nat /\ Total(g, T \ {c}) \in Nat
          /\ f[c] \in Nat /\ g[c] \in Nat /\ h[c] = f[c] + g[c]
      BY <3>1, TotalNat
    <3> QED
      BY <3>2, <3>3, <3>4
  <2> QED
    BY <2>2, <2>3
<1>2. \A T \in SUBSET S : (\A x \in T : T \ {x} \in Good) => T \in Good
  BY <1>1
<1>3. \A T \in SUBSET S : T \in Good
  <2> HIDE DEF Good
  <2> QED
    BY <1>2, SubsetInduction
<1> QED
  BY <1>3

LEMMA TotalOfNothing ==
  ASSUME NEW f, NEW S, IsFiniteSet(S), \A u \in S : f[u] = 0
  PROVE  Total(f, S) = 0
<1>1. Total(f, S) = Total(f, S) + Total(f, S)
  BY TotalAdds
<1>2. Total(f, S) \in Nat
  BY TotalNat
<1>3. \A n \in Nat : n = n + n => n = 0
  OBVIOUS
<1> QED
  BY <1>1, <1>2, <1>3

\* Fewer entries, each no greater, sum up to no more.
LEMMA TotalGrows ==
  ASSUME NEW f, NEW h, NEW S, IsFiniteSet(S), NEW A,
         \A u \in S : f[u] \in Nat /\ h[u] \in Nat,
         \A u \in S \cap A : f[u] <= h[u]
  PROVE  Total(f, S \cap A) <= Total(h, S)
<1> DEFINE Good == {T \in SUBSET S : Total(f, T \cap A) <= Total(h, T)}
<1>1. ASSUME NEW T \in SUBSET S, \A x \in T : T \ {x} \in Good
      PROVE  Total(f, T \cap A) <= Total(h, T)
  <2>1. CASE T = {}
    <3>1. T \cap A = {} /\ IsFiniteSet(T)
      BY <2>1, FS_Subset
    <3>2. Total(f, {}) = 0 /\ Total(h, {}) = 0
      BY <2>1, <3>1, TotalUnfolds
    <3>3. Total(f, T \cap A) = 0
      BY <3>1, <3>2
    <3>4. Total(h, T) = 0
      BY <2>1, <3>2
    <3> QED
      BY <3>3, <3>4
  <2>2. CASE T # {}
    <3> DEFINE c == First(T)
               R == T \ {c}
    <3>1. c \in T /\ c \in S
      BY <2>2, FirstOf
    <3>2. Total(h, T) = h[c] + Total(h, R)
      BY <3>1, TotalTakes
    <3>3. Total(f, R \cap A) <= Total(h, R)
      BY <1>1, <3>1
    <3>4. /\ Total(f, R \cap A) \in Nat /\ Total(h, R) \in Nat
          /\ f[c] \in Nat /\ h[c] \in Nat
      BY <3>1, TotalNat
    <3>5. CASE c \in A
      <4>1. c \in T \cap A /\ T \cap A \in SUBSET S /\ (T \cap A) \ {c} = R \cap A
        BY <3>1, <3>5
      <4>2. Total(f, T \cap A) = f[c] + Total(f, (T \cap A) \ {c})
        BY <4>1, TotalTakes
      <4>3. Total(f, T \cap A) = f[c] + Total(f, R \cap A) /\ f[c] <= h[c]
        BY <3>1, <3>5, <4>1, <4>2
      <4> HIDE DEF c, R
      <4> QED
        BY <3>2, <3>3, <3>4, <4>3
    <3>6. CASE c \notin A
      <4>1. T \cap A = R \cap A
        BY <3>6
      <4> HIDE DEF c, R
      <4> QED
        BY <3>2, <3>3, <3>4, <4>1
    <3> QED
      BY <3>5, <3>6
  <2> QED
    BY <2>1, <2>2
<1>2. \A T \in SUBSET S : (\A x \in T : T \ {x} \in Good) => T \in Good
  BY <1>1
<1>3. \A T \in SUBSET S : T \in Good
  <2> HIDE DEF Good
  <2> QED
    BY <1>2, SubsetInduction
<1> QED
  BY <1>3

-----------------------------------------------------------------------------
(***************************************************************************)
(* The sums over the users of an admin.                                    *)
(***************************************************************************)
LEMMA OwnedFinite ==
  ASSUME NEW a, NEW among
  PROVE  /\ OwnedBy(a) \cap among \in SUBSET Users
         /\ IsFiniteSet(OwnedBy(a) \cap among)
<1>1. OwnedBy(a) \cap among \in SUBSET Users
  BY DEF OwnedBy
<1> QED
  BY <1>1, FS_Subset, ConstantsAssumption

LEMMA OwnedNat ==
  ASSUME NEW f, NEW a, NEW among, \A u \in Users : f[u] \in Nat
  PROVE  OwnedSum(f, a, among) \in Nat
<1> DEFINE S == OwnedBy(a) \cap among
<1>1. IsFiniteSet(S) /\ S \in SUBSET S /\ \A u \in S : f[u] \in Nat
  BY OwnedFinite
<1> HIDE DEF S
<1>2. Total(f, S) \in Nat
  BY <1>1, TotalNat
<1> QED
  BY <1>2, OwnedSumIsTotal DEF S

LEMMA OwnedAdds ==
  ASSUME NEW f, NEW g, NEW h, NEW a,
         \A u \in Users : f[u] \in Nat /\ g[u] \in Nat /\ h[u] = f[u] + g[u]
  PROVE  OwnedSum(h, a, Users) = OwnedSum(f, a, Users) + OwnedSum(g, a, Users)
<1> DEFINE S == OwnedBy(a) \cap Users
<1>1. IsFiniteSet(S) /\ \A u \in S : f[u] \in Nat /\ g[u] \in Nat /\ h[u] = f[u] + g[u]
  BY OwnedFinite
<1> HIDE DEF S
<1>2. Total(h, S) = Total(f, S) + Total(g, S)
  BY <1>1, TotalAdds
<1> QED
  BY <1>2, OwnedSumIsTotal DEF S

LEMMA OwnedGrows ==
  ASSUME NEW f, NEW h, NEW a, NEW A, NEW B, A \subseteq B,
         \A u \in Users : f[u] \in Nat /\ h[u] \in Nat,
         \A u \in Users : u \in A => f[u] <= h[u]
  PROVE  OwnedSum(f, a, A) <= OwnedSum(h, a, B)
<1> DEFINE S == OwnedBy(a) \cap B
<1>1. /\ IsFiniteSet(S) /\ \A u \in S : f[u] \in Nat /\ h[u] \in Nat
      /\ \A u \in S \cap A : f[u] <= h[u]
  BY OwnedFinite
<1>2. S \cap A = OwnedBy(a) \cap A
  OBVIOUS
<1> HIDE DEF S
<1>3. Total(f, S \cap A) <= Total(h, S)
  BY <1>1, TotalGrows
<1> QED
  BY <1>2, <1>3, OwnedSumIsTotal DEF S

LEMMA OwnedTakes ==
  ASSUME NEW f, NEW a, NEW among, NEW u \in Users \cap among,
         \A v \in Users : f[v] \in Nat
  PROVE  OwnedSum(f, a, among)
           = OwnedSum(f, a, among \ {u}) + IF Owner[u] = a THEN f[u] ELSE 0
<1> DEFINE S == OwnedBy(a) \cap among
           R == OwnedBy(a) \cap (among \ {u})
<1>1. IsFiniteSet(S) /\ S \in SUBSET S /\ \A v \in S : f[v] \in Nat
  BY OwnedFinite
<1>2. OwnedSum(f, a, among) = Total(f, S) /\ OwnedSum(f, a, among \ {u}) = Total(f, R)
  BY OwnedSumIsTotal
<1>3. Total(f, R) \in Nat /\ f[u] \in Nat
  BY <1>2, OwnedNat
<1>4. CASE Owner[u] = a
  <2>1. u \in S /\ R = S \ {u}
    BY <1>4 DEF OwnedBy
  <2> HIDE DEF S, R
  <2>2. Total(f, S) = f[u] + Total(f, S \ {u})
    BY <1>1, <2>1, TotalTakes
  <2> QED
    BY <1>2, <1>3, <1>4, <2>1, <2>2
<1>5. CASE Owner[u] # a
  <2>1. R = S
    BY <1>5 DEF OwnedBy
  <2> HIDE DEF S, R
  <2> QED
    BY <1>2, <1>3, <1>5, <2>1
<1> QED
  BY <1>4, <1>5

LEMMA OwnedNothing ==
  ASSUME NEW a, NEW among
  PROVE  OwnedSum(NoUsers, a, among) = 0
<1> DEFINE S == OwnedBy(a) \cap among
<1>1. IsFiniteSet(S) /\ \A u \in S : NoUsers[u] = 0
  BY OwnedFinite DEF NoUsers
<1> HIDE DEF S
<1>2. Total(NoUsers, S) = 0
  BY <1>1, TotalOfNothing
<1> QED
  BY <1>2, OwnedSumIsTotal DEF S

-----------------------------------------------------------------------------
(***************************************************************************)
(* What the running cycle holds for the admins.                            *)
(***************************************************************************)
\* The admins' amounts come from the users looked up, each looked up once; from Fold
\* to CommitUsers what is parked is in them too, and is parked no longer when the admin
\* write they feed is under way.
AdminFlow ==
  /\ pc = "idle" => usersUsage = NoUsers
  /\ pc \in {"idle", "collect"} => adminUsage = NoAdmins /\ valid = {}
  /\ pc = "lookup" => valid \cap todo = {}
  /\ pc = "user" => \A a \in Admins : carriedAdmin[a] <= adminUsage[a]
  /\ pc = "admin" => carriedAdmin = NoAdmins

LEMMA AdminFlowStep ==
  ASSUME TypeOK, AdminFlow, [Next]_vars
  PROVE  AdminFlow'
<1> USE DEF nodeVars, userVars, adminVars, carryVars, usageVars, batchVars,
            history
<1>1. CASE UNCHANGED vars
  BY <1>1 DEF vars, AdminFlow
<1>2. CASE Environment
  BY <1>2 DEF AdminFlow, Environment, Traffic, SetCoefficient, DeleteUser
<1>3. ASSUME NEW healthy \in SUBSET Nodes, StartCycle(healthy)
      PROVE  AdminFlow'
  BY <1>3 DEF AdminFlow, StartCycle
<1>e. ASSUME EndCycle
      PROVE  AdminFlow'
  BY <1>e DEF AdminFlow, EndCycle
<1>4. CASE Cycle
  <2>1. ASSUME NEW n \in Nodes, CollectNode(n)
        PROVE  AdminFlow'
    BY <2>1 DEF AdminFlow, CollectNode
  <2>2. CASE Collected
    BY <2>2, <1>e DEF AdminFlow, Collected
  <2>3. ASSUME NEW u \in Users, LookupUser(u)
        PROVE  AdminFlow'
    BY <2>3 DEF AdminFlow, LookupUser
  <2>4. CASE Fold
    <3>1. CASE EndCycle
      BY <3>1, <1>e
    <3>2. CASE pc' = "user" /\ adminUsage' = MergeAdminUsage
      <4>1. ASSUME NEW a \in Admins
            PROVE  carriedAdmin'[a] <= adminUsage'[a]
        <5>1. adminUsage'[a] = adminUsage[a] + carriedAdmin[a]
          BY <3>2 DEF MergeAdminUsage
        <5>2. adminUsage[a] \in Nat /\ carriedAdmin[a] \in Nat
          BY DEF TypeOK
        <5>3. carriedAdmin' = carriedAdmin
          BY <2>4 DEF Fold
        <5> QED
          BY <5>1, <5>2, <5>3
      <4> QED
        BY <3>2, <4>1 DEF AdminFlow
    <3> QED
      BY <2>4, <3>1, <3>2 DEF Fold
  <2>5. CASE CommitUsers
    BY <2>5 DEF AdminFlow, CommitUsers
  <2>6. CASE CommitAdmins \/ Enforce \/ RetryRows \/ FreshRows
    BY <2>6 DEF AdminFlow, CommitAdmins, Enforce, RetryRows, FreshRows, WriteRows
  <2>7. CASE NoMoreRows
    BY <2>7, <1>e DEF NoMoreRows
  <2>8. ASSUME NEW b \in SUBSET rows, CommitRows(b)
        PROVE  AdminFlow'
    BY <2>8, <1>e DEF AdminFlow, CommitRows
  <2> QED
    BY <1>4, <2>1, <2>2, <2>3, <2>4, <2>5, <2>6, <2>7, <2>8 DEF Cycle
<1>5. CASE Failure
  <2>1. ASSUME NEW n \in Nodes, NodeFails(n)
        PROVE  AdminFlow'
    BY <2>1 DEF AdminFlow, NodeFails
  <2>2. CASE Deadlock
    BY <2>2 DEF AdminFlow, Deadlock
  <2>3. CASE RollBack \/ Ambiguous \/ Crash
    BY <2>3, <1>e DEF RollBack, Ambiguous, Crash
  <2> QED
    BY <1>5, <2>1, <2>2, <2>3 DEF Failure
<1> QED
  BY <1>1, <1>2, <1>3, <1>4, <1>5 DEF Next

LEMMA AdminFlowHolds == Spec => [](TypeOK /\ AdminFlow)
<1>1. Init => AdminFlow
  BY DEF Init, AdminFlow, NoAdmins
<1> QED
  BY <1>1, InitType, NextType, AdminFlowStep, PTL DEF Spec

\* The amounts of an admin, and the sums over its users, as naturals.
LEMMA AmountsType ==
  ASSUME TypeOK, NEW a \in Admins
  PROVE  /\ adminUsed[a] \in Nat /\ adminUsage[a] \in Nat /\ carriedAdmin[a] \in Nat
         /\ \A S : OwnedSum(usersUsage, a, S) \in Nat
         /\ \A S : OwnedSum(userUsed, a, S) \in Nat
         /\ \A S : OwnedSum(due, a, S) \in Nat
<1>1. /\ \A u \in Users : usersUsage[u] \in Nat /\ userUsed[u] \in Nat /\ due[u] \in Nat
      /\ adminUsed[a] \in Nat /\ adminUsage[a] \in Nat /\ carriedAdmin[a] \in Nat
  BY DEF TypeOK
<1> QED
  BY <1>1, OwnedNat

\* Looking a user up moves its usage to its owner, or drops it when the user is gone.
LEMMA LookupMoves ==
  ASSUME TypeOK, NEW u \in Users, LookupUser(u), NEW a \in Admins
  PROVE  /\ OwnedSum(usersUsage, a, todo)
              = OwnedSum(usersUsage, a, todo') + (IF Owner[u] = a THEN usersUsage[u] ELSE 0)
         /\ adminUsage'[a] \in {adminUsage[a],
                                adminUsage[a] + (IF Owner[u] = a THEN usersUsage[u] ELSE 0)}
         /\ u \notin exists => UNCHANGED <<valid, adminUsage>>
         /\ u \in exists => /\ valid' = valid \cup {u}
                            /\ adminUsage'[a] = adminUsage[a]
                                 + (IF Owner[u] = a THEN usersUsage[u] ELSE 0)
<1>1. u \in todo /\ todo' = todo \ {u}
  BY DEF LookupUser
<1>2. \A v \in Users : usersUsage[v] \in Nat
  BY DEF TypeOK
<1>3. OwnedSum(usersUsage, a, todo)
        = OwnedSum(usersUsage, a, todo') + (IF Owner[u] = a THEN usersUsage[u] ELSE 0)
  BY <1>1, <1>2, OwnedTakes
<1>4. CASE u \notin exists
  BY <1>3, <1>4 DEF LookupUser
<1>5. CASE u \in exists
  <2>1. adminUsage \in [Admins -> Nat] /\ a # NoAdmin /\ adminUsage[a] \in Nat
    BY ConstantsAssumption DEF TypeOK
  <2>2. adminUsage' = IF Owner[u] = NoAdmin THEN adminUsage
                      ELSE [adminUsage EXCEPT ![Owner[u]] = @ + usersUsage[u]]
    BY <1>5 DEF LookupUser
  <2>3. adminUsage'[a] = adminUsage[a] + (IF Owner[u] = a THEN usersUsage[u] ELSE 0)
    BY <2>1, <2>2
  <2>4. valid' = valid \cup {u}
    BY <1>5 DEF LookupUser
  <2> QED
    BY <1>3, <1>5, <2>3, <2>4
<1> QED
  BY <1>4, <1>5

-----------------------------------------------------------------------------
(***************************************************************************)
(* No admin is ahead of its users.                                         *)
(***************************************************************************)
\* What is written or parked for an admin has been written to its users; what the
\* running cycle holds for it, it holds for its users or has written to them.
Behind ==
  \A a \in Admins :
    /\ adminUsed[a] + carriedAdmin[a] <= OwnedSum(userUsed, a, Users)
    /\ pc = "lookup" => adminUsage[a] <= OwnedSum(usersUsage, a, valid)
    /\ pc = "user" => adminUsed[a] + adminUsage[a]
                        <= OwnedSum(userUsed, a, Users) + OwnedSum(usersUsage, a, Users)
    /\ pc = "admin" => adminUsed[a] + adminUsage[a] <= OwnedSum(userUsed, a, Users)

\* The user write adds up to the sum over the users of an admin.
LEMMA UserWriteSum ==
  ASSUME TypeOK, exists = Users, userUsed' = AddToUsers, NEW a \in Admins
  PROVE  OwnedSum(userUsed', a, Users)
           = OwnedSum(userUsed, a, Users) + OwnedSum(usersUsage, a, Users)
<1>1. \A u \in Users : /\ userUsed[u] \in Nat /\ usersUsage[u] \in Nat
                       /\ userUsed'[u] = userUsed[u] + usersUsage[u]
  BY DEF AddToUsers, TypeOK
<1> QED
  BY <1>1, OwnedAdds

\* A step that leaves the written and the parked amounts of the admins alone, after which
\* the cycle holds nothing for them.
LEMMA BehindIdles ==
  ASSUME TypeOK, Behind, UNCHANGED <<userUsed, adminUsed, carriedAdmin>>,
         pc' \notin {"lookup", "user", "admin"}
  PROVE  Behind'
BY DEF Behind

\* A cycle that ends with its write done, parked or dropped.
LEMMA BehindEnds ==
  ASSUME TypeOK, AdminFlow, Behind, exists = Users, MaybeLanded, EndCycle,
         \/ UNCHANGED carriedAdmin
         \/ carriedAdmin' = NoAdmins
  PROVE  Behind'
<1> SUFFICES ASSUME NEW a \in Admins
             PROVE  adminUsed'[a] + carriedAdmin'[a] <= OwnedSum(userUsed', a, Users)
  BY DEF Behind, EndCycle
<1>1. carriedAdmin'[a] \in {0, carriedAdmin[a]}
  BY DEF NoAdmins
<1>2. adminUsed[a] + carriedAdmin[a] <= OwnedSum(userUsed, a, Users)
  BY DEF Behind
<1>3. CASE UNCHANGED <<userUsed, adminUsed>>
  BY <1>1, <1>2, <1>3, AmountsType
<1>4. CASE userUsed' = AddToUsers /\ UNCHANGED adminUsed
  BY <1>1, <1>2, <1>4, UserWriteSum, AmountsType
<1>5. CASE pc = "admin" /\ adminUsed' = AddToAdmins /\ UNCHANGED userUsed
  <2>1. adminUsed'[a] = adminUsed[a] + adminUsage[a]
    BY <1>5 DEF AddToAdmins
  <2>2. carriedAdmin'[a] = 0
    BY <1>1, <1>5 DEF AdminFlow, NoAdmins
  <2>3. adminUsed[a] + adminUsage[a] <= OwnedSum(userUsed, a, Users)
    BY <1>5 DEF Behind
  <2> QED
    BY <1>5, <2>1, <2>2, <2>3, AmountsType
<1> QED
  BY <1>3, <1>4, <1>5 DEF MaybeLanded

\* Folding in keeps each admin within its users: what was parked for it is written.
LEMMA BehindFolds ==
  ASSUME TypeOK, AdminFlow, Behind, Fold
  PROVE  Behind'
<1> USE DEF nodeVars, userVars, adminVars, carryVars, usageVars, batchVars,
            history
<1>1. CASE EndCycle
  BY <1>1, BehindIdles DEF Fold, EndCycle
<1>2. CASE usersUsage' = MergeUsage /\ adminUsage' = MergeAdminUsage /\ pc' = "user"
  <2> SUFFICES ASSUME NEW a \in Admins
               PROVE  /\ adminUsed[a] + carriedAdmin[a] <= OwnedSum(userUsed, a, Users)
                      /\ adminUsed[a] + adminUsage'[a] <= OwnedSum(userUsed, a, Users)
                                                         + OwnedSum(usersUsage', a, Users)
    BY <1>2 DEF Behind, Fold
  <2>1. adminUsage'[a] = adminUsage[a] + carriedAdmin[a]
    BY <1>2 DEF MergeAdminUsage
  <2>2. \A u \in Users : /\ usersUsage[u] \in Nat
                         /\ usersUsage'[u] = carriedUser[u] + IF u \in valid THEN usersUsage[u] ELSE 0
                         /\ carriedUser[u] \in Nat
    BY <1>2 DEF MergeUsage, TypeOK
  <2>3. valid \subseteq Users
    BY DEF TypeOK
  <2>4. \A u \in Users : usersUsage'[u] \in Nat /\ (u \in valid => usersUsage[u] <= usersUsage'[u])
    BY <2>2
  <2>5. OwnedSum(usersUsage, a, valid) <= OwnedSum(usersUsage', a, Users)
    BY <2>2, <2>3, <2>4, OwnedGrows
  <2>6. OwnedSum(usersUsage', a, Users) \in Nat
    BY <2>4, OwnedNat
  <2>7. /\ adminUsage[a] <= OwnedSum(usersUsage, a, valid)
        /\ adminUsed[a] + carriedAdmin[a] <= OwnedSum(userUsed, a, Users)
    BY DEF Behind, Fold
  <2> QED
    BY <2>1, <2>5, <2>6, <2>7, AmountsType
<1> QED
  BY <1>1, <1>2 DEF Fold

\* Looking a user up adds as much to its owner as to the users looked up.
LEMMA BehindLookup ==
  ASSUME TypeOK, AdminFlow, Behind, exists = Users, NEW u \in Users, LookupUser(u)
  PROVE  Behind'
<1> USE DEF nodeVars, userVars, adminVars, carryVars, usageVars, batchVars,
            history
<1> SUFFICES ASSUME NEW a \in Admins
             PROVE  adminUsage'[a] <= OwnedSum(usersUsage, a, valid')
  BY DEF Behind, LookupUser
<1>1. /\ valid' = valid \cup {u}
      /\ adminUsage'[a] = adminUsage[a] + (IF Owner[u] = a THEN usersUsage[u] ELSE 0)
  BY LookupMoves
<1>2. u \notin valid /\ valid' \ {u} = valid /\ u \in Users \cap valid'
  BY <1>1 DEF AdminFlow, LookupUser
<1>3. \A v \in Users : usersUsage[v] \in Nat
  BY DEF TypeOK
<1>4. OwnedSum(usersUsage, a, valid')
        = OwnedSum(usersUsage, a, valid' \ {u}) + (IF Owner[u] = a THEN usersUsage[u] ELSE 0)
  BY <1>2, <1>3, OwnedTakes
<1>5. adminUsage[a] <= OwnedSum(usersUsage, a, valid)
  BY DEF Behind, LookupUser
<1> QED
  BY <1>1, <1>2, <1>3, <1>4, <1>5, AmountsType

LEMMA BehindStep ==
  ASSUME TypeOK, AdminFlow, exists = Users => Behind, [Next]_vars
  PROVE  (exists = Users => Behind)'
<1> USE DEF nodeVars, userVars, adminVars, carryVars, usageVars, batchVars,
            history
<1>1. CASE UNCHANGED vars
  BY <1>1 DEF vars, Behind
<1>2. CASE Environment
  <2>1. ASSUME NEW u \in Users, DeleteUser(u)
        PROVE  exists' # Users
    BY <2>1 DEF DeleteUser
  <2>2. ASSUME Environment, exists' = Users
        PROVE  UNCHANGED <<pc, valid, exists, userUsed, adminUsed, carriedAdmin, adminUsage,
                           usersUsage>>
    BY <2>1, <2>2 DEF Environment, Traffic, SetCoefficient
  <2> QED
    BY <1>2, <2>2 DEF Behind
<1> SUFFICES ASSUME ~(UNCHANGED vars), ~Environment, exists = Users, Behind, exists' = Users
             PROVE  Behind'
  <2>1. ASSUME ~(UNCHANGED vars), ~Environment
        PROVE  exists' = exists
    BY <2>1 DEF Next, StartCycle, Cycle, CollectNode, Collected, LookupUser, Fold, CommitUsers,
                CommitAdmins, Enforce, RetryRows, FreshRows, NoMoreRows, CommitRows, Failure,
                NodeFails, Deadlock, RollBack, Ambiguous, Crash
  <2> QED
    BY <1>1, <1>2, <2>1
<1>3. ASSUME NEW healthy \in SUBSET Nodes, StartCycle(healthy)
      PROVE  Behind'
  BY <1>3, BehindIdles DEF StartCycle
<1>4. CASE Cycle
  <2>1. ASSUME NEW n \in Nodes, CollectNode(n)
        PROVE  Behind'
    BY <2>1, BehindIdles DEF CollectNode
  <2>2. CASE Collected
    <3>1. CASE EndCycle
      BY <2>2, <3>1, BehindIdles DEF Collected, EndCycle
    <3>2. CASE pc' = "lookup" /\ UNCHANGED usageVars
      <4> SUFFICES ASSUME NEW a \in Admins
                   PROVE  /\ adminUsed[a] + carriedAdmin[a] <= OwnedSum(userUsed, a, Users)
                          /\ adminUsage[a] <= OwnedSum(usersUsage, a, valid)
        BY <2>2, <3>2 DEF Behind, Collected
      <4>1. adminUsage[a] = 0
        BY <2>2 DEF AdminFlow, Collected, NoAdmins
      <4> QED
        BY <4>1, AmountsType DEF Behind
    <3> QED
      BY <2>2, <3>1, <3>2 DEF Collected
  <2>3. ASSUME NEW u \in Users, LookupUser(u)
        PROVE  Behind'
    BY <2>3, BehindLookup
  <2>4. CASE CommitUsers
    <3> SUFFICES ASSUME NEW a \in Admins
                 PROVE  /\ adminUsed[a] + carriedAdmin'[a] <= OwnedSum(userUsed', a, Users)
                        /\ adminUsed[a] + adminUsage[a] <= OwnedSum(userUsed', a, Users)
      BY <2>4 DEF Behind, CommitUsers
    <3>1. carriedAdmin'[a] = 0 /\ carriedAdmin[a] <= adminUsage[a]
      BY <2>4 DEF CommitUsers, NoAdmins, AdminFlow
    <3>2. OwnedSum(userUsed', a, Users)
            = OwnedSum(userUsed, a, Users) + OwnedSum(usersUsage, a, Users)
      BY <2>4, UserWriteSum DEF CommitUsers
    <3>3. adminUsed[a] + adminUsage[a]
            <= OwnedSum(userUsed, a, Users) + OwnedSum(usersUsage, a, Users)
      BY <2>4 DEF Behind, CommitUsers
    <3> QED
      BY <3>1, <3>2, <3>3, AmountsType
  <2>5. CASE CommitAdmins
    <3> SUFFICES ASSUME NEW a \in Admins
                 PROVE  adminUsed'[a] + carriedAdmin[a] <= OwnedSum(userUsed, a, Users)
      BY <2>5 DEF Behind, CommitAdmins
    <3>1. carriedAdmin[a] = 0 /\ adminUsed'[a] = adminUsed[a] + adminUsage[a]
      BY <2>5 DEF CommitAdmins, AddToAdmins, AdminFlow, NoAdmins
    <3>2. adminUsed[a] + adminUsage[a] <= OwnedSum(userUsed, a, Users)
      BY <2>5 DEF Behind, CommitAdmins
    <3> QED
      BY <3>1, <3>2, AmountsType
  <2>6. CASE Enforce \/ RetryRows \/ FreshRows
    BY <2>6, BehindIdles DEF Enforce, RetryRows, FreshRows, WriteRows
  <2>7. CASE NoMoreRows
    BY <2>7, BehindIdles DEF NoMoreRows, EndCycle
  <2>8. ASSUME NEW b \in SUBSET rows, CommitRows(b)
        PROVE  Behind'
    BY <2>8, BehindIdles DEF CommitRows, EndCycle
  <2> QED
    BY <1>4, <2>1, <2>2, <2>3, BehindFolds, <2>4, <2>5, <2>6, <2>7, <2>8 DEF Cycle
<1>5. CASE Failure
  <2>1. ASSUME NEW n \in Nodes, NodeFails(n)
        PROVE  Behind'
    BY <2>1, BehindIdles DEF NodeFails
  <2>2. CASE Deadlock
    BY <2>2 DEF Behind, Deadlock
  <2>3. CASE RollBack
    <3>1. CASE pc = "admin"
      <4> SUFFICES ASSUME NEW a \in Admins
                   PROVE  adminUsed[a] + carriedAdmin'[a] <= OwnedSum(userUsed, a, Users)
        BY <2>3 DEF Behind, RollBack, EndCycle
      <4>1. carriedAdmin' = adminUsage
        BY <2>3, <3>1 DEF RollBack, Park
      <4> QED
        BY <3>1, <4>1 DEF Behind
    <3>2. CASE pc # "admin"
      BY <2>3, <3>2, BehindIdles DEF RollBack, Park, EndCycle
    <3> QED
      BY <3>1, <3>2
  <2>4. CASE Ambiguous
    BY <2>4, BehindEnds DEF Ambiguous
  <2>5. CASE Crash
    BY <2>5, BehindEnds DEF Crash
  <2> QED
    BY <1>5, <2>1, <2>2, <2>3, <2>4, <2>5 DEF Failure
<1> QED
  BY <1>3, <1>4, <1>5 DEF Next

\* The users' table is written before the admins' and the cycle stops at the first
\* failure, so while no user is deleted no admin's total is ahead of the sum over its
\* users, under every fault and over any number of cycles.
THEOREM AdminsStayBehind == Spec => []AdminNeverAheadOfUsers
<1>1. Init => (exists = Users => Behind)
  <2> SUFFICES ASSUME Init, NEW a \in Admins
               PROVE  adminUsed[a] + carriedAdmin[a] <= OwnedSum(userUsed, a, Users)
    BY DEF Behind, Init
  <2>1. adminUsed[a] = 0 /\ carriedAdmin[a] = 0 /\ userUsed = NoUsers
    BY DEF Init, NoAdmins
  <2> QED
    BY <2>1, OwnedNothing
<1>2. TypeOK /\ (exists = Users => Behind) => AdminNeverAheadOfUsers
  <2> SUFFICES ASSUME TypeOK, Behind, NEW a \in Admins
               PROVE  adminUsed[a] <= OwnedSum(userUsed, a, Users)
    BY DEF AdminNeverAheadOfUsers
  <2> QED
    BY AmountsType DEF Behind
<1> QED
  BY <1>1, <1>2, BehindStep, AdminFlowHolds, PTL DEF Spec

-----------------------------------------------------------------------------
(***************************************************************************)
(* The job implements UsageLedger for the admins.                          *)
(***************************************************************************)
\* What is on its way to an admin, as a natural.
LEMMA AdminPendingIs ==
  ASSUME TypeOK, NEW a \in Admins
  PROVE  /\ AdminPending[a] =
              CASE pc = "collect" -> carriedAdmin[a] + OwnedSum(usersUsage, a, Users)
                [] pc = "lookup"  -> carriedAdmin[a] + adminUsage[a] + OwnedSum(usersUsage, a, todo)
                [] pc = "user"    -> adminUsage[a]
                [] OTHER          -> carriedAdmin[a] + adminUsage[a]
         /\ AdminPending[a] \in Nat
<1>1. AdminPending[a] =
        CASE pc = "collect" -> carriedAdmin[a] + OwnedSum(usersUsage, a, Users)
          [] pc = "lookup"  -> carriedAdmin[a] + adminUsage[a] + OwnedSum(usersUsage, a, todo)
          [] pc = "user"    -> adminUsage[a]
          [] OTHER          -> carriedAdmin[a] + adminUsage[a]
  BY DEF AdminPending
<1> QED
  BY <1>1, AmountsType

\* And after a step.
LEMMA AdminPendingAfter ==
  ASSUME TypeOK', NEW a \in Admins
  PROVE  /\ AdminPending'[a] =
              CASE pc' = "collect" -> carriedAdmin'[a] + OwnedSum(usersUsage', a, Users)
                [] pc' = "lookup"  -> carriedAdmin'[a] + adminUsage'[a]
                                        + OwnedSum(usersUsage', a, todo')
                [] pc' = "user"    -> adminUsage'[a]
                [] OTHER           -> carriedAdmin'[a] + adminUsage'[a]
         /\ AdminPending'[a] \in Nat
         /\ adminUsage'[a] \in Nat /\ carriedAdmin'[a] \in Nat
         /\ \A S : OwnedSum(usersUsage', a, S) \in Nat
<1>1. AdminPending'[a] =
        CASE pc' = "collect" -> carriedAdmin'[a] + OwnedSum(usersUsage', a, Users)
          [] pc' = "lookup"  -> carriedAdmin'[a] + adminUsage'[a]
                                  + OwnedSum(usersUsage', a, todo')
          [] pc' = "user"    -> adminUsage'[a]
          [] OTHER           -> carriedAdmin'[a] + adminUsage'[a]
  BY DEF AdminPending
<1>2. /\ adminUsage'[a] \in Nat /\ carriedAdmin'[a] \in Nat
      /\ \A u \in Users : usersUsage'[u] \in Nat
  BY DEF TypeOK
<1>3. \A S : OwnedSum(usersUsage', a, S) \in Nat
  BY <1>2, OwnedNat
<1> QED
  BY <1>1, <1>2, <1>3

\* A step that leaves the cycle's amounts where they are is no step of the ledger.
LEMMA AdminLedgerStutters ==
  ASSUME UNCHANGED <<pc, todo, adminUsed, carriedAdmin, adminUsage, usersUsage, due>>
  PROVE  UNCHANGED AdminLedgerOf!ledger
BY DEF AdminLedgerOf!ledger, AdminPending

\* A step after which no more is on its way, and nothing new is billed, loses or moves.
LEMMA AdminLedgerLoses ==
  ASSUME TypeOK, TypeOK', UNCHANGED <<adminUsed, due>>,
         \A a \in Admins : AdminPending'[a] <= AdminPending[a]
  PROVE  AdminLedgerOf!LedgerNext
<1> SUFFICES ASSUME NEW a \in Admins
             PROVE  0 <= AdminPending'[a]
  BY DEF AdminLedgerOf!LedgerNext, AdminLedgerOf!Lose
<1> QED
  BY AdminPendingAfter

\* Zeroing a node's counters takes, whether its answer arrives or not.
LEMMA AdminLedgerTakes ==
  ASSUME TypeOK, TypeOK', pc = "collect", NEW n \in Nodes, ResetCounters(n),
         UNCHANGED <<pc, adminUsed, carriedAdmin, adminUsage>>,
         usersUsage' = AddUsage(n) \/ UNCHANGED usersUsage
  PROVE  AdminLedgerOf!Take
<1> DEFINE s == [u \in Users |-> Scale(counter[n][u], winCoeff[n])]
<1>0. \A u \in Users : s[u] \in Nat
  BY ScaledEntry DEF TypeOK
<1>1. \A u \in Users : due[u] \in Nat /\ due'[u] = due[u] + s[u]
  BY DEF ResetCounters, TypeOK
<1>2. \/ \A u \in Users : usersUsage[u] \in Nat /\ usersUsage'[u] = usersUsage[u] + s[u]
      \/ UNCHANGED usersUsage
  BY DEF AddUsage, TypeOK
<1> HIDE DEF s
<1> SUFFICES ASSUME NEW a \in Admins
             PROVE  /\ OwnedSum(due, a, Users) <= OwnedSum(due', a, Users)
                    /\ AdminPending[a] <= AdminPending'[a]
                    /\ AdminPending'[a] - AdminPending[a]
                         <= OwnedSum(due', a, Users) - OwnedSum(due, a, Users)
  BY DEF AdminLedgerOf!Take
<1>3. OwnedSum(due', a, Users) = OwnedSum(due, a, Users) + OwnedSum(s, a, Users)
  BY <1>0, <1>1, OwnedAdds
<1>4. \/ OwnedSum(usersUsage', a, Users) = OwnedSum(usersUsage, a, Users) + OwnedSum(s, a, Users)
      \/ OwnedSum(usersUsage', a, Users) = OwnedSum(usersUsage, a, Users)
  BY <1>0, <1>2, OwnedAdds
<1>5. OwnedSum(s, a, Users) \in Nat
  BY <1>0, OwnedNat
<1>6. /\ AdminPending[a] = carriedAdmin[a] + OwnedSum(usersUsage, a, Users)
      /\ AdminPending'[a] = carriedAdmin[a] + OwnedSum(usersUsage', a, Users)
  BY AdminPendingIs, AdminPendingAfter
<1> QED
  BY <1>3, <1>4, <1>5, <1>6, AmountsType

\* The admin write bills all that is on its way.
LEMMA AdminLedgerBills ==
  ASSUME TypeOK, TypeOK', AdminFlow, pc = "admin", adminUsed' = AddToAdmins, UNCHANGED due,
         pc' \notin {"collect", "lookup", "user"}, adminUsage' = NoAdmins,
         UNCHANGED carriedAdmin \/ carriedAdmin' = NoAdmins
  PROVE  AdminLedgerOf!LedgerNext
<1> SUFFICES ASSUME NEW a \in Admins
             PROVE  adminUsed'[a] = adminUsed[a] + AdminPending[a] /\ AdminPending'[a] = 0
  BY DEF AdminLedgerOf!LedgerNext, AdminLedgerOf!Bill
<1>1. carriedAdmin[a] = 0 /\ carriedAdmin'[a] = 0 /\ adminUsage'[a] = 0
  BY DEF AdminFlow, NoAdmins
<1>2. adminUsed'[a] = adminUsed[a] + adminUsage[a]
  BY DEF AddToAdmins
<1>3. AdminPending[a] = adminUsage[a] /\ AdminPending'[a] = 0
  BY <1>1, AdminPendingIs, AdminPendingAfter, AmountsType
<1> QED
  BY <1>2, <1>3

\* A cycle that ends without an admin write keeps no more than was on its way: what was
\* parked before, what it parks, or nothing.
LEMMA AdminLedgerEnds ==
  ASSUME TypeOK, TypeOK', AdminFlow, EndCycle, UNCHANGED <<adminUsed, due>>,
         \/ UNCHANGED carriedAdmin
         \/ carriedAdmin' = NoAdmins
         \/ pc = "admin" /\ carriedAdmin' = adminUsage
  PROVE  AdminLedgerOf!LedgerNext
<1> SUFFICES ASSUME NEW a \in Admins
             PROVE  AdminPending'[a] <= AdminPending[a]
  BY AdminLedgerLoses
<1>1. AdminPending'[a] = carriedAdmin'[a]
  <2>1. pc' = "idle" /\ adminUsage'[a] = 0
    BY DEF EndCycle, NoAdmins
  <2> QED
    BY <2>1, AdminPendingAfter
<1>2. carriedAdmin[a] <= AdminPending[a]
  <2>1. pc = "user" => carriedAdmin[a] <= adminUsage[a]
    BY DEF AdminFlow
  <2>2. OwnedSum(usersUsage, a, Users) \in Nat /\ OwnedSum(usersUsage, a, todo) \in Nat
    BY AmountsType
  <2> QED
    BY <2>1, <2>2, AdminPendingIs, AmountsType
<1>3. CASE UNCHANGED carriedAdmin
  BY <1>1, <1>2, <1>3
<1>4. CASE carriedAdmin' = NoAdmins
  <2>1. carriedAdmin'[a] = 0
    BY <1>4 DEF NoAdmins
  <2> QED
    BY <1>1, <2>1, AdminPendingIs
<1>5. CASE pc = "admin" /\ carriedAdmin' = adminUsage
  <2>1. carriedAdmin'[a] = adminUsage[a]
    BY <1>5
  <2> QED
    BY <1>1, <1>5, <2>1, AdminPendingIs, AmountsType
<1> QED
  BY <1>3, <1>4, <1>5

\* The job's own steps.
LEMMA AdminLedgerCycle ==
  ASSUME TypeOK, TypeOK', AdminFlow, Cycle
  PROVE  [AdminLedgerOf!LedgerNext]_(AdminLedgerOf!ledger)
<1> USE DEF nodeVars, userVars, adminVars, carryVars, usageVars, batchVars,
            history
<1>1. ASSUME NEW n \in Nodes, CollectNode(n)
      PROVE  AdminLedgerOf!LedgerNext
  BY <1>1, AdminLedgerTakes DEF CollectNode, AdminLedgerOf!LedgerNext
<1>2. CASE Collected
  <2>1. CASE EndCycle
    BY <1>2, <2>1, AdminLedgerEnds DEF Collected
  <2>2. CASE pc' = "lookup" /\ UNCHANGED usageVars
    <3> SUFFICES ASSUME NEW a \in Admins
                 PROVE  AdminPending'[a] <= AdminPending[a]
      BY <1>2, AdminLedgerLoses DEF Collected
    <3>1. adminUsage'[a] = 0 /\ carriedAdmin' = carriedAdmin /\ usersUsage' = usersUsage
      BY <1>2, <2>2 DEF AdminFlow, Collected, NoAdmins
    <3>2. \A u \in Users : usersUsage[u] \in Nat
      BY DEF TypeOK
    <3>3. todo' \subseteq Users
      BY <1>2, <2>2 DEF Collected, EndCycle, Reported
    <3>4. OwnedSum(usersUsage, a, todo') <= OwnedSum(usersUsage, a, Users)
      BY <3>2, <3>3, OwnedGrows
    <3>5. AdminPending[a] = carriedAdmin[a] + OwnedSum(usersUsage, a, Users)
      BY <1>2, AdminPendingIs DEF Collected
    <3>6. AdminPending'[a] = carriedAdmin[a] + 0 + OwnedSum(usersUsage, a, todo')
      BY <2>2, <3>1, AdminPendingAfter
    <3> QED
      BY <3>4, <3>5, <3>6, AmountsType
  <2> QED
    BY <1>2, <2>1, <2>2 DEF Collected
<1>3. ASSUME NEW u \in Users, LookupUser(u)
      PROVE  AdminLedgerOf!LedgerNext
  <2> SUFFICES ASSUME NEW a \in Admins
               PROVE  AdminPending'[a] <= AdminPending[a]
    BY <1>3, AdminLedgerLoses DEF LookupUser
  <2> DEFINE own == IF Owner[u] = a THEN usersUsage[u] ELSE 0
  <2>1. /\ OwnedSum(usersUsage, a, todo) = OwnedSum(usersUsage, a, todo') + own
        /\ adminUsage'[a] \in {adminUsage[a], adminUsage[a] + own}
    BY <1>3, LookupMoves
  <2>2. own \in Nat
    BY DEF TypeOK
  <2>3. AdminPending[a] = carriedAdmin[a] + adminUsage[a] + OwnedSum(usersUsage, a, todo)
    BY <1>3, AdminPendingIs DEF LookupUser
  <2>4. AdminPending'[a] = carriedAdmin[a] + adminUsage'[a] + OwnedSum(usersUsage, a, todo')
    BY <1>3, AdminPendingAfter DEF LookupUser
  <2> HIDE DEF own
  <2> QED
    BY <2>1, <2>2, <2>3, <2>4, AmountsType
<1>4. CASE Fold
  <2>1. CASE EndCycle
    BY <1>4, <2>1, AdminLedgerEnds DEF Fold
  <2>2. CASE pc' = "user" /\ adminUsage' = MergeAdminUsage
    <3> SUFFICES ASSUME NEW a \in Admins
                 PROVE  AdminPending'[a] <= AdminPending[a]
      BY <1>4, AdminLedgerLoses DEF Fold
    <3>1. AdminPending'[a] = adminUsage[a] + carriedAdmin[a]
      BY <2>2, AdminPendingAfter DEF MergeAdminUsage
    <3>2. AdminPending[a] = carriedAdmin[a] + adminUsage[a] + OwnedSum(usersUsage, a, todo)
      BY <1>4, AdminPendingIs DEF Fold
    <3> QED
      BY <3>1, <3>2, AmountsType
  <2> QED
    BY <1>4, <2>1, <2>2 DEF Fold
<1>5. CASE CommitUsers
  <2> SUFFICES ASSUME NEW a \in Admins
               PROVE  AdminPending'[a] <= AdminPending[a]
    BY <1>5, AdminLedgerLoses DEF CommitUsers
  <2>1. AdminPending'[a] = adminUsage[a]
    BY <1>5, AdminPendingAfter, AmountsType DEF CommitUsers, NoAdmins
  <2>2. AdminPending[a] = adminUsage[a]
    BY <1>5, AdminPendingIs DEF CommitUsers
  <2> QED
    BY <2>1, <2>2, AmountsType
<1>6. CASE CommitAdmins
  BY <1>6, AdminLedgerBills DEF CommitAdmins
<1>7. CASE Enforce \/ RetryRows \/ FreshRows
  <2> SUFFICES ASSUME NEW a \in Admins
               PROVE  AdminPending'[a] <= AdminPending[a]
    BY <1>7, AdminLedgerLoses DEF Enforce, RetryRows, FreshRows
  <2>1. /\ pc \notin {"collect", "lookup", "user"} /\ pc' \notin {"collect", "lookup", "user"}
        /\ UNCHANGED <<carriedAdmin, adminUsage>>
    BY <1>7 DEF Enforce, RetryRows, FreshRows, WriteRows
  <2>2. /\ AdminPending[a] = carriedAdmin[a] + adminUsage[a]
        /\ AdminPending'[a] = carriedAdmin[a] + adminUsage[a]
    BY <2>1, AdminPendingIs, AdminPendingAfter
  <2> QED
    BY <2>2, AmountsType
<1>8. CASE NoMoreRows
  BY <1>8, AdminLedgerEnds DEF NoMoreRows
<1>9. ASSUME NEW b \in SUBSET rows, CommitRows(b)
      PROVE  [AdminLedgerOf!LedgerNext]_(AdminLedgerOf!ledger)
  <2>1. CASE EndCycle
    BY <1>9, <2>1, AdminLedgerEnds DEF CommitRows
  <2>2. CASE ~EndCycle
    <3> SUFFICES ASSUME NEW a \in Admins
                 PROVE  AdminPending'[a] <= AdminPending[a]
      BY <1>9, <2>2, AdminLedgerLoses DEF CommitRows
    <3>1. /\ pc \notin {"collect", "lookup", "user"} /\ pc' \notin {"collect", "lookup", "user"}
          /\ UNCHANGED <<carriedAdmin, adminUsage>>
      BY <1>9, <2>2 DEF CommitRows
    <3>2. /\ AdminPending[a] = carriedAdmin[a] + adminUsage[a]
          /\ AdminPending'[a] = carriedAdmin[a] + adminUsage[a]
      BY <3>1, AdminPendingIs, AdminPendingAfter
    <3> QED
      BY <3>2, AmountsType
  <2> QED
    BY <2>1, <2>2
<1> QED
  BY <1>1, <1>2, <1>3, <1>4, <1>5, <1>6, <1>7, <1>8, <1>9 DEF Cycle

\* Every step of the job is a step of the ledger, or none.
LEMMA AdminLedgerRefines ==
  ASSUME TypeOK, TypeOK', AdminFlow, [Next]_vars
  PROVE  [AdminLedgerOf!LedgerNext]_(AdminLedgerOf!ledger)
<1> USE DEF nodeVars, userVars, adminVars, carryVars, usageVars, batchVars,
            history
<1>1. CASE UNCHANGED vars
  BY <1>1, AdminLedgerStutters DEF vars
<1>2. CASE Environment
  BY <1>2, AdminLedgerStutters DEF Environment, Traffic, SetCoefficient, DeleteUser
<1>3. ASSUME NEW healthy \in SUBSET Nodes, StartCycle(healthy)
      PROVE  AdminLedgerOf!LedgerNext
  <2> SUFFICES ASSUME NEW a \in Admins
               PROVE  AdminPending'[a] <= AdminPending[a]
    BY <1>3, AdminLedgerLoses DEF StartCycle
  <2>1. /\ pc = "idle" /\ pc' = "collect" /\ adminUsage[a] = 0
        /\ usersUsage' = NoUsers /\ carriedAdmin' = carriedAdmin
    BY <1>3 DEF AdminFlow, StartCycle, NoAdmins
  <2>2. AdminPending[a] = carriedAdmin[a]
    BY <2>1, AdminPendingIs, AmountsType
  <2>3. AdminPending'[a] = carriedAdmin[a] + OwnedSum(NoUsers, a, Users)
    BY <2>1, AdminPendingAfter
  <2> QED
    BY <2>2, <2>3, OwnedNothing, AmountsType
<1>4. CASE Failure
  <2>1. ASSUME NEW n \in Nodes, NodeFails(n)
        PROVE  [AdminLedgerOf!LedgerNext]_(AdminLedgerOf!ledger)
    <3>1. CASE ResetCounters(n)
      BY <2>1, <3>1, AdminLedgerTakes DEF NodeFails, AdminLedgerOf!LedgerNext
    <3>2. CASE UNCHANGED <<counter, history>>
      <4> SUFFICES ASSUME NEW a \in Admins
                   PROVE  AdminPending'[a] <= AdminPending[a]
        BY <2>1, <3>2, AdminLedgerLoses DEF NodeFails
      <4>1. pc = "collect" /\ UNCHANGED <<pc, carriedAdmin, usersUsage>>
        BY <2>1, <3>2 DEF NodeFails
      <4>2. AdminPending'[a] = AdminPending[a]
        BY <4>1, AdminPendingIs, AdminPendingAfter
      <4> QED
        BY <4>2, AdminPendingIs
    <3> QED
      BY <2>1, <3>1, <3>2 DEF NodeFails
  <2>2. CASE Deadlock
    BY <2>2, AdminLedgerStutters DEF Deadlock
  <2>3. CASE RollBack
    BY <2>3, AdminLedgerEnds DEF RollBack, Park
  <2>4. CASE Ambiguous \/ Crash
    <3>1. /\ MaybeLanded /\ EndCycle /\ UNCHANGED due
          /\ UNCHANGED carriedAdmin \/ carriedAdmin' = NoAdmins
      BY <2>4 DEF Ambiguous, Crash
    <3>2. CASE UNCHANGED adminUsed
      BY <3>1, <3>2, AdminLedgerEnds
    <3>3. CASE pc = "admin" /\ adminUsed' = AddToAdmins
      BY <3>1, <3>3, AdminLedgerBills DEF EndCycle
    <3> QED
      BY <3>1, <3>2, <3>3 DEF MaybeLanded
  <2> QED
    BY <1>4, <2>1, <2>2, <2>3, <2>4 DEF Failure
<1>5. CASE Cycle
  BY <1>5, AdminLedgerCycle
<1> QED
  BY <1>1, <1>2, <1>3, <1>4, <1>5 DEF Next

\* The job implements the ledger of UsageLedger for its admins too: under every fault
\* and over any number of cycles, what was taken off the nodes is billed to the owner
\* of its user as a whole and once, or lost.
THEOREM AdminsLedgerImplemented == Spec => AdminsBilledOnceOrLost
<1>1. Init => AdminLedgerOf!LedgerInit
  <2> SUFFICES ASSUME Init
               PROVE  AdminLedgerOf!LedgerInit
    OBVIOUS
  <2>1. \A a \in Admins : OwnedSum(due, a, Users) = 0
    BY OwnedNothing DEF Init
  <2>2. \A a \in Admins : AdminPending[a] = 0
    BY DEF Init, AdminPending, NoAdmins
  <2>3. AdminPending = [a \in Admins |-> AdminPending[a]]
    BY DEF AdminPending
  <2>4. AdminPending = [a \in Admins |-> 0]
    BY <2>2, <2>3
  <2> QED
    BY <2>1, <2>4 DEF Init, AdminLedgerOf!LedgerInit, NoAdmins
<1> QED
  BY <1>1, AdminFlowHolds, AdminLedgerRefines, PTL
     DEF Spec, AdminsBilledOnceOrLost, AdminLedgerOf!LedgerSpec
=============================================================================
