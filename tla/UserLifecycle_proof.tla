------------------------ MODULE UserLifecycle_proof ------------------------
(***************************************************************************)
(* Proofs about UserLifecycle, for every set of edits and operations and   *)
(* every number of them.                                                   *)
(***************************************************************************)
EXTENDS UserLifecycle, TLAPS

Steps == {"none", "picked", "plan", "send", "modify", "toggle", "reset", "next"}

Columns == {"status", "expire", "usage", "hold", "timeout", "online", "plan"}

-----------------------------------------------------------------------------
(* Rows: what is written back is a row again.                              *)

LEMMA RowColumns ==
  ASSUME NEW r \in Rows
  PROVE  DOMAIN r = Columns
BY DEF Rows, Columns

LEMMA NoRowIsRow == NoRow \in Rows /\ NoEdit \in AllEdits
BY DEF NoRow, NoEdit, Rows, AllEdits, Times, Usages, Plans

LEMMA SetStatusIsRow ==
  ASSUME NEW r \in Rows, NEW s \in Statuses \cup {"deleted"}
  PROVE  [r EXCEPT !.status = s] \in Rows
BY DEF Rows

\* A flush takes each column from one of two rows.
LEMMA FlushIsRow ==
  ASSUME row \in Rows, NEW old \in Rows, NEW new \in Rows
  PROVE  Flush(old, new) \in Rows
<1>1. DOMAIN row = Columns
  BY RowColumns
<1> QED
  BY <1>1 DEF Flush, Rows, Columns

LEMMA FlushedStatus ==
  ASSUME row \in Rows, NEW old, NEW new
  PROVE  Flush(old, new).status =
           IF new.status # old.status THEN new.status ELSE row.status
BY RowColumns DEF Flush, Columns

LEMMA ZeroedType ==
  ASSUME NEW usage \in Usages
  PROVE  Zeroed(usage) \in Usages
BY DEF Zeroed, Usages

LEMMA ResolveEnabledType ==
  ASSUME NEW r \in Rows
  PROVE  ResolveEnabled(r) \in Statuses
BY DEF ResolveEnabled, Statuses

LEMMA ResetTrafficIsRow ==
  ASSUME NEW r \in Rows
  PROVE  ResetTraffic(r) \in Rows
<1>1. Zeroed(r.usage) \in Usages
  BY ZeroedType DEF Rows
<1> QED
  BY <1>1 DEF ResetTraffic, Rows

LEMMA ResetDataUsageIsRow ==
  ASSUME NEW r \in Rows
  PROVE  ResetDataUsage(r) \in Rows
<1>1. ResetTraffic(r) \in Rows
  BY ResetTrafficIsRow
<1> QED
  BY <1>1 DEF ResetDataUsage, Rows, Statuses

LEMMA ResetByNextIsRow ==
  ASSUME NEW r \in Rows, NEW new \in ResetByNext(r)
  PROVE  new \in Rows
<1>1. ResetTraffic(r) \in Rows
  BY ResetTrafficIsRow
<1>2. PICK u \in {"unlimited", "under"}, e \in {"none", "future"} : new = ByNext(r, u, e)
  BY DEF ResetByNext
<1> QED
  BY <1>1, <1>2 DEF ByNext, Rows, Statuses, Usages, Times

LEMMA StartExpireIsRow ==
  ASSUME NEW r \in Rows, NEW duration \in BOOLEAN
  PROVE  StartExpire(r, duration) \in Rows
BY DEF StartExpire, Rows, Statuses, Times

LEMMA WithStatusIsRow ==
  ASSUME NEW r \in Rows, NEW m \in AllEdits
  PROVE  WithStatus(r, m) \in Rows
<1>1. m.status = "keep" \/ m.status \in Statuses
  BY DEF AllEdits, Statuses
<1>2. ASSUME NEW s \in Statuses
      PROVE  [r EXCEPT !.status = s] \in Rows
  BY <1>2, SetStatusIsRow
<1> QED
  BY <1>1, <1>2, ResolveEnabledType DEF WithStatus

LEMMA WithExpireIsRow ==
  ASSUME NEW r \in Rows, NEW m \in AllEdits
  PROVE  WithExpire(r, m) \in Rows
<1>1. [r EXCEPT !.expire = "none"] \in Rows
  BY DEF Rows, Times
<1>2. ASSUME NEW e \in Times, NEW s \in Statuses \cup {"deleted"}
      PROVE  [r EXCEPT !.expire = e, !.status = s] \in Rows
  BY <1>2 DEF Rows
<1>3. m.expire = "keep" \/ m.expire \in Times
  BY DEF AllEdits, Times
<1>4. /\ (IF r.status = "active" THEN "expired" ELSE r.status) \in Statuses \cup {"deleted"}
      /\ (IF r.status = "expired" THEN "active" ELSE r.status) \in Statuses \cup {"deleted"}
  BY DEF Rows, Statuses
<1> QED
  BY <1>1, <1>2, <1>3, <1>4 DEF WithExpire

LEMMA WithLimitIsRow ==
  ASSUME NEW r \in Rows, NEW m \in AllEdits
  PROVE  WithLimit(r, m) \in Rows
<1> DEFINE status == IF r.status \in {"expired", "disabled"} THEN r.status
                     ELSE IF m.usage = "over" THEN "limited"
                     ELSE IF r.status = "on_hold" THEN r.status ELSE "active"
<1>1. status \in Statuses
  BY DEF Statuses
<1>2. ASSUME NEW u \in Usages, NEW s \in Statuses
      PROVE  [r EXCEPT !.usage = u, !.status = s] \in Rows
  BY <1>2 DEF Rows
<1>3. m.usage = "keep" \/ m.usage \in Usages
  BY DEF AllEdits
<1> QED
  BY <1>1, <1>2, <1>3 DEF WithLimit

LEMMA ModifiedIsRow ==
  ASSUME NEW r \in Rows, NEW m \in AllEdits
  PROVE  Modified(r, m) \in Rows
<1>1. WithLimit(WithExpire(WithStatus(r, m), m), m) \in Rows
  BY WithStatusIsRow, WithExpireIsRow, WithLimitIsRow
<1>2. ASSUME NEW s \in Rows, NEW hold \in BOOLEAN, NEW timeout \in Times,
             NEW plan \in {"none"} \cup Plans, NEW online \in {"never", "before", "since"}
      PROVE  [s EXCEPT !.hold = hold, !.timeout = timeout, !.plan = plan,
                       !.online = online] \in Rows
  BY <1>2 DEF Rows
<1> DEFINE s == WithLimit(WithExpire(WithStatus(r, m), m), m)
<1>3. (s.hold \/ m.status = "on_hold") \in BOOLEAN
  BY <1>1 DEF Rows
<1>4. /\ (IF m.timeout = "keep" THEN s.timeout ELSE m.timeout) \in Times
      /\ (IF s.online = "since" THEN "before" ELSE s.online)
            \in {"never", "before", "since"}
      /\ m.plan \in {"none"} \cup Plans
  BY <1>1 DEF Rows, AllEdits
<1>5. s \in Rows
  BY <1>1
<1> HIDE DEF s
<1> QED
  BY <1>2, <1>3, <1>4, <1>5 DEF Modified, s

-----------------------------------------------------------------------------
(* Types.                                                                  *)

\* The handlers, and the rest of the state.
RunTyped ==
  /\ pc \in [Handlers -> Steps]
  /\ obj \in [Handlers -> Rows]
  /\ edit \in AllEdits

RestTyped ==
  /\ row \in Rows
  /\ served \in BOOLEAN
  /\ edits \in 0 .. MaxEdits
  /\ faults \in 0 .. MaxFaults

LEMMA TypeParts == TypeOK <=> RunTyped /\ RestTyped
BY DEF TypeOK, RunTyped, RestTyped, Steps

LEMMA EndTyped ==
  ASSUME RunTyped, NEW h \in Handlers, End(h)
  PROVE  RunTyped'
<1>1. pc' \in [Handlers -> Steps] /\ obj' \in [Handlers -> Rows]
  BY NoRowIsRow DEF RunTyped, End, Steps
<1>2. edit' \in AllEdits
  BY NoRowIsRow DEF RunTyped, End
<1> QED
  BY <1>1, <1>2 DEF RunTyped

LEMMA BeginTyped ==
  ASSUME RunTyped, row \in Rows, NEW h \in Handlers, NEW next \in Steps,
         Begin(h, next), edit' \in AllEdits
  PROVE  RunTyped'
BY DEF RunTyped, Begin

\* What a handler sends is a status in an otherwise empty row.
LEMMA SentIsRow ==
  ASSUME NEW s \in Statuses \cup {"deleted"}
  PROVE  [NoRow EXCEPT !.status = s] \in Rows
BY NoRowIsRow, SetStatusIsRow

LEMMA ContinueTyped ==
  ASSUME RunTyped, row' \in Rows, NEW h \in Handlers, NEW next \in Steps,
         Continue(h, next)
  PROVE  RunTyped'
<1>1. row'.status \in Statuses \cup {"deleted"}
  BY DEF Rows
<1>2. [NoRow EXCEPT !.status = row'.status] \in Rows
  BY <1>1, SentIsRow
<1>3. pc' \in [Handlers -> Steps]
  BY DEF RunTyped, Continue
<1>4. obj' \in [Handlers -> Rows]
  BY <1>2 DEF RunTyped, Continue
<1>5. edit' \in AllEdits
  BY NoRowIsRow DEF RunTyped, Continue
<1> QED
  BY <1>3, <1>4, <1>5 DEF RunTyped

LEMMA CommitTyped ==
  ASSUME TypeOK, NEW h \in Handlers, NEW new \in Rows, Commit(h, new)
  PROVE  TypeOK'
<1>1. RunTyped /\ RestTyped /\ obj[h] \in Rows /\ "send" \in Steps
  BY TypeParts DEF RunTyped, Steps
<1>2. row' \in Rows
  BY <1>1, FlushIsRow DEF Commit, RestTyped
<1>3. RunTyped'
  BY <1>1, <1>2, ContinueTyped, EndTyped DEF Commit
<1> QED
  BY <1>1, <1>2, <1>3 DEF Commit, TypeOK, RunTyped, RestTyped, Steps

LEMMA TypeReview ==
  ASSUME TypeOK, NEW job \in Review, Pick(job) \/ JobStep(job)
  PROVE  TypeOK'
<1>1. RunTyped /\ RestTyped /\ job \in Handlers /\ {"send", "plan", "picked"} \subseteq Steps
  BY TypeParts DEF Handlers, Steps
<1>2. CASE Pick(job)
  BY <1>1, <1>2 DEF Pick, TypeOK, RunTyped, RestTyped, Steps
<1>3. CASE Transition(job)
  <2>1. Target(job) \in Statuses \cup {"deleted"}
    BY DEF Target, Review, Statuses
  <2>2. row' \in Rows
    BY <1>1, <1>3, <2>1, SetStatusIsRow DEF Transition, RestTyped
  <2>3. RunTyped'
    BY <1>1, <1>3, <2>2, ContinueTyped, EndTyped DEF Transition
  <2> QED
    BY <1>1, <1>3, <2>2, <2>3 DEF Transition, TypeOK, RunTyped, RestTyped, Steps
<1>4. CASE ActivatePlan(job)
  <2>1. obj[job] \in Rows
    BY <1>1 DEF RunTyped
  <2> QED
    BY <1>1, <1>4, <2>1, ResetByNextIsRow, CommitTyped DEF ActivatePlan
<1> QED
  BY <1>2, <1>3, <1>4 DEF JobStep

LEMMA TypeHold ==
  ASSUME TypeOK, PickHold \/ StartHold
  PROVE  TypeOK'
<1>1. RunTyped /\ RestTyped /\ "hold" \in Handlers /\ {"send", "picked"} \subseteq Steps
  BY TypeParts DEF Handlers, Steps
<1>2. CASE PickHold
  <2>1. RunTyped'
    BY <1>1, <1>2, BeginTyped DEF PickHold, RunTyped, RestTyped
  <2> QED
    BY <1>1, <1>2, <2>1 DEF PickHold, TypeOK, RunTyped, RestTyped, Steps
<1>3. CASE StartHold
  <2>1. obj["hold"].hold \in BOOLEAN
    BY <1>1 DEF RunTyped, Rows
  <2>2. row' \in Rows
    BY <1>1, <1>3, <2>1, StartExpireIsRow DEF StartHold, RestTyped
  <2>3. RunTyped'
    BY <1>1, <1>3, <2>2, ContinueTyped, EndTyped DEF StartHold
  <2> QED
    BY <1>1, <1>3, <2>2, <2>3 DEF StartHold, TypeOK, RunTyped, RestTyped, Steps
<1> QED
  BY <1>2, <1>3

LEMMA TypeReset ==
  ASSUME TypeOK, PickPeriodic \/ \E h \in {"periodic", "admin"} : Reset(h)
  PROVE  TypeOK'
<1>1. RunTyped /\ RestTyped /\ {"periodic", "admin"} \subseteq Handlers
      /\ {"send", "reset"} \subseteq Steps
  BY TypeParts DEF Handlers, Steps
<1>2. CASE PickPeriodic
  <2>1. RunTyped'
    BY <1>1, <1>2, BeginTyped DEF PickPeriodic, RunTyped, RestTyped
  <2>2. edits' \in 0 .. MaxEdits
    BY <1>1, <1>2, ConstantsAssumption DEF PickPeriodic, Counted, RestTyped
  <2> QED
    BY <1>1, <1>2, <2>1, <2>2 DEF PickPeriodic, TypeOK, RunTyped, RestTyped, Steps
<1>3. ASSUME NEW h \in {"periodic", "admin"}, Reset(h)
      PROVE  TypeOK'
  <2> DEFINE new == [ResetDataUsage(obj[h]) EXCEPT !.usage = obj[h].usage]
  <2>1. obj[h] \in Rows /\ new \in Rows
    BY <1>1, ResetDataUsageIsRow DEF RunTyped, Rows
  <2>2. Flush(obj[h], new) \in Rows
    BY <1>1, <2>1, FlushIsRow DEF RestTyped
  <2>3. Zeroed(Flush(obj[h], new).usage) \in Usages
    BY <2>2, ZeroedType DEF Rows
  <2>4. \A zero \in BOOLEAN :
          [Flush(obj[h], new) EXCEPT !.usage = IF zero THEN Zeroed(@) ELSE @] \in Rows
    BY <2>2, <2>3 DEF Rows
  <2> HIDE DEF new
  <2>5. row' \in Rows
    BY <1>1, <1>3, <2>4 DEF Reset, RestTyped, new
  <2>6. RunTyped'
    BY <1>1, <1>3, <2>5, ContinueTyped, EndTyped DEF Reset
  <2> QED
    BY <1>1, <1>3, <2>5, <2>6 DEF Reset, TypeOK, RunTyped, RestTyped, Steps
<1> QED
  BY <1>2, <1>3

LEMMA TypeAdminBegins ==
  ASSUME TypeOK, BeginModify \/ BeginToggle \/ BeginReset \/ BeginNext
  PROVE  TypeOK'
<1>1. RunTyped /\ RestTyped /\ "admin" \in Handlers
  BY TypeParts DEF Handlers
<1>2. \E next \in Steps, m \in AllEdits : AdminBegins(next, m)
  BY ConstantsAssumption, NoRowIsRow
     DEF BeginModify, BeginToggle, BeginReset, BeginNext, Steps
<1>3. PICK next \in Steps, m \in AllEdits : AdminBegins(next, m)
  BY <1>2
<1>4. RunTyped'
  BY <1>1, <1>3, BeginTyped DEF AdminBegins, RestTyped
<1>5. edits' \in 0 .. MaxEdits
  BY <1>1, <1>3, ConstantsAssumption DEF AdminBegins, Counted, RestTyped
<1> QED
  BY <1>1, <1>3, <1>4, <1>5 DEF AdminBegins, TypeOK, RunTyped, RestTyped, Steps

LEMMA TypeAdminCommits ==
  ASSUME TypeOK, Modify \/ Toggle \/ ActiveNextPlan
  PROVE  TypeOK'
<1>1. RunTyped /\ RestTyped /\ "admin" \in Handlers /\ "send" \in Steps
  BY TypeParts DEF Handlers, Steps
<1>2. obj["admin"] \in Rows /\ edit \in AllEdits
  BY <1>1 DEF RunTyped
<1>3. CASE Modify
  BY <1>1, <1>2, <1>3, ModifiedIsRow, CommitTyped DEF Modify
<1>4. CASE ActiveNextPlan
  BY <1>1, <1>2, <1>4, ResetByNextIsRow, CommitTyped DEF ActiveNextPlan
<1>5. CASE Toggle
  <2>1. PICK s \in {"disabled", ResolveEnabled(obj["admin"])} :
          IF Exists \/ s = obj["admin"].status
            THEN /\ row' = Flush(obj["admin"], [obj["admin"] EXCEPT !.status = s])
                 /\ pc' = [pc EXCEPT !["admin"] = "send"]
                 /\ obj' = [obj EXCEPT !["admin"] = [NoRow EXCEPT !.status = s]]
                 /\ UNCHANGED edit
            ELSE /\ UNCHANGED row
                 /\ End("admin")
    BY <1>5 DEF Toggle
  <2>2. s \in Statuses
    BY <1>2, <2>1, ResolveEnabledType DEF Statuses
  <2>3. [obj["admin"] EXCEPT !.status = s] \in Rows /\ [NoRow EXCEPT !.status = s] \in Rows
    BY <1>2, <2>2, SetStatusIsRow, SentIsRow
  <2>4. row' \in Rows
    BY <1>1, <1>2, <2>1, <2>3, FlushIsRow DEF RestTyped
  <2>5. RunTyped'
    BY <1>1, <2>1, <2>3, EndTyped DEF RunTyped
  <2> QED
    BY <1>1, <1>5, <2>4, <2>5 DEF Toggle, TypeOK, RunTyped, RestTyped, Steps
<1> QED
  BY <1>3, <1>4, <1>5

LEMMA TypeRemoves ==
  ASSUME TypeOK, Remove \/ Cleanup \/ ResetAll \/ AutoDelete
  PROVE  TypeOK'
<1>1. RunTyped /\ RestTyped /\ "admin" \in Handlers /\ "send" \in Steps
  BY TypeParts DEF Handlers, Steps
<1>2. row' \in Rows
  BY <1>1, SetStatusIsRow, ResetDataUsageIsRow
     DEF Remove, Cleanup, ResetAll, AutoDelete, RestTyped
<1>3. edits' \in 0 .. MaxEdits
  BY <1>1, ConstantsAssumption
     DEF Remove, Cleanup, ResetAll, AutoDelete, Counted, RestTyped
<1>4. RunTyped'
  <2>1. CASE Remove
    BY <1>1, <1>2, <2>1, ContinueTyped DEF Remove
  <2>2. CASE Cleanup \/ ResetAll \/ AutoDelete
    BY <1>1, <2>2 DEF Cleanup, ResetAll, AutoDelete, run, RunTyped
  <2> QED
    BY <2>1, <2>2
<1> QED
  BY <1>1, <1>2, <1>3, <1>4
     DEF Remove, Cleanup, ResetAll, AutoDelete, TypeOK, RunTyped, RestTyped, Steps

LEMMA TypeRest ==
  ASSUME TypeOK,
         (\E h \in Handlers : Send(h) \/ Fail(h)) \/ Time \/ Traffic \/ UNCHANGED vars
  PROVE  TypeOK'
<1>1. RunTyped /\ RestTyped
  BY TypeParts
<1>2. ASSUME NEW h \in Handlers, Send(h)
      PROVE  TypeOK'
  <2>1. RunTyped'
    BY <1>1, <1>2, EndTyped DEF Send
  <2>2. served' \in BOOLEAN
    BY <1>2 DEF Send, Serialized
  <2> QED
    BY <1>1, <1>2, <2>1, <2>2 DEF Send, TypeOK, RunTyped, RestTyped, Steps
<1>3. ASSUME NEW h \in Handlers, Fail(h)
      PROVE  TypeOK'
  <2>1. RunTyped'
    BY <1>1, <1>3, EndTyped DEF Fail
  <2>2. faults' \in 0 .. MaxFaults
    BY <1>1, <1>3, ConstantsAssumption DEF Fail, RestTyped
  <2> QED
    BY <1>1, <1>3, <2>1, <2>2 DEF Fail, TypeOK, RunTyped, RestTyped, Steps
<1>4. CASE Time
  <2>1. row' \in Rows
    BY <1>1, <1>4 DEF Time, RestTyped, Rows, Times
  <2> QED
    BY <1>1, <1>4, <2>1 DEF Time, run, TypeOK, RunTyped, RestTyped, Steps
<1>5. CASE Traffic
  <2>1. row' \in Rows
    BY <1>1, <1>5 DEF Traffic, RestTyped, Rows, Usages
  <2> QED
    BY <1>1, <1>5, <2>1 DEF Traffic, run, TypeOK, RunTyped, RestTyped, Steps
<1>6. CASE UNCHANGED vars
  BY <1>1, <1>6 DEF vars, run, TypeOK, RunTyped, RestTyped, Steps
<1> QED
  BY <1>2, <1>3, <1>4, <1>5, <1>6

LEMMA TypeStep == TypeOK /\ [Next]_vars => TypeOK'
BY TypeReview, TypeHold, TypeReset, TypeAdminBegins, TypeAdminCommits, TypeRemoves,
   TypeRest
   DEF Next

LEMMA TypeInit == Init => TypeOK
<1> SUFFICES ASSUME Init
             PROVE  TypeOK
  OBVIOUS
<1>1. row \in Rows
  BY DEF Init, Rows, Statuses, Times, Usages, Plans
<1>2. /\ pc \in [Handlers -> Steps]
      /\ obj \in [Handlers -> Rows]
      /\ edit \in AllEdits
  BY NoRowIsRow DEF Init, Steps
<1>3. served \in BOOLEAN /\ edits \in 0 .. MaxEdits /\ faults \in 0 .. MaxFaults
  BY ConstantsAssumption DEF Init
<1> QED
  BY <1>1, <1>2, <1>3 DEF TypeOK, Steps

\* Every handler writes back a row the columns allow, from an object of its own that
\* may be older than what the other handlers wrote: a status, a date, a limit and a
\* plan of the kinds that review_users.py and crud/user.py know.
THEOREM TypeCorrect == Spec => []TypeOK
BY TypeInit, TypeStep, PTL DEF Spec

-----------------------------------------------------------------------------
(***************************************************************************)
(* What the nodes were told, when one handler at a time runs to its end    *)
(* and none of the operations is used that tell the nodes nothing.         *)
(***************************************************************************)

OneAtATime == \A g, h \in Handlers : pc[g] # "none" /\ pc[h] # "none" => g = h

\* A handler that is going to send has what the row says, and no handler is left
\* without a row to write to.
Told ==
  /\ OneAtATime
  /\ (\A h \in Handlers : pc[h] = "none") => (served <=> Serialized(row))
  /\ \A h \in Handlers :
       /\ pc[h] = "send" => (Serialized(obj[h]) <=> Serialized(row))
       /\ pc[h] \notin {"none", "send"} => Exists
  /\ pc["admin"] = "toggle" => obj["admin"].status = row.status

\* The only handler under way goes on, or begins.
LEMMA ToldGoesOn ==
  ASSUME TypeOK, NEW h \in Handlers, \A g \in Handlers \ {h} : pc[g] = "none",
         NEW next \in Steps \ {"none"}, pc' = [pc EXCEPT ![h] = next],
         next = "send" => (Serialized(obj'[h]) <=> Serialized(row')),
         next # "send" => row'.status # "deleted",
         next = "toggle" => obj'[h].status = row'.status
  PROVE  Told'
<1>1. pc'[h] = next /\ \A g \in Handlers \ {h} : pc'[g] = "none"
  BY DEF TypeOK
<1>2. OneAtATime'
  BY <1>1 DEF OneAtATime
<1>3. "admin" \in Handlers
  BY DEF Handlers
<1> QED
  BY <1>1, <1>2, <1>3 DEF Told, Exists

LEMMA OthersIdle ==
  ASSUME Told, NEW h \in Handlers, pc[h] # "none"
  PROVE  \A g \in Handlers \ {h} : pc[g] = "none"
BY DEF Told, OneAtATime

LEMMA BeginsAlone ==
  ASSUME Overlap = FALSE, NEW h \in Handlers, MayBegin(h)
  PROVE  /\ Exists
         /\ \A g \in Handlers : pc[g] = "none"
BY DEF MayBegin, Undisturbed

\* Reading the row again after the commit.
LEMMA ToldContinues ==
  ASSUME TypeOK, Told, NEW h \in Handlers, NEW next \in {"send", "plan"},
         \A g \in Handlers \ {h} : pc[g] = "none", Continue(h, next),
         next = "plan" => row'.status # "deleted"
  PROVE  Told'
<1>1. next \in Steps \ {"none"}
  BY DEF Steps
<1>2. next = "send" => obj'[h].status = row'.status
  BY DEF Continue, TypeOK, NoRow
<1>3. next = "send" => (Serialized(obj'[h]) <=> Serialized(row'))
  BY <1>2 DEF Serialized
<1> QED
  BY <1>1, <1>3, ToldGoesOn DEF Continue

LEMMA ToldCommits ==
  ASSUME TypeOK, Told, NEW h \in Handlers, pc[h] \notin {"none", "send"},
         NEW new, Commit(h, new)
  PROVE  Told'
<1>1. Continue(h, "send")
  BY DEF Told, Commit
<1> QED
  BY <1>1, OthersIdle, ToldContinues

LEMMA ToldReview ==
  ASSUME Overlap = FALSE, TypeOK, Told, NEW job \in Review, Pick(job) \/ JobStep(job)
  PROVE  Told'
<1>1. job \in Handlers /\ "picked" \in Steps
  BY DEF Handlers, Steps
<1>2. CASE Pick(job)
  BY <1>1, <1>2, BeginsAlone, ToldGoesOn DEF Pick, Exists
<1>3. CASE Transition(job)
  <2>1. pc[job] = "picked" /\ Exists
    BY <1>1, <1>3 DEF Transition, Told
  <2>2. row'.status = Target(job)
    BY <1>3, <2>1 DEF Transition, TypeOK, Rows
  <2>3. row'.status # "deleted"
    BY <2>2 DEF Target, Review
  <2>4. \E next \in {"send", "plan"} : Continue(job, next)
    BY <1>3, <2>1 DEF Transition
  <2> QED
    BY <1>1, <2>1, <2>3, <2>4, OthersIdle, ToldContinues
<1>4. CASE ActivatePlan(job)
  BY <1>1, <1>4, ToldCommits DEF ActivatePlan
<1> QED
  BY <1>2, <1>3, <1>4 DEF JobStep

LEMMA ToldHold ==
  ASSUME Overlap = FALSE, TypeOK, Told, PickHold \/ StartHold
  PROVE  Told'
<1>1. "hold" \in Handlers /\ "picked" \in Steps
  BY DEF Handlers, Steps
<1>2. CASE PickHold
  BY <1>1, <1>2, BeginsAlone, ToldGoesOn DEF PickHold, Begin, Exists
<1>3. CASE StartHold
  <2>1. pc["hold"] = "picked" /\ Continue("hold", "send")
    BY <1>1, <1>3 DEF StartHold, Told
  <2> QED
    BY <1>1, <2>1, OthersIdle, ToldContinues
<1> QED
  BY <1>2, <1>3

LEMMA ToldReset ==
  ASSUME Overlap = FALSE, TypeOK, Told,
         PickPeriodic \/ \E h \in {"periodic", "admin"} : Reset(h)
  PROVE  Told'
<1>1. {"periodic", "admin"} \subseteq Handlers /\ "reset" \in Steps
  BY DEF Handlers, Steps
<1>2. CASE PickPeriodic
  BY <1>1, <1>2, BeginsAlone, ToldGoesOn DEF PickPeriodic, Begin, Exists
<1>3. ASSUME NEW h \in {"periodic", "admin"}, Reset(h)
      PROVE  Told'
  <2>1. pc[h] = "reset" /\ Continue(h, "send")
    BY <1>1, <1>3 DEF Reset, Told
  <2> QED
    BY <1>1, <2>1, OthersIdle, ToldContinues
<1> QED
  BY <1>2, <1>3

LEMMA ToldAdminBegins ==
  ASSUME Overlap = FALSE, TypeOK, Told,
         BeginModify \/ BeginToggle \/ BeginReset \/ BeginNext
  PROVE  Told'
<1>1. PICK next \in {"modify", "toggle", "reset", "next"} : \E m : AdminBegins(next, m)
  BY DEF BeginModify, BeginToggle, BeginReset, BeginNext
<1>2. "admin" \in Handlers /\ next \in Steps \ {"none"} /\ next # "send"
  BY DEF Handlers, Steps
<1>3. Exists /\ \A g \in Handlers : pc[g] = "none"
  BY <1>1, <1>2, BeginsAlone DEF AdminBegins
<1>4. /\ pc' = [pc EXCEPT !["admin"] = next]
      /\ obj'["admin"] = row /\ row' = row
  BY <1>1, <1>2 DEF AdminBegins, Begin, TypeOK
<1>5. row'.status # "deleted" /\ obj'["admin"].status = row'.status
  BY <1>3, <1>4 DEF Exists
<1> QED
  BY <1>2, <1>3, <1>4, <1>5, ToldGoesOn

LEMMA ToldAdminCommits ==
  ASSUME TypeOK, Told, Modify \/ Toggle \/ ActiveNextPlan
  PROVE  Told'
<1>1. "admin" \in Handlers /\ "send" \in Steps
  BY DEF Handlers, Steps
<1>2. CASE Modify \/ ActiveNextPlan
  BY <1>1, <1>2, ToldCommits DEF Modify, ActiveNextPlan
<1>3. CASE Toggle
  <2>1. pc["admin"] = "toggle" /\ Exists /\ obj["admin"].status = row.status
    BY <1>1, <1>3 DEF Toggle, Told
  <2>2. PICK s \in {"disabled", ResolveEnabled(obj["admin"])} :
          /\ row' = Flush(obj["admin"], [obj["admin"] EXCEPT !.status = s])
          /\ pc' = [pc EXCEPT !["admin"] = "send"]
          /\ obj' = [obj EXCEPT !["admin"] = [NoRow EXCEPT !.status = s]]
    BY <1>3, <2>1 DEF Toggle
  <2>3. obj["admin"] \in Rows /\ row \in Rows
    BY <1>1 DEF TypeOK
  <2>4. [obj["admin"] EXCEPT !.status = s].status = s
    BY <2>3 DEF Rows
  <2>5. row'.status = s
    BY <2>1, <2>2, <2>3, <2>4, FlushedStatus
  <2>6. obj'["admin"].status = s
    BY <1>1, <2>2 DEF TypeOK, NoRow
  <2>7. Serialized(obj'["admin"]) <=> Serialized(row')
    BY <2>5, <2>6 DEF Serialized
  <2> QED
    BY <1>1, <2>1, <2>2, <2>7, OthersIdle, ToldGoesOn
<1> QED
  BY <1>2, <1>3

\* The jobs and the admin that remove a user: the nodes are told, or do not have it.
LEMMA ToldRemoves ==
  ASSUME Overlap = FALSE, TypeOK, Told, Remove \/ AutoDelete
  PROVE  Told'
<1>1. "admin" \in Handlers
  BY DEF Handlers
<1>2. CASE Remove
  <2>1. (\A g \in Handlers : pc[g] = "none") /\ Continue("admin", "send")
    BY <1>1, <1>2, BeginsAlone DEF Remove
  <2> QED
    BY <1>1, <2>1, ToldContinues
<1>3. CASE AutoDelete
  <2>1. (\A g \in Handlers : pc[g] = "none") /\ row.status \in {"expired", "limited"}
    BY <1>3 DEF AutoDelete, Undisturbed
  <2>2. row'.status = "deleted"
    BY <1>3 DEF AutoDelete, TypeOK, Rows
  <2>3. ~Serialized(row) /\ ~Serialized(row')
    BY <2>1, <2>2 DEF Serialized
  <2> QED
    BY <1>1, <1>3, <2>1, <2>3 DEF AutoDelete, run, Told, OneAtATime
<1> QED
  BY <1>2, <1>3

LEMMA ToldSend ==
  ASSUME TypeOK, Told, NEW h \in Handlers, Send(h)
  PROVE  Told'
<1>1. \A g \in Handlers : pc'[g] = "none"
  BY OthersIdle DEF Send, End, TypeOK
<1>2. served' <=> Serialized(row')
  BY DEF Send, Told
<1>3. "admin" \in Handlers
  BY DEF Handlers
<1> QED
  BY <1>1, <1>2, <1>3 DEF Told, OneAtATime

\* Time and traffic change no status.
LEMMA ToldWorld ==
  ASSUME TypeOK, Told, Time \/ Traffic \/ UNCHANGED vars
  PROVE  Told'
<1>1. UNCHANGED <<served, pc, obj>> /\ row'.status = row.status
  BY DEF Time, Traffic, vars, run, TypeOK, Rows
<1>2. (Serialized(row') <=> Serialized(row)) /\ (Exists' <=> Exists)
  BY <1>1 DEF Serialized, Exists
<1> QED
  BY <1>1, <1>2 DEF Told, OneAtATime

LEMMA ToldStep ==
  ASSUME Overlap = FALSE, MaxFaults = 0, {"cleanup", "resetAll"} \cap Operations = {}
  PROVE  TypeOK /\ Told /\ [Next]_vars => Told'
<1> SUFFICES ASSUME TypeOK, Told, [Next]_vars
             PROVE  Told'
  OBVIOUS
<1>1. ~Cleanup /\ ~ResetAll
  BY DEF Cleanup, ResetAll
<1>2. \A h \in Handlers : ~Fail(h)
  BY DEF Fail, TypeOK
<1> QED
  BY <1>1, <1>2, ToldReview, ToldHold, ToldReset, ToldAdminBegins, ToldAdminCommits,
     ToldRemoves, ToldSend, ToldWorld
     DEF Next

\* When handlers run one at a time and none fails after its commit, the nodes let in
\* exactly the users whose row says so, after any sequence of edits, review jobs,
\* resets, plans and removals; a handler that overlaps another, fails, or is one of
\* the bulk cleanups and resets leaves the nodes with an older answer.
THEOREM NodesAreTold ==
  ASSUME Overlap = FALSE, MaxFaults = 0, {"cleanup", "resetAll"} \cap Operations = {}
  PROVE  Spec => []NodesAgree
<1>1. Init => Told
  <2> SUFFICES ASSUME Init
               PROVE  Told
    OBVIOUS
  <2>1. "admin" \in Handlers /\ \A h \in Handlers : pc[h] = "none"
    BY DEF Init, Handlers
  <2>2. served /\ Serialized(row)
    BY DEF Init, Serialized
  <2> QED
    BY <2>1, <2>2 DEF Told, OneAtATime
<1>2. TypeOK /\ Told => NodesAgree
  <2> SUFFICES ASSUME TypeOK, Told, Settled
               PROVE  served = Serialized(row)
    BY DEF NodesAgree
  <2>1. served <=> Serialized(row)
    BY DEF Told, Settled
  <2>2. served \in BOOLEAN /\ Serialized(row) \in BOOLEAN
    BY DEF TypeOK, Serialized
  <2> QED
    BY <2>1, <2>2
<1>3. TypeOK /\ Told /\ [Next]_vars => Told'
  BY ToldStep
<1> QED
  BY <1>1, <1>2, <1>3, TypeCorrect, PTL DEF Spec
=============================================================================
