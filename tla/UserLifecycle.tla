--------------------------- MODULE UserLifecycle ---------------------------
(***************************************************************************)
(* The life of one user: its row in the database, what the nodes were told *)
(* of it, and everything that changes either: the review jobs that expire, *)
(* limit, activate and reactivate (app/jobs/review_users.py), the periodic *)
(* reset of usage, the cleanup job, and the operations of an admin         *)
(* (app/operation/user.py over app/db/crud/user.py and bulk.py).           *)
(*                                                                         *)
(* Users do not affect each other here, so one is enough.  Every handler   *)
(* is a coroutine with a session of its own: it loads the row into an      *)
(* object, writes back the columns it changed, reads the row again and     *)
(* sends the nodes what it read.  Other handlers run in between.  How an   *)
(* update travels to a node is NodeBridge's subject; here it arrives.      *)
(***************************************************************************)
EXTENDS Integers, FiniteSets

CONSTANTS
  Edits,       \* the edits of modify_user an admin may ask for
  Operations,  \* the other operations that may happen
  Overlap,     \* FALSE: a handler begins only when no other is under way
  MaxEdits,    \* bound: operations of admins and periodic resets
  MaxFaults    \* bound: handlers that fail after their first commit

Statuses == {"active", "on_hold", "limited", "expired", "disabled"}
Plans    == {"plain", "hold"}
Times    == {"none", "future", "past"}
Usages   == {"unlimited", "under", "over"}

\* "keep" is a field the request leaves out.
AllEdits == [status : {"keep", "active", "on_hold", "disabled"},
             expire : {"keep", "none", "future", "past"},
             usage : {"keep"} \cup Usages,
             timeout : {"keep"} \cup Times,
             plan : {"none"} \cup Plans]

AllOperations == {"toggle", "reset", "next", "remove", "cleanup", "resetAll",
                  "periodic", "autodelete"}

ASSUME ConstantsAssumption ==
  /\ Edits \subseteq AllEdits
  /\ Operations \subseteq AllOperations
  /\ Overlap \in BOOLEAN
  /\ MaxEdits \in Nat
  /\ MaxFaults \in Nat

VARIABLES
  \* The row.  expire and timeout are where a date is relative to now, usage
  \* where used_traffic is relative to data_limit, hold whether
  \* on_hold_expire_duration is set, online where online_at is relative to the
  \* last edit, plan the next plan.
  row,
  served,  \* the nodes let the user in
  pc, obj, \* the handlers: how far each is, and the object it has loaded
  edit,    \* the edit the admin asks for
  edits, faults

run  == <<pc, obj, edit>>
vars == <<row, served, run, edits, faults>>

-----------------------------------------------------------------------------
Review   == {"expire", "limit", "reactivate"}
Handlers == Review \cup {"hold", "periodic", "admin"}

Rows == [status : Statuses \cup {"deleted"}, expire : Times, usage : Usages,
         hold : BOOLEAN, timeout : Times, online : {"never", "before", "since"},
         plan : {"none"} \cup Plans]

NoRow == [status |-> "deleted", expire |-> "none", usage |-> "unlimited",
          hold |-> FALSE, timeout |-> "none", online |-> "never",
          plan |-> "none"]

NoEdit == [status |-> "keep", expire |-> "keep", usage |-> "keep",
           timeout |-> "keep", plan |-> "none"]

TypeOK ==
  /\ row \in Rows
  /\ served \in BOOLEAN
  /\ pc \in [Handlers -> {"none", "picked", "plan", "send", "modify", "toggle",
                          "reset", "next"}]
  /\ obj \in [Handlers -> Rows]
  /\ edit \in AllEdits
  /\ edits \in 0 .. MaxEdits
  /\ faults \in 0 .. MaxFaults

\* A user as create_user leaves it: active with a date or on hold without one.
Init ==
  /\ row \in [status : {"active"}, expire : {"none", "future"}, usage : {"under"},
              hold : {FALSE}, timeout : {"none"}, online : {"never"},
              plan : {"none"} \cup Plans]
        \cup [status : {"on_hold"}, expire : {"none"}, usage : {"under"},
              hold : {TRUE}, timeout : {"none", "future"}, online : {"never"},
              plan : {"none"}]
  /\ served = TRUE
  /\ pc = [h \in Handlers |-> "none"]
  /\ obj = [h \in Handlers |-> NoRow]
  /\ edit = NoEdit
  /\ edits = 0
  /\ faults = 0

-----------------------------------------------------------------------------
(* What the row says.                                                      *)

IsExpired(r) == r.expire = "past"
IsLimited(r) == r.usage = "over"
Overdue(r)   == IsExpired(r) \/ IsLimited(r)

\* become_online: the hold timeout counts only for a user never seen online.
BecomeOnline(r) ==
  \/ r.online = "since"
  \/ r.online = "never" /\ r.timeout = "past"

\* serialize_user sends the inbounds of these users, and none of the others.
Serialized(r) == r.status \in {"active", "on_hold"}

\* _resolve_enabled_user_status.
ResolveEnabled(r) ==
  IF IsExpired(r) THEN "expired"
  ELSE IF IsLimited(r) THEN "limited"
  ELSE IF r.hold THEN "on_hold" ELSE "active"

\* used_traffic = 0.
Zeroed(usage) == IF usage = "over" THEN "under" ELSE usage

\* _reset_user_traffic_and_log: the next plan is dropped.
ResetTraffic(r) == [r EXCEPT !.usage = Zeroed(@), !.plan = "none"]

\* reset_user_data_usage.
ResetDataUsage(r) ==
  [ResetTraffic(r) EXCEPT !.status = IF @ = "limited" THEN "active" ELSE @]

\* reset_user_by_next with the limit and the date that come from the plan.
ByNext(r, usage, expire) ==
  [ResetTraffic(r) EXCEPT
     !.status = "active", !.usage = usage, !.expire = expire,
     !.hold = IF r.plan = "hold" THEN TRUE ELSE @,
     !.timeout = IF r.plan = "hold" THEN "none" ELSE @]

\* The plan's limit may be 0, and the status is active, for a template that says
\* on_hold too.  A template with a timeout of its own, a number of seconds for a
\* column of dates, ends in Fail.
ResetByNext(r) ==
  {ByNext(r, u, e) : u \in {"unlimited", "under"},
                     e \in IF r.plan = "hold" THEN {"none"} ELSE {"none", "future"}}

\* start_users_expire: the date counts from now.
StartExpire(r, duration) ==
  [r EXCEPT !.expire = IF duration THEN "future" ELSE "none",
            !.hold = FALSE, !.timeout = "none", !.status = "active"]

-----------------------------------------------------------------------------
(* modify_user of crud/user.py.                                            *)

WithStatus(r, m) ==
  IF m.status = "keep" THEN r
  ELSE IF m.status = "active" /\ r.status = "disabled"
         THEN [r EXCEPT !.status = ResolveEnabled(r)]
         ELSE [r EXCEPT !.status = m.status]

WithExpire(r, m) ==
  IF m.status = "on_hold" THEN [r EXCEPT !.expire = "none"]
  ELSE IF m.expire = "keep" THEN r
  ELSE [r EXCEPT !.expire = m.expire,
                 !.status = IF m.expire = "past"
                              THEN IF @ = "active" THEN "expired" ELSE @
                              ELSE IF @ = "expired" THEN "active" ELSE @]

\* Mutant: a limit the request leaves out is written as well.
WithLimitUnguarded(r, m) ==
  [r EXCEPT !.usage = m.usage,
            !.status = IF @ \in {"expired", "disabled"} THEN @
                       ELSE IF m.usage = "over" THEN "limited"
                       ELSE IF @ = "on_hold" THEN @ ELSE "active"]

WithLimit(r, m) ==
  IF m.usage = "keep" THEN r
  ELSE [r EXCEPT !.usage = m.usage,
                 !.status = IF @ \in {"expired", "disabled"} THEN @
                            ELSE IF m.usage = "over" THEN "limited"
                            ELSE IF @ = "on_hold" THEN @ ELSE "active"]

\* A request for on_hold carries a duration; edit_at is set to now.
Modified(r, m) ==
  [WithLimit(WithExpire(WithStatus(r, m), m), m) EXCEPT
     !.hold = (@ \/ m.status = "on_hold"),
     !.timeout = IF m.timeout = "keep" THEN @ ELSE m.timeout,
     !.plan = m.plan,
     !.online = IF @ = "since" THEN "before" ELSE @]

-----------------------------------------------------------------------------
(* Sessions.                                                               *)

Exists == row.status # "deleted"

\* A flush writes the columns the handler changed in its object.
Flush(old, new) ==
  [f \in DOMAIN row |-> IF new[f] # old[f] THEN new[f] ELSE row[f]]

Undisturbed == Overlap \/ \A h \in Handlers : pc[h] = "none"

MayBegin(h) == pc[h] = "none" /\ Exists /\ Undisturbed

Begin(h, next) ==
  /\ pc' = [pc EXCEPT ![h] = next]
  /\ obj' = [obj EXCEPT ![h] = row]

\* After the commit the row is read again, here in the same step: its status goes
\* to the nodes, unless the handler has another write to make.
Continue(h, next) ==
  /\ pc' = [pc EXCEPT ![h] = next]
  /\ obj' = [obj EXCEPT ![h] = IF next = "send"
                                 THEN [NoRow EXCEPT !.status = row'.status]
                                 ELSE row']
  /\ edit' = IF h = "admin" THEN NoEdit ELSE edit

End(h) ==
  /\ pc' = [pc EXCEPT ![h] = "none"]
  /\ obj' = [obj EXCEPT ![h] = NoRow]
  /\ edit' = IF h = "admin" THEN NoEdit ELSE edit

\* Commits new over the object of h; a row that is gone is an error.
Commit(h, new) ==
  /\ IF Exists
       THEN /\ row' = Flush(obj[h], new)
            /\ Continue(h, "send")
       ELSE /\ UNCHANGED row
            /\ End(h)
  /\ UNCHANGED <<served, edits, faults>>

\* Mutant: the update is sent only when it lets the user in.
SendGrants(h) ==
  /\ pc[h] = "send"
  /\ served' = (served \/ Serialized(obj[h]))
  /\ End(h)
  /\ UNCHANGED <<row, edits, faults>>

\* sync_user: what the handler read, whatever the row says by now.
Send(h) ==
  /\ pc[h] = "send"
  /\ served' = Serialized(obj[h])
  /\ End(h)
  /\ UNCHANGED <<row, edits, faults>>

\* An error after the first commit: rollback, and nothing is sent.
Fail(h) ==
  /\ pc[h] \in {"plan", "send"}
  /\ faults < MaxFaults
  /\ faults' = faults + 1
  /\ End(h)
  /\ UNCHANGED <<row, served, edits>>

-----------------------------------------------------------------------------
(* The review jobs.                                                        *)

Target(job) == CASE job = "expire" -> "expired"
                 [] job = "limit" -> "limited"
                 [] job = "reactivate" -> "active"

\* Mutant: only users that are past their date are returned to active.
SelectedForgetsLimited(job) ==
  CASE job = "expire" -> row.status = "active" /\ IsExpired(row)
    [] job = "limit" -> row.status = "active" /\ IsLimited(row)
    [] job = "reactivate" -> row.status = "expired" /\ ~Overdue(row)

\* Mutant: only users that have a date are limited.
SelectedNeedsDate(job) ==
  CASE job = "expire" -> row.status = "active" /\ IsExpired(row)
    [] job = "limit" -> row.status = "active" /\ IsLimited(row) /\ row.expire # "none"
    [] job = "reactivate" -> row.status \in {"expired", "limited"} /\ ~Overdue(row)

\* get_active_to_expire_users, get_active_to_limited_users and
\* get_renewed_to_active_users.
Selected(job) ==
  CASE job = "expire" -> row.status = "active" /\ IsExpired(row)
    [] job = "limit" -> row.status = "active" /\ IsLimited(row)
    [] job = "reactivate" -> row.status \in {"expired", "limited"} /\ ~Overdue(row)

Pick(job) ==
  /\ MayBegin(job)
  /\ Selected(job)
  /\ pc' = [pc EXCEPT ![job] = "picked"]
  /\ UNCHANGED <<row, served, obj, edit, edits, faults>>

\* update_users_status writes the status without a condition; change_status
\* then looks for a next plan.
Transition(job) ==
  /\ pc[job] = "picked"
  /\ IF Exists
       THEN /\ row' = [row EXCEPT !.status = Target(job)]
            /\ Continue(job, IF row.plan # "none" /\ job # "reactivate"
                               THEN "plan" ELSE "send")
       ELSE /\ UNCHANGED row
            /\ End(job)
  /\ UNCHANGED <<served, edits, faults>>

ActivatePlan(job) ==
  /\ pc[job] = "plan"
  /\ \E new \in ResetByNext(obj[job]) : Commit(job, new)

\* Mutant: a user who came online is not selected, only one whose timeout passed.
PickHoldTimeout ==
  /\ MayBegin("hold")
  /\ row.status = "on_hold" /\ row.timeout = "past"
  /\ Begin("hold", "picked")
  /\ UNCHANGED <<row, served, edit, edits, faults>>

\* on_hold_to_active_users_job.
PickHold ==
  /\ MayBegin("hold")
  /\ row.status = "on_hold" /\ BecomeOnline(row)
  /\ Begin("hold", "picked")
  /\ UNCHANGED <<row, served, edit, edits, faults>>

StartHold ==
  /\ pc["hold"] = "picked"
  /\ IF Exists
       THEN /\ row' = StartExpire(row, obj["hold"].hold)
            /\ Continue("hold", "send")
       ELSE /\ UNCHANGED row
            /\ End("hold")
  /\ UNCHANGED <<served, edits, faults>>

-----------------------------------------------------------------------------
(* Resets and removals by jobs.                                            *)

Counted == edits < MaxEdits /\ edits' = edits + 1

\* get_users_to_reset_data_usage: the strategy says it is time.
PickPeriodic ==
  /\ "periodic" \in Operations
  /\ MayBegin("periodic")
  /\ row.status \in {"active", "limited"}
  /\ Counted
  /\ Begin("periodic", "reset")
  /\ UNCHANGED <<row, served, edit, faults>>

\* used_traffic is written when the object had any.
Reset(h) ==
  /\ pc[h] = "reset"
  /\ \E zero \in BOOLEAN :
       LET old == obj[h]
           new == [ResetDataUsage(old) EXCEPT !.usage = old.usage]
       IN  /\ old.usage = "over" => zero
           /\ IF Exists
                THEN /\ row' = [Flush(old, new) EXCEPT
                                  !.usage = IF zero THEN Zeroed(@) ELSE @]
                     /\ Continue(h, "send")
                ELSE /\ UNCHANGED row
                     /\ End(h)
  /\ UNCHANGED <<served, edits, faults>>

\* autodelete_expired_users: the nodes are not told.
AutoDelete ==
  /\ "autodelete" \in Operations
  /\ Undisturbed
  /\ row.status \in {"expired", "limited"}
  /\ row' = [row EXCEPT !.status = "deleted"]
  /\ UNCHANGED <<served, run, edits, faults>>

-----------------------------------------------------------------------------
(* Operations of admins: each loads the row, then commits, then sends.     *)

AdminBegins(next, m) ==
  /\ MayBegin("admin")
  /\ Counted
  /\ Begin("admin", next)
  /\ edit' = m
  /\ UNCHANGED <<row, served, faults>>

BeginModify == \E m \in Edits : AdminBegins("modify", m)
BeginToggle == "toggle" \in Operations /\ AdminBegins("toggle", NoEdit)
BeginReset  == "reset" \in Operations /\ AdminBegins("reset", NoEdit)
BeginNext   == /\ "next" \in Operations
               /\ row.plan # "none"
               /\ AdminBegins("next", NoEdit)

Modify ==
  /\ pc["admin"] = "modify"
  /\ Commit("admin", Modified(obj["admin"], edit))

\* set_user_disabled, either way: a status that is the object's already is not
\* written, and the object is sent as it is, without another look at the row.
Toggle ==
  /\ pc["admin"] = "toggle"
  /\ \E s \in {"disabled", ResolveEnabled(obj["admin"])} :
       LET old == obj["admin"]
       IN  IF Exists \/ s = old.status
             THEN /\ row' = Flush(old, [old EXCEPT !.status = s])
                  /\ pc' = [pc EXCEPT !["admin"] = "send"]
                  /\ obj' = [obj EXCEPT !["admin"] = [NoRow EXCEPT !.status = s]]
                  /\ UNCHANGED edit
             ELSE /\ UNCHANGED row
                  /\ End("admin")
  /\ UNCHANGED <<served, edits, faults>>

ActiveNextPlan ==
  /\ pc["admin"] = "next"
  /\ \E new \in ResetByNext(obj["admin"]) : Commit("admin", new)

\* _remove_user: the row goes, and the nodes are told.
Remove ==
  /\ "remove" \in Operations
  /\ MayBegin("admin")
  /\ Counted
  /\ row' = [row EXCEPT !.status = "deleted"]
  /\ Continue("admin", "send")
  /\ UNCHANGED <<served, faults>>

\* delete_expired_users: by date or by status, and the nodes are not told.
Cleanup ==
  /\ "cleanup" \in Operations
  /\ MayBegin("admin")
  /\ Counted
  /\ IsExpired(row) \/ row.status \in {"limited", "on_hold", "disabled"}
  /\ row' = [row EXCEPT !.status = "deleted"]
  /\ UNCHANGED <<served, run, faults>>

\* reset_all_users_data_usage: one UPDATE for all users, and no sync.
ResetAll ==
  /\ "resetAll" \in Operations
  /\ MayBegin("admin")
  /\ Counted
  /\ row' = ResetDataUsage(row)
  /\ UNCHANGED <<served, run, faults>>

-----------------------------------------------------------------------------
(* The world.                                                              *)

\* A date passes.
Time ==
  /\ \E f \in {"expire", "timeout"} :
       row[f] = "future" /\ row' = [row EXCEPT ![f] = "past"]
  /\ UNCHANGED <<served, run, edits, faults>>

\* Usage recording adds traffic and sets online_at.
Traffic ==
  /\ served /\ Exists
  /\ \E u \in {row.usage, IF row.usage = "under" THEN "over" ELSE row.usage} :
       row' = [row EXCEPT !.usage = u, !.online = "since"]
  /\ UNCHANGED <<served, run, edits, faults>>

-----------------------------------------------------------------------------
JobStep(job) == Transition(job) \/ ActivatePlan(job)

Next ==
  \/ \E job \in Review : Pick(job) \/ JobStep(job)
  \/ PickHold \/ StartHold
  \/ PickPeriodic \/ AutoDelete
  \/ \E h \in {"periodic", "admin"} : Reset(h)
  \/ BeginModify \/ BeginToggle \/ BeginReset \/ BeginNext
  \/ Modify \/ Toggle \/ ActiveNextPlan
  \/ Remove \/ Cleanup \/ ResetAll
  \/ \E h \in Handlers : Send(h) \/ Fail(h)
  \/ Time \/ Traffic

Spec == Init /\ [][Next]_vars

\* The scheduler runs every review job again and again, and a handler that has
\* begun goes on, because every query has a timeout.  Nothing is assumed of
\* admins, traffic and time.
FairSpec ==
  /\ Spec
  /\ \A job \in Review : WF_vars(Pick(job)) /\ WF_vars(JobStep(job))
  /\ WF_vars(PickHold) /\ WF_vars(StartHold)
  /\ \A h \in {"periodic", "admin"} : WF_vars(Reset(h))
  /\ WF_vars(Modify \/ Toggle \/ ActiveNextPlan)
  /\ \A h \in Handlers : WF_vars(Send(h))

-----------------------------------------------------------------------------
(* Properties.                                                             *)

\* No handler is under way and no review job has anything to do.
Settled ==
  /\ \A h \in Handlers : pc[h] = "none"
  /\ \A job \in Review : ~Selected(job)
  /\ ~(row.status = "on_hold" /\ BecomeOnline(row))

\* When the jobs have nothing left to do, the nodes let in exactly the users
\* whose row says so.
NodesAgree == Settled => served = Serialized(row)

\* The review jobs catch up with every user who is past the date or the limit,
\* whatever else happens to the row meanwhile.
OverdueIsDemoted ==
  row.status = "active" /\ Overdue(row) ~> ~(row.status = "active" /\ Overdue(row))

\* "would otherwise strand the user as expired/limited forever": a user who is
\* within date and limit does not stay expired or limited.
RenewedReturns ==
  row.status \in {"expired", "limited"} /\ ~Overdue(row)
    ~> ~(row.status \in {"expired", "limited"} /\ ~Overdue(row))

\* The time of a user on hold starts to run once the user came online.
HoldStarts ==
  row.status = "on_hold" /\ row.online = "since"
    ~> ~(row.status = "on_hold" /\ row.online = "since")

\* "The limit/expire jobs must not strand users mid-batch": a user past the date
\* or the limit does not keep access.
OverdueLosesAccess ==
  served /\ Overdue(row) ~> ~(served /\ Overdue(row))

\* "A manually disabled user uses the `disabled` status and is untouched here":
\* no step of the reactivate job changes the status of a disabled user.
DisabledIsUntouched ==
  [][pc'["reactivate"] # pc["reactivate"] /\ row.status = "disabled"
       => row'.status = "disabled"]_vars
=============================================================================
