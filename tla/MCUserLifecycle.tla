-------------------------- MODULE MCUserLifecycle --------------------------
(* Small instances of UserLifecycle.                                       *)
EXTENDS UserLifecycle

Keep == NoEdit

\* A renewal: a new date and a new limit.
Renewal == {[Keep EXCEPT !.expire = "future", !.usage = "under"]}

NoEdits == {}

\* Every edit the request can carry: a status, a date and a limit at once.
EveryEdit == {m \in AllEdits : m.timeout = "keep" /\ m.plan \in {"none", "plain"}
                                 /\ (m.status = "on_hold" => m.expire = "keep")}
=============================================================================
