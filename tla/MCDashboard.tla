---------------------------- MODULE MCDashboard ----------------------------
EXTENDS Dashboard

\* Two hosts in order, and one active user.
TwoHosts == {[id |-> i, val |-> "old", off |-> FALSE, priority |-> i - 1] : i \in 1..2}
OneUser  == {[id |-> 1, status |-> "active", note |-> "old"]}
=============================================================================
