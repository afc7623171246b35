------------------------------ MODULE Dashboard ------------------------------
(***************************************************************************)
(* The dashboard in an admin's browser: the session, and three of its      *)
(* pages.  One page is mounted at a time and each talks to the server      *)
(* through requests of its own, so a behaviour is one visit: the module of *)
(* the page takes its steps and the other pages wait.                      *)
(***************************************************************************)
EXTENDS Integers, Sequences, FiniteSets

CONSTANTS
  FirstHosts, MaxHostOps, MaxHostUpsets,
  FirstUsers, Filters, Orders, PageNumbers, Limit, MaxUserSteps,
  LogNodes, RAW_LOG_BUFFER_MAX, MaxLines, MaxNodeChanges,
  Tabs, Admins, NoAdmin, MaxLogins, MaxRefetches

ASSUME HostsAssumption ==
  /\ IsFiniteSet(FirstHosts)
  /\ FirstHosts \subseteq [id : Nat \ {0}, val : {"old", "new"}, off : BOOLEAN, priority : Nat]
  /\ \A g, h \in FirstHosts : g.id = h.id => g = h
ASSUME UsersAssumption ==
  /\ IsFiniteSet(FirstUsers)
  /\ FirstUsers \subseteq [id : Nat \ {0}, status : {"active", "disabled"}, note : {"old", "new"}]
  /\ \A u, v \in FirstUsers : u.id = v.id => u = v
ASSUME TableAssumption ==
  /\ Filters \subseteq {"all", "active", "disabled"} /\ "all" \in Filters
  /\ Orders \subseteq BOOLEAN /\ TRUE \in Orders
  /\ PageNumbers \subseteq Nat /\ 0 \in PageNumbers
  /\ Limit \in Nat
ASSUME BufferAssumption == RAW_LOG_BUFFER_MAX \in Nat
ASSUME NodesAssumption == LogNodes \subseteq (Nat \ {0})
ASSUME AdminsAssumption == Admins # {} /\ NoAdmin \notin Admins

VARIABLES
  visit,   \* the page this behaviour is about
  stored, nextId, data, hosts, listing, reqs, dialog, suspect, quiet, hostOps, hostUpsets,
  users, nextUser, key, got, page, paging, muts, form, late, blurred, userSteps,
  connectedNodes, selectedNode, committed, source, oldSources, rawLogs, messageBuffer,
  seenBuffer, isPaused, streamed, hasty, lineCount, nodeChanges,
  tokens, revoked, token, route, loader, check, query, login, cached, mine, kicked, refetches

Hosts   == INSTANCE HostsList
Users   == INSTANCE UsersPage
Logs    == INSTANCE NodeLogs
Account == INSTANCE Session

hostVars    == <<stored, nextId, data, hosts, listing, reqs, dialog, suspect, quiet, hostOps,
                 hostUpsets>>
userVars    == <<users, nextUser, key, got, page, paging, muts, form, late, blurred, userSteps>>
logVars     == <<connectedNodes, selectedNode, committed, source, oldSources, rawLogs,
                 messageBuffer, seenBuffer, isPaused, streamed, hasty, lineCount, nodeChanges>>
sessionVars == <<tokens, revoked, token, route, loader, check, query, login, cached, mine,
                 kicked, refetches>>

vars == <<visit, hostVars, userVars, logVars, sessionVars>>

Init ==
  /\ visit \in {"hosts", "users", "logs", "session"}
  /\ Hosts!HostsInit /\ Users!UsersInit /\ Logs!LogsInit /\ Account!SessionInit

HostsStep ==
  /\ visit = "hosts"
  /\ Hosts!HostsNext
  /\ UNCHANGED <<visit, userVars, logVars, sessionVars>>

UsersStep ==
  /\ visit = "users"
  /\ Users!UsersNext
  /\ UNCHANGED <<visit, hostVars, logVars, sessionVars>>

LogsStep ==
  /\ visit = "logs"
  /\ Logs!LogsNext
  /\ UNCHANGED <<visit, hostVars, userVars, sessionVars>>

SessionStep ==
  /\ visit = "session"
  /\ Account!SessionNext
  /\ UNCHANGED <<visit, hostVars, userVars, logVars>>

Next == HostsStep \/ UsersStep \/ LogsStep \/ SessionStep

Spec == Init /\ [][Next]_vars

-----------------------------------------------------------------------------
\* The types of the pages' states, with the shape of the lists, tables and dialogs on them.
PagesTypeOK ==
  /\ Hosts!HostsTypeOK
  /\ Users!UsersTypeOK
  /\ Logs!LogsTypeOK
  /\ Account!SessionTypeOK

\* Once nothing is under way the hosts page shows the hosts that are stored, whatever the admin
\* did and in whatever order requests and fetches were answered (exceptions: module HostsList).
HostsShowStored == Hosts!HostsShowStored

\* A dragged host takes the place in the table of the one it was dropped on.
DropLandsWhereShown == [][Hosts!DropsWhereShown]_hostVars

\* The users table, which is patched and not fetched again after an operation, still shows
\* what is stored once nothing is under way (exceptions: module UsersPage).
RowsFresh == Users!RowsFresh

\* What was typed into the edit dialog survives every background refresh of the table.
FormKept == [][Users!KeepsForm]_userVars

\* The lines on the log page are the selected node's, whatever was still on its way.
OnlySelectedNode == Logs!OnlySelectedNode

\* Pausing and resuming the log page neither loses, repeats nor reorders lines.
LogsComplete == Logs!LogsComplete

\* Apart from the logout button, the stored token is dropped only when the server denied it.
SessionKept == [][Account!KeepsSession]_sessionVars

\* The account a tab shows is the one its requests are made for.
ShowsItsAccount == Account!ShowsItsAccount
=============================================================================
