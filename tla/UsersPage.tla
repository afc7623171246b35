------------------------------ MODULE UsersPage ------------------------------
(***************************************************************************)
(* The users table of the dashboard and the query cache behind it.         *)
(*                                                                         *)
(* The table shows one page of the users that match its filters, and the   *)
(* previous page until the first answer for new filters is there.  An      *)
(* operation on one user does not fetch the page again: the user the API   *)
(* answers with is put into the cached page, or taken out of it, and the   *)
(* total is adjusted.  Bulk operations but the delete fetch again.  Fetches*)
(* (filters, pages, auto refresh) and operations overlap freely.           *)
(***************************************************************************)
EXTENDS Integers, Sequences, SequencesExt, FiniteSetsExt

CONSTANTS
  FirstUsers,   \* the users stored at the beginning
  Filters,      \* the statuses to filter by; "all" is no filter
  Orders,       \* newest first (TRUE) and oldest first
  PageNumbers,  \* the pages the admin may go to
  Limit,        \* users per page
  MaxUserSteps  \* bounds operations, others' changes and faults together

VARIABLES
  users,     \* the users in the database
  nextUser,  \* the id of the next one
  key,       \* the filters and the page asked for: the key of the query
  got,       \* the query of this key has data of its own
  page,      \* the rows and the total shown
  paging,    \* the fetch under way; "missed" and "lost" are history
  muts,      \* the operations under way; "crossed" and "stale" are history
  form,      \* the edit dialog
  late, blurred,   \* history: see RowsFresh
  userSteps

userGhosts == <<late, blurred>>
userVars   == <<users, nextUser, key, got, page, paging, muts, form, userGhosts,
                userSteps>>

User    == [id : Nat, status : {"active", "disabled"}, note : {"old", "new"}]
Keys    == [filter : Filters, pg : PageNumbers, desc : Orders]
IdsIn(q) == {u.id : u \in ToSet(q)}

UserStep == userSteps < MaxUserSteps /\ userSteps' = userSteps + 1

-----------------------------------------------------------------------------
(* The cache.                                                              *)

matchesUserFilters(u, k) == k.filter \in {"all", u.status}

\* Users are sorted by when they were created, as their ids are.
compareBySort(k, u, v) == IF k.desc THEN u.id > v.id ELSE u.id < v.id

Sorted(S, k) ==
  CHOOSE q \in SetToSeqs(S) : \A i, j \in DOMAIN q : i < j => compareBySort(k, q[i], q[j])

\* What the server answers for a key.
PageOf(S, k) ==
  LET all  == Sorted({u \in S : matchesUserFilters(u, k)}, k)
      from == k.pg * Limit
  IN [rows |-> SubSeq(all, from + 1, IF from + Limit < Len(all) THEN from + Limit ELSE Len(all)),
      total |-> Len(all)]

Less(total, n) == IF total > n THEN total - n ELSE 0

Cut(q) == SubSeq(q, 1, IF Len(q) > Limit THEN Limit ELSE Len(q))

\* Those rows that are in S, in the order they have (no row occurs twice).
Filtered(rows, S) ==
  CHOOSE q \in SetToSeqs(ToSet(rows) \cap S) :
    \A i, j \in DOMAIN q : i < j =>
      \E m, n \in DOMAIN rows : m < n /\ q[i] = rows[m] /\ q[j] = rows[n]

\* A bug: a user that no longer matches stays where it was.
MUT_upsertInSingleUsersQuery(p, u, k, allowInsert) ==
  CASE u.id \in IdsIn(p.rows) ->
         [p EXCEPT !.rows = [i \in DOMAIN @ |-> IF @[i].id = u.id THEN u ELSE @[i]]]
    [] OTHER -> p

upsertInSingleUsersQuery(p, u, k, allowInsert) ==
  CASE u.id \in IdsIn(p.rows) /\ matchesUserFilters(u, k) ->
         [p EXCEPT !.rows = [i \in DOMAIN @ |-> IF @[i].id = u.id THEN u ELSE @[i]]]
    [] u.id \in IdsIn(p.rows) /\ ~matchesUserFilters(u, k) ->
         [rows |-> Filtered(p.rows, {v \in ToSet(p.rows) : v.id # u.id}), total |-> Less(p.total, 1)]
    [] u.id \notin IdsIn(p.rows) /\ allowInsert /\ matchesUserFilters(u, k) /\ k.pg = 0 ->
         [rows |-> Cut(Sorted(ToSet(p.rows) \cup {u}, k)), total |-> p.total + 1]
    [] OTHER -> p

\* A user that is not on the page still counts when it matches the filters.
removeUsersFromSingleUsersQuery(p, S, k) ==
  [rows  |-> Filtered(p.rows, {v \in ToSet(p.rows) : v.id \notin {u.id : u \in S}}),
   total |-> Less(p.total, Cardinality({u \in S : u.id \in IdsIn(p.rows)
                                                    \/ matchesUserFilters(u, k)}))]

-----------------------------------------------------------------------------
(* The fetches.                                                            *)

NoPaging    == [at |-> "none", page |-> [rows |-> <<>>, total |-> 0],
                missed |-> {}, lost |-> FALSE]
PagingAsked == [NoPaging EXCEPT !.at = "server"]

\* The operations under way now overlap something.
Crossed(q) == [i \in DOMAIN q |-> [q[i] EXCEPT !.crossed = TRUE]]

\* A new status filter goes to the first page; sorting and paging keep the rest.
NextKeys ==
  {[key EXCEPT !.filter = f, !.pg = 0] : f \in Filters}
    \cup {[key EXCEPT !.desc = d] : d \in Orders} \cup {[key EXCEPT !.pg = n] : n \in PageNumbers}

\* The page shown stays until the first answer for the new key.
ChangeKey ==
  /\ ~form.open
  /\ key' \in NextKeys \ {key}
  /\ got' = FALSE
  /\ paging' = PagingAsked
  /\ muts' = Crossed(muts)
  /\ UNCHANGED <<users, nextUser, page, form, userGhosts, userSteps>>

\* The refresh button and the auto refresh; a fetch under way is dropped.
handleRefresh ==
  /\ paging' = PagingAsked
  /\ muts' = Crossed(muts)
  /\ UNCHANGED <<users, nextUser, key, got, page, form, userGhosts, userSteps>>

PagingServed ==
  /\ paging.at = "server"
  /\ paging' = [paging EXCEPT !.at = "answer", !.page = PageOf(users, key)]
  /\ UNCHANGED <<users, nextUser, key, got, page, muts, form, userGhosts, userSteps>>

Closed == [open |-> FALSE, by |-> "table", user |-> {}, status |-> "active", note |-> "old",
           typed |-> FALSE, closing |-> FALSE]

\* A bug: the form of a row follows the row while it is being edited.
MUT_FormAfter(p) ==
  IF form.open /\ form.by = "row"
    THEN IF \E i \in DOMAIN p.rows : p.rows[i].id \in form.user
           THEN [form EXCEPT !.note = (CHOOSE u \in ToSet(p.rows) : u.id \in form.user).note]
           ELSE Closed
    ELSE form

\* The dialog a row opened lives in the row and goes with it.
FormAfter(p) ==
  IF form.by = "row" /\ form.user \cap IdsIn(p.rows) = {} THEN Closed ELSE form

PagingArrives ==
  /\ paging.at = "answer"
  /\ page' = paging.page
  /\ got' = TRUE
  /\ form' = FormAfter(paging.page)
  /\ late' = paging.lost
  /\ blurred' = FALSE
  /\ paging' = NoPaging
  /\ UNCHANGED <<users, nextUser, key, muts, userSteps>>

PagingFails ==
  /\ paging.at # "none"
  /\ UserStep
  /\ paging' = NoPaging
  /\ late' = TRUE
  /\ UNCHANGED <<users, nextUser, key, got, page, muts, form, blurred>>

-----------------------------------------------------------------------------
(* The operations.                                                         *)

Send(op, S) ==
  /\ UserStep
  /\ muts' = Append(Crossed(muts),
                     [n |-> userSteps, op |-> op, users |-> S, answer |-> "none",
                      crossed |-> paging.at # "none" \/ ~got \/ muts # <<>>, stale |-> FALSE])
  /\ UNCHANGED <<users, nextUser, key, got, page, paging, userGhosts>>

\* Reset, revoke or next plan on a row: the API answers with the user as it became.
ResetUser(u) == ~form.open /\ Send("reset", {[u EXCEPT !.note = "new"]}) /\ UNCHANGED form

confirmDelete(u) == ~form.open /\ Send("delete", {u}) /\ UNCHANGED form

CreateUser ==
  /\ ~form.open
  /\ \E s \in {"active", "disabled"} :
       Send("create", {[id |-> 0, status |-> s, note |-> "new"]})
  /\ UNCHANGED form

handleBulkDelete(S) == ~form.open /\ Send("bulk_delete", S) /\ UNCHANGED form

handleBulkDisableUsers(S) ==
  /\ ~form.open
  /\ LET eligible == {u \in S : u.status # "disabled"}
     IN eligible # {} /\ Send("bulk_disable", {[u EXCEPT !.status = "disabled"] : u \in eligible})
  /\ UNCHANGED form

\* A bug: the timer of the last dialog's close goes on.
MUT_FormOpened(u, by) ==
  [open |-> TRUE, by |-> by, user |-> {u.id}, status |-> u.status, note |-> u.note,
   typed |-> FALSE, closing |-> form.closing]

\* The dialog opens on the cached user; a pending close of the last one is called off.
FormOpened(u, by) ==
  [open |-> TRUE, by |-> by, user |-> {u.id}, status |-> u.status, note |-> u.note,
   typed |-> FALSE, closing |-> FALSE]

handleEdit(u, by) ==
  /\ ~form.open
  /\ userSteps < MaxUserSteps
  /\ form' = FormOpened(u, by)
  /\ UNCHANGED <<users, nextUser, key, got, page, paging, muts, userGhosts, userSteps>>

TypeNote ==
  /\ form.open
  /\ form.note = "old"
  /\ form' = [form EXCEPT !.note = "new", !.typed = TRUE]
  /\ UNCHANGED <<users, nextUser, key, got, page, paging, muts, userGhosts, userSteps>>

FormClosing(f) == [f EXCEPT !.open = FALSE, !.closing = TRUE]

handleEditModalClose ==
  /\ form.open
  /\ form' = FormClosing(form)
  /\ UNCHANGED <<users, nextUser, key, got, page, paging, muts, userGhosts, userSteps>>

\* The user is dropped once the dialog has faded out.
CloseTimer ==
  /\ form.closing
  /\ form' = Closed
  /\ UNCHANGED <<users, nextUser, key, got, page, paging, muts, userGhosts, userSteps>>

\* The calls of the edit form: the fields; the status; the fields, and then the status.
EditOps == {"modify", "toggle", "both", "second"}

\* An untouched status is not sent.  Turning it is a call of its own, after the one with the
\* fields if any was touched.
SubmitEdit ==
  /\ form.open
  /\ ~\E i \in DOMAIN muts : muts[i].op \in EditOps
  /\ \E id \in form.user, turned \in BOOLEAN :
       LET fields == [id |-> id, status |-> form.status, note |-> form.note]
           other  == CHOOSE s \in {"active", "disabled"} : s # form.status
       IN IF turned
            THEN Send(IF form.typed THEN "both" ELSE "toggle", {[fields EXCEPT !.status = other]})
            ELSE Send("modify", {fields})
  /\ UNCHANGED form

-----------------------------------------------------------------------------
(* The server and the answers.                                             *)

\* A fetch that has its answer misses what is written now.
Misses(n) == paging' = IF paging.at = "answer" THEN [paging EXCEPT !.missed = @ \cup {n}] ELSE paging

\* The answers under way that hold one of these users are out of date.
Outdated(q, S) ==
  [i \in DOMAIN q |->
     [q[i] EXCEPT !.stale = @ \/ (q[i].answer = "ok"
                                  /\ {u.id : u \in S} \cap {u.id : u \in q[i].users} # {})]]

Without(S)  == {v \in users : v.id \notin {u.id : u \in S}}
Present(S)  == {u.id : u \in S} \subseteq {v.id : v \in users}

ServeUser(i) ==
  LET m == muts[i]
      Reply(answer, S) == muts' = [Outdated(muts, IF answer = "ok" THEN S ELSE {})
                                     EXCEPT ![i].answer = answer, ![i].users = S]
  IN
  /\ m.answer = "none"
  /\ \/ /\ m.op = "create"
        /\ LET S == {[u EXCEPT !.id = nextUser] : u \in m.users}
           IN users' = users \cup S /\ Reply("ok", S)
        /\ nextUser' = nextUser + 1
        /\ Misses(m.n)
     \/ /\ m.op # "create"
        /\ IF Present(m.users)
             THEN LET old(u)  == CHOOSE v \in users : v.id = u.id
                      S == CASE m.op \in {"modify", "both"} -> {[old(u) EXCEPT !.note = u.note] : u \in m.users}
                             [] m.op \in {"toggle", "second"} ->
                                  {[old(u) EXCEPT !.status = u.status] : u \in m.users}
                             [] m.op = "reset"        -> {[old(u) EXCEPT !.note = "new"] : u \in m.users}
                             [] m.op = "bulk_disable" -> {[old(u) EXCEPT !.status = "disabled"] : u \in m.users}
                             [] OTHER -> m.users
                  IN /\ users' = IF m.op \in {"delete", "bulk_delete"}
                                   THEN Without(S) ELSE Without(S) \cup S
                     /\ IF m.op = "both" THEN muts' = [Outdated(muts, S) EXCEPT ![i].op = "second"]
                                         ELSE Reply("ok", S)
                     /\ Misses(m.n)
             ELSE Reply("failed", m.users) /\ UNCHANGED <<users, paging>>
        /\ UNCHANGED nextUser
  /\ UNCHANGED <<key, got, page, form, userGhosts, userSteps>>

\* Another admin or a job changes a user or deletes it.
OthersChange ==
  /\ UserStep
  /\ \E u \in users :
       /\ users' \in {Without({u}), Without({u}) \cup {[u EXCEPT !.status = "disabled", !.note = "new"]}}
       /\ muts' = Outdated(muts, {u})
  /\ late' = TRUE
  /\ paging' = IF paging.at = "answer" THEN [paging EXCEPT !.lost = TRUE] ELSE paging
  /\ UNCHANGED <<nextUser, key, got, page, form, blurred>>

\* The request or its answer is lost.
MutationFails(i) ==
  /\ muts[i].answer # "failed"
  /\ UserStep
  /\ muts' = [muts EXCEPT ![i].answer = "failed"]
  /\ late' = (late \/ muts[i].answer = "ok" \/ muts[i].op = "second")
  /\ paging' = [paging EXCEPT !.lost = @ \/ muts[i].n \in paging.missed]
  /\ UNCHANGED <<users, nextUser, key, got, page, form, blurred>>

\* The cached page of the present key, when there is one, takes the answer in.
PageAfter(m) ==
  CASE ~got \/ m.op = "bulk_disable" -> page
    [] got /\ m.op = "delete" -> removeUsersFromSingleUsersQuery(page, m.users, key)
    [] got /\ m.op = "bulk_delete" ->
         removeUsersFromSingleUsersQuery(page, {u \in ToSet(page.rows) : u.id \in {v.id : v \in m.users}}, key)
    [] got /\ m.op = "reset" -> upsertInSingleUsersQuery(page, CHOOSE u \in m.users : TRUE, key, FALSE)
    [] got /\ m.op \in EditOps \cup {"create"} ->
         upsertInSingleUsersQuery(page, CHOOSE u \in m.users : TRUE, key, TRUE)

MutationAnswered(i) ==
  LET m == muts[i] IN
  /\ m.answer # "none"
  /\ muts' = IF m.answer = "ok" /\ m.op = "bulk_disable" THEN Crossed(RemoveAt(muts, i))
               ELSE RemoveAt(muts, i)
  /\ IF m.answer = "ok"
       THEN /\ page' = PageAfter(m)
            /\ form' = IF m.op \in EditOps /\ form.open THEN FormClosing(form) ELSE FormAfter(page')
            /\ late' = (late \/ m.stale)
            /\ blurred' = \/ blurred \/ m.crossed
                          \/ m.op = "create" /\ key.pg > 0
                          \/ m.op \in EditOps /\ \E u \in m.users : u.id \notin IdsIn(page.rows)
            /\ paging' = IF m.op = "bulk_disable" THEN PagingAsked
                           ELSE [paging EXCEPT !.lost = @ \/ m.n \in paging.missed]
       ELSE UNCHANGED <<page, form, userGhosts, paging>>
  /\ UNCHANGED <<users, nextUser, key, got, userSteps>>

-----------------------------------------------------------------------------
UsersInit ==
  /\ users = FirstUsers
  /\ nextUser = 1 + Max({0} \cup {u.id : u \in FirstUsers})
  /\ key = [filter |-> "all", pg |-> 0, desc |-> TRUE]
  /\ got = TRUE
  /\ page = PageOf(users, key)
  /\ paging = NoPaging
  /\ muts = <<>>
  /\ form = Closed
  /\ late = FALSE /\ blurred = FALSE
  /\ userSteps = 0

UsersNext ==
  \/ ChangeKey \/ handleRefresh \/ PagingServed \/ PagingArrives \/ PagingFails
  \/ CreateUser \/ TypeNote \/ handleEditModalClose \/ CloseTimer \/ SubmitEdit \/ OthersChange
  \/ \E u \in ToSet(page.rows) : \/ ResetUser(u) \/ confirmDelete(u)
                                 \/ handleEdit(u, "row") \/ handleEdit(u, "table")
  \/ \E S \in SUBSET ToSet(page.rows) \ {{}} : handleBulkDelete(S) \/ handleBulkDisableUsers(S)
  \/ \E i \in DOMAIN muts : ServeUser(i) \/ MutationFails(i) \/ MutationAnswered(i)

-----------------------------------------------------------------------------
\* Users have one id each, the page no more rows than it may, and an open dialog its user.
UsersTypeOK ==
  /\ \A u \in users : u \in User /\ u.id < nextUser
  /\ Cardinality({u.id : u \in users}) = Cardinality(users)
  /\ key \in Keys /\ got \in BOOLEAN
  /\ ToSet(page.rows) \subseteq User /\ page.total \in Nat
  /\ Len(page.rows) <= Limit /\ Cardinality(IdsIn(page.rows)) = Len(page.rows)
  /\ form.open => Cardinality(form.user) = 1 /\ ~form.closing

\* Without a fetch after each operation the table still shows what is stored: once
\* nothing is under way, every row is the stored user, matches the filters and is in
\* its place, and the total counts the users that match.  Excepted, until the next fetch:
\* changes of others, answers that were lost and edits that failed half way; an answer that arrived before a fetch which
\* the server had read earlier, and one about a user who was changed again before it arrived
\* (late, for the rows too); and for the total operations that overlap a
\* fetch or each other, users created from a later page, and edits of a user that has left the
\* page, who is counted again (blurred).
RowsFresh ==
  (muts = <<>> /\ paging.at = "none" /\ got /\ ~late) =>
    /\ \A u \in ToSet(page.rows) : u \in users /\ matchesUserFilters(u, key)
    /\ page.rows = Sorted(ToSet(page.rows), key)
    /\ ~blurred => page.total = Cardinality({u \in users : matchesUserFilters(u, key)})

\* A background refresh leaves an edit session alone: what the admin typed
\* survives every answer of the query.  Excepted is the dialog of a row that is no longer on
\* the page, which goes with its row.
KeepsForm ==
  (paging.at = "answer" /\ paging'.at = "none" /\ form.open)
    => \/ form' = form
       \/ form.by = "row" /\ form.user \cap IdsIn(page'.rows) = {}
=============================================================================
