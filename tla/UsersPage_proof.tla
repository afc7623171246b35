--------------------------- MODULE UsersPage_proof ---------------------------
(***************************************************************************)
(* Proofs about the users table: nothing that was typed into the form of a *)
(* user is lost, and the table, which is patched and not fetched again,    *)
(* shows what is stored, for any users, filters and page size, any number  *)
(* of operations, faults and changes of others, and any order of the       *)
(* answers.  Last, the types of the pages' states.                         *)
(***************************************************************************)
EXTENDS HostsList_proof, Dashboard_proof

-----------------------------------------------------------------------------
(***************************************************************************)
(* The users table: the edit dialog.                                       *)
(***************************************************************************)
\* The fetch under way has its four columns, whatever the page it brings.
PagingShaped ==
  paging = [at |-> paging.at, page |-> paging.page, missed |-> paging.missed,
            lost |-> paging.lost]

\* So have the fetches that begin.
LEMMA AskedShaped ==
  ASSUME NEW p, p = Users!NoPaging \/ p = Users!PagingAsked
  PROVE  p = [at |-> p.at, page |-> p.page, missed |-> p.missed, lost |-> p.lost]
BY DEF Users!NoPaging, Users!PagingAsked

\* So has one that is marked.
LEMMA UpdatesShaped ==
  ASSUME NEW p, NEW x,
         p = [at |-> p.at, page |-> p.page, missed |-> p.missed, lost |-> p.lost]
  PROVE  /\ \A q : q = [p EXCEPT !.missed = x] \/ q = [p EXCEPT !.lost = x] =>
                     /\ q.at = p.at
                     /\ q = [at |-> q.at, page |-> q.page, missed |-> q.missed, lost |-> q.lost]
<1> DEFINE a == p.at  g == p.page  m == p.missed  l == p.lost
<1>1. p = [at |-> a, page |-> g, missed |-> m, lost |-> l]
  OBVIOUS
<1> HIDE DEF a, g, m, l
<1>2. [p EXCEPT !.missed = x] = [at |-> a, page |-> g, missed |-> x, lost |-> l]
  BY <1>1
<1>3. [p EXCEPT !.lost = x] = [at |-> a, page |-> g, missed |-> m, lost |-> x]
  BY <1>1
<1>4. p.at = a
  BY <1>1
<1> QED
  BY <1>2, <1>3, <1>4

\* A step that does not end a fetch that has its answer.
LEMMA FetchGoesOn ==
  ASSUME PagingShaped,
         \/ paging' = paging
         \/ paging' = Users!PagingAsked
         \/ \E x : paging' = [paging EXCEPT !.missed = x] \/ paging' = [paging EXCEPT !.lost = x]
  PROVE  PagingShaped' /\ Users!KeepsForm
<1>1. CASE paging' = paging
  BY <1>1 DEF PagingShaped, Users!KeepsForm
<1>2. CASE paging' = Users!PagingAsked
  <2>1. PagingShaped'
    BY <1>2, AskedShaped DEF PagingShaped
  <2>2. paging'.at = "server"
    BY <1>2 DEF Users!PagingAsked, Users!NoPaging
  <2> QED
    BY <2>1, <2>2 DEF Users!KeepsForm
<1>3. ASSUME NEW x, \/ paging' = [paging EXCEPT !.missed = x]
                    \/ paging' = [paging EXCEPT !.lost = x]
      PROVE  PagingShaped' /\ Users!KeepsForm
  <2> DEFINE p == paging
             q == paging'
  <2>1. /\ p = [at |-> p.at, page |-> p.page, missed |-> p.missed, lost |-> p.lost]
        /\ (q = [p EXCEPT !.missed = x] \/ q = [p EXCEPT !.lost = x])
    BY <1>3 DEF PagingShaped
  <2> HIDE DEF p, q
  <2>2. /\ q.at = p.at
        /\ q = [at |-> q.at, page |-> q.page, missed |-> q.missed, lost |-> q.lost]
    BY <2>1, UpdatesShaped
  <2> QED
    BY <2>2 DEF p, q, PagingShaped, Users!KeepsForm
<1> QED
  BY <1>1, <1>2, <1>3

\* Every step keeps the shape and the form.
LEMMA UsersStepKeepsForm ==
  ASSUME PagingShaped, Users!UsersNext
  PROVE  PagingShaped' /\ Users!KeepsForm
<1>1. ASSUME NEW op, NEW S, Users!Send(op, S)
      PROVE  paging' = paging
  BY <1>1 DEF Users!Send
<1>2. ASSUME NEW n, Users!Misses(n)
      PROVE  \/ paging' = paging
             \/ \E x : paging' = [paging EXCEPT !.missed = x]
  BY <1>2 DEF Users!Misses
<1>3. CASE Users!ChangeKey \/ Users!handleRefresh
  BY <1>3, FetchGoesOn DEF Users!ChangeKey, Users!handleRefresh
<1>4. CASE Users!PagingServed
  <2>1. PagingShaped'
    <3> DEFINE g == Users!PageOf(users, key)
    <3>1. paging' = [paging EXCEPT !.at = "answer", !.page = g]
      BY <1>4 DEF Users!PagingServed
    <3>2. paging' = [at |-> "answer", page |-> g, missed |-> paging.missed,
                     lost |-> paging.lost]
      BY <3>1 DEF PagingShaped
    <3> HIDE DEF g
    <3> QED
      BY <3>2 DEF PagingShaped
  <2> QED
    BY <1>4, <2>1 DEF Users!PagingServed, Users!KeepsForm
<1>5. CASE Users!PagingArrives
  <2>1. PagingShaped'
    BY <1>5, AskedShaped DEF PagingShaped, Users!PagingArrives
  <2>2. page' = paging.page /\ form' = Users!FormAfter(paging.page)
    BY <1>5 DEF Users!PagingArrives
  <2> QED
    BY <2>1, <2>2 DEF Users!KeepsForm, Users!FormAfter
<1>6. CASE Users!PagingFails
  <2>1. PagingShaped'
    BY <1>6, AskedShaped DEF PagingShaped, Users!PagingFails
  <2> QED
    BY <1>6, <2>1 DEF Users!KeepsForm, Users!PagingFails
<1>7. CASE Users!CreateUser \/ Users!TypeNote \/ Users!handleEditModalClose
           \/ Users!CloseTimer \/ Users!SubmitEdit
  <2>1. paging' = paging
    BY <1>7, <1>1 DEF Users!CreateUser, Users!TypeNote, Users!handleEditModalClose,
                      Users!CloseTimer, Users!SubmitEdit
  <2> QED
    BY <2>1, FetchGoesOn
<1>8. CASE Users!OthersChange
  BY <1>8, FetchGoesOn DEF Users!OthersChange
<1>9. ASSUME NEW u, \/ Users!ResetUser(u) \/ Users!confirmDelete(u)
                    \/ Users!handleEdit(u, "row") \/ Users!handleEdit(u, "table")
      PROVE  PagingShaped' /\ Users!KeepsForm
  <2>1. paging' = paging
    BY <1>9, <1>1 DEF Users!ResetUser, Users!confirmDelete, Users!handleEdit
  <2> QED
    BY <2>1, FetchGoesOn
<1>10. ASSUME NEW S, Users!handleBulkDelete(S) \/ Users!handleBulkDisableUsers(S)
       PROVE  PagingShaped' /\ Users!KeepsForm
  <2>1. paging' = paging
    BY <1>10, <1>1 DEF Users!handleBulkDelete, Users!handleBulkDisableUsers
  <2> QED
    BY <2>1, FetchGoesOn
<1>11. ASSUME NEW i, Users!ServeUser(i)
       PROVE  PagingShaped' /\ Users!KeepsForm
  <2>1. \/ paging' = paging
        \/ \E x : paging' = [paging EXCEPT !.missed = x]
    BY <1>11, <1>2 DEF Users!ServeUser
  <2> QED
    BY <2>1, FetchGoesOn
<1>12. ASSUME NEW i, Users!MutationFails(i) \/ Users!MutationAnswered(i)
       PROVE  PagingShaped' /\ Users!KeepsForm
  <2>1. \/ paging' = paging \/ paging' = Users!PagingAsked
        \/ \E x : paging' = [paging EXCEPT !.lost = x]
    BY <1>12 DEF Users!MutationFails, Users!MutationAnswered
  <2> QED
    BY <2>1, FetchGoesOn
<1> QED
  BY <1>3, <1>4, <1>5, <1>6, <1>7, <1>8, <1>9, <1>10, <1>11, <1>12 DEF Users!UsersNext

\* Whatever was fetched, patched, filtered or refreshed meanwhile, an answer that arrives
\* while the edit dialog is open leaves what was typed alone, unless the dialog lives in
\* a row the answer has no longer.
THEOREM TypingIsKept == Spec => FormKept
<1>1. Init => PagingShaped
  BY AskedShaped DEF Init, Users!UsersInit, PagingShaped
<1>2. PagingShaped /\ [Next]_vars => PagingShaped' /\ [Users!KeepsForm]_userVars
  <2>1. ASSUME PagingShaped, UsersStep
        PROVE  PagingShaped' /\ Users!KeepsForm
    BY <2>1, UsersStepKeepsForm DEF UsersStep
  <2>2. ASSUME PagingShaped, [Next]_vars, ~UsersStep
        PROVE  PagingShaped' /\ UNCHANGED userVars
    <3>1. UNCHANGED userVars
      BY <2>2 DEF Next, HostsStep, LogsStep, SessionStep, vars
    <3> QED
      BY <2>2, <3>1 DEF PagingShaped, userVars
  <2> QED
    BY <2>1, <2>2
<1> QED
  BY <1>1, <1>2, PTL DEF Spec, FormKept

-----------------------------------------------------------------------------
(* The table: the inductive invariant.                                     *)

\* What an operation may be; those that take users away, and those that leave a user changed.
Ops     == {"create", "modify", "toggle", "both", "second", "reset", "delete", "bulk_delete",
            "bulk_disable"}
Deletes == {"delete", "bulk_delete"}
Upserts == {"create", "modify", "toggle", "both", "second", "reset"}

UserIds(S) == {u.id : u \in S}

\* Different users with ids given out so far.
People(S, n) ==
  /\ IsFiniteSet(S) /\ S \subseteq Users!User
  /\ \A u, v \in S : u.id = v.id => u = v
  /\ \A u \in S : 0 < u.id /\ u.id < n

\* A page of such users, each at most once.
Pages(n) ==
  {p \in [rows : Seq(Users!User), total : Nat] :
     /\ Len(p.rows) <= Limit
     /\ \A i \in DOMAIN p.rows : 0 < p.rows[i].id /\ p.rows[i].id < n
     /\ \A i, j \in DOMAIN p.rows : i # j => p.rows[i].id # p.rows[j].id}

\* An operation under way: the user to be created has no id yet.
Mutations(n) ==
  {m \in [n : Nat, op : Ops, users : SUBSET Users!User, answer : {"none", "ok", "failed"},
          crossed : BOOLEAN, stale : BOOLEAN] :
     /\ IsFiniteSet(m.users)
     /\ \A u, v \in m.users : u.id = v.id => u = v
     /\ m.op \notin {"bulk_delete", "bulk_disable"} => \E u \in m.users : m.users = {u}
     /\ m.op # "create" \/ m.answer = "ok" => \A u \in m.users : 0 < u.id /\ u.id < n
     /\ m.op = "both" => m.answer # "ok"}

UsersTyped ==
  /\ nextUser \in Nat \ {0} /\ People(users, nextUser)
  /\ key \in Users!Keys /\ got \in BOOLEAN /\ late \in BOOLEAN /\ blurred \in BOOLEAN
  /\ userSteps \in Nat

PageTyped == page \in Pages(nextUser)

PagingTyped ==
  /\ paging \in [at : {"none", "server", "answer"}, page : Pages(nextUser), missed : SUBSET Nat,
                 lost : BOOLEAN]
  /\ paging.at # "answer" => paging.missed = {} /\ ~paging.lost

MutsTyped == muts \in Seq(Mutations(nextUser))

FormIsTyped ==
  /\ form \in [open : BOOLEAN, by : {"row", "table"}, user : SUBSET Nat,
               status : {"active", "disabled"}, note : {"old", "new"}, typed : BOOLEAN,
               closing : BOOLEAN]
  /\ \A x \in form.user : 0 < x /\ x < nextUser
  /\ form.open => /\ ~form.closing
                  /\ \E x \in form.user : form.user = {x}

UsersTypes == UsersTyped /\ PageTyped /\ PagingTyped /\ MutsTyped /\ FormIsTyped

-----------------------------------------------------------------------------

\* The rows in the order of the key.
SortedRows(q, k) == \A i, j \in DOMAIN q : i < j => Users!compareBySort(k, q[i], q[j])

RowsSorted ==
  /\ got => SortedRows(page.rows, key)
  /\ paging.at = "answer" => SortedRows(paging.page.rows, key)

\* An answer that is not out of date holds a user as it is stored.
AnswersCurrent ==
  \A i \in DOMAIN muts :
    muts[i].answer = "ok" /\ ~muts[i].stale /\ muts[i].op \in Upserts => muts[i].users \subseteq users

\* The answer to this operation will put row u right, or take it away, S being stored.
Mends(m, u, S) ==
  /\ u.id \in UserIds(m.users)
  /\ IF u.id \in UserIds(S)
       THEN m.op \notin Deletes /\ (m.answer = "ok" \/ (m.op = "second" /\ m.answer = "none"))
       ELSE m.op \in Deletes /\ m.answer = "ok"

\* The rows are as stored but for those an answer will come for.
Covered(rows, N) ==
  \A u \in Users!ToSet(rows) :
    \/ u \in users /\ Users!matchesUserFilters(u, key)
    \/ \E i \in DOMAIN muts : muts[i].n \in N /\ Mends(muts[i], u, users)

Settled == paging.at = "none" /\ got /\ ~late

RowsCovered ==
  /\ Settled => Covered(page.rows, Nat)
  /\ paging.at = "answer" /\ ~paging.lost => Covered(paging.page.rows, paging.missed)

\* An operation that overlaps nothing is the only one, and what it takes away is on the page.
Alone ==
  \A i \in DOMAIN muts :
    ~muts[i].crossed =>
      /\ Len(muts) = 1 /\ paging.at = "none" /\ got
      /\ muts[i].op \in Deletes \cup {"reset"} => UserIds(muts[i].users) \subseteq Users!IdsIn(page.rows)

\* The ids of the users that match.
Matching(S) == {u.id : u \in {v \in S : Users!matchesUserFilters(v, key)}}

\* The ids that matched before the answer m was given; now K are those that match.
Before(m, M, p, K) ==
  /\ Users!IdsIn(p.rows) \subseteq M /\ IsFiniteSet(M)
  /\ p.total = Cardinality(M)
  /\ m.op \in Upserts =>
       \A u \in m.users : /\ M \ {u.id} = K \ {u.id}
                          /\ m.op = "create" => u.id \notin M
  /\ m.op \in Deletes => K = M \ UserIds(m.users)

TotalRight ==
  /\ Settled /\ ~blurred =>
       /\ (\A i \in DOMAIN muts : muts[i].answer # "ok") => page.total = Cardinality(Matching(users))
       /\ \A i \in DOMAIN muts :
            ~muts[i].crossed =>
              CASE muts[i].answer = "none" -> Users!IdsIn(page.rows) \subseteq Matching(users)
                [] muts[i].answer = "ok"   ->
                     muts[i].op # "bulk_disable" => \E M \in SUBSET Nat : Before(muts[i], M, page, Matching(users))
                [] OTHER -> TRUE
  /\ paging.at = "answer" /\ ~paging.lost =>
       ((\A i \in DOMAIN muts : muts[i].answer = "ok" => muts[i].n \notin paging.missed)
         => paging.page.total = Cardinality(Matching(users)))

UsersInv ==
  /\ UsersTypes /\ RowsSorted /\ AnswersCurrent /\ RowsCovered /\ Alone /\ TotalRight

\* The helpers of the two pages are the same.
LEMMA SameHelpers ==
  /\ \A S : Users!SetToSeqs(S) = Hosts!SetToSeqs(S)
  /\ \A q : Users!ToSet(q) = Hosts!ToSet(q)
  /\ \A q, i : Users!RemoveAt(q, i) = Hosts!RemoveAt(q, i)
  /\ \A S : Users!Cardinality(S) = Cardinality(S)
<1>1. \A S : Users!Cardinality(S) = Cardinality(S) /\ Hosts!Cardinality(S) = Cardinality(S)
  BY DEF Users!Cardinality, Hosts!Cardinality, Cardinality
<1>2. \A S : Users!SetToSeqs(S) = Hosts!SetToSeqs(S)
  BY <1>1 DEF Users!SetToSeqs, Hosts!SetToSeqs
<1>3. \A q : Users!ToSet(q) = Hosts!ToSet(q)
  BY DEF Users!ToSet, Hosts!ToSet
<1>4. \A q, i : Users!RemoveAt(q, i) = Hosts!RemoveAt(q, i)
  BY DEF Users!RemoveAt, Hosts!RemoveAt
<1> QED
  BY <1>1, <1>2, <1>3, <1>4

\* The fields of a user.
LEMMA UserFields ==
  ASSUME NEW u \in Users!User
  PROVE  /\ u.id \in Nat /\ u.status \in {"active", "disabled"} /\ u.note \in {"old", "new"}
         /\ \A n \in Nat : /\ [u EXCEPT !.id = n] \in Users!User
                           /\ [u EXCEPT !.id = n].id = n
                           /\ [u EXCEPT !.id = n].status = u.status
         /\ \A s \in {"active", "disabled"} :
              /\ [u EXCEPT !.status = s] \in Users!User
              /\ [u EXCEPT !.status = s].id = u.id
              /\ [u EXCEPT !.status = s].status = s
         /\ \A x \in {"old", "new"} :
              /\ [u EXCEPT !.note = x] \in Users!User
              /\ [u EXCEPT !.note = x].id = u.id
              /\ [u EXCEPT !.note = x].status = u.status
         /\ [u EXCEPT !.status = "disabled", !.note = "new"] \in Users!User
         /\ [u EXCEPT !.status = "disabled", !.note = "new"].id = u.id
BY DEF Users!User

\* The parts of a key.
LEMMA KeyIs ==
  ASSUME NEW k \in Users!Keys
  PROVE  k.filter \in Filters /\ k.pg \in PageNumbers /\ k.desc \in BOOLEAN /\ k.pg \in Nat
BY TableAssumption DEF Users!Keys

\* The order of a key.
KeyOrder(k, S) == {p \in S \X S : Users!compareBySort(k, p[1], p[2])}

\* The order of a key orders users with different ids linearly.
LEMMA KeyOrderIs ==
  ASSUME NEW k \in Users!Keys, NEW S \in SUBSET Users!User,
         \A u, v \in S : u.id = v.id => u = v
  PROVE  Linear(KeyOrder(k, S), S)
<1>1. \A u, v \in S : <<u, v>> \in KeyOrder(k, S) <=> Users!compareBySort(k, u, v)
  BY DEF KeyOrder
<1>2. \A u \in S : u.id \in Nat
  BY UserFields
<1>3. CASE k.desc
  <2>1. \A u, v \in S : <<u, v>> \in KeyOrder(k, S) <=> u.id > v.id
    BY <1>1, <1>3 DEF Users!compareBySort
  <2>2. \A u \in S : <<u, u>> \notin KeyOrder(k, S)
    BY <1>2, <2>1
  <2>3. \A u, v, w \in S :
          <<u, v>> \in KeyOrder(k, S) /\ <<v, w>> \in KeyOrder(k, S) => <<u, w>> \in KeyOrder(k, S)
    <3> SUFFICES ASSUME NEW u \in S, NEW v \in S, NEW w \in S,
                        <<u, v>> \in KeyOrder(k, S), <<v, w>> \in KeyOrder(k, S)
                 PROVE  <<u, w>> \in KeyOrder(k, S)
      OBVIOUS
    <3>1. u.id > v.id /\ v.id > w.id
      BY <2>1
    <3>2. u.id > w.id
      BY <1>2, <3>1
    <3> QED
      BY <2>1, <3>2
  <2>4. \A u, v \in S : u # v => <<u, v>> \in KeyOrder(k, S) \/ <<v, u>> \in KeyOrder(k, S)
    <3> SUFFICES ASSUME NEW u \in S, NEW v \in S, u # v
                 PROVE  <<u, v>> \in KeyOrder(k, S) \/ <<v, u>> \in KeyOrder(k, S)
      OBVIOUS
    <3>1. u.id > v.id \/ v.id > u.id
      BY <1>2
    <3> QED
      BY <2>1, <3>1
  <2> QED
    BY <2>2, <2>3, <2>4 DEF Linear
<1>4. CASE ~k.desc
  <2>1. \A u, v \in S : <<u, v>> \in KeyOrder(k, S) <=> u.id < v.id
    BY <1>1, <1>4 DEF Users!compareBySort
  <2>2. \A u \in S : <<u, u>> \notin KeyOrder(k, S)
    BY <1>2, <2>1
  <2>3. \A u, v, w \in S :
          <<u, v>> \in KeyOrder(k, S) /\ <<v, w>> \in KeyOrder(k, S) => <<u, w>> \in KeyOrder(k, S)
    <3> SUFFICES ASSUME NEW u \in S, NEW v \in S, NEW w \in S,
                        <<u, v>> \in KeyOrder(k, S), <<v, w>> \in KeyOrder(k, S)
                 PROVE  <<u, w>> \in KeyOrder(k, S)
      OBVIOUS
    <3>1. u.id < v.id /\ v.id < w.id
      BY <2>1
    <3>2. u.id < w.id
      BY <1>2, <3>1
    <3> QED
      BY <2>1, <3>2
  <2>4. \A u, v \in S : u # v => <<u, v>> \in KeyOrder(k, S) \/ <<v, u>> \in KeyOrder(k, S)
    <3> SUFFICES ASSUME NEW u \in S, NEW v \in S, u # v
                 PROVE  <<u, v>> \in KeyOrder(k, S) \/ <<v, u>> \in KeyOrder(k, S)
      OBVIOUS
    <3>1. u.id < v.id \/ v.id < u.id
      BY <1>2
    <3> QED
      BY <2>1, <3>1
  <2> QED
    BY <2>2, <2>3, <2>4 DEF Linear
<1> QED
  BY <1>3, <1>4

\* In that order, and sorted for the key: the same.
LEMMA InKeyOrder ==
  ASSUME NEW k, NEW S, NEW q, Lists(q, S)
  PROVE  InOrder(q, KeyOrder(k, S)) <=> SortedRows(q, k)
<1>1. \A i \in DOMAIN q : q[i] \in S
  BY LenProperties, ElementOfSeq DEF Lists
<1> QED
  BY <1>1 DEF InOrder, KeyOrder, SortedRows

\* Sorting gives each user once and in order.
LEMMA SortedIs ==
  ASSUME NEW k \in Users!Keys, NEW n, NEW S, People(S, n)
  PROVE  /\ Lists(Users!Sorted(S, k), S) /\ SortedRows(Users!Sorted(S, k), k)
         /\ Len(Users!Sorted(S, k)) = Cardinality(S)
<1> DEFINE s == Users!Sorted(S, k)
<1>1. IsFiniteSet(S) /\ Linear(KeyOrder(k, S), S)
  BY KeyOrderIs DEF People
<1>2. PICK q : Lists(q, S) /\ InOrder(q, KeyOrder(k, S))
  BY <1>1, SortExists
<1>3. q \in Users!SetToSeqs(S) /\ SortedRows(q, k)
  BY <1>1, <1>2, ListsIs, InKeyOrder, SameHelpers
<1>4. s = CHOOSE r \in Users!SetToSeqs(S) : SortedRows(r, k)
  BY DEF Users!Sorted, SortedRows
<1> HIDE DEF s
<1>5. s \in Users!SetToSeqs(S) /\ SortedRows(s, k)
  BY <1>3, <1>4
<1>6. Lists(s, S) /\ Len(s) = Cardinality(S)
  BY <1>1, <1>5, ListIs, ListsIs, SameHelpers
<1> QED
  BY <1>5, <1>6 DEF s

\* A page in order is what sorting its rows gives.
LEMMA SortedAlready ==
  ASSUME NEW k \in Users!Keys, NEW n, NEW S, People(S, n), NEW q, Lists(q, S), SortedRows(q, k)
  PROVE  Users!Sorted(S, k) = q
<1> DEFINE s == Users!Sorted(S, k)
<1>1. IsFiniteSet(S) /\ Linear(KeyOrder(k, S), S)
  BY KeyOrderIs DEF People
<1>2. Lists(s, S) /\ SortedRows(s, k) /\ Len(s) = Cardinality(S)
  BY SortedIs
<1> HIDE DEF s
<1>3. InOrder(s, KeyOrder(k, S)) /\ InOrder(q, KeyOrder(k, S))
  BY <1>2, InKeyOrder
<1>4. Len(q) = Cardinality(S)
  BY <1>1, ListsIs
<1>5. s = q
  BY <1>1, <1>2, <1>3, <1>4, SortedOnce
<1> QED
  BY <1>5 DEF s

\* A piece of a list from the front or the middle.
LEMMA PieceIs ==
  ASSUME NEW S, NEW q \in Seq(S), NEW a \in Nat, NEW b \in Nat, b <= Len(q)
  PROVE  LET r == SubSeq(q, a + 1, b) IN
         /\ r \in Seq(S) /\ Len(r) = IF a < b THEN b - a ELSE 0
         /\ \A i \in DOMAIN r : a + i \in DOMAIN q /\ r[i] = q[a + i]
<1> DEFINE r == SubSeq(q, a + 1, b)
<1>1. Len(q) \in Nat /\ DOMAIN q = 1 .. Len(q) /\ \A i \in 1 .. Len(q) : q[i] \in S
  BY LenProperties, ElementOfSeq
<1>2. \A i \in a + 1 .. b : q[i] \in S
  BY <1>1
<1>3. /\ r \in Seq(S)
      /\ Len(r) = IF a + 1 <= b THEN b - (a + 1) + 1 ELSE 0
      /\ \A i \in 1 .. b - (a + 1) + 1 : r[i] = q[(a + 1) + i - 1]
  BY <1>2, SubSeqProperties
<1> HIDE DEF r
<1>4. Len(r) = IF a < b THEN b - a ELSE 0
  BY <1>3
<1>5. DOMAIN r = 1 .. Len(r)
  BY <1>3, LenProperties
<1>6. ASSUME NEW i \in DOMAIN r
      PROVE  a + i \in DOMAIN q /\ r[i] = q[a + i]
  <2>1. i \in 1 .. b - (a + 1) + 1 /\ (a + 1) + i - 1 = a + i /\ a + i \in 1 .. Len(q)
    BY <1>1, <1>4, <1>5
  <2> QED
    BY <1>1, <1>3, <2>1
<1> QED
  BY <1>3, <1>4, <1>6 DEF r

-----------------------------------------------------------------------------
(* Pages, and what an answer makes of them.                                *)

\* Some of the users.
LEMMA PeoplePart ==
  ASSUME NEW n, NEW S, People(S, n), NEW T \in SUBSET S
  PROVE  People(T, n)
BY FS_Subset DEF People

\* The rows of a page as a set.
LEMMA RowsAsSet ==
  ASSUME NEW n, NEW p \in Pages(n)
  PROVE  /\ Lists(p.rows, Users!ToSet(p.rows)) /\ People(Users!ToSet(p.rows), n)
         /\ IsFiniteSet(Users!ToSet(p.rows))
         /\ p.rows \in Seq(Users!User) /\ DOMAIN p.rows = 1 .. Len(p.rows) /\ Len(p.rows) \in Nat
         /\ Users!ToSet(p.rows) = {p.rows[i] : i \in DOMAIN p.rows}
         /\ \A i \in DOMAIN p.rows : p.rows[i] \in Users!User
         /\ p.total \in Nat
<1> DEFINE q == p.rows
           T == Users!ToSet(q)
<1>1. q \in Seq(Users!User) /\ p.total \in Nat
  BY DEF Pages
<1>2. DOMAIN q = 1 .. Len(q) /\ Len(q) \in Nat /\ \A i \in DOMAIN q : q[i] \in Users!User
  BY <1>1, LenProperties, ElementOfSeq
<1>3. \A i \in DOMAIN q : 0 < q[i].id /\ q[i].id < n
  BY DEF Pages
<1>4. \A i, j \in DOMAIN q : i # j => q[i].id # q[j].id
  BY DEF Pages
<1> HIDE DEF q
<1>5. T = {q[i] : i \in DOMAIN q}
  BY DEF Users!ToSet
<1>6. IsFiniteSet(T)
  BY <1>1, ListFinite, SameHelpers
<1> HIDE DEF T
<1>7. q \in Seq(T)
  <2>1. q \in [1 .. Len(q) -> T]
    BY <1>1, <1>2, <1>5, LenProperties
  <2> QED
    BY <1>2, <2>1
<1>8. Lists(q, T)
  BY <1>4, <1>5, <1>7 DEF Lists
<1>9. People(T, n)
  BY <1>2, <1>3, <1>4, <1>5, <1>6 DEF People
<1> QED
  BY <1>1, <1>2, <1>5, <1>6, <1>8, <1>9 DEF q, T

\* A list of users as the rows of a page.
LEMMA RowsMakePage ==
  ASSUME NEW n, NEW S, People(S, n), NEW q \in Seq(S),
         \A i, j \in DOMAIN q : i # j => q[i] # q[j],
         Len(q) <= Limit, NEW t \in Nat
  PROVE  [rows |-> q, total |-> t] \in Pages(n) /\ Users!ToSet(q) \subseteq S
<1>1. \A i \in DOMAIN q : q[i] \in S
  BY LenProperties, ElementOfSeq
<1>2. q \in Seq(Users!User)
  BY SeqMonotonic DEF People
<1>3. \A i, j \in DOMAIN q : i # j => q[i].id # q[j].id
  BY <1>1 DEF People
<1>4. \A i \in DOMAIN q : 0 < q[i].id /\ q[i].id < n
  BY <1>1 DEF People
<1> DEFINE p == [rows |-> q, total |-> t]
<1>5. p \in [rows : Seq(Users!User), total : Nat] /\ p.rows = q
  BY <1>2
<1> HIDE DEF p
<1>6. p \in Pages(n)
  BY <1>3, <1>4, <1>5 DEF Pages
<1> QED
  BY <1>1, <1>6 DEF p, Users!ToSet

\* The order of a list.
RowOrder(q, S) == {p \in S \X S : \E m, n \in DOMAIN q : m < n /\ p[1] = q[m] /\ p[2] = q[n]}

\* What one list has stands in it as in the other.
KeepsOrder(r, q) ==
  \A i, j \in DOMAIN r : i < j => \E a, b \in DOMAIN q : a < b /\ r[i] = q[a] /\ r[j] = q[b]

\* Filtering keeps the order.
LEMMA FilteredIs ==
  ASSUME NEW q, NEW T, Lists(q, T), IsFiniteSet(T), T = Users!ToSet(q), NEW S
  PROVE  LET r == Users!Filtered(q, S) IN
         Lists(r, T \cap S) /\ Len(r) <= Len(q) /\ KeepsOrder(r, q)
<1> DEFINE W == T \cap S
           R == RowOrder(q, W)
           Kept(x) == \A i, j \in DOMAIN x : i < j =>
                        \E a, b \in DOMAIN q : a < b /\ x[i] = q[a] /\ x[j] = q[b]
           r == Users!Filtered(q, S)
<1>1. /\ Len(q) \in Nat /\ DOMAIN q = 1 .. Len(q) /\ \A i \in DOMAIN q : q[i] \in T
      /\ \A i, j \in DOMAIN q : i # j => q[i] # q[j]
      /\ \A x \in T : \E i \in DOMAIN q : q[i] = x
  BY LenProperties, ElementOfSeq DEF Lists
<1>2. IsFiniteSet(W) /\ Cardinality(W) <= Cardinality(T) /\ Cardinality(W) \in Nat
  BY FS_Subset, FS_CardinalityType
<1>3. Len(q) = Cardinality(T)
  BY ListsIs
<1>4. \A x, y \in W : <<x, y>> \in R <=> \E m, n \in DOMAIN q : m < n /\ x = q[m] /\ y = q[n]
  BY DEF RowOrder
<1>5. r = CHOOSE x \in Users!SetToSeqs(W) : Kept(x)
  BY DEF Users!Filtered
<1> HIDE DEF R, r
<1>6. Linear(R, W)
  <2>1. \A x \in W : <<x, x>> \notin R
    <3> SUFFICES ASSUME NEW x \in W, <<x, x>> \in R
                 PROVE  FALSE
      OBVIOUS
    <3>1. PICK m \in DOMAIN q, n \in DOMAIN q : m < n /\ x = q[m] /\ x = q[n]
      BY <1>4
    <3>2. m # n
      BY <1>1, <3>1
    <3> QED
      BY <1>1, <3>1, <3>2
  <2>2. \A x, y, z \in W : <<x, y>> \in R /\ <<y, z>> \in R => <<x, z>> \in R
    <3> SUFFICES ASSUME NEW x \in W, NEW y \in W, NEW z \in W, <<x, y>> \in R, <<y, z>> \in R
                 PROVE  <<x, z>> \in R
      OBVIOUS
    <3>1. PICK m \in DOMAIN q, n \in DOMAIN q : m < n /\ x = q[m] /\ y = q[n]
      BY <1>4
    <3>2. PICK k \in DOMAIN q, l \in DOMAIN q : k < l /\ y = q[k] /\ z = q[l]
      BY <1>4
    <3>3. n = k
      BY <1>1, <3>1, <3>2
    <3>4. m < l
      BY <1>1, <3>1, <3>2, <3>3
    <3> QED
      BY <1>4, <3>1, <3>2, <3>4
  <2>3. \A x, y \in W : x # y => <<x, y>> \in R \/ <<y, x>> \in R
    <3> SUFFICES ASSUME NEW x \in W, NEW y \in W, x # y
                 PROVE  <<x, y>> \in R \/ <<y, x>> \in R
      OBVIOUS
    <3>1. PICK m \in DOMAIN q : q[m] = x
      BY <1>1
    <3>2. PICK n \in DOMAIN q : q[n] = y
      BY <1>1
    <3>3. m < n \/ n < m
      BY <1>1, <3>1, <3>2
    <3> QED
      BY <1>4, <3>1, <3>2, <3>3
  <2> QED
    BY <2>1, <2>2, <2>3 DEF Linear
<1> HIDE DEF W
<1>7. ASSUME NEW x, Lists(x, W)
      PROVE  InOrder(x, R) <=> Kept(x)
  <2>1. \A i \in DOMAIN x : x[i] \in W
    BY <1>7, LenProperties, ElementOfSeq DEF Lists
  <2> QED
    BY <1>4, <2>1 DEF InOrder
<1>8. PICK x : Lists(x, W) /\ InOrder(x, R)
  BY <1>2, <1>6, SortExists
<1>9. x \in Users!SetToSeqs(W) /\ Kept(x)
  <2>1. x \in Hosts!SetToSeqs(W)
    BY <1>2, <1>8, ListsIs
  <2> QED
    BY <1>7, <1>8, <2>1, SameHelpers
<1> HIDE DEF Kept
<1>10. r \in Users!SetToSeqs(W) /\ Kept(r)
  BY <1>5, <1>9
<1>11. Lists(r, W)
  BY <1>2, <1>10, ListIs, SameHelpers
<1>12. Len(r) = Cardinality(W)
  BY <1>2, <1>11, ListsIs
<1>13. Len(r) <= Len(q)
  BY <1>1, <1>2, <1>3, <1>12
<1> QED
  BY <1>10, <1>11, <1>13 DEF r, W, Kept, KeepsOrder

\* What stays of rows in order is in order.
LEMMA FilteredSorted ==
  ASSUME NEW q, NEW r, NEW k, SortedRows(q, k), KeepsOrder(r, q)
  PROVE  SortedRows(r, k)
BY DEF SortedRows, KeepsOrder

\* A piece of the sorted users, no longer than a page.
LEMMA PieceOfSorted ==
  ASSUME NEW n, NEW M, People(M, n), NEW k, NEW all, Lists(all, M), SortedRows(all, k),
         NEW a \in Nat, NEW b \in Nat, b <= Len(all), b <= a + Limit, NEW t \in Nat
  PROVE  LET r == SubSeq(all, a + 1, b) IN
         /\ [rows |-> r, total |-> t] \in Pages(n) /\ SortedRows(r, k)
         /\ Users!ToSet(r) \subseteq M
<1> DEFINE r == SubSeq(all, a + 1, b)
<1>0. Limit \in Nat
  BY TableAssumption
<1>5. all \in Seq(M) /\ Len(all) \in Nat /\ DOMAIN all = 1 .. Len(all)
  BY LenProperties DEF Lists
<1>7. /\ r \in Seq(M) /\ Len(r) = IF a < b THEN b - a ELSE 0
      /\ \A i \in DOMAIN r : a + i \in DOMAIN all /\ r[i] = all[a + i]
  BY <1>5, PieceIs
<1> HIDE DEF r
<1>8. Len(r) <= Limit
  BY <1>0, <1>7
<1>9. \A i \in DOMAIN r : i \in Nat
  BY <1>7, LenProperties
<1>10. \A i, j \in DOMAIN r : i # j => r[i] # r[j]
  <2> SUFFICES ASSUME NEW i \in DOMAIN r, NEW j \in DOMAIN r, i # j
               PROVE  r[i] # r[j]
    OBVIOUS
  <2>1. a + i # a + j
    BY <1>9
  <2> QED
    BY <1>7, <2>1 DEF Lists
<1>11. SortedRows(r, k)
  <2> SUFFICES ASSUME NEW i \in DOMAIN r, NEW j \in DOMAIN r, i < j
               PROVE  Users!compareBySort(k, r[i], r[j])
    BY DEF SortedRows
  <2>1. a + i < a + j
    BY <1>9
  <2>2. Users!compareBySort(k, all[a + i], all[a + j])
    BY <1>7, <2>1 DEF SortedRows
  <2> QED
    BY <1>7, <2>2
<1>12. [rows |-> r, total |-> t] \in Pages(n) /\ Users!ToSet(r) \subseteq M
  BY <1>7, <1>8, <1>10, RowsMakePage
<1> QED
  BY <1>11, <1>12 DEF r

\* The page the server answers with.
LEMMA PageOfIs ==
  ASSUME NEW n, NEW S, People(S, n), NEW k \in Users!Keys
  PROVE  LET p == Users!PageOf(S, k)
             M == {u \in S : Users!matchesUserFilters(u, k)}
         IN /\ p \in Pages(n) /\ SortedRows(p.rows, k)
            /\ Users!ToSet(p.rows) \subseteq M /\ p.total = Cardinality(M)
<1> DEFINE M == {u \in S : Users!matchesUserFilters(u, k)}
           all == Users!Sorted(M, k)
           from == k.pg * Limit
           b == IF from + Limit < Len(all) THEN from + Limit ELSE Len(all)
           r == SubSeq(all, from + 1, b)
           p == Users!PageOf(S, k)
<1>1. People(M, n)
  BY PeoplePart
<1>2. p = [rows |-> r, total |-> Len(all)]
  BY DEF Users!PageOf
<1>3. from \in Nat /\ Limit \in Nat
  <2> DEFINE g == k.pg
  <2>1. g \in Nat /\ Limit \in Nat
    BY KeyIs, TableAssumption
  <2> HIDE DEF g
  <2>2. g * Limit \in Nat
    BY <2>1
  <2> QED
    BY <2>1, <2>2 DEF g
<1> HIDE DEF M, p, from
<1>4. Lists(all, M) /\ SortedRows(all, k) /\ Len(all) = Cardinality(M)
  BY <1>1, SortedIs
<1> HIDE DEF all
<1>5. Len(all) \in Nat
  BY <1>4, LenProperties DEF Lists
<1>6. b \in Nat /\ b <= Len(all) /\ b <= from + Limit
  BY <1>3, <1>5
<1> HIDE DEF b
<1>7. /\ [rows |-> r, total |-> Len(all)] \in Pages(n) /\ SortedRows(r, k)
      /\ Users!ToSet(r) \subseteq M
  <2>1. LET x == SubSeq(all, from + 1, b) IN
        /\ [rows |-> x, total |-> Len(all)] \in Pages(n) /\ SortedRows(x, k)
        /\ Users!ToSet(x) \subseteq M
    <3> DEFINE t == Len(all)
    <3>1. t \in Nat
      BY <1>5
    <3> HIDE DEF t
    <3>2. LET x == SubSeq(all, from + 1, b) IN
          /\ [rows |-> x, total |-> t] \in Pages(n) /\ SortedRows(x, k)
          /\ Users!ToSet(x) \subseteq M
      BY ONLY <1>1, <1>3, <1>4, <1>6, <3>1, PieceOfSorted
    <3> QED
      BY <3>2 DEF t
  <2> QED
    BY <2>1
<1> QED
  BY <1>2, <1>4, <1>7 DEF p, M

\* A list cut to the length of a page.
LEMMA CutIs ==
  ASSUME NEW n, NEW M, People(M, n), NEW k, NEW all, Lists(all, M), SortedRows(all, k),
         NEW t \in Nat
  PROVE  /\ [rows |-> Users!Cut(all), total |-> t] \in Pages(n)
         /\ SortedRows(Users!Cut(all), k)
         /\ Users!ToSet(Users!Cut(all)) \subseteq M
<1> DEFINE b == IF Len(all) > Limit THEN Limit ELSE Len(all)
<1>0. Limit \in Nat /\ Len(all) \in Nat
  BY TableAssumption, LenProperties DEF Lists
<1>1. b \in Nat /\ b <= Len(all) /\ b <= 0 + Limit
  BY <1>0
<1>2. Users!Cut(all) = SubSeq(all, 1, b)
  BY DEF Users!Cut
<1> HIDE DEF b
<1>3. 0 + 1 = 1 /\ 0 \in Nat
  OBVIOUS
<1>4. LET r == SubSeq(all, 0 + 1, b) IN
         /\ [rows |-> r, total |-> t] \in Pages(n) /\ SortedRows(r, k)
         /\ Users!ToSet(r) \subseteq M
  BY <1>1, <1>3, PieceOfSorted
<1> QED
  BY <1>2, <1>3, <1>4

\* What putting user u into page p gives.
Upserted(r, p, u, k, n, allow) ==
  LET here == u.id \in Users!IdsIn(p.rows)
      fits == Users!matchesUserFilters(u, k)
  IN /\ r \in Pages(n) /\ SortedRows(r.rows, k)
     /\ \A v \in Users!ToSet(r.rows) :
          (v = u /\ fits) \/ (v \in Users!ToSet(p.rows) /\ v.id # u.id)
     /\ r.total = CASE here /\ fits  -> p.total
                    [] here /\ ~fits -> Users!Less(p.total, 1)
                    [] ~here         -> IF allow /\ fits /\ k.pg = 0
                                          THEN p.total + 1 ELSE p.total

\* What an answer with one user makes of the page.
LEMMA UpsertIs ==
  ASSUME NEW n, NEW p \in Pages(n), NEW k \in Users!Keys, SortedRows(p.rows, k),
         NEW u \in Users!User, 0 < u.id, u.id < n, NEW allow \in BOOLEAN
  PROVE  Upserted(Users!upsertInSingleUsersQuery(p, u, k, allow), p, u, k, n, allow)
<1> DEFINE r == Users!upsertInSingleUsersQuery(p, u, k, allow)
           here == u.id \in Users!IdsIn(p.rows)
           fits == Users!matchesUserFilters(u, k)
           q == p.rows
           T == Users!ToSet(q)
           Goal == /\ r \in Pages(n) /\ SortedRows(r.rows, k)
                   /\ \A v \in Users!ToSet(r.rows) :
                        (v = u /\ fits) \/ (v \in Users!ToSet(p.rows) /\ v.id # u.id)
<1> SUFFICES
     /\ r \in Pages(n) /\ SortedRows(r.rows, k)
     /\ \A v \in Users!ToSet(r.rows) :
          (v = u /\ fits) \/ (v \in Users!ToSet(p.rows) /\ v.id # u.id)
     /\ r.total = CASE here /\ fits  -> p.total
                    [] here /\ ~fits -> Users!Less(p.total, 1)
                    [] ~here         -> IF allow /\ fits /\ k.pg = 0
                                          THEN p.total + 1 ELSE p.total
  BY DEF Upserted
<1>0. /\ Lists(q, T) /\ People(T, n) /\ IsFiniteSet(T)
      /\ q \in Seq(Users!User) /\ DOMAIN q = 1 .. Len(q) /\ Len(q) \in Nat
      /\ T = {q[i] : i \in DOMAIN q}
      /\ \A i \in DOMAIN q : q[i] \in Users!User
      /\ p.total \in Nat
  BY RowsAsSet
<1>1. /\ Len(q) <= Limit /\ p \in [rows : Seq(Users!User), total : Nat]
      /\ \A i \in DOMAIN q : 0 < q[i].id /\ q[i].id < n
      /\ \A i, j \in DOMAIN q : i # j => q[i].id # q[j].id
  BY DEF Pages
<1>2. here <=> \E i \in DOMAIN q : q[i].id = u.id
  <2>1. Users!IdsIn(q) = {v.id : v \in T}
    BY DEF Users!IdsIn
  <2> QED
    BY <1>0, <2>1
<1>3. CASE here /\ fits
  <2> DEFINE x == [i \in DOMAIN q |-> IF q[i].id = u.id THEN u ELSE q[i]]
             e == [p EXCEPT !.rows = x]
  <2>1. r = e
    BY <1>3 DEF Users!upsertInSingleUsersQuery
  <2>2. /\ x \in Seq(Users!User) /\ Len(x) = Len(q) /\ DOMAIN x = DOMAIN q
        /\ \A i \in DOMAIN q : x[i] = (IF q[i].id = u.id THEN u ELSE q[i]) /\ x[i].id = q[i].id
    <3>1. x \in [1 .. Len(q) -> Users!User]
      BY <1>0
    <3> QED
      BY <1>0, <3>1
  <2> HIDE DEF x
  <2>3. e.rows = x /\ e.total = p.total /\ e \in [rows : Seq(Users!User), total : Nat]
    BY <1>1, <2>2
  <2> HIDE DEF e
  <2>4. e \in Pages(n)
    <3>1. Len(e.rows) <= Limit
      BY <1>1, <2>2, <2>3
    <3>2. \A i \in DOMAIN e.rows : 0 < e.rows[i].id /\ e.rows[i].id < n
      BY <1>1, <2>2, <2>3
    <3>3. \A i, j \in DOMAIN e.rows : i # j => e.rows[i].id # e.rows[j].id
      BY <1>1, <2>2, <2>3
    <3> QED
      BY <2>3, <3>1, <3>2, <3>3 DEF Pages
  <2>5. SortedRows(x, k)
    BY <2>2 DEF SortedRows, Users!compareBySort
  <2>6. \A v \in Users!ToSet(x) : v = u \/ (v \in T /\ v.id # u.id)
    <3>1. Users!ToSet(x) = {x[i] : i \in DOMAIN x}
      BY DEF Users!ToSet
    <3> QED
      BY <1>0, <2>2, <3>1
  <2> QED
    BY <1>3, <2>1, <2>3, <2>4, <2>5, <2>6
<1>4. CASE here /\ ~fits
  <2> DEFINE S == {v \in Users!ToSet(p.rows) : v.id # u.id}
             x == Users!Filtered(p.rows, S)
             t == Users!Less(p.total, 1)
  <2>1. r = [rows |-> x, total |-> t]
    BY <1>4 DEF Users!upsertInSingleUsersQuery
  <2>2. /\ Lists(x, T \cap S) /\ Len(x) <= Len(q) /\ KeepsOrder(x, q)
    <3> HIDE DEF S
    <3>1. T = Users!ToSet(q)
      OBVIOUS
    <3> HIDE DEF T, q
    <3>2. LET y == Users!Filtered(q, S) IN
          /\ Lists(y, T \cap S) /\ Len(y) <= Len(q) /\ KeepsOrder(y, q)
      BY ONLY <1>0, <3>1, FilteredIs
    <3> QED
      BY <3>2 DEF q
  <2>3. t \in Nat
    BY <1>0 DEF Users!Less
  <2>4. T \cap S = S /\ S \subseteq T
    OBVIOUS
  <2> HIDE DEF x, t, S
  <2>5. People(S, n) /\ Lists(x, S)
    BY <1>0, <2>2, <2>4, PeoplePart
  <2>6. SortedRows(x, k)
    BY <2>2, FilteredSorted
  <2>7. Len(x) <= Limit /\ x \in Seq(S) /\ \A i, j \in DOMAIN x : i # j => x[i] # x[j]
    <3>1. Len(x) \in Nat /\ Limit \in Nat
      BY <2>5, LenProperties, TableAssumption DEF Lists
    <3> QED
      BY <1>0, <1>1, <2>2, <2>5, <3>1 DEF Lists
  <2>8. [rows |-> x, total |-> t] \in Pages(n) /\ Users!ToSet(x) \subseteq S
    BY <2>3, <2>5, <2>7, RowsMakePage
  <2>9. \A v \in S : v \in T /\ v.id # u.id
    BY DEF S
  <2> QED
    BY <1>4, <2>1, <2>6, <2>8, <2>9 DEF t
<1>5. CASE ~here /\ allow /\ fits /\ k.pg = 0
  <2> DEFINE M == T \cup {u}
             s == Users!Sorted(M, k)
             t == p.total + 1
  <2>1. r = [rows |-> Users!Cut(s), total |-> t]
    BY <1>5 DEF Users!upsertInSingleUsersQuery
  <2>2. t \in Nat
    BY <1>0
  <2>3. People(M, n)
    <3>1. IsFiniteSet(M)
      BY <1>0, FS_AddElement
    <3>2. \A v \in T : v.id # u.id
      BY <1>0, <1>2, <1>5
    <3> QED
      BY <1>0, <3>1, <3>2 DEF People
  <2> HIDE DEF M, t
  <2>4. Lists(s, M) /\ SortedRows(s, k)
    BY <2>3, SortedIs
  <2> HIDE DEF s
  <2>5. /\ [rows |-> Users!Cut(s), total |-> t] \in Pages(n)
        /\ SortedRows(Users!Cut(s), k)
        /\ Users!ToSet(Users!Cut(s)) \subseteq M
    BY <2>2, <2>3, <2>4, CutIs
  <2>6. \A v \in M : v = u \/ (v \in T /\ v.id # u.id)
    BY <1>0, <1>2, <1>5 DEF M
  <2> QED
    <3>1. r.rows = Users!Cut(s) /\ r.total = p.total + 1 /\ r \in Pages(n)
      BY <2>1, <2>5 DEF t
    <3>2. \A v \in Users!ToSet(r.rows) : v = u \/ (v \in T /\ v.id # u.id)
      BY <2>5, <2>6, <3>1
    <3>3. r.total = CASE here /\ fits  -> p.total
                      [] here /\ ~fits -> Users!Less(p.total, 1)
                      [] ~here         -> IF allow /\ fits /\ k.pg = 0
                                            THEN p.total + 1 ELSE p.total
      BY <1>5, <3>1
    <3>4. SortedRows(r.rows, k)
      BY <2>5, <3>1
    <3> HIDE DEF r, T
    <3>5. \A v \in Users!ToSet(r.rows) : (v = u /\ fits) \/ (v \in T /\ v.id # u.id)
      BY <1>5, <3>2
    <3> QED
      BY <3>1, <3>3, <3>4, <3>5 DEF T, r
<1>6. CASE ~here /\ ~(allow /\ fits /\ k.pg = 0)
  <2>1. r = p
    BY <1>6 DEF Users!upsertInSingleUsersQuery
  <2>2. \A v \in T : v.id # u.id
    BY <1>0, <1>2, <1>6
  <2> QED
    BY <1>6, <2>1, <2>2
<1> QED
  BY <1>3, <1>4, <1>5, <1>6

\* What is left of the page when users are taken out.
LEMMA RemovedIs ==
  ASSUME NEW n, NEW p \in Pages(n), NEW k \in Users!Keys, SortedRows(p.rows, k), NEW S,
         IsFiniteSet(S)
  PROVE  LET r == Users!removeUsersFromSingleUsersQuery(p, S, k)
         IN /\ r \in Pages(n) /\ SortedRows(r.rows, k)
            /\ \A v \in Users!ToSet(r.rows) : v \in Users!ToSet(p.rows) /\ v.id \notin UserIds(S)
            /\ r.total = Users!Less(p.total,
                           Cardinality({u \in S : u.id \in Users!IdsIn(p.rows)
                                                    \/ Users!matchesUserFilters(u, k)}))
<1> DEFINE r == Users!removeUsersFromSingleUsersQuery(p, S, k)
           q == p.rows
           T == Users!ToSet(q)
           G == {u \in S : u.id \in Users!IdsIn(p.rows) \/ Users!matchesUserFilters(u, k)}
           W == {v \in Users!ToSet(p.rows) : v.id \notin {u.id : u \in S}}
           x == Users!Filtered(p.rows, W)
           t == Users!Less(p.total, Cardinality(G))
<1>0. /\ Lists(q, T) /\ People(T, n) /\ IsFiniteSet(T) /\ Len(q) \in Nat /\ p.total \in Nat
      /\ Len(q) <= Limit
  BY RowsAsSet DEF Pages
<1>1. r = [rows |-> x, total |-> t]
  BY SameHelpers DEF Users!removeUsersFromSingleUsersQuery
<1>2. /\ Lists(x, T \cap W) /\ Len(x) <= Len(q) /\ KeepsOrder(x, q)
  <2> HIDE DEF W
  <2>1. T = Users!ToSet(q)
    OBVIOUS
  <2> HIDE DEF T, q
  <2>2. LET y == Users!Filtered(q, W) IN
        /\ Lists(y, T \cap W) /\ Len(y) <= Len(q) /\ KeepsOrder(y, q)
    BY ONLY <1>0, <2>1, FilteredIs
  <2> QED
    BY <2>2 DEF q
<1>3. t \in Nat
  <2>1. IsFiniteSet(G)
    BY FS_Subset
  <2>2. Cardinality(G) \in Nat
    BY <2>1, FS_CardinalityType
  <2> HIDE DEF G
  <2> QED
    BY <1>0, <2>2 DEF Users!Less
<1>4. T \cap W = W /\ W \subseteq T
  OBVIOUS
<1> HIDE DEF x, t, W
<1>5. People(W, n) /\ Lists(x, W)
  BY <1>0, <1>2, <1>4, PeoplePart
<1>6. SortedRows(x, k)
  BY <1>2, FilteredSorted
<1>7. Len(x) <= Limit /\ x \in Seq(W) /\ \A i, j \in DOMAIN x : i # j => x[i] # x[j]
  <2>1. Len(x) \in Nat /\ Limit \in Nat
    BY <1>5, LenProperties, TableAssumption DEF Lists
  <2> QED
    BY <1>0, <1>2, <1>5, <2>1 DEF Lists
<1>8. [rows |-> x, total |-> t] \in Pages(n) /\ Users!ToSet(x) \subseteq W
  BY <1>3, <1>5, <1>7, RowsMakePage
<1>9. \A v \in W : v \in T /\ v.id \notin UserIds(S)
  BY DEF W, UserIds
<1> QED
  BY <1>1, <1>6, <1>8, <1>9 DEF t, G

-----------------------------------------------------------------------------
(* Operations under way.                                                   *)

\* A list with one element replaced.
LEMMA ReplacedIs ==
  ASSUME NEW T, NEW q \in Seq(T), NEW i \in DOMAIN q, NEW s \in T
  PROVE  /\ [q EXCEPT ![i] = s] \in Seq(T)
         /\ DOMAIN [q EXCEPT ![i] = s] = DOMAIN q
         /\ Len([q EXCEPT ![i] = s]) = Len(q)
         /\ \A k \in DOMAIN q : [q EXCEPT ![i] = s][k] = IF k = i THEN s ELSE q[k]
<1> DEFINE r == [q EXCEPT ![i] = s]
<1>1. DOMAIN q = 1 .. Len(q) /\ Len(q) \in Nat /\ q \in [1 .. Len(q) -> T]
  BY LenProperties
<1>2. r = [k \in DOMAIN q |-> IF k = i THEN s ELSE q[k]]
  OBVIOUS
<1> HIDE DEF r
<1>3. r \in [1 .. Len(q) -> T]
  BY <1>1, <1>2
<1>4. r \in Seq(T) /\ Len(r) = Len(q) /\ DOMAIN r = DOMAIN q
  BY <1>1, <1>3
<1> QED
  BY <1>2, <1>4 DEF r

\* A list without one of its elements has the others.
LEMMA OthersStay ==
  ASSUME NEW T, NEW q \in Seq(T), NEW i \in DOMAIN q
  PROVE  LET r == Users!RemoveAt(q, i) IN
         /\ r \in Seq(T) /\ Len(r) = Len(q) - 1
         /\ \A k \in DOMAIN r : \E j \in DOMAIN q \ {i} : r[k] = q[j]
         /\ \A j \in DOMAIN q \ {i} : \E k \in DOMAIN r : r[k] = q[j]
<1> DEFINE r == Users!RemoveAt(q, i)
           n == Len(q)
<1>1. n \in Nat /\ DOMAIN q = 1 .. n
  BY LenProperties
<1>2. /\ r \in Seq(T) /\ Len(r) = n - 1
      /\ \A k \in 1 .. n - 1 : r[k] = IF k < i THEN q[k] ELSE q[k + 1]
  BY <1>1, RemoveAtIs, SameHelpers
<1> HIDE DEF r, n
<1>3. DOMAIN r = 1 .. n - 1
  BY <1>2, LenProperties
<1>4. ASSUME NEW k \in DOMAIN r
      PROVE  \E j \in DOMAIN q \ {i} : r[k] = q[j]
  <2>1. CASE k < i
    BY <1>1, <1>2, <1>3, <2>1
  <2>2. CASE ~(k < i)
    <3>1. k + 1 \in DOMAIN q \ {i}
      BY <1>1, <1>3, <2>2
    <3> QED
      BY <1>2, <1>3, <2>2, <3>1
  <2> QED
    BY <2>1, <2>2
<1>5. ASSUME NEW j \in DOMAIN q \ {i}
      PROVE  \E k \in DOMAIN r : r[k] = q[j]
  <2>1. CASE j < i
    <3>1. j \in 1 .. n - 1
      BY <1>1, <2>1
    <3> QED
      BY <1>2, <1>3, <2>1, <3>1
  <2>2. CASE ~(j < i)
    <3>1. j - 1 \in 1 .. n - 1 /\ ~(j - 1 < i) /\ (j - 1) + 1 = j
      BY <1>1, <2>2
    <3> QED
      BY <1>2, <1>3, <3>1
  <2> QED
    BY <2>1, <2>2
<1> QED
  BY <1>2, <1>4, <1>5 DEF r, n

\* More ids given out, more is typed.
LEMMA TypesGrow ==
  ASSUME NEW m \in Nat, NEW n \in Nat, m <= n
  PROVE  /\ Pages(m) \subseteq Pages(n) /\ Mutations(m) \subseteq Mutations(n)
         /\ \A S : People(S, m) => People(S, n)
<1>1. ASSUME NEW u \in Users!User, u.id < m
      PROVE  u.id < n
  <2>1. u.id \in Nat
    BY UserFields
  <2> QED
    BY <1>1, <2>1
<1>2. ASSUME NEW p \in Pages(m)
      PROVE  p \in Pages(n)
  <2>1. \A i \in DOMAIN p.rows : p.rows[i] \in Users!User
    BY RowsAsSet
  <2> QED
    BY <1>1, <2>1 DEF Pages
<1>3. ASSUME NEW l \in Mutations(m)
      PROVE  l \in Mutations(n)
  <2>1. l.users \subseteq Users!User
    BY DEF Mutations
  <2>2. l.op # "create" \/ l.answer = "ok" => \A u \in l.users : 0 < u.id /\ u.id < n
    BY <1>1, <2>1 DEF Mutations
  <2> QED
    BY <2>2 DEF Mutations
<1>4. ASSUME NEW S, People(S, m)
      PROVE  People(S, n)
  BY <1>1, <1>4 DEF People
<1> QED
  BY <1>2, <1>3, <1>4

\* An operation under way is one.
LEMMA MutAt ==
  ASSUME MutsTyped, NEW i \in DOMAIN muts
  PROVE  muts[i] \in Mutations(nextUser) /\ DOMAIN muts = 1 .. Len(muts) /\ Len(muts) \in Nat
BY LenProperties, ElementOfSeq DEF MutsTyped

\* The parts of an operation.
LEMMA MutIs ==
  ASSUME NEW n, NEW m \in Mutations(n)
  PROVE  /\ m.n \in Nat /\ m.op \in Ops /\ m.users \subseteq Users!User
         /\ m.answer \in {"none", "ok", "failed"}
         /\ m.crossed \in BOOLEAN /\ m.stale \in BOOLEAN
         /\ IsFiniteSet(m.users)
         /\ \A u, v \in m.users : u.id = v.id => u = v
         /\ m.op \notin {"bulk_delete", "bulk_disable"} => \E u \in m.users : m.users = {u}
         /\ m.op # "create" \/ m.answer = "ok" => \A u \in m.users : 0 < u.id /\ u.id < n
         /\ m.op = "both" => m.answer # "ok"
BY DEF Mutations

\* The same operation at the same stage.
Alike(m, l) == m.n = l.n /\ m.op = l.op /\ m.users = l.users /\ m.answer = l.answer

\* The flags kept in an operation may be set at any time.
LEMMA FlagsAreFree ==
  ASSUME NEW n, NEW m \in Mutations(n), NEW b \in BOOLEAN
  PROVE  /\ [m EXCEPT !.crossed = b] \in Mutations(n)
         /\ Alike([m EXCEPT !.crossed = b], m) /\ [m EXCEPT !.crossed = b].crossed = b
         /\ [m EXCEPT !.crossed = b].stale = m.stale
         /\ [m EXCEPT !.stale = b] \in Mutations(n)
         /\ Alike([m EXCEPT !.stale = b], m) /\ [m EXCEPT !.stale = b].stale = b
         /\ [m EXCEPT !.stale = b].crossed = m.crossed
BY DEF Mutations, Alike

\* The operations under way, all of them crossed.
LEMMA CrossedIs ==
  ASSUME NEW n, NEW q \in Seq(Mutations(n))
  PROVE  LET r == Users!Crossed(q) IN
         /\ r \in Seq(Mutations(n)) /\ DOMAIN r = DOMAIN q /\ Len(r) = Len(q)
         /\ \A k \in DOMAIN q : Alike(r[k], q[k]) /\ r[k].stale = q[k].stale /\ r[k].crossed
<1> DEFINE r == Users!Crossed(q)
<1>1. DOMAIN q = 1 .. Len(q) /\ Len(q) \in Nat /\ \A k \in DOMAIN q : q[k] \in Mutations(n)
  BY LenProperties, ElementOfSeq
<1>2. r = [k \in DOMAIN q |-> [q[k] EXCEPT !.crossed = TRUE]]
  BY DEF Users!Crossed
<1> HIDE DEF r
<1>3. DOMAIN r = DOMAIN q /\ \A k \in DOMAIN q : r[k] = [q[k] EXCEPT !.crossed = TRUE]
  BY <1>2
<1>4. ASSUME NEW k \in DOMAIN q
      PROVE  /\ r[k] \in Mutations(n) /\ Alike(r[k], q[k]) /\ r[k].stale = q[k].stale
             /\ r[k].crossed
  <2> DEFINE m == q[k]
  <2>1. m \in Mutations(n) /\ r[k] = [m EXCEPT !.crossed = TRUE]
    BY <1>1, <1>3
  <2> HIDE DEF m
  <2>2. /\ [m EXCEPT !.crossed = TRUE] \in Mutations(n)
        /\ Alike([m EXCEPT !.crossed = TRUE], m) /\ [m EXCEPT !.crossed = TRUE].crossed = TRUE
        /\ [m EXCEPT !.crossed = TRUE].stale = m.stale
    BY <2>1, FlagsAreFree
  <2> QED
    BY <2>1, <2>2 DEF m
<1>5. r \in [1 .. Len(q) -> Mutations(n)]
  BY <1>1, <1>2, <1>4
<1>6. r \in Seq(Mutations(n)) /\ Len(r) = Len(q)
  BY <1>1, <1>5
<1> QED
  BY <1>3, <1>4, <1>6 DEF r

\* An answer under way about one of these users.
Touched(m, S) == m.answer = "ok" /\ UserIds(S) \cap UserIds(m.users) # {}

\* Marking answers as out of date changes the marks alone.
LEMMA OutdatedIs ==
  ASSUME NEW n, NEW q \in Seq(Mutations(n)), NEW S
  PROVE  LET r == Users!Outdated(q, S) IN
         /\ r \in Seq(Mutations(n)) /\ DOMAIN r = DOMAIN q /\ Len(r) = Len(q)
         /\ \A k \in DOMAIN q : /\ Alike(r[k], q[k]) /\ r[k].crossed = q[k].crossed
                                /\ r[k].stale = (q[k].stale \/ Touched(q[k], S))
<1> DEFINE r == Users!Outdated(q, S)
<1>1. DOMAIN q = 1 .. Len(q) /\ Len(q) \in Nat /\ \A k \in DOMAIN q : q[k] \in Mutations(n)
  BY LenProperties, ElementOfSeq
<1>2. r = [k \in DOMAIN q |-> [q[k] EXCEPT !.stale = q[k].stale \/ Touched(q[k], S)]]
  BY DEF Users!Outdated, Touched, UserIds
<1> HIDE DEF r
<1>3. DOMAIN r = DOMAIN q
  BY <1>2
<1>4. ASSUME NEW k \in DOMAIN q
      PROVE  /\ r[k] \in Mutations(n) /\ Alike(r[k], q[k]) /\ r[k].crossed = q[k].crossed
             /\ r[k].stale = (q[k].stale \/ Touched(q[k], S))
  <2> DEFINE m == q[k]
             b == m.stale \/ Touched(m, S)
  <2>1. r[k] = [m EXCEPT !.stale = b]
    BY <1>2
  <2>2. b \in BOOLEAN
    OBVIOUS
  <2>3. m \in Mutations(n)
    BY <1>1
  <2> HIDE DEF b, m
  <2>4. /\ [m EXCEPT !.stale = b] \in Mutations(n)
        /\ Alike([m EXCEPT !.stale = b], m) /\ [m EXCEPT !.stale = b].stale = b
        /\ [m EXCEPT !.stale = b].crossed = m.crossed
    BY <2>2, <2>3, FlagsAreFree
  <2>5. /\ r[k] \in Mutations(n) /\ Alike(r[k], m) /\ r[k].crossed = m.crossed
        /\ r[k].stale = b
    BY <2>1, <2>4
  <2> QED
    BY <2>5 DEF b, m
<1>5. r \in [1 .. Len(q) -> Mutations(n)]
  <2>1. \A k \in 1 .. Len(q) : r[k] \in Mutations(n)
    BY <1>1, <1>4
  <2>2. r = [k \in 1 .. Len(q) |-> r[k]]
    BY <1>1, <1>2
  <2> QED
    BY <2>1, <2>2
<1>6. r \in Seq(Mutations(n)) /\ Len(r) = Len(q)
  BY <1>1, <1>5
<1> QED
  BY <1>3, <1>4, <1>6 DEF r

-----------------------------------------------------------------------------
(* The admin asks.                                                         *)

\* One more operation is under way, and it overlaps those before it.
Sent(op, S) ==
  /\ UNCHANGED <<users, nextUser, key, got, page, paging, late, blurred>>
  /\ muts' \in Seq(Mutations(nextUser)) /\ Len(muts') = Len(muts) + 1
  /\ \A k \in DOMAIN muts : /\ k \in DOMAIN muts' /\ Alike(muts'[k], muts[k])
                            /\ muts'[k].stale = muts[k].stale /\ muts'[k].crossed
  /\ \A k \in DOMAIN muts' \ DOMAIN muts :
       /\ k = Len(muts) + 1 /\ muts'[k].op = op /\ muts'[k].users = S
       /\ muts'[k].answer = "none"
       /\ ~muts'[k].crossed => paging.at = "none" /\ got /\ muts = <<>>

\* What an operation of the admin sends.
Sendable(op, S) ==
  /\ op \in Ops \ {"second"} /\ S \in SUBSET Users!User /\ IsFiniteSet(S)
  /\ \A u, v \in S : u.id = v.id => u = v
  /\ op \notin {"bulk_delete", "bulk_disable"} => \E u \in S : S = {u}
  /\ op # "create" => \A u \in S : 0 < u.id /\ u.id < nextUser
  /\ op \in Deletes \cup {"reset"} => UserIds(S) \subseteq Users!IdsIn(page.rows)

\* What sending an operation leaves.
LEMMA SendIs ==
  ASSUME UsersTypes, NEW op, NEW S, Sendable(op, S), Users!Send(op, S)
  PROVE  Sent(op, S) /\ userSteps' \in Nat
<1> DEFINE b == paging.at # "none" \/ ~got \/ muts # <<>>
           m == [n |-> userSteps, op |-> op, users |-> S, answer |-> "none",
                 crossed |-> b, stale |-> FALSE]
           q == Users!Crossed(muts)
<1>1. UNCHANGED <<users, nextUser, key, got, page, paging, late, blurred>>
  BY DEF Users!Send, Users!userGhosts
<1>2. muts' = Append(q, m) /\ userSteps \in Nat /\ userSteps' = userSteps + 1
  BY DEF Users!Send, Users!UserStep, UsersTypes, UsersTyped
<1>3. /\ m \in Mutations(nextUser) /\ m.op = op /\ m.users = S /\ m.answer = "none"
      /\ m.crossed = b
  <2>1. b \in BOOLEAN
    OBVIOUS
  <2> HIDE DEF b
  <2> QED
    BY <1>2, <2>1 DEF Mutations, Sendable
<1>4. /\ q \in Seq(Mutations(nextUser)) /\ DOMAIN q = DOMAIN muts /\ Len(q) = Len(muts)
      /\ \A k \in DOMAIN muts : /\ Alike(q[k], muts[k]) /\ q[k].stale = muts[k].stale
                                /\ q[k].crossed
  <2>1. muts \in Seq(Mutations(nextUser))
    BY DEF UsersTypes, MutsTyped
  <2> QED
    BY <2>1, CrossedIs
<1> HIDE DEF q, m
<1>5. /\ Len(q) \in Nat /\ DOMAIN q = 1 .. Len(q)
  BY <1>4, LenProperties
<1>6. /\ muts' \in Seq(Mutations(nextUser)) /\ Len(muts') = Len(muts) + 1
      /\ DOMAIN muts' = 1 .. Len(muts) + 1
      /\ \A k \in DOMAIN muts : muts'[k] = q[k]
      /\ muts'[Len(muts) + 1] = m
  BY <1>2, <1>3, <1>4, <1>5, AppendProperties
<1>7. \A k \in DOMAIN muts' \ DOMAIN muts : k = Len(muts) + 1
  BY <1>4, <1>5, <1>6
<1>8. DOMAIN muts \subseteq DOMAIN muts'
  BY <1>4, <1>5, <1>6
<1>9. ~m.crossed => paging.at = "none" /\ got /\ muts = <<>>
  BY <1>3
<1>10. \A k \in DOMAIN muts : /\ k \in DOMAIN muts' /\ Alike(muts'[k], muts[k])
                              /\ muts'[k].stale = muts[k].stale /\ muts'[k].crossed
  BY <1>4, <1>6, <1>8
<1>11. \A k \in DOMAIN muts' \ DOMAIN muts :
         /\ k = Len(muts) + 1 /\ muts'[k].op = op /\ muts'[k].users = S
         /\ muts'[k].answer = "none"
         /\ ~muts'[k].crossed => paging.at = "none" /\ got /\ muts = <<>>
  BY <1>3, <1>6, <1>7, <1>9
<1> QED
  BY <1>1, <1>2, <1>6, <1>10, <1>11 DEF Sent

\* The operations of the admin on the server.
Asks ==
  /\ form' = form
  /\ userSteps' \in Nat
  /\ \E op \in Ops, S \in SUBSET Users!User : Sendable(op, S) /\ Sent(op, S)

\* The admin sends an operation.
LEMMA Asking ==
  ASSUME UsersTypes, NEW op, NEW S, Sendable(op, S), Users!Send(op, S), UNCHANGED form
  PROVE  Asks
<1>1. Sent(op, S) /\ userSteps' \in Nat
  BY SendIs
<1> QED
  BY <1>1 DEF Asks, Sendable

\* The users on the page.
LEMMA OnPage ==
  ASSUME UsersTypes
  PROVE  /\ Users!ToSet(page.rows) \subseteq Users!User /\ People(Users!ToSet(page.rows), nextUser)
         /\ \A u \in Users!ToSet(page.rows) :
              u.id \in Users!IdsIn(page.rows) /\ 0 < u.id /\ u.id < nextUser
<1>1. page \in Pages(nextUser)
  BY DEF UsersTypes, PageTyped
<1>2. People(Users!ToSet(page.rows), nextUser)
  BY <1>1, RowsAsSet
<1> QED
  BY <1>2 DEF People, Users!IdsIn

\* Reset and delete are such operations, of a user on the page.
LEMMA OperationAsks ==
  ASSUME UsersTypes, NEW u \in Users!ToSet(page.rows),
         Users!ResetUser(u) \/ Users!confirmDelete(u)
  PROVE  Asks
<1>1. u \in Users!User /\ u.id \in Users!IdsIn(page.rows) /\ 0 < u.id /\ u.id < nextUser
  BY OnPage
<1>2. CASE Users!ResetUser(u)
  <2> DEFINE v == [u EXCEPT !.note = "new"]
  <2>1. v \in Users!User /\ v.id = u.id
    BY <1>1, UserFields
  <2>2. Users!Send("reset", {v}) /\ UNCHANGED form
    BY <1>2 DEF Users!ResetUser
  <2> HIDE DEF v
  <2>3. Sendable("reset", {v})
    BY <1>1, <2>1, FS_Singleton DEF Sendable, Ops, Deletes, UserIds
  <2> QED
    BY <2>2, <2>3, Asking
<1>3. CASE Users!confirmDelete(u)
  <2>1. Users!Send("delete", {u}) /\ UNCHANGED form
    BY <1>3 DEF Users!confirmDelete
  <2>2. Sendable("delete", {u})
    BY <1>1, FS_Singleton DEF Sendable, Ops, Deletes, UserIds
  <2> QED
    BY <2>1, <2>2, Asking
<1> QED
  BY <1>2, <1>3

\* So is the creation of a user.
LEMMA CreationAsks ==
  ASSUME UsersTypes, Users!CreateUser
  PROVE  Asks
<1>1. PICK s \in {"active", "disabled"} :
        Users!Send("create", {[id |-> 0, status |-> s, note |-> "new"]})
  BY DEF Users!CreateUser
<1> DEFINE v == [id |-> 0, status |-> s, note |-> "new"]
<1>2. v \in Users!User
  BY DEF Users!User
<1>3. Users!Send("create", {v}) /\ UNCHANGED form
  BY <1>1 DEF Users!CreateUser
<1> HIDE DEF v
<1>4. Sendable("create", {v})
  BY <1>2, FS_Singleton DEF Sendable, Ops, Deletes, UserIds
<1> QED
  BY <1>3, <1>4, Asking

\* So are the bulk operations, of users on the page.
LEMMA BulkAsks ==
  ASSUME UsersTypes, NEW S \in SUBSET Users!ToSet(page.rows),
         Users!handleBulkDelete(S) \/ Users!handleBulkDisableUsers(S)
  PROVE  Asks
<1>1. /\ People(S, nextUser) /\ S \subseteq Users!User
      /\ \A u \in S : u.id \in Users!IdsIn(page.rows)
  BY OnPage, PeoplePart
<1>2. CASE Users!handleBulkDelete(S)
  <2>1. Users!Send("bulk_delete", S) /\ UNCHANGED form
    BY <1>2 DEF Users!handleBulkDelete
  <2>2. Sendable("bulk_delete", S)
    BY <1>1 DEF Sendable, Ops, Deletes, UserIds, People
  <2> QED
    BY <2>1, <2>2, Asking
<1>3. CASE Users!handleBulkDisableUsers(S)
  <2> DEFINE E == {u \in S : u.status # "disabled"}
             D == {[u EXCEPT !.status = "disabled"] : u \in E}
  <2>1. Users!Send("bulk_disable", D) /\ UNCHANGED form
    BY <1>3 DEF Users!handleBulkDisableUsers
  <2>2. People(E, nextUser)
    BY <1>1, PeoplePart
  <2> HIDE DEF E
  <2>3. IsFiniteSet(D)
    <3> DEFINE f == [u \in E |-> [u EXCEPT !.status = "disabled"]]
    <3>1. DOMAIN f = E /\ f = [u \in DOMAIN f |-> f[u]] /\ D = {f[u] : u \in DOMAIN f}
      OBVIOUS
    <3> HIDE DEF f
    <3> QED
      BY <2>2, <3>1, ImageFinite DEF People
  <2>4. \A v \in D : \E u \in E : /\ v = [u EXCEPT !.status = "disabled"]
                                  /\ v \in Users!User /\ v.id = u.id
    <3> SUFFICES ASSUME NEW u \in E
                 PROVE  LET v == [u EXCEPT !.status = "disabled"]
                        IN v \in Users!User /\ v.id = u.id
      OBVIOUS
    <3>1. u \in Users!User
      BY <2>2 DEF People
    <3> QED
      BY <3>1 DEF Users!User
  <2>5. \A u, v \in D : u.id = v.id => u = v
    BY <2>2, <2>4 DEF People
  <2> HIDE DEF D
  <2>6. Sendable("bulk_disable", D)
    BY <2>2, <2>3, <2>4, <2>5 DEF Sendable, Ops, Deletes, UserIds, People
  <2> QED
    BY <2>1, <2>6, Asking
<1> QED
  BY <1>2, <1>3

\* So is what the edit form sends, of the user the dialog was opened on.
LEMMA EditAsks ==
  ASSUME UsersTypes, Users!SubmitEdit
  PROVE  Asks
<1>1. PICK id \in form.user, turned \in BOOLEAN :
        LET fields == [id |-> id, status |-> form.status, note |-> form.note]
            other  == CHOOSE s \in {"active", "disabled"} : s # form.status
        IN IF turned
             THEN Users!Send(IF form.typed THEN "both" ELSE "toggle", {[fields EXCEPT !.status = other]})
             ELSE Users!Send("modify", {fields})
  BY DEF Users!SubmitEdit
<1> DEFINE fields == [id |-> id, status |-> form.status, note |-> form.note]
           other  == CHOOSE s \in {"active", "disabled"} : s # form.status
           turn   == [fields EXCEPT !.status = other]
<1>2. /\ id \in Nat /\ 0 < id /\ id < nextUser /\ form.status \in {"active", "disabled"}
      /\ form.note \in {"old", "new"}
  BY DEF UsersTypes, FormIsTyped
<1>3. fields \in Users!User /\ fields.id = id
  BY <1>2 DEF Users!User
<1>4. other \in {"active", "disabled"}
  <2>1. \E s \in {"active", "disabled"} : s # form.status
    BY <1>2
  <2> QED
    BY <2>1
<1>5. /\ turned => Users!Send(IF form.typed THEN "both" ELSE "toggle", {turn})
      /\ ~turned => Users!Send("modify", {fields})
      /\ UNCHANGED form
  BY <1>1 DEF Users!SubmitEdit
<1> HIDE DEF fields, other
<1>6. turn \in Users!User /\ turn.id = id
  BY <1>3, <1>4 DEF Users!User
<1> HIDE DEF turn
<1>7. /\ \A op \in {"both", "toggle"} : Sendable(op, {turn})
      /\ Sendable("modify", {fields})
  <2>1. IsFiniteSet({turn}) /\ IsFiniteSet({fields})
    BY FS_Singleton
  <2> QED
    BY <1>2, <1>3, <1>6, <2>1 DEF Sendable, Ops, Deletes, UserIds
<1>8. CASE turned
  <2>1. CASE form.typed
    BY <1>5, <1>7, <1>8, <2>1, Asking
  <2>2. CASE ~form.typed
    BY <1>5, <1>7, <1>8, <2>2, Asking
  <2> QED
    BY <2>1, <2>2
<1>9. CASE ~turned
  BY <1>5, <1>7, <1>9, Asking
<1> QED
  BY <1>8, <1>9

-----------------------------------------------------------------------------
(* The server answers.                                                     *)

\* The operations after the server did one of them: others that have an answer with one of the
\* users in W are out of date.
Aged(q, r, i, W, n) ==
  /\ r \in Seq(Mutations(n)) /\ DOMAIN r = DOMAIN q /\ Len(r) = Len(q)
  /\ \A k \in DOMAIN q \ {i} : /\ Alike(r[k], q[k]) /\ r[k].crossed = q[k].crossed
                               /\ r[k].stale = (q[k].stale \/ Touched(q[k], W))
  /\ r[i].n = q[i].n /\ r[i].crossed = q[i].crossed

\* These users can be in the answer.
CanBeReply(m, a, S, n) ==
  /\ S \in SUBSET Users!User /\ IsFiniteSet(S) /\ \A u, v \in S : u.id = v.id => u = v
  /\ m.op \notin {"bulk_delete", "bulk_disable"} => \E u \in S : S = {u}
  /\ m.op # "create" \/ a = "ok" => \A u \in S : 0 < u.id /\ u.id < n
  /\ m.op = "both" => a # "ok"

\* The server's answer.
AnsweredAs(q, r, i, W, a, S) ==
  r = [Users!Outdated(q, W) EXCEPT ![i].answer = a, ![i].users = S]

Replied(q, r, i, W, a, S, n) ==
  Aged(q, r, i, W, n) /\ r[i].op = q[i].op /\ r[i].answer = a /\ r[i].users = S

\* The answer is put into the operation, and answers about users in W are out of date.
LEMMA AnswerTaken ==
  ASSUME NEW n, NEW q \in Seq(Mutations(n)), NEW i \in DOMAIN q, NEW W,
         NEW a \in {"ok", "failed"}, NEW S, CanBeReply(q[i], a, S, n),
         NEW r, AnsweredAs(q, r, i, W, a, S)
  PROVE  Replied(q, r, i, W, a, S, n)
<1> DEFINE o == Users!Outdated(q, W)
           m == o[i]
           s == [m EXCEPT !.answer = a, !.op = q[i].op, !.users = S]
<1>1. /\ o \in Seq(Mutations(n)) /\ DOMAIN o = DOMAIN q /\ Len(o) = Len(q)
      /\ \A k \in DOMAIN q : /\ Alike(o[k], q[k]) /\ o[k].crossed = q[k].crossed
                             /\ o[k].stale = (q[k].stale \/ Touched(q[k], W))
  BY OutdatedIs
<1>0. r = [o EXCEPT ![i].answer = a, ![i].users = S]
  BY DEF AnsweredAs
<1> HIDE DEF o
<1>2. m \in Mutations(n) /\ m.n = q[i].n /\ m.op = q[i].op /\ m.crossed = q[i].crossed
  BY <1>1, LenProperties, ElementOfSeq DEF Alike
<1>3. /\ s \in Mutations(n) /\ s.n = m.n /\ s.crossed = m.crossed
      /\ s.op = q[i].op /\ s.answer = a /\ s.users = S
  <2> DEFINE op == q[i].op
  <2>1. op \in Ops
    BY <1>2, MutIs
  <2>2. m \in Mutations(n)
    BY <1>2
  <2> HIDE DEF op, m
  <2>3. a \in {"none", "ok", "failed"}
    OBVIOUS
  <2>4. LET x == [m EXCEPT !.answer = a, !.op = op, !.users = S] IN
        /\ x \in Mutations(n) /\ x.n = m.n /\ x.crossed = m.crossed /\ x.stale = m.stale
        /\ x.op = op /\ x.answer = a /\ x.users = S
    <3>1. /\ op \notin {"bulk_delete", "bulk_disable"} => \E u \in S : S = {u}
          /\ op # "create" \/ a = "ok" => \A u \in S : 0 < u.id /\ u.id < n
          /\ op = "both" => a # "ok"
          /\ S \in SUBSET Users!User /\ IsFiniteSet(S)
          /\ \A u, v \in S : u.id = v.id => u = v
      BY DEF op, CanBeReply
    <3> QED
      BY ONLY <2>1, <2>2, <2>3, <3>1 DEF Mutations
  <2> QED
    BY <2>4 DEF op
<1>4. s = [m EXCEPT !.answer = a, !.users = S]
  BY <1>2 DEF Mutations
<1>5. r = [o EXCEPT ![i] = s]
  BY <1>0, <1>1, <1>4
<1> HIDE DEF s
<1>6. /\ r \in Seq(Mutations(n)) /\ DOMAIN r = DOMAIN o /\ Len(r) = Len(o)
      /\ \A k \in DOMAIN o : r[k] = IF k = i THEN s ELSE o[k]
  <2>1. i \in DOMAIN o
    BY <1>1
  <2> DEFINE T == Mutations(n)
  <2>2. o \in Seq(T) /\ s \in T
    BY <1>1, <1>3
  <2> HIDE DEF m, T
  <2>3. /\ [o EXCEPT ![i] = s] \in Seq(T) /\ DOMAIN [o EXCEPT ![i] = s] = DOMAIN o
        /\ Len([o EXCEPT ![i] = s]) = Len(o)
        /\ \A k \in DOMAIN o : [o EXCEPT ![i] = s][k] = IF k = i THEN s ELSE o[k]
    BY ONLY <2>1, <2>2, ReplacedIs
  <2> QED
    BY <1>5, <2>3 DEF T
<1> QED
  BY <1>1, <1>2, <1>3, <1>6 DEF Aged, Replied

\* The call with the fields was served, and the one with the status goes out.
LEMMA SecondIs ==
  ASSUME NEW n, NEW q \in Seq(Mutations(n)), NEW i \in DOMAIN q, NEW W, q[i].op = "both",
         q[i].answer = "none"
  PROVE  LET r == [Users!Outdated(q, W) EXCEPT ![i].op = "second"] IN
         /\ Aged(q, r, i, W, n)
         /\ r[i].op = "second" /\ r[i].answer = "none" /\ r[i].users = q[i].users
<1> DEFINE o == Users!Outdated(q, W)
           m == o[i]
           s == [m EXCEPT !.op = "second"]
           r == [o EXCEPT ![i].op = "second"]
<1>1. /\ o \in Seq(Mutations(n)) /\ DOMAIN o = DOMAIN q /\ Len(o) = Len(q)
      /\ \A k \in DOMAIN q : /\ Alike(o[k], q[k]) /\ o[k].crossed = q[k].crossed
                             /\ o[k].stale = (q[k].stale \/ Touched(q[k], W))
  BY OutdatedIs
<1> HIDE DEF o
<1>2. /\ m \in Mutations(n) /\ m.n = q[i].n /\ m.op = "both" /\ m.crossed = q[i].crossed
      /\ m.users = q[i].users /\ m.answer = "none"
  BY <1>1, LenProperties, ElementOfSeq DEF Alike
<1>3. /\ s \in Mutations(n) /\ s.n = m.n /\ s.crossed = m.crossed
      /\ s.op = "second" /\ s.answer = m.answer /\ s.users = m.users
  <2> HIDE DEF m
  <2> QED
    BY <1>2 DEF Mutations, Ops
<1>5. r = [o EXCEPT ![i] = s]
  BY <1>1
<1> HIDE DEF r, s
<1>6. /\ r \in Seq(Mutations(n)) /\ DOMAIN r = DOMAIN o /\ Len(r) = Len(o)
      /\ \A k \in DOMAIN o : r[k] = IF k = i THEN s ELSE o[k]
  BY <1>1, <1>3, <1>5, ReplacedIs
<1>7. /\ Aged(q, r, i, W, n)
      /\ r[i].op = "second" /\ r[i].answer = "none" /\ r[i].users = q[i].users
  BY <1>1, <1>2, <1>3, <1>6 DEF Aged
<1> QED
  BY <1>7 DEF r, o

\* What a step of the server has in common, whatever the operation.
Served(i, W) ==
  /\ muts[i].answer = "none"
  /\ Aged(muts, muts', i, W, nextUser')
  /\ UNCHANGED <<key, got, page, form, late, blurred, userSteps>>

ServedFailed(i) ==
  /\ Served(i, {})
  /\ muts'[i].op = muts[i].op /\ muts'[i].answer = "failed" /\ muts'[i].users = muts[i].users
  /\ UNCHANGED <<users, nextUser, paging>>
  /\ ~(UserIds(muts[i].users) \subseteq UserIds(users))

ServedCreate(i, u) ==
  /\ Served(i, {u}) /\ u \in Users!User /\ u.id = nextUser
  /\ muts[i].op = "create"
  /\ muts'[i].op = "create" /\ muts'[i].answer = "ok" /\ muts'[i].users = {u}
  /\ users' = users \cup {u} /\ nextUser' = nextUser + 1
  /\ Users!Misses(muts[i].n)

ServedDelete(i) ==
  /\ Served(i, muts[i].users) /\ muts[i].op \in Deletes
  /\ UserIds(muts[i].users) \subseteq UserIds(users)
  /\ muts'[i].op = muts[i].op /\ muts'[i].answer = "ok" /\ muts'[i].users = muts[i].users
  /\ users' = {v \in users : v.id \notin UserIds(muts[i].users)} /\ nextUser' = nextUser
  /\ Users!Misses(muts[i].n)

ServedChange(i, S) ==
  /\ Served(i, S) /\ muts[i].op \in Ops \ (Deletes \cup {"create"})
  /\ IsFiniteSet(S) /\ S \subseteq Users!User
  /\ \A u, v \in S : u.id = v.id => u = v
  /\ UserIds(S) = UserIds(muts[i].users) /\ UserIds(S) \subseteq UserIds(users)
  /\ users' = {v \in users : v.id \notin UserIds(S)} \cup S /\ nextUser' = nextUser
  /\ Users!Misses(muts[i].n)
  /\ IF muts[i].op = "both"
       THEN /\ muts'[i].op = "second" /\ muts'[i].answer = "none"
            /\ muts'[i].users = muts[i].users
            /\ \A u \in S, v \in users : u.id = v.id => u.status = v.status
       ELSE /\ muts'[i].op = muts[i].op /\ muts'[i].answer = "ok" /\ muts'[i].users = S

\* The users an operation writes, one for each it names.
LEMMA EachWritten ==
  ASSUME NEW f, f = [u \in DOMAIN f |-> f[u]], IsFiniteSet(DOMAIN f),
         \A u, v \in DOMAIN f : u.id = v.id => u = v,
         \A u \in DOMAIN f : f[u] \in Users!User /\ f[u].id = u.id
  PROVE  LET S == {f[u] : u \in DOMAIN f} IN
         /\ IsFiniteSet(S) /\ S \in SUBSET Users!User
         /\ \A u, v \in S : u.id = v.id => u = v
         /\ UserIds(S) = UserIds(DOMAIN f)
         /\ (\E v \in DOMAIN f : DOMAIN f = {v}) => \E u \in S : S = {u}
<1> DEFINE S == {f[u] : u \in DOMAIN f}
<1>1. IsFiniteSet(S)
  BY ImageFinite
<1>2. UserIds(S) = UserIds(DOMAIN f)
  BY DEF UserIds
<1>3. (\E v \in DOMAIN f : DOMAIN f = {v}) => \E u \in S : S = {u}
  <2> SUFFICES ASSUME NEW v \in DOMAIN f, DOMAIN f = {v}
               PROVE  \E u \in S : S = {u}
    OBVIOUS
  <2>1. S = {f[v]}
    OBVIOUS
  <2> QED
    BY <2>1
<1>4. \A u, v \in S : u.id = v.id => u = v
  <2> SUFFICES ASSUME NEW x \in DOMAIN f, NEW y \in DOMAIN f, f[x].id = f[y].id
               PROVE  f[x] = f[y]
    OBVIOUS
  <2>1. x.id = y.id
    OBVIOUS
  <2>2. x = y
    BY <2>1
  <2> QED
    BY <2>2
<1>5. S \in SUBSET Users!User
  OBVIOUS
<1> HIDE DEF S
<1>6. /\ IsFiniteSet(S) /\ S \in SUBSET Users!User
      /\ \A u, v \in S : u.id = v.id => u = v
      /\ UserIds(S) = UserIds(DOMAIN f)
      /\ (\E v \in DOMAIN f : DOMAIN f = {v}) => \E u \in S : S = {u}
  BY <1>1, <1>2, <1>3, <1>4, <1>5
<1> QED
  BY <1>6 DEF S

\* The stored user with this id.
Old(u) == CHOOSE v \in users : v.id = u.id

Statuses == {"active", "disabled"}
Notes    == {"old", "new"}

\* Users are written by giving the stored ones another note or status.
LEMMA Rewritten ==
  ASSUME UsersTypes, NEW T \in SUBSET Users!User, Users!Present(T), NEW u \in T
  PROVE  /\ Old(u) \in users /\ Old(u).id = u.id
         /\ \A x \in Notes : [Old(u) EXCEPT !.note = x] \in Users!User
         /\ \A x \in Notes : [Old(u) EXCEPT !.note = x].id = u.id
         /\ \A x \in Notes : [Old(u) EXCEPT !.note = x].status = Old(u).status
         /\ \A x \in Statuses : [Old(u) EXCEPT !.status = x] \in Users!User
         /\ \A x \in Statuses : [Old(u) EXCEPT !.status = x].id = u.id
<1> DEFINE o == Old(u)
<1>1. \E v \in users : v.id = u.id
  BY DEF Users!Present
<1>2. o \in users /\ o.id = u.id
  BY <1>1 DEF Old
<1>3. o \in Users!User
  BY <1>2 DEF UsersTypes, UsersTyped, People
<1> HIDE DEF o
<1>4. /\ \A x \in Notes : /\ [o EXCEPT !.note = x] \in Users!User
                          /\ [o EXCEPT !.note = x].id = u.id
                          /\ [o EXCEPT !.note = x].status = o.status
      /\ \A x \in Statuses : /\ [o EXCEPT !.status = x] \in Users!User
                             /\ [o EXCEPT !.status = x].id = u.id
  BY <1>2, <1>3 DEF Users!User, Notes, Statuses
<1> QED
  BY <1>2, <1>4 DEF o

\* The users as an operation writes them.
Written(m) ==
  CASE m.op \in {"modify", "both"} -> {[Old(u) EXCEPT !.note = u.note] : u \in m.users}
    [] m.op \in {"toggle", "second"} -> {[Old(u) EXCEPT !.status = u.status] : u \in m.users}
    [] m.op = "reset"        -> {[Old(u) EXCEPT !.note = "new"] : u \in m.users}
    [] m.op = "bulk_disable" -> {[Old(u) EXCEPT !.status = "disabled"] : u \in m.users}
    [] OTHER -> m.users

WrittenRight(m, S) ==
  /\ IsFiniteSet(S) /\ S \in SUBSET Users!User
  /\ \A u, v \in S : u.id = v.id => u = v
  /\ UserIds(S) = UserIds(m.users)
  /\ (\E v \in m.users : m.users = {v}) => \E u \in S : S = {u}

\* What the server writes are the users of the operation, as they became.
LEMMA WrittenIs ==
  ASSUME UsersTypes, NEW m \in Mutations(nextUser), Users!Present(m.users), m.op # "create"
  PROVE  /\ WrittenRight(m, Written(m))
         /\ m.op \in Deletes => Written(m) = m.users
         /\ m.op = "both" => \A u \in Written(m), v \in users : u.id = v.id => u.status = v.status
<1> DEFINE T == m.users
<1>1. /\ T \in SUBSET Users!User /\ IsFiniteSet(T) /\ m.op \in Ops
      /\ \A u, v \in T : u.id = v.id => u = v
  BY MutIs
<1>2. \A u \in T : /\ u.note \in Notes /\ u.status \in Statuses
  BY <1>1, UserFields DEF Notes, Statuses
<1>3. ASSUME NEW f, DOMAIN f = T, f = [u \in T |-> f[u]],
             \A u \in T : f[u] \in Users!User /\ f[u].id = u.id
      PROVE  WrittenRight(m, {f[u] : u \in T})
  <2> DEFINE S == {f[u] : u \in DOMAIN f}
  <2>1. /\ IsFiniteSet(S) /\ S \in SUBSET Users!User
        /\ \A u, v \in S : u.id = v.id => u = v
        /\ UserIds(S) = UserIds(DOMAIN f)
        /\ (\E v \in DOMAIN f : DOMAIN f = {v}) => \E u \in S : S = {u}
    BY <1>1, <1>3, EachWritten
  <2> QED
    BY <1>3, <2>1 DEF WrittenRight
<1>4. CASE m.op \in {"modify", "both"}
  <2> DEFINE f == [u \in T |-> [Old(u) EXCEPT !.note = u.note]]
  <2>1. ASSUME NEW u \in T
        PROVE  /\ f[u] \in Users!User /\ f[u].id = u.id
               /\ f[u].status = Old(u).status /\ Old(u) \in users
    BY <1>1, <1>2, Rewritten
  <2>2. DOMAIN f = T /\ f = [u \in T |-> f[u]]
    OBVIOUS
  <2>3. Written(m) = {f[u] : u \in T}
    BY <1>4 DEF Written
  <2> HIDE DEF f, T
  <2>4. WrittenRight(m, Written(m))
    BY <1>3, <2>1, <2>2, <2>3
  <2>5. ASSUME NEW u \in Written(m), NEW v \in users, u.id = v.id
        PROVE  u.status = v.status
    <3>1. PICK w \in T : u = f[w]
      BY <2>3
    <3>2. Old(w) = v
      <4>1. Old(w).id = w.id
        BY <1>1, Rewritten DEF T
      <4> QED
        BY <2>1, <2>5, <3>1, <4>1 DEF UsersTypes, UsersTyped, People
    <3> QED
      BY <2>1, <3>1, <3>2
  <2> QED
    BY <1>4, <2>4, <2>5 DEF Deletes
<1>5. CASE m.op \in {"toggle", "second"}
  <2> DEFINE f == [u \in T |-> [Old(u) EXCEPT !.status = u.status]]
  <2>1. ASSUME NEW u \in T
        PROVE  f[u] \in Users!User /\ f[u].id = u.id
    BY <1>1, <1>2, Rewritten
  <2>2. DOMAIN f = T /\ f = [u \in T |-> f[u]]
    OBVIOUS
  <2>3. Written(m) = {f[u] : u \in T}
    BY <1>5 DEF Written
  <2> HIDE DEF f, T
  <2>4. WrittenRight(m, Written(m))
    BY <1>3, <2>1, <2>2, <2>3
  <2> QED
    BY <1>5, <2>4 DEF Deletes
<1>6. CASE m.op = "reset"
  <2> DEFINE f == [u \in T |-> [Old(u) EXCEPT !.note = "new"]]
  <2>1. ASSUME NEW u \in T
        PROVE  f[u] \in Users!User /\ f[u].id = u.id
    <3>1. "new" \in Notes
      BY DEF Notes
    <3> QED
      BY <1>1, <3>1, Rewritten
  <2>2. DOMAIN f = T /\ f = [u \in T |-> f[u]]
    OBVIOUS
  <2>3. Written(m) = {f[u] : u \in T}
    BY <1>6 DEF Written
  <2> HIDE DEF f, T
  <2>4. WrittenRight(m, Written(m))
    BY <1>3, <2>1, <2>2, <2>3
  <2> QED
    BY <1>6, <2>4 DEF Deletes
<1>7. CASE m.op = "bulk_disable"
  <2> DEFINE f == [u \in T |-> [Old(u) EXCEPT !.status = "disabled"]]
  <2>1. ASSUME NEW u \in T
        PROVE  f[u] \in Users!User /\ f[u].id = u.id
    <3>1. "disabled" \in Statuses
      BY DEF Statuses
    <3> QED
      BY <1>1, <3>1, Rewritten
  <2>2. DOMAIN f = T /\ f = [u \in T |-> f[u]]
    OBVIOUS
  <2>3. Written(m) = {f[u] : u \in T}
    BY <1>7 DEF Written
  <2> HIDE DEF f, T
  <2>4. WrittenRight(m, Written(m))
    BY <1>3, <2>1, <2>2, <2>3
  <2> QED
    BY <1>7, <2>4 DEF Deletes
<1>8. CASE m.op \in Deletes
  <2>1. Written(m) = T
    BY <1>8 DEF Written, Deletes
  <2> QED
    BY <1>1, <1>8, <2>1 DEF WrittenRight, Deletes
<1> QED
  BY <1>1, <1>4, <1>5, <1>6, <1>7, <1>8 DEF Ops, Deletes

\* The parts of the state the server's steps depend on.
LEMMA MutsAre ==
  ASSUME UsersTypes, NEW i \in DOMAIN muts
  PROVE  /\ muts \in Seq(Mutations(nextUser)) /\ muts[i] \in Mutations(nextUser)
         /\ nextUser \in Nat \ {0} /\ People(users, nextUser)
         /\ DOMAIN muts = 1 .. Len(muts) /\ Len(muts) \in Nat
BY MutAt DEF UsersTypes, UsersTyped, MutsTyped

\* The server serves an operation in one of four ways.
LEMMA UserServed ==
  ASSUME UsersTypes, NEW i \in DOMAIN muts, Users!ServeUser(i)
  PROVE  \/ ServedFailed(i) \/ ServedDelete(i)
         \/ \E u \in Users!User : ServedCreate(i, u)
         \/ \E S \in SUBSET Users!User : ServedChange(i, S)
<1> DEFINE m == muts[i]
<1>1. /\ muts \in Seq(Mutations(nextUser)) /\ m \in Mutations(nextUser)
      /\ nextUser \in Nat \ {0}
  BY MutsAre
<1>2. /\ m.n \in Nat /\ m.op \in Ops /\ m.users \in SUBSET Users!User /\ IsFiniteSet(m.users)
      /\ \A u, v \in m.users : u.id = v.id => u = v
      /\ m.op \notin {"bulk_delete", "bulk_disable"} => \E u \in m.users : m.users = {u}
      /\ m.op # "create" => \A u \in m.users : 0 < u.id /\ u.id < nextUser
  BY <1>1, MutIs
<1>3. /\ m.answer = "none" /\ UNCHANGED <<key, got, page, form, late, blurred, userSteps>>
  BY DEF Users!ServeUser, Users!userGhosts
<1>4. CASE m.op = "create"
  <2>1. PICK u0 \in m.users : m.users = {u0}
    BY <1>2, <1>4
  <2> DEFINE u == [u0 EXCEPT !.id = nextUser]
             n == nextUser + 1
             S == {[v EXCEPT !.id = nextUser] : v \in m.users}
  <2>2. u \in Users!User /\ u.id = nextUser
    <3>1. u0 \in Users!User
      BY <1>2
    <3> QED
      BY <1>1, <3>1 DEF Users!User
  <2>3. S = {u}
    BY <2>1
  <2>4. /\ users' = users \cup S /\ nextUser' = n /\ Users!Misses(m.n)
        /\ AnsweredAs(muts, muts', i, S, "ok", S)
    BY <1>4 DEF Users!ServeUser, AnsweredAs
  <2> HIDE DEF S, u
  <2>5. n \in Nat /\ nextUser <= n /\ 0 < nextUser /\ nextUser < n
    BY <1>1
  <2> HIDE DEF n
  <2>6. muts \in Seq(Mutations(n))
    BY <1>1, <2>5, TypesGrow, SeqMonotonic
  <2>8. CanBeReply(m, "ok", S, n)
    BY <1>4, <2>2, <2>3, <2>5, FS_Singleton DEF CanBeReply
  <2>10. /\ Aged(muts, muts', i, S, n)
         /\ muts'[i].op = m.op /\ muts'[i].answer = "ok" /\ muts'[i].users = S
    <3>1. Replied(muts, muts', i, S, "ok", S, n)
      BY <2>4, <2>6, <2>8, AnswerTaken
    <3> QED
      BY <3>1 DEF Replied
  <2>11. ServedCreate(i, u)
    BY <1>3, <1>4, <2>2, <2>3, <2>4, <2>10 DEF ServedCreate, Served, n
  <2> QED
    BY <2>2, <2>11
<1>5. CASE m.op # "create" /\ ~Users!Present(m.users)
  <2>1. UNCHANGED <<users, nextUser, paging>> /\ AnsweredAs(muts, muts', i, {}, "failed", m.users)
    BY <1>5 DEF Users!ServeUser, AnsweredAs
  <2>3. CanBeReply(m, "failed", m.users, nextUser)
    <3> HIDE DEF m
    <3> QED
      BY <1>2, <1>5 DEF CanBeReply
  <2>4. /\ Aged(muts, muts', i, {}, nextUser')
        /\ muts'[i].op = m.op /\ muts'[i].answer = "failed" /\ muts'[i].users = m.users
    <3>1. Replied(muts, muts', i, {}, "failed", m.users, nextUser)
      BY <1>1, <2>1, <2>3, AnswerTaken
    <3> QED
      BY <2>1, <3>1 DEF Replied
  <2>5. ServedFailed(i)
    BY <1>3, <1>5, <2>1, <2>4 DEF ServedFailed, Served, Users!Present, UserIds
  <2> QED
    BY <2>5
<1>6. CASE m.op # "create" /\ Users!Present(m.users)
  <2> DEFINE S == Written(m)
  <2>1. /\ users' = IF m.op \in Deletes THEN Users!Without(S) ELSE Users!Without(S) \cup S
        /\ IF m.op = "both" THEN muts' = [Users!Outdated(muts, S) EXCEPT ![i].op = "second"]
                            ELSE AnsweredAs(muts, muts', i, S, "ok", S)
        /\ Users!Misses(m.n) /\ nextUser' = nextUser
    BY <1>6 DEF Users!ServeUser, Written, AnsweredAs, Old, Deletes
  <2>2. /\ WrittenRight(m, S)
        /\ m.op \in Deletes => S = m.users
        /\ m.op = "both" => \A u \in S, v \in users : u.id = v.id => u.status = v.status
    BY <1>1, <1>6, WrittenIs
  <2> HIDE DEF S
  <2>3. /\ S \in SUBSET Users!User /\ IsFiniteSet(S) /\ \A u, v \in S : u.id = v.id => u = v
        /\ UserIds(S) = UserIds(m.users)
        /\ m.op \notin {"bulk_delete", "bulk_disable"} => \E u \in S : S = {u}
    <3>1. (\E v \in m.users : m.users = {v}) => \E u \in S : S = {u}
      BY <2>2 DEF WrittenRight
    <3>2. m.op \notin {"bulk_delete", "bulk_disable"} => \E v \in m.users : m.users = {v}
      BY <1>2
    <3> HIDE DEF m
    <3> QED
      BY <2>2, <3>1, <3>2 DEF WrittenRight
  <2>4. \A u \in S : 0 < u.id /\ u.id < nextUser
    <3> SUFFICES ASSUME NEW u \in S
                 PROVE  0 < u.id /\ u.id < nextUser
      OBVIOUS
    <3>1. u.id \in UserIds(m.users)
      BY <2>3 DEF UserIds
    <3> QED
      BY <1>2, <1>6, <3>1 DEF UserIds
  <2>5. UserIds(m.users) \subseteq UserIds(users)
    BY <1>6 DEF Users!Present, UserIds
  <2>6. Users!Without(S) = {v \in users : v.id \notin UserIds(S)}
    BY DEF Users!Without, UserIds
  <2>7. CASE m.op = "both"
    <3>1. muts' = [Users!Outdated(muts, S) EXCEPT ![i].op = "second"]
      BY <2>1, <2>7
    <3>2. LET r == [Users!Outdated(muts, S) EXCEPT ![i].op = "second"] IN
          /\ Aged(muts, r, i, S, nextUser)
          /\ r[i].op = "second" /\ r[i].answer = "none" /\ r[i].users = m.users
      BY <1>1, <1>3, <2>7, SecondIs
    <3>3. /\ Aged(muts, muts', i, S, nextUser')
          /\ muts'[i].op = "second" /\ muts'[i].answer = "none" /\ muts'[i].users = m.users
      BY <2>1, <3>1, <3>2
    <3>4. Served(i, S)
      BY <1>3, <3>3 DEF Served
    <3>5. ServedChange(i, S)
      <4>1. users' = {v \in users : v.id \notin UserIds(S)} \cup S
        BY <2>1, <2>6, <2>7 DEF Deletes
      <4> HIDE DEF m
      <4>2. m.op \in Ops \ (Deletes \cup {"create"})
        BY <1>2, <1>6, <2>7 DEF Deletes
      <4> QED
        BY <2>1, <2>2, <2>3, <2>5, <2>7, <3>3, <3>4, <4>1, <4>2 DEF ServedChange, m
    <3> QED
      BY <2>3, <3>5
  <2>8. CASE m.op # "both"
    <3>2. CanBeReply(m, "ok", S, nextUser)
      <4> HIDE DEF m
      <4> QED
        BY <2>3, <2>4, <2>8 DEF CanBeReply
    <3>3. /\ Aged(muts, muts', i, S, nextUser')
          /\ muts'[i].op = m.op /\ muts'[i].answer = "ok" /\ muts'[i].users = S
      <4>1. Replied(muts, muts', i, S, "ok", S, nextUser)
        BY <1>1, <2>1, <2>8, <3>2, AnswerTaken
      <4> QED
        BY <2>1, <4>1 DEF Replied
    <3>4. Served(i, S)
      BY <1>3, <3>3 DEF Served
    <3>5. CASE m.op \in Deletes
      <4>1. users' = Users!Without(S) /\ S = m.users
        BY <2>1, <2>2, <3>5
      <4>3. users' = {v \in users : v.id \notin UserIds(m.users)}
        BY <2>6, <4>1
      <4>2. ServedDelete(i)
        BY <2>1, <2>5, <3>3, <3>4, <3>5, <4>1, <4>3 DEF ServedDelete
      <4> QED
        BY <4>2
    <3>6. CASE m.op \notin Deletes
      <4>1. users' = {v \in users : v.id \notin UserIds(S)} \cup S
        BY <2>1, <2>6, <3>6
      <4>2. m.op \in Ops \ (Deletes \cup {"create"})
        BY <1>2, <1>6, <3>6
      <4>3. ServedChange(i, S)
        BY <2>1, <2>3, <2>5, <2>8, <3>3, <3>4, <4>1, <4>2 DEF ServedChange
      <4> QED
        BY <2>3, <4>3
    <3> QED
      BY <3>5, <3>6
  <2> QED
    BY <2>7, <2>8
<1>7. m.op = "create" \/ m.op # "create"
  OBVIOUS
<1> QED
  BY <1>4, <1>5, <1>6, <1>7

-----------------------------------------------------------------------------
(* Counting; fetches; the dialog.                                          *)

\* Different users have as many ids.
LEMMA IdsAsMany ==
  ASSUME NEW S, IsFiniteSet(S), \A u, v \in S : u.id = v.id => u = v
  PROVE  Cardinality(UserIds(S)) = Cardinality(S) /\ IsFiniteSet(UserIds(S))
<1> DEFINE f == [u \in S |-> u.id]
           T == UserIds(S)
<1>1. f \in Bijection(S, T)
  <2>1. f \in [S -> T] /\ \A u \in S : f[u] = u.id
    BY DEF UserIds
  <2>2. \A t \in T : \E u \in S : f[u] = t
    BY DEF UserIds
  <2> HIDE DEF f, T
  <2>3. f \in Injection(S, T)
    BY <2>1 DEF Injection, IsInjective
  <2>4. f \in Surjection(S, T)
    BY <2>1, <2>2 DEF Surjection
  <2> QED
    BY <2>3, <2>4 DEF Bijection
<1>2. IsFiniteSet(T) /\ Cardinality(T) = Cardinality(S)
  BY <1>1, FS_Bijection DEF ExistsBijection
<1> QED
  BY <1>2

\* No fetch, and one on its way.
LEMMA NothingAsked ==
  ASSUME NEW n \in Nat, NEW p \in {Users!NoPaging, Users!PagingAsked}
  PROVE  /\ p \in [at : {"none", "server", "answer"}, page : Pages(n), missed : SUBSET Nat,
                   lost : BOOLEAN]
         /\ p.missed = {} /\ ~p.lost
         /\ p = Users!NoPaging => p.at = "none"
         /\ p = Users!PagingAsked => p.at = "server"
<1> DEFINE empty == [rows |-> <<>>, total |-> 0]
<1>1. empty \in Pages(n)
  <2>1. Limit \in Nat
    BY TableAssumption
  <2>2. <<>> \in Seq(Users!User) /\ Len(<<>>) = 0 /\ DOMAIN <<>> = {}
    BY EmptySeq, LenProperties
  <2> QED
    BY <2>1, <2>2 DEF Pages
<1> HIDE DEF empty
<1>2. Users!NoPaging = [at |-> "none", page |-> empty, missed |-> {}, lost |-> FALSE]
  BY DEF Users!NoPaging, empty
<1> DEFINE none == Users!NoPaging
<1>3. Users!PagingAsked = [none EXCEPT !.at = "server"]
  BY DEF Users!PagingAsked
<1>4. none \in [at : {"none", "server", "answer"}, page : Pages(n), missed : SUBSET Nat,
                lost : BOOLEAN]
  BY <1>1, <1>2
<1>5. none.missed = {} /\ none.lost = FALSE /\ none.at = "none"
  BY <1>2
<1> HIDE DEF none
<1> DEFINE asked == [none EXCEPT !.at = "server"]
<1>6. /\ asked \in [at : {"none", "server", "answer"}, page : Pages(n), missed : SUBSET Nat,
                    lost : BOOLEAN]
      /\ asked.missed = {} /\ asked.lost = FALSE /\ asked.at = "server"
  BY <1>4, <1>5
<1> HIDE DEF asked
<1>7. asked # none
  BY <1>5, <1>6
<1>8. CASE p = none
  BY <1>3, <1>4, <1>5, <1>7, <1>8 DEF none, asked
<1>9. CASE p = asked
  BY <1>3, <1>5, <1>6, <1>7, <1>9 DEF none, asked
<1> QED
  BY <1>3, <1>8, <1>9 DEF none, asked

\* Users that match are as many as their ids.
LEMMA MatchingIs ==
  ASSUME NEW n, NEW S, People(S, n)
  PROVE  LET M == {u \in S : Users!matchesUserFilters(u, key)} IN
         /\ Matching(S) = UserIds(M)
         /\ Cardinality(Matching(S)) = Cardinality(M) /\ IsFiniteSet(Matching(S))
         /\ Matching(S) \in SUBSET Nat
<1> DEFINE M == {u \in S : Users!matchesUserFilters(u, key)}
<1>1. People(M, n) /\ Matching(S) = UserIds(M)
  <2>1. M \in SUBSET S
    OBVIOUS
  <2>2. Matching(S) = UserIds(M)
    BY DEF Matching, UserIds
  <2> HIDE DEF M
  <2> QED
    BY <2>1, <2>2, PeoplePart
<1> HIDE DEF M
<1>2. Cardinality(UserIds(M)) = Cardinality(M) /\ IsFiniteSet(UserIds(M))
  <2>1. IsFiniteSet(M) /\ \A u, v \in M : u.id = v.id => u = v
    BY <1>1 DEF People
  <2> QED
    BY ONLY <2>1, IdsAsMany
<1>3. UserIds(M) \in SUBSET Nat
  <2>1. \A u \in M : u.id \in Nat
    BY <1>1, UserFields DEF People
  <2> QED
    BY <2>1 DEF UserIds
<1> QED
  BY <1>1, <1>2, <1>3 DEF M

\* Types are kept where the users are left alone.
LEMMA TypesStay ==
  ASSUME UsersTypes, UNCHANGED <<users, nextUser>>,
         key' \in Users!Keys, got' \in BOOLEAN, late' \in BOOLEAN, blurred' \in BOOLEAN,
         userSteps' \in Nat
  PROVE  /\ UsersTyped'
         /\ page' \in Pages(nextUser) => PageTyped'
         /\ (/\ paging' \in [at : {"none", "server", "answer"}, page : Pages(nextUser),
                             missed : SUBSET Nat, lost : BOOLEAN]
             /\ paging'.at # "answer" => paging'.missed = {} /\ ~paging'.lost) => PagingTyped'
         /\ muts' \in Seq(Mutations(nextUser)) => MutsTyped'
         /\ form' = form => FormIsTyped'
<1>1. UsersTyped'
  BY DEF UsersTypes, UsersTyped
<1>2. page' \in Pages(nextUser) => PageTyped'
  BY DEF PageTyped
<1>3. (/\ paging' \in [at : {"none", "server", "answer"}, page : Pages(nextUser),
                       missed : SUBSET Nat, lost : BOOLEAN]
       /\ paging'.at # "answer" => paging'.missed = {} /\ ~paging'.lost) => PagingTyped'
  BY DEF PagingTyped
<1>4. muts' \in Seq(Mutations(nextUser)) => MutsTyped'
  BY DEF MutsTyped
<1>5. form' = form => FormIsTyped'
  BY DEF UsersTypes, FormIsTyped
<1> QED
  BY <1>1, <1>2, <1>3, <1>4, <1>5

\* While a fetch is under way, whatever else is overlaps it.
LEMMA FetchOverlaps ==
  ASSUME UsersInv, paging.at # "none"
  PROVE  \A i \in DOMAIN muts : muts[i].crossed
BY DEF UsersInv, Alone

\* Asking again, for another page or the same, marks every operation under way.
LEMMA FetchAnewKeeps ==
  ASSUME UsersInv, Users!ChangeKey \/ Users!handleRefresh
  PROVE  UsersInv'
<1>1. /\ paging' = Users!PagingAsked /\ muts' = Users!Crossed(muts)
      /\ UNCHANGED <<users, nextUser, page, form, late, blurred, userSteps>>
      /\ (key' = key /\ got' = got) \/ (key' \in Users!NextKeys /\ got' = FALSE)
  BY DEF Users!ChangeKey, Users!handleRefresh, Users!userGhosts
<1>2. /\ UsersTypes /\ muts \in Seq(Mutations(nextUser)) /\ nextUser \in Nat
      /\ key \in Users!Keys /\ got \in BOOLEAN /\ late \in BOOLEAN /\ blurred \in BOOLEAN
      /\ userSteps \in Nat /\ page \in Pages(nextUser)
  BY DEF UsersInv, UsersTypes, MutsTyped, UsersTyped, PageTyped
<1>3. /\ muts' \in Seq(Mutations(nextUser)) /\ DOMAIN muts' = DOMAIN muts
      /\ \A k \in DOMAIN muts : /\ Alike(muts'[k], muts[k]) /\ muts'[k].stale = muts[k].stale
                                /\ muts'[k].crossed
  BY <1>1, <1>2, CrossedIs
<1>4. /\ paging' \in [at : {"none", "server", "answer"}, page : Pages(nextUser),
                      missed : SUBSET Nat, lost : BOOLEAN]
      /\ paging'.missed = {} /\ ~paging'.lost /\ paging'.at = "server"
  BY <1>1, <1>2, NothingAsked
<1>5. key' \in Users!Keys /\ got' \in BOOLEAN
  <2>1. CASE key' \in Users!NextKeys
    <3>1. 0 \in PageNumbers
      BY TableAssumption
    <3>2. Users!NextKeys \subseteq Users!Keys
      BY <1>2, <3>1 DEF Users!NextKeys, Users!Keys
    <3> QED
      BY <1>1, <1>2, <2>1, <3>2
  <2> QED
    BY <1>1, <1>2, <2>1
<1>6. UsersTypes'
  <2>1. /\ late' \in BOOLEAN /\ blurred' \in BOOLEAN /\ userSteps' \in Nat
        /\ page' \in Pages(nextUser) /\ form' = form
    BY <1>1, <1>2
  <2>2. UsersTyped' /\ PageTyped' /\ PagingTyped' /\ MutsTyped' /\ FormIsTyped'
    BY <1>1, <1>2, <1>3, <1>4, <1>5, <2>1, TypesStay
  <2> QED
    BY <2>2 DEF UsersTypes
<1>7. RowsSorted'
  BY <1>1, <1>4 DEF UsersInv, RowsSorted, SortedRows
<1>8. AnswersCurrent'
  BY <1>1, <1>3 DEF UsersInv, AnswersCurrent, Alike
<1>9. RowsCovered' /\ TotalRight'
  BY <1>4 DEF RowsCovered, TotalRight, Settled
<1>10. Alone'
  BY <1>3 DEF Alone
<1> QED
  BY <1>6, <1>7, <1>8, <1>9, <1>10 DEF UsersInv

\* The server reads the page as it is stored now.
LEMMA ReadKeeps ==
  ASSUME UsersInv, Users!PagingServed
  PROVE  UsersInv'
<1> DEFINE p == Users!PageOf(users, key)
           M == {u \in users : Users!matchesUserFilters(u, key)}
<1>1. /\ paging.at = "server" /\ paging' = [paging EXCEPT !.at = "answer", !.page = p]
      /\ UNCHANGED <<users, nextUser, key, got, page, muts, form, late, blurred, userSteps>>
  BY DEF Users!PagingServed, Users!userGhosts
<1>2. /\ UsersTypes /\ People(users, nextUser) /\ key \in Users!Keys
  BY DEF UsersInv, UsersTypes, UsersTyped
<1>3. /\ p \in Pages(nextUser) /\ SortedRows(p.rows, key)
      /\ Users!ToSet(p.rows) \subseteq M /\ p.total = Cardinality(M)
  BY <1>2, PageOfIs
<1>4. p.total = Cardinality(Matching(users))
  <2>1. Cardinality(Matching(users)) = Cardinality(M)
    BY <1>2, MatchingIs
  <2> QED
    BY <1>3, <2>1
<1>5. \A u \in Users!ToSet(p.rows) : u \in users /\ Users!matchesUserFilters(u, key)
  BY <1>3
<1> HIDE DEF p, M
<1>6. /\ paging' \in [at : {"none", "server", "answer"}, page : Pages(nextUser),
                      missed : SUBSET Nat, lost : BOOLEAN]
      /\ paging'.at = "answer" /\ paging'.page = p /\ paging'.missed = {}
  BY <1>1, <1>2, <1>3 DEF UsersTypes, PagingTyped
<1>7. UsersTypes'
  <2>1. /\ key' \in Users!Keys /\ got' \in BOOLEAN /\ late' \in BOOLEAN /\ blurred' \in BOOLEAN
        /\ userSteps' \in Nat /\ page' \in Pages(nextUser) /\ muts' \in Seq(Mutations(nextUser))
        /\ form' = form
    BY <1>1, <1>2 DEF UsersTypes, UsersTyped, PageTyped, MutsTyped
  <2>2. UsersTyped' /\ PageTyped' /\ PagingTyped' /\ MutsTyped' /\ FormIsTyped'
    BY <1>1, <1>2, <1>6, <2>1, TypesStay
  <2> QED
    BY <2>2 DEF UsersTypes
<1>8. RowsSorted'
  BY <1>1, <1>3, <1>6 DEF UsersInv, RowsSorted
<1>9. AnswersCurrent'
  BY <1>1 DEF UsersInv, AnswersCurrent
<1>10. RowsCovered'
  BY <1>1, <1>5, <1>6 DEF RowsCovered, Settled, Covered
<1>11. Alone'
  BY <1>1, FetchOverlaps DEF Alone
<1>12. TotalRight'
  <2>1. Matching(users)' = Matching(users)
    BY <1>1 DEF Matching
  <2> QED
    BY <1>1, <1>4, <1>6, <2>1 DEF TotalRight, Settled
<1> QED
  BY <1>7, <1>8, <1>9, <1>10, <1>11, <1>12 DEF UsersInv

\* The closed dialog, and the one an operation or a page leaves.
LEMMA FormsAre ==
  ASSUME UsersTypes
  PROVE  LET T == [open : BOOLEAN, by : {"row", "table"}, user : SUBSET Nat,
                   status : {"active", "disabled"}, note : {"old", "new"}, typed : BOOLEAN,
                   closing : BOOLEAN]
         IN /\ Users!Closed \in T /\ Users!Closed.user = {} /\ ~Users!Closed.open
            /\ Users!FormClosing(form) \in T /\ ~Users!FormClosing(form).open
            /\ Users!FormClosing(form).user = form.user
BY DEF UsersTypes, FormIsTyped, Users!Closed, Users!FormClosing

\* The dialog after an answer is the one before, closing or closed.
LEMMA DialogStays ==
  ASSUME UsersTypes, nextUser' = nextUser,
         form' \in {form, Users!Closed, Users!FormClosing(form)}
  PROVE  FormIsTyped'
<1> DEFINE c == Users!Closed
           f == Users!FormClosing(form)
           T == [open : BOOLEAN, by : {"row", "table"}, user : SUBSET Nat,
                   status : {"active", "disabled"}, note : {"old", "new"}, typed : BOOLEAN,
                   closing : BOOLEAN]
<1>1. /\ c \in T /\ c.user = {} /\ ~c.open /\ f \in T /\ ~f.open /\ f.user = form.user
      /\ form \in T
  BY FormsAre DEF UsersTypes, FormIsTyped
<1>2. /\ \A x \in form.user : 0 < x /\ x < nextUser
      /\ form.open => ~form.closing /\ \E x \in form.user : form.user = {x}
  BY DEF UsersTypes, FormIsTyped
<1>3. form' \in {form, c, f}
  OBVIOUS
<1> HIDE DEF c, f
<1> QED
  BY <1>1, <1>2, <1>3 DEF FormIsTyped

\* The page arrives and is what was stored, but for what its fetch missed.
LEMMA ArrivalKeeps ==
  ASSUME UsersInv, Users!PagingArrives
  PROVE  UsersInv'
<1>1. /\ paging.at = "answer" /\ page' = paging.page /\ got' = TRUE
      /\ form' = Users!FormAfter(paging.page) /\ late' = paging.lost /\ blurred' = FALSE
      /\ paging' = Users!NoPaging
      /\ UNCHANGED <<users, nextUser, key, muts, userSteps>>
  BY DEF Users!PagingArrives
<1>2. /\ UsersTypes /\ nextUser \in Nat /\ muts \in Seq(Mutations(nextUser))
      /\ paging.page \in Pages(nextUser) /\ paging.lost \in BOOLEAN /\ paging.missed \subseteq Nat
      /\ key \in Users!Keys /\ userSteps \in Nat
  BY DEF UsersInv, UsersTypes, UsersTyped, MutsTyped, PagingTyped
<1>3. /\ paging' \in [at : {"none", "server", "answer"}, page : Pages(nextUser),
                      missed : SUBSET Nat, lost : BOOLEAN]
      /\ paging'.missed = {} /\ ~paging'.lost /\ paging'.at = "none"
  BY <1>1, <1>2, NothingAsked
<1>4. UsersTypes'
  <2>1. form' \in {form, Users!Closed, Users!FormClosing(form)}
    BY <1>1 DEF Users!FormAfter
  <2>2. /\ key' \in Users!Keys /\ got' \in BOOLEAN /\ late' \in BOOLEAN /\ blurred' \in BOOLEAN
        /\ userSteps' \in Nat /\ page' \in Pages(nextUser) /\ muts' \in Seq(Mutations(nextUser))
    BY <1>1, <1>2
  <2>3. UsersTyped' /\ PageTyped' /\ PagingTyped' /\ MutsTyped'
    BY <1>1, <1>2, <1>3, <2>2, TypesStay
  <2>4. FormIsTyped'
    BY <1>1, <1>2, <2>1, DialogStays
  <2> QED
    BY <2>3, <2>4 DEF UsersTypes
<1>5. RowsSorted'
  BY <1>1, <1>3 DEF UsersInv, RowsSorted
<1>6. AnswersCurrent'
  BY <1>1 DEF UsersInv, AnswersCurrent
<1>7. RowsCovered'
  <2>1. ASSUME ~paging.lost
        PROVE  Covered(paging.page.rows, Nat)
    <3>1. Covered(paging.page.rows, paging.missed)
      BY <1>1, <2>1 DEF UsersInv, RowsCovered
    <3> QED
      BY <1>2, <3>1 DEF Covered
  <2>2. Covered(paging.page.rows, Nat) => Covered(page.rows, Nat)'
    BY <1>1 DEF Covered, Mends
  <2> QED
    BY <1>1, <1>3, <2>1, <2>2 DEF RowsCovered, Settled
<1>8. \A i \in DOMAIN muts : muts[i].crossed
  BY <1>1, FetchOverlaps
<1>9. Alone'
  BY <1>1, <1>8 DEF Alone
<1>10. TotalRight'
  <2>1. Matching(users)' = Matching(users)
    BY <1>1 DEF Matching
  <2>2. ASSUME ~paging.lost, \A i \in DOMAIN muts : muts[i].answer # "ok"
        PROVE  paging.page.total = Cardinality(Matching(users))
    BY <1>1, <2>2 DEF UsersInv, TotalRight
  <2> QED
    BY <1>1, <1>3, <1>8, <2>1, <2>2 DEF TotalRight, Settled
<1> QED
  BY <1>4, <1>5, <1>6, <1>7, <1>9, <1>10 DEF UsersInv

\* A fetch fails.
LEMMA FailedFetchKeeps ==
  ASSUME UsersInv, Users!PagingFails
  PROVE  UsersInv'
<1>1. /\ paging.at # "none" /\ paging' = Users!NoPaging /\ late' = TRUE
      /\ UNCHANGED <<users, nextUser, key, got, page, muts, form, blurred>>
      /\ userSteps' = userSteps + 1
  BY DEF Users!PagingFails, Users!UserStep
<1>2. /\ UsersTypes /\ nextUser \in Nat /\ muts \in Seq(Mutations(nextUser))
      /\ page \in Pages(nextUser) /\ got \in BOOLEAN /\ blurred \in BOOLEAN
      /\ key \in Users!Keys /\ userSteps \in Nat
  BY DEF UsersInv, UsersTypes, UsersTyped, MutsTyped, PageTyped
<1>3. /\ paging' \in [at : {"none", "server", "answer"}, page : Pages(nextUser),
                      missed : SUBSET Nat, lost : BOOLEAN]
      /\ paging'.missed = {} /\ ~paging'.lost /\ paging'.at = "none"
  BY <1>1, <1>2, NothingAsked
<1>4. UsersTypes'
  <2>1. /\ key' \in Users!Keys /\ got' \in BOOLEAN /\ late' \in BOOLEAN /\ blurred' \in BOOLEAN
        /\ userSteps' \in Nat /\ page' \in Pages(nextUser) /\ muts' \in Seq(Mutations(nextUser))
        /\ form' = form
    BY <1>1, <1>2
  <2>2. UsersTyped' /\ PageTyped' /\ PagingTyped' /\ MutsTyped' /\ FormIsTyped'
    BY <1>1, <1>2, <1>3, <2>1, TypesStay
  <2> QED
    BY <2>2 DEF UsersTypes
<1>5. RowsSorted' /\ AnswersCurrent'
  BY <1>1, <1>3 DEF UsersInv, RowsSorted, AnswersCurrent
<1>6. RowsCovered' /\ TotalRight'
  BY <1>1, <1>3 DEF RowsCovered, TotalRight, Settled
<1>7. Alone'
  BY <1>1, FetchOverlaps DEF Alone
<1> QED
  BY <1>4, <1>5, <1>6, <1>7 DEF UsersInv

\* The steps of the dialog alone.
LEMMA DialogKeeps ==
  ASSUME UsersInv,
         UNCHANGED <<users, nextUser, key, got, page, paging, muts, late, blurred, userSteps>>,
         UsersTypes' 
  PROVE  UsersInv'
<1>1. RowsSorted' /\ AnswersCurrent' /\ Alone'
  BY DEF UsersInv, RowsSorted, AnswersCurrent, Alone
<1>2. RowsCovered'
  BY DEF UsersInv, RowsCovered, Settled, Covered, Mends
<1>3. TotalRight'
  BY DEF UsersInv, TotalRight, Settled, Matching, Before
<1> QED
  BY <1>1, <1>2, <1>3 DEF UsersInv

\* Opening, typing into and closing the dialog.
LEMMA EditingKeeps ==
  ASSUME UsersInv,
         \/ \E u \in Users!ToSet(page.rows) : Users!handleEdit(u, "row") \/ Users!handleEdit(u, "table")
         \/ Users!TypeNote \/ Users!handleEditModalClose \/ Users!CloseTimer
  PROVE  UsersInv'
<1>1. UNCHANGED <<users, nextUser, key, got, page, paging, muts, late, blurred, userSteps>>
  BY DEF Users!handleEdit, Users!TypeNote, Users!handleEditModalClose, Users!CloseTimer,
         Users!userGhosts
<1>2. /\ UsersTypes /\ muts \in Seq(Mutations(nextUser))
      /\ page \in Pages(nextUser) /\ got \in BOOLEAN /\ blurred \in BOOLEAN /\ late \in BOOLEAN
      /\ key \in Users!Keys /\ userSteps \in Nat
      /\ paging \in [at : {"none", "server", "answer"}, page : Pages(nextUser),
                      missed : SUBSET Nat, lost : BOOLEAN]
      /\ paging.at # "answer" => paging.missed = {} /\ ~paging.lost
  BY DEF UsersInv, UsersTypes, UsersTyped, MutsTyped, PageTyped, PagingTyped
<1>3. UsersTyped' /\ PageTyped' /\ PagingTyped' /\ MutsTyped'
  BY <1>1, <1>2, TypesStay
<1>4. FormIsTyped'
  <2>1. ASSUME NEW u \in Users!ToSet(page.rows), NEW by \in {"row", "table"},
               Users!handleEdit(u, by)
        PROVE  FormIsTyped'
    <3>1. u \in Users!User /\ 0 < u.id /\ u.id < nextUser
      BY <1>2, OnPage
    <3>2. /\ u.id \in Nat /\ u.status \in {"active", "disabled"} /\ u.note \in {"old", "new"}
      BY <3>1, UserFields
    <3>3. form' = [open |-> TRUE, by |-> by, user |-> {u.id}, status |-> u.status,
                   note |-> u.note, typed |-> FALSE, closing |-> FALSE]
      BY <2>1 DEF Users!handleEdit, Users!FormOpened
    <3> QED
      BY <1>1, <3>1, <3>2, <3>3 DEF FormIsTyped
  <2>2. CASE Users!TypeNote
    <3>1. form' = [form EXCEPT !.note = "new", !.typed = TRUE]
      BY <2>2 DEF Users!TypeNote
    <3> QED
      BY <1>1, <1>2, <3>1 DEF UsersTypes, FormIsTyped
  <2>3. CASE Users!handleEditModalClose
    BY <1>1, <1>2, <2>3, DialogStays DEF Users!handleEditModalClose
  <2>4. CASE Users!CloseTimer
    BY <1>1, <1>2, <2>4, DialogStays DEF Users!CloseTimer
  <2> QED
    BY <2>1, <2>2, <2>3, <2>4
<1>5. UsersTypes'
  BY <1>3, <1>4 DEF UsersTypes
<1> QED
  BY <1>1, <1>5, DialogKeeps

\* An operation is sent.
LEMMA AskKeeps ==
  ASSUME UsersInv, Asks
  PROVE  UsersInv'
<1>1. PICK op \in Ops, S \in SUBSET Users!User : Sendable(op, S) /\ Sent(op, S)
  BY DEF Asks
<1>2. /\ UNCHANGED <<users, nextUser, key, got, page, paging, late, blurred, form>>
      /\ userSteps' \in Nat
      /\ muts' \in Seq(Mutations(nextUser)) /\ Len(muts') = Len(muts) + 1
      /\ \A k \in DOMAIN muts : /\ k \in DOMAIN muts' /\ Alike(muts'[k], muts[k])
                                /\ muts'[k].stale = muts[k].stale /\ muts'[k].crossed
      /\ \A k \in DOMAIN muts' \ DOMAIN muts :
           /\ muts'[k].op = op /\ muts'[k].users = S /\ muts'[k].answer = "none"
           /\ ~muts'[k].crossed => paging.at = "none" /\ got /\ muts = <<>>
  BY <1>1 DEF Sent, Asks
<1>3. /\ UsersTypes /\ muts \in Seq(Mutations(nextUser))
      /\ page \in Pages(nextUser) /\ got \in BOOLEAN /\ blurred \in BOOLEAN /\ late \in BOOLEAN
      /\ key \in Users!Keys
      /\ paging \in [at : {"none", "server", "answer"}, page : Pages(nextUser),
                      missed : SUBSET Nat, lost : BOOLEAN]
      /\ paging.at # "answer" => paging.missed = {} /\ ~paging.lost
  BY DEF UsersInv, UsersTypes, UsersTyped, MutsTyped, PageTyped, PagingTyped
<1>4. UsersTypes'
  <2>1. UsersTyped' /\ PageTyped' /\ PagingTyped' /\ MutsTyped' /\ FormIsTyped'
    BY <1>2, <1>3, TypesStay
  <2> QED
    BY <2>1 DEF UsersTypes
<1>5. RowsSorted'
  BY <1>2 DEF UsersInv, RowsSorted
<1>6. AnswersCurrent'
  BY <1>2 DEF UsersInv, AnswersCurrent, Alike
<1>7. RowsCovered'
  <2>1. ASSUME NEW rows, NEW N, Covered(rows, N)
        PROVE  Covered(rows, N)'
    BY <1>2, <2>1 DEF Covered, Mends, Alike
  <2> QED
    BY <1>2, <2>1 DEF UsersInv, RowsCovered, Settled
<1>8. Alone'
  <2> SUFFICES ASSUME NEW i \in DOMAIN muts', ~muts'[i].crossed
               PROVE  /\ Len(muts') = 1 /\ paging'.at = "none" /\ got'
                      /\ muts'[i].op \in Deletes \cup {"reset"} =>
                           UserIds(muts'[i].users) \subseteq Users!IdsIn(page'.rows)
    BY DEF Alone
  <2>1. i \notin DOMAIN muts
    BY <1>2
  <2>2. paging.at = "none" /\ got /\ muts = <<>> /\ muts'[i].op = op /\ muts'[i].users = S
    BY <1>2, <2>1
  <2>3. Len(muts) = 0
    BY <2>2
  <2> QED
    BY <1>1, <1>2, <2>2, <2>3 DEF Sendable
<1>9. TotalRight'
  <2>1. Matching(users)' = Matching(users)
    BY <1>2 DEF Matching
  <2>2. (\A i \in DOMAIN muts' : muts'[i].answer # "ok") => \A i \in DOMAIN muts : muts[i].answer # "ok"
    BY <1>2 DEF Alike
  <2>3. ASSUME Settled, NEW i \in DOMAIN muts', ~muts'[i].crossed
        PROVE  muts'[i].answer = "none" /\ Users!IdsIn(page.rows) \subseteq Matching(users)
    <3>1. i \notin DOMAIN muts
      BY <1>2, <2>3
    <3>2. muts'[i].answer = "none" /\ muts = <<>>
      BY <1>2, <2>3, <3>1
    <3>3. Covered(page.rows, Nat)
      BY <2>3 DEF UsersInv, RowsCovered
    <3>4. \A u \in Users!ToSet(page.rows) : u \in users /\ Users!matchesUserFilters(u, key)
      BY <3>2, <3>3 DEF Covered
    <3> QED
      BY <3>2, <3>4 DEF Matching, Users!IdsIn
  <2>4. Settled' = Settled
    BY <1>2 DEF Settled
  <2>5. (\A i \in DOMAIN muts' : muts'[i].answer = "ok" => muts'[i].n \notin paging.missed)
          => \A i \in DOMAIN muts : muts[i].answer = "ok" => muts[i].n \notin paging.missed
    BY <1>2 DEF Alike
  <2>6. Settled' /\ ~blurred' =>
       /\ (\A i \in DOMAIN muts' : muts'[i].answer # "ok") => page'.total = Cardinality(Matching(users))
       /\ \A i \in DOMAIN muts' :
            ~muts'[i].crossed =>
              muts'[i].answer = "none" /\ Users!IdsIn(page'.rows) \subseteq Matching(users)
    BY <1>2, <2>2, <2>3, <2>4 DEF UsersInv, TotalRight
  <2>7. paging'.at = "answer" /\ ~paging'.lost =>
       ((\A i \in DOMAIN muts' : muts'[i].answer = "ok" => muts'[i].n \notin paging'.missed)
         => paging'.page.total = Cardinality(Matching(users)))
    BY <1>2, <2>5 DEF UsersInv, TotalRight
  <2> QED
    BY <2>1, <2>6, <2>7 DEF TotalRight
<1> QED
  BY <1>4, <1>5, <1>6, <1>7, <1>8, <1>9 DEF UsersInv

-----------------------------------------------------------------------------
(* Others and the server change what is stored.                            *)

\* Types are kept where users are written: more ids may have been given out.
LEMMA TypesMove ==
  ASSUME UsersTypes, nextUser' \in Nat, nextUser <= nextUser', People(users', nextUser'),
         UNCHANGED <<key, got, page, form, blurred>>, late' \in BOOLEAN, userSteps' \in Nat,
         muts' \in Seq(Mutations(nextUser')),
         paging' \in [at : {"none", "server", "answer"}, page : Pages(nextUser),
                      missed : SUBSET Nat, lost : BOOLEAN],
         paging'.at # "answer" => paging'.missed = {} /\ ~paging'.lost
  PROVE  UsersTypes'
<1>1. nextUser \in Nat \ {0}
  BY DEF UsersTypes, UsersTyped
<1>2. nextUser' \in Nat \ {0} /\ Pages(nextUser) \subseteq Pages(nextUser')
  BY <1>1, TypesGrow
<1>3. UsersTyped'
  BY <1>2 DEF UsersTypes, UsersTyped
<1>4. PageTyped'
  BY <1>2 DEF UsersTypes, PageTyped
<1>5. PagingTyped'
  BY <1>2 DEF PagingTyped
<1>6. MutsTyped'
  BY DEF MutsTyped
<1>7. FormIsTyped'
  <2>1. \A x \in form.user : 0 < x /\ x < nextUser'
    BY <1>1 DEF UsersTypes, FormIsTyped
  <2> QED
    BY <2>1 DEF UsersTypes, FormIsTyped
<1> QED
  BY <1>3, <1>4, <1>5, <1>6, <1>7 DEF UsersTypes

\* Someone else changes a user or deletes it.
LEMMA OthersKeep ==
  ASSUME UsersInv, Users!OthersChange
  PROVE  UsersInv'
<1>1. /\ late' = TRUE /\ userSteps' = userSteps + 1
      /\ paging' = IF paging.at = "answer" THEN [paging EXCEPT !.lost = TRUE] ELSE paging
      /\ UNCHANGED <<nextUser, key, got, page, form, blurred>>
  BY DEF Users!OthersChange, Users!UserStep
<1>2. PICK u \in users :
        /\ users' \in {Users!Without({u}),
                       Users!Without({u}) \cup {[u EXCEPT !.status = "disabled", !.note = "new"]}}
        /\ muts' = Users!Outdated(muts, {u})
  BY DEF Users!OthersChange
<1> DEFINE w == [u EXCEPT !.status = "disabled", !.note = "new"]
<1>3. /\ UsersTypes /\ muts \in Seq(Mutations(nextUser)) /\ nextUser \in Nat
      /\ People(users, nextUser) /\ userSteps \in Nat
      /\ paging \in [at : {"none", "server", "answer"}, page : Pages(nextUser),
                      missed : SUBSET Nat, lost : BOOLEAN]
      /\ paging.at # "answer" => paging.missed = {} /\ ~paging.lost
  BY DEF UsersInv, UsersTypes, UsersTyped, MutsTyped, PagingTyped
<1>4. w \in Users!User /\ w.id = u.id
  BY <1>3, UserFields DEF People
<1>5. Users!Without({u}) = {v \in users : v.id # u.id}
  BY DEF Users!Without
<1> HIDE DEF w
<1>6. People(users', nextUser)
  <2> DEFINE R == {v \in users : v.id # u.id}
  <2>1. IsFiniteSet(R) /\ IsFiniteSet(R \cup {w})
    <3>1. IsFiniteSet(R)
      BY <1>3, FS_Subset DEF People
    <3> QED
      BY <3>1, FS_AddElement
  <2>2. users' \in {R, R \cup {w}}
    BY <1>2, <1>5 DEF w
  <2>3. \A v \in R : v \in users /\ v.id # u.id
    OBVIOUS
  <2> HIDE DEF R
  <2>4. People(R, nextUser)
    BY <1>3, <2>1, <2>3 DEF People
  <2>5. People(R \cup {w}, nextUser)
    BY <1>3, <1>4, <2>1, <2>3 DEF People
  <2> QED
    BY <2>2, <2>4, <2>5
<1>7. /\ muts' \in Seq(Mutations(nextUser)) /\ DOMAIN muts' = DOMAIN muts /\ Len(muts') = Len(muts)
      /\ \A k \in DOMAIN muts : /\ Alike(muts'[k], muts[k]) /\ muts'[k].crossed = muts[k].crossed
                                /\ muts'[k].stale = (muts[k].stale \/ Touched(muts[k], {u}))
  BY <1>2, <1>3, OutdatedIs
<1>8. /\ paging' \in [at : {"none", "server", "answer"}, page : Pages(nextUser),
                      missed : SUBSET Nat, lost : BOOLEAN]
      /\ paging'.at = paging.at /\ paging'.page = paging.page
      /\ paging'.at # "answer" => paging'.missed = {} /\ ~paging'.lost
      /\ paging'.at = "answer" => paging'.lost
  BY <1>1, <1>3
<1>9. UsersTypes'
  <2>1. nextUser' \in Nat /\ nextUser <= nextUser' /\ late' \in BOOLEAN /\ userSteps' \in Nat
        /\ People(users', nextUser') /\ muts' \in Seq(Mutations(nextUser'))
    BY <1>1, <1>3, <1>6, <1>7
  <2> QED
    BY <1>1, <1>3, <1>8, <2>1, TypesMove
<1>10. RowsSorted'
  BY <1>1, <1>8 DEF UsersInv, RowsSorted
<1>11. AnswersCurrent'
  <2> SUFFICES ASSUME NEW k \in DOMAIN muts, muts[k].answer = "ok", muts[k].op \in Upserts,
                      ~muts[k].stale, ~Touched(muts[k], {u}), NEW v \in muts[k].users
               PROVE  v \in users'
    BY <1>7 DEF AnswersCurrent, Alike
  <2>1. v \in users
    BY DEF UsersInv, AnswersCurrent
  <2>2. v.id # u.id
    BY DEF Touched, UserIds
  <2> QED
    BY <1>2, <1>5, <2>1, <2>2
<1>12. RowsCovered' /\ TotalRight'
  BY <1>1, <1>8 DEF RowsCovered, TotalRight, Settled
<1>13. Alone'
  BY <1>1, <1>7, <1>8 DEF UsersInv, Alone, Alike
<1> QED
  BY <1>9, <1>10, <1>11, <1>12, <1>13 DEF UsersInv

\* What a step of the server leaves, whatever it is.
ServerLeaves(i, W) ==
  /\ UsersTypes' /\ RowsSorted'
  /\ \A k \in DOMAIN muts \ {i} :
       muts[k].answer = "ok" /\ ~muts'[k].stale =>
         ~muts[k].stale /\ UserIds(W) \cap UserIds(muts[k].users) = {}
  /\ paging'.at = paging.at /\ paging'.page = paging.page /\ paging'.lost = paging.lost
  /\ paging.at = "none" => paging' = paging
  /\ paging' = paging \/ (paging.at = "answer" => paging'.missed = paging.missed \cup {muts[i].n})

\* The server leaves types, order and fetch so.
LEMMA ServerSteps ==
  ASSUME UsersInv, NEW i \in DOMAIN muts, NEW W, Served(i, W),
         Users!Misses(muts[i].n) \/ paging' = paging,
         nextUser' \in Nat, nextUser <= nextUser', People(users', nextUser')
  PROVE  ServerLeaves(i, W)
<1>1. /\ UsersTypes /\ muts \in Seq(Mutations(nextUser))
      /\ userSteps \in Nat /\ late \in BOOLEAN
      /\ paging \in [at : {"none", "server", "answer"}, page : Pages(nextUser),
                      missed : SUBSET Nat, lost : BOOLEAN]
      /\ paging.at # "answer" => paging.missed = {} /\ ~paging.lost
  BY DEF UsersInv, UsersTypes, UsersTyped, MutsTyped, PagingTyped
<1>2. muts[i].n \in Nat
  BY <1>1, MutsAre, MutIs
<1>3. /\ paging' \in [at : {"none", "server", "answer"}, page : Pages(nextUser),
                      missed : SUBSET Nat, lost : BOOLEAN]
      /\ paging'.at # "answer" => paging'.missed = {} /\ ~paging'.lost
      /\ paging'.at = paging.at /\ paging'.page = paging.page /\ paging'.lost = paging.lost
      /\ paging.at = "none" => paging' = paging
      /\ paging' = paging \/ (paging.at = "answer" => paging'.missed = paging.missed \cup {muts[i].n})
  <2>1. CASE paging' = paging
    BY <1>1, <2>1
  <2>2. CASE Users!Misses(muts[i].n)
    <3> DEFINE n == muts[i].n
    <3>1. paging' = IF paging.at = "answer" THEN [paging EXCEPT !.missed = paging.missed \cup {n}] ELSE paging
      BY <2>2 DEF Users!Misses
    <3> HIDE DEF n
    <3>2. n \in Nat
      BY <1>2 DEF n
    <3>3. CASE paging.at = "answer"
      BY <1>1, <3>1, <3>2, <3>3 DEF n
    <3>4. CASE paging.at # "answer"
      BY <1>1, <3>1, <3>4
    <3> QED
      BY <3>3, <3>4
  <2> QED
    BY <2>1, <2>2
<1>4. /\ UNCHANGED <<key, got, page, form, late, blurred, userSteps>>
      /\ muts' \in Seq(Mutations(nextUser'))
      /\ \A k \in DOMAIN muts \ {i} : muts'[k].stale = (muts[k].stale \/ Touched(muts[k], W))
  BY DEF Served, Aged
<1>5. UsersTypes'
  BY <1>1, <1>3, <1>4, TypesMove
<1>6. RowsSorted'
  BY <1>3, <1>4 DEF UsersInv, RowsSorted
<1>7. \A k \in DOMAIN muts \ {i} :
       muts[k].answer = "ok" /\ ~muts'[k].stale =>
         ~muts[k].stale /\ UserIds(W) \cap UserIds(muts[k].users) = {}
  BY <1>4 DEF Touched
<1> QED
  BY <1>3, <1>5, <1>6, <1>7 DEF ServerLeaves

\* The server keeps what overlaps nothing so.
LEMMA ServerLeavesAlone ==
  ASSUME UsersInv, NEW i \in DOMAIN muts, NEW W, Served(i, W), ServerLeaves(i, W),
         muts'[i].op \in Deletes \cup {"reset"} =>
           muts[i].op \in Deletes \cup {"reset"} /\ UserIds(muts'[i].users) = UserIds(muts[i].users)
  PROVE  Alone'
<1>1. /\ DOMAIN muts' = DOMAIN muts /\ Len(muts') = Len(muts) /\ got' = got /\ page' = page
      /\ \A k \in DOMAIN muts \ {i} : Alike(muts'[k], muts[k]) /\ muts'[k].crossed = muts[k].crossed
      /\ muts'[i].crossed = muts[i].crossed
      /\ paging'.at = paging.at
  BY DEF Served, Aged, ServerLeaves
<1> SUFFICES ASSUME NEW k \in DOMAIN muts', ~muts'[k].crossed
             PROVE  /\ Len(muts') = 1 /\ paging'.at = "none" /\ got'
                    /\ muts'[k].op \in Deletes \cup {"reset"} =>
                         UserIds(muts'[k].users) \subseteq Users!IdsIn(page'.rows)
  BY DEF Alone
<1>2. ~muts[k].crossed /\ k \in DOMAIN muts
  BY <1>1
<1>3. /\ Len(muts) = 1 /\ paging.at = "none" /\ got
      /\ muts[k].op \in Deletes \cup {"reset"} =>
           UserIds(muts[k].users) \subseteq Users!IdsIn(page.rows)
  BY <1>2 DEF UsersInv, Alone
<1>4. CASE k = i
  BY <1>1, <1>3, <1>4
<1>5. CASE k # i
  BY <1>1, <1>2, <1>3, <1>5 DEF Alike
<1> QED
  BY <1>4, <1>5

\* The parts of a step of the server the lemmas below use.
LEMMA ServedIs ==
  ASSUME UsersInv, NEW i \in DOMAIN muts, NEW W, Served(i, W)
  PROVE  /\ DOMAIN muts' = DOMAIN muts /\ got' = got /\ page' = page /\ key' = key
         /\ late' = late /\ blurred' = blurred
         /\ \A k \in DOMAIN muts \ {i} : Alike(muts'[k], muts[k]) /\ muts'[k].crossed = muts[k].crossed
         /\ muts'[i].crossed = muts[i].crossed /\ muts'[i].n = muts[i].n
         /\ muts[i].answer = "none"
         /\ UsersTypes /\ People(users, nextUser) /\ nextUser \in Nat
         /\ muts[i] \in Mutations(nextUser)
BY MutsAre DEF Served, Aged, UsersInv

\* The only operation that overlaps nothing is the only one.
LEMMA OnlyOne ==
  ASSUME UsersInv, NEW i \in DOMAIN muts, NEW k \in DOMAIN muts, ~muts[k].crossed
  PROVE  i = k /\ paging.at = "none"
<1>1. Len(muts) = 1 /\ paging.at = "none"
  BY DEF UsersInv, Alone
<1>2. DOMAIN muts = 1 .. 1
  BY <1>1, MutsAre DEF UsersInv
<1> QED
  BY <1>1, <1>2

\* The users are gone: the operation fails.
LEMMA RefusalKeeps ==
  ASSUME UsersInv, NEW i \in DOMAIN muts, ServedFailed(i)
  PROVE  UsersInv'
<1>1. /\ Served(i, {}) /\ UNCHANGED <<users, nextUser, paging>>
      /\ muts'[i].op = muts[i].op /\ muts'[i].answer = "failed" /\ muts'[i].users = muts[i].users
      /\ ~(UserIds(muts[i].users) \subseteq UserIds(users))
  BY DEF ServedFailed
<1>2. /\ DOMAIN muts' = DOMAIN muts /\ got' = got /\ page' = page /\ key' = key
      /\ late' = late /\ blurred' = blurred
      /\ \A k \in DOMAIN muts \ {i} : Alike(muts'[k], muts[k]) /\ muts'[k].crossed = muts[k].crossed
      /\ muts'[i].crossed = muts[i].crossed /\ muts'[i].n = muts[i].n
      /\ muts[i].answer = "none"
      /\ UsersTypes /\ People(users, nextUser) /\ nextUser \in Nat
      /\ muts[i] \in Mutations(nextUser)
  BY <1>1, ServedIs
<1>3. ServerLeaves(i, {})
  <2>1. nextUser' \in Nat /\ nextUser <= nextUser' /\ People(users', nextUser')
    BY <1>1, <1>2
  <2>2. paging' = paging
    BY <1>1
  <2> QED
    BY <1>1, <2>1, <2>2, ServerSteps
<1>4. Alone'
  BY <1>1, <1>3, ServerLeavesAlone
<1>5. AnswersCurrent'
  <2> SUFFICES ASSUME NEW k \in DOMAIN muts', muts'[k].answer = "ok", ~muts'[k].stale,
                      muts'[k].op \in Upserts
               PROVE  muts'[k].users \subseteq users'
    BY DEF AnswersCurrent
  <2>1. k \in DOMAIN muts \ {i}
    BY <1>1, <1>2
  <2>2. /\ muts[k].answer = "ok" /\ muts[k].op \in Upserts /\ muts'[k].users = muts[k].users
        /\ ~muts[k].stale
    BY <1>2, <1>3, <2>1 DEF Alike, ServerLeaves
  <2> QED
    BY <1>1, <2>1, <2>2 DEF UsersInv, AnswersCurrent
<1>6. \A u : ~Mends(muts[i], u, users)
  <2> SUFFICES ASSUME NEW u, Mends(muts[i], u, users)
               PROVE  FALSE
    OBVIOUS
  <2>1. muts[i].op = "second" /\ u.id \in UserIds(muts[i].users) /\ u.id \in UserIds(users)
    BY <1>2 DEF Mends
  <2>2. \E v \in muts[i].users : muts[i].users = {v}
    BY <1>2, <2>1, MutIs
  <2>3. UserIds(muts[i].users) = {u.id}
    BY <2>1, <2>2 DEF UserIds
  <2> QED
    BY <1>1, <2>1, <2>3
<1>7. ASSUME NEW rows, NEW N, Covered(rows, N)
      PROVE  Covered(rows, N)'
  BY <1>1, <1>2, <1>6, <1>7 DEF Covered, Mends, Alike
<1>8. RowsCovered'
  BY <1>1, <1>2, <1>7 DEF UsersInv, RowsCovered, Settled
<1>9. TotalRight'
  <2>1. Matching(users)' = Matching(users) /\ Settled' = Settled
    BY <1>1, <1>2 DEF Matching, Settled
  <2>2. (\A k \in DOMAIN muts' : muts'[k].answer # "ok") => \A k \in DOMAIN muts : muts[k].answer # "ok"
    BY <1>2 DEF Alike
  <2>3. ASSUME NEW k \in DOMAIN muts', ~muts'[k].crossed
        PROVE  muts'[k].answer = "failed"
    <3>1. k \in DOMAIN muts /\ ~muts[k].crossed
      BY <1>2, <2>3
    <3>2. k = i
      BY <3>1, OnlyOne
    <3> QED
      BY <1>1, <3>2
  <2>4. (\A k \in DOMAIN muts' : muts'[k].answer = "ok" => muts'[k].n \notin paging.missed)
          => \A k \in DOMAIN muts : muts[k].answer = "ok" => muts[k].n \notin paging.missed
    BY <1>2 DEF Alike
  <2>5. Settled' /\ ~blurred' =>
          ((\A k \in DOMAIN muts' : muts'[k].answer # "ok") => page'.total = Cardinality(Matching(users)))
    BY <1>2, <2>1, <2>2 DEF UsersInv, TotalRight
  <2>6. paging'.at = "answer" /\ ~paging'.lost =>
       ((\A k \in DOMAIN muts' : muts'[k].answer = "ok" => muts'[k].n \notin paging'.missed)
         => paging'.page.total = Cardinality(Matching(users)))
    BY <1>1, <2>4 DEF UsersInv, TotalRight
  <2> QED
    BY <2>1, <2>3, <2>5, <2>6 DEF TotalRight
<1> QED
  BY <1>3, <1>4, <1>5, <1>8, <1>9 DEF UsersInv, ServerLeaves

\* The rows stay covered: those the server changed by the operation's own answer.
LEMMA CoverMoves ==
  ASSUME UsersInv, NEW i \in DOMAIN muts, NEW W, Served(i, W), ServerLeaves(i, W),
         Users!Misses(muts[i].n),
         \A v \in users : v \in users' \/ Mends(muts'[i], v, users'),
         \A v \in Users!User, k \in DOMAIN muts \ {i} :
           Mends(muts[k], v, users) /\ v.id < nextUser =>
             Mends(muts'[k], v, users') \/ Mends(muts'[i], v, users'),
         \A v \in Users!User : Mends(muts[i], v, users) => Mends(muts'[i], v, users')
  PROVE  RowsCovered'
<1>1. /\ DOMAIN muts' = DOMAIN muts /\ got' = got /\ page' = page /\ key' = key
      /\ late' = late
      /\ \A k \in DOMAIN muts \ {i} : Alike(muts'[k], muts[k])
      /\ muts'[i].n = muts[i].n
      /\ UsersTypes /\ nextUser \in Nat
      /\ muts[i] \in Mutations(nextUser)
  BY ServedIs
<1>2. \A k \in DOMAIN muts : muts'[k].n = muts[k].n
  BY <1>1 DEF Alike
<1>3. ASSUME NEW p \in Pages(nextUser), NEW N, NEW O, N \subseteq O, muts[i].n \in O,
             Covered(p.rows, N)
      PROVE  \A v \in Users!ToSet(p.rows) :
               \/ v \in users' /\ Users!matchesUserFilters(v, key)
               \/ \E k \in DOMAIN muts' : muts'[k].n \in O /\ Mends(muts'[k], v, users')
  <2> SUFFICES ASSUME NEW v \in Users!ToSet(p.rows)
               PROVE  \/ v \in users' /\ Users!matchesUserFilters(v, key)
                      \/ \E k \in DOMAIN muts' : muts'[k].n \in O /\ Mends(muts'[k], v, users')
    OBVIOUS
  <2>1. CASE v \in users /\ Users!matchesUserFilters(v, key)
    BY <1>1, <1>2, <1>3, <2>1
  <2>2. ASSUME NEW k \in DOMAIN muts, muts[k].n \in N, Mends(muts[k], v, users)
        PROVE  \E l \in DOMAIN muts' : muts'[l].n \in O /\ Mends(muts'[l], v, users')
    <3>1. v \in Users!User /\ v.id < nextUser
      BY RowsAsSet DEF People
    <3>2. CASE k = i
      <4>1. Mends(muts'[i], v, users')
        BY <2>2, <3>1, <3>2
      <4> QED
        BY <1>1, <1>2, <1>3, <4>1
    <3>3. CASE k # i
      <4>1. Mends(muts'[k], v, users') \/ Mends(muts'[i], v, users')
        BY <2>2, <3>1, <3>3
      <4>2. muts'[k].n \in O /\ muts'[i].n \in O
        BY <1>2, <1>3, <2>2
      <4> QED
        BY <1>1, <4>1, <4>2
    <3> QED
      BY <3>2, <3>3
  <2> QED
    BY <1>3, <2>1, <2>2 DEF Covered
<1>4. /\ page \in Pages(nextUser) /\ paging.page \in Pages(nextUser)
      /\ paging'.at = paging.at /\ paging'.page = paging.page /\ paging'.lost = paging.lost
  BY <1>1 DEF UsersTypes, PageTyped, PagingTyped, ServerLeaves
<1>5. ASSUME paging.at = "answer"
      PROVE  paging.missed \subseteq paging'.missed /\ muts[i].n \in paging'.missed
  <2> DEFINE n == muts[i].n
  <2>1. paging' = [paging EXCEPT !.missed = paging.missed \cup {n}]
    BY <1>5 DEF Users!Misses
  <2> HIDE DEF n
  <2>2. paging'.missed = paging.missed \cup {n}
    BY <1>1, <2>1 DEF UsersTypes, PagingTyped
  <2> QED
    BY <2>2 DEF n
<1>6. muts[i].n \in Nat
  BY <1>1, MutIs
<1>7. ASSUME Settled
      PROVE  \A v \in Users!ToSet(page.rows) :
               \/ v \in users' /\ Users!matchesUserFilters(v, key)
               \/ \E k \in DOMAIN muts' : muts'[k].n \in Nat /\ Mends(muts'[k], v, users')
  <2>1. Covered(page.rows, Nat) /\ Nat \subseteq Nat
    BY <1>7 DEF UsersInv, RowsCovered
  <2> QED
    BY <1>3, <1>4, <1>6, <2>1
<1>8. ASSUME paging.at = "answer", ~paging.lost
      PROVE  \A v \in Users!ToSet(paging.page.rows) :
               \/ v \in users' /\ Users!matchesUserFilters(v, key)
               \/ \E k \in DOMAIN muts' : muts'[k].n \in paging'.missed /\ Mends(muts'[k], v, users')
  <2> DEFINE p == paging.page
  <2>1. p \in Pages(nextUser) /\ Covered(p.rows, paging.missed)
    BY <1>4, <1>8 DEF UsersInv, RowsCovered
  <2> HIDE DEF p
  <2>2. \A v \in Users!ToSet(p.rows) :
               \/ v \in users' /\ Users!matchesUserFilters(v, key)
               \/ \E k \in DOMAIN muts' : muts'[k].n \in paging'.missed /\ Mends(muts'[k], v, users')
    BY <1>3, <1>5, <1>8, <2>1
  <2> QED
    BY <2>2 DEF p
<1>9. Settled' = Settled
  BY <1>1, <1>4 DEF Settled
<1>10. Settled => Covered(page.rows, Nat)'
  BY <1>1, <1>7 DEF Covered, Users!matchesUserFilters
<1>11. paging.at = "answer" /\ ~paging.lost => Covered(paging.page.rows, paging.missed)'
  BY <1>1, <1>4, <1>8 DEF Covered, Users!matchesUserFilters
<1> QED
  BY <1>4, <1>9, <1>10, <1>11 DEF RowsCovered

\* The total is right again once the operation's answer is in.
LEMMA TotalMoves ==
  ASSUME UsersInv, NEW i \in DOMAIN muts, NEW W, Served(i, W), ServerLeaves(i, W),
         Users!Misses(muts[i].n), muts'[i].answer = "ok",
         NEW K \in SUBSET Nat, K = Matching(users),
         (/\ Users!IdsIn(page.rows) \subseteq K /\ IsFiniteSet(K) /\ page.total = Cardinality(K)
          /\ muts'[i].op # "bulk_disable")
           => Before(muts'[i], K, page, Matching(users)')
  PROVE  TotalRight'
<1>1. /\ DOMAIN muts' = DOMAIN muts /\ got' = got /\ page' = page /\ key' = key
      /\ late' = late /\ blurred' = blurred
      /\ \A k \in DOMAIN muts \ {i} : Alike(muts'[k], muts[k]) /\ muts'[k].crossed = muts[k].crossed
      /\ muts'[i].crossed = muts[i].crossed /\ muts'[i].n = muts[i].n
      /\ muts[i].answer = "none"
      /\ UsersTypes /\ People(users, nextUser) /\ nextUser \in Nat
  BY ServedIs
<1>2. Settled' = Settled /\ paging'.at = paging.at
  BY <1>1 DEF Settled, ServerLeaves
<1>3. ASSUME paging'.at = "answer"
      PROVE  muts'[i].n \in paging'.missed
  <2>1. paging.at = "answer"
    BY <1>2, <1>3
  <2> DEFINE n == muts[i].n
  <2>2. muts'[i].n = n /\ paging' = [paging EXCEPT !.missed = paging.missed \cup {n}]
    BY <1>1, <2>1 DEF Users!Misses
  <2> HIDE DEF n
  <2>3. paging'.missed = paging.missed \cup {n}
    BY <1>1, <2>2 DEF UsersTypes, PagingTyped
  <2> QED
    BY <2>2, <2>3
<1>4. i \in DOMAIN muts' /\ muts'[i].answer = "ok"
  BY <1>1
<1>5. ASSUME Settled, ~blurred, NEW k \in DOMAIN muts', ~muts'[k].crossed
      PROVE  /\ muts'[k].answer = "ok"
             /\ muts'[k].op # "bulk_disable" =>
                  \E M \in SUBSET Nat : Before(muts'[k], M, page, Matching(users)')
  <2>1. k \in DOMAIN muts /\ ~muts[k].crossed
    BY <1>1, <1>5
  <2>2. k = i
    BY <2>1, OnlyOne
  <2>3. \A j \in DOMAIN muts : muts[j].answer = "none"
    BY <1>1, <2>1, <2>2, OnlyOne
  <2>4. Users!IdsIn(page.rows) \subseteq K /\ page.total = Cardinality(K)
    BY <1>5, <2>1, <2>3 DEF UsersInv, TotalRight
  <2>5. IsFiniteSet(K)
    BY <1>1, MatchingIs
  <2> QED
    BY <2>2, <2>4, <2>5
<1> QED
  BY <1>1, <1>2, <1>3, <1>4, <1>5 DEF TotalRight

\* A user is created.
LEMMA CreationKeeps ==
  ASSUME UsersInv, NEW i \in DOMAIN muts, NEW u \in Users!User, ServedCreate(i, u)
  PROVE  UsersInv'
<1>1. /\ Served(i, {u}) /\ u.id = nextUser
      /\ muts[i].op = "create"
      /\ muts'[i].op = "create" /\ muts'[i].answer = "ok" /\ muts'[i].users = {u}
      /\ users' = users \cup {u} /\ nextUser' = nextUser + 1
      /\ Users!Misses(muts[i].n)
  BY DEF ServedCreate
<1>2. /\ DOMAIN muts' = DOMAIN muts /\ key' = key
      /\ \A k \in DOMAIN muts \ {i} : Alike(muts'[k], muts[k])
      /\ muts[i].answer = "none"
      /\ UsersTypes /\ People(users, nextUser) /\ nextUser \in Nat
  BY <1>1, ServedIs
<1>3. \A v \in users : v.id # u.id /\ v.id < nextUser /\ v.id \in Nat
  <2>1. \A v \in users : v.id < nextUser /\ v.id \in Nat
    BY <1>2, UserFields DEF People
  <2> QED
    BY <1>1, <1>2, <2>1
<1>4. ServerLeaves(i, {u})
  <2>1. nextUser \in Nat \ {0}
    BY <1>2, MutsAre
  <2>2. IsFiniteSet(users')
    BY <1>1, <1>2, FS_AddElement DEF People
  <2>3. \A v \in users' : 0 < v.id /\ v.id < nextUser'
    <3>1. \A v \in users : 0 < v.id
      BY <1>2 DEF People
    <3> QED
      BY <1>1, <1>3, <2>1, <3>1
  <2>4. \A v, w \in users' : v.id = w.id => v = w
    BY <1>1, <1>2, <1>3 DEF People
  <2>5. users' \subseteq Users!User
    BY <1>1, <1>2 DEF People
  <2>6. nextUser' \in Nat /\ nextUser <= nextUser' /\ People(users', nextUser')
    <3>1. nextUser' \in Nat /\ nextUser <= nextUser'
      BY <1>1, <1>2
    <3> QED
      BY <2>2, <2>3, <2>4, <2>5, <3>1 DEF People
  <2> QED
    BY <1>1, <2>6, ServerSteps
<1>5. Alone'
  BY <1>1, <1>4, ServerLeavesAlone DEF Deletes
<1>6. AnswersCurrent'
  <2> SUFFICES ASSUME NEW k \in DOMAIN muts', muts'[k].answer = "ok", ~muts'[k].stale,
                      muts'[k].op \in Upserts
               PROVE  muts'[k].users \subseteq users'
    BY DEF AnswersCurrent
  <2>1. CASE k = i
    BY <1>1, <2>1
  <2>2. CASE k # i
    <3>1. /\ k \in DOMAIN muts \ {i} /\ muts[k].answer = "ok" /\ muts[k].op \in Upserts
          /\ muts'[k].users = muts[k].users /\ ~muts[k].stale
      BY <1>2, <1>4, <2>2 DEF Alike, ServerLeaves
    <3> QED
      BY <1>1, <3>1 DEF UsersInv, AnswersCurrent
  <2> QED
    BY <2>1, <2>2
<1>7. RowsCovered'
  <2>1. \A v \in users : v \in users'
    BY <1>1
  <2>2. ASSUME NEW v \in Users!User, NEW k \in DOMAIN muts \ {i}, Mends(muts[k], v, users),
               v.id < nextUser
        PROVE  Mends(muts'[k], v, users')
    <3>1. v.id \in Nat
      BY UserFields
    <3>2. v.id \in UserIds(users) <=> v.id \in UserIds(users')
      BY <1>1, <1>2, <2>2, <3>1 DEF UserIds
    <3> QED
      BY <1>2, <2>2, <3>2 DEF Mends, Alike
  <2>3. \A v \in Users!User : ~Mends(muts[i], v, users)
    BY <1>1, <1>2 DEF Mends
  <2> QED
    BY <1>1, <1>4, <2>1, <2>2, <2>3, CoverMoves
<1>8. TotalRight'
  <2> DEFINE K == Matching(users)
             L == Matching(users)'
  <2>1. K \in SUBSET Nat
    BY <1>2, MatchingIs
  <2>2. u.id \notin K
    BY <1>3 DEF Matching
  <2>3. L \ {u.id} = K \ {u.id}
    BY <1>1, <1>2 DEF Matching
  <2>4. K = Matching(users) /\ L = Matching(users)'
    OBVIOUS
  <2> HIDE DEF K, L
  <2>5. Users!IdsIn(page.rows) \subseteq K /\ IsFiniteSet(K) /\ page.total = Cardinality(K)
          => Before(muts'[i], K, page, L)
    BY <1>1, <2>2, <2>3 DEF Before, Deletes
  <2> QED
    BY <1>1, <1>4, <2>1, <2>4, <2>5, TotalMoves
<1> QED
  BY <1>4, <1>5, <1>6, <1>7, <1>8 DEF UsersInv, ServerLeaves

\* Users are deleted.
LEMMA DeletionKeeps ==
  ASSUME UsersInv, NEW i \in DOMAIN muts, ServedDelete(i)
  PROVE  UsersInv'
<1> DEFINE X == UserIds(muts[i].users)
           op == muts[i].op
<1>1. /\ Served(i, muts[i].users) /\ op \in Deletes
      /\ X \subseteq UserIds(users)
      /\ muts'[i].op = op /\ muts'[i].answer = "ok" /\ muts'[i].users = muts[i].users
      /\ users' = {v \in users : v.id \notin X} /\ nextUser' = nextUser
      /\ Users!Misses(muts[i].n)
  BY DEF ServedDelete
<1>2. /\ DOMAIN muts' = DOMAIN muts /\ key' = key
      /\ \A k \in DOMAIN muts \ {i} : Alike(muts'[k], muts[k])
      /\ muts[i].answer = "none"
      /\ UsersTypes /\ People(users, nextUser) /\ nextUser \in Nat
  BY <1>1, ServedIs
<1>3. op \notin Upserts /\ op # "second" /\ op # "create"
  BY <1>1 DEF Deletes, Upserts
<1>4. ServerLeaves(i, muts[i].users)
  <2>1. nextUser' \in Nat /\ nextUser <= nextUser' /\ People(users', nextUser')
    BY <1>1, <1>2, PeoplePart
  <2> DEFINE W == muts[i].users
  <2>2. Served(i, W)
    BY <1>1
  <2> HIDE DEF W
  <2>3. ServerLeaves(i, W)
    BY <1>1, <2>1, <2>2, ServerSteps
  <2> QED
    BY <2>3 DEF W
<1>5. Alone'
  <2> DEFINE W == muts[i].users
  <2>1. /\ Served(i, W) /\ ServerLeaves(i, W)
        /\ muts'[i].op = muts[i].op /\ UserIds(muts'[i].users) = UserIds(muts[i].users)
    BY <1>1, <1>4
  <2> HIDE DEF W
  <2> QED
    BY <2>1, ServerLeavesAlone
<1>6. AnswersCurrent'
  <2> SUFFICES ASSUME NEW k \in DOMAIN muts', muts'[k].answer = "ok", ~muts'[k].stale,
                      muts'[k].op \in Upserts
               PROVE  muts'[k].users \subseteq users'
    BY DEF AnswersCurrent
  <2>1. k # i
    BY <1>1, <1>3
  <2>2. /\ k \in DOMAIN muts \ {i} /\ muts[k].answer = "ok" /\ muts[k].op \in Upserts
        /\ muts'[k].users = muts[k].users /\ ~muts[k].stale
        /\ X \cap UserIds(muts[k].users) = {}
    BY <1>2, <1>4, <2>1 DEF Alike, ServerLeaves
  <2>3. muts[k].users \subseteq users
    BY <2>2 DEF UsersInv, AnswersCurrent
  <2> HIDE DEF X
  <2> QED
    BY <1>1, <2>2, <2>3 DEF UserIds
<1>7. \A v : v.id \in X => Mends(muts'[i], v, users')
  BY <1>1 DEF Mends, UserIds
<1> HIDE DEF X
<1>8. RowsCovered'
  <2>1. \A v \in users : v \in users' \/ Mends(muts'[i], v, users')
    BY <1>1, <1>7
  <2>2. ASSUME NEW v \in Users!User, NEW k \in DOMAIN muts \ {i}, Mends(muts[k], v, users)
        PROVE  Mends(muts'[k], v, users') \/ Mends(muts'[i], v, users')
    <3>1. CASE v.id \in X
      BY <1>7, <3>1
    <3>2. CASE v.id \notin X
      <4>1. v.id \in UserIds(users) <=> v.id \in UserIds(users')
        BY <1>1, <3>2 DEF UserIds
      <4> QED
        BY <1>2, <2>2, <4>1 DEF Mends, Alike
    <3> QED
      BY <3>1, <3>2
  <2>3. \A v \in Users!User : ~Mends(muts[i], v, users)
    BY <1>2, <1>3 DEF Mends
  <2> DEFINE W == muts[i].users
  <2>4. Served(i, W) /\ ServerLeaves(i, W) /\ Users!Misses(muts[i].n)
    BY <1>1, <1>4
  <2> HIDE DEF W
  <2> QED
    BY <2>1, <2>2, <2>3, <2>4, CoverMoves
<1>9. TotalRight'
  <2> DEFINE K == Matching(users)
             L == Matching(users)'
             W == muts[i].users
  <2>1. K \in SUBSET Nat
    BY <1>2, MatchingIs
  <2>2. L = K \ X
    BY <1>1, <1>2 DEF Matching
  <2>3. K = Matching(users) /\ L = Matching(users)' /\ muts'[i].answer = "ok"
    BY <1>1
  <2>4. Served(i, W) /\ ServerLeaves(i, W) /\ Users!Misses(muts[i].n)
    BY <1>1, <1>4
  <2>5. muts'[i].op \notin Upserts /\ UserIds(muts'[i].users) = X
    BY <1>1, <1>3 DEF X
  <2> HIDE DEF K, L, W
  <2>6. Users!IdsIn(page.rows) \subseteq K /\ IsFiniteSet(K) /\ page.total = Cardinality(K)
          => Before(muts'[i], K, page, L)
    BY <2>2, <2>5 DEF Before
  <2> QED
    BY <2>1, <2>3, <2>4, <2>6, TotalMoves
<1> QED
  BY <1>4, <1>5, <1>6, <1>8, <1>9 DEF UsersInv, ServerLeaves

\* What holds of users that were written over.
LEMMA WriteOver ==
  ASSUME UsersInv, NEW i \in DOMAIN muts, NEW S \in SUBSET Users!User, ServedChange(i, S)
  PROVE  /\ Served(i, S) /\ ServerLeaves(i, S) /\ Users!Misses(muts[i].n)
         /\ UserIds(users') = UserIds(users)
         /\ \A v \in users : v \in users' \/ v.id \in UserIds(S)
         /\ \A k \in DOMAIN muts \ {i} :
              muts'[k].answer = "ok" /\ ~muts'[k].stale /\ muts'[k].op \in Upserts
                => muts'[k].users \subseteq users'
         /\ DOMAIN muts' = DOMAIN muts /\ key' = key
         /\ UsersTypes
<1>1. /\ Served(i, S) /\ IsFiniteSet(S)
      /\ \A u, v \in S : u.id = v.id => u = v
      /\ UserIds(S) \subseteq UserIds(users)
      /\ users' = {v \in users : v.id \notin UserIds(S)} \cup S /\ nextUser' = nextUser
      /\ Users!Misses(muts[i].n)
  BY DEF ServedChange
<1>2. /\ DOMAIN muts' = DOMAIN muts /\ key' = key
      /\ \A k \in DOMAIN muts \ {i} : Alike(muts'[k], muts[k])
      /\ UsersTypes /\ People(users, nextUser) /\ nextUser \in Nat
  BY <1>1, ServedIs
<1>3. People(users', nextUser')
  <2> DEFINE R == {v \in users : v.id \notin UserIds(S)}
  <2>1. IsFiniteSet(R) /\ IsFiniteSet(R \cup S)
    <3>1. IsFiniteSet(R)
      BY <1>2, FS_Subset DEF People
    <3> QED
      BY <1>1, <3>1, FS_Union
  <2>2. \A v \in S : 0 < v.id /\ v.id < nextUser
    BY <1>1, <1>2 DEF UserIds, People
  <2>3. \A v \in R, w \in S : v.id # w.id
    BY DEF UserIds
  <2>4. \A v \in R : v \in users
    OBVIOUS
  <2>5. users' = R \cup S
    BY <1>1
  <2> HIDE DEF R
  <2>6. People(R \cup S, nextUser)
    BY <1>1, <1>2, <2>1, <2>2, <2>3, <2>4 DEF People
  <2> QED
    BY <1>1, <2>5, <2>6
<1>4. ServerLeaves(i, S)
  <2>1. nextUser' \in Nat /\ nextUser <= nextUser'
    BY <1>1, <1>2
  <2> QED
    BY <1>1, <1>3, <2>1, ServerSteps
<1>5. UserIds(users') = UserIds(users)
  BY <1>1 DEF UserIds
<1>6. \A v \in users : v \in users' \/ v.id \in UserIds(S)
  BY <1>1
<1>7. ASSUME NEW k \in DOMAIN muts \ {i}, muts'[k].answer = "ok", ~muts'[k].stale,
             muts'[k].op \in Upserts
      PROVE  muts'[k].users \subseteq users'
  <2>2. /\ muts[k].answer = "ok" /\ muts[k].op \in Upserts
        /\ muts'[k].users = muts[k].users /\ ~muts[k].stale
        /\ UserIds(S) \cap UserIds(muts[k].users) = {}
    BY <1>2, <1>4, <1>7 DEF Alike, ServerLeaves
  <2>3. muts[k].users \subseteq users
    BY <2>2 DEF UsersInv, AnswersCurrent
  <2>4. \A v \in muts[k].users : v.id \notin UserIds(S)
    BY <2>2 DEF UserIds
  <2> QED
    BY <1>6, <2>2, <2>3, <2>4
<1> QED
  BY <1>1, <1>2, <1>4, <1>5, <1>6, <1>7

\* Users are changed, and the answer is under way.
LEMMA ChangeKeeps ==
  ASSUME UsersInv, NEW i \in DOMAIN muts, NEW S \in SUBSET Users!User, ServedChange(i, S),
         muts[i].op # "both"
  PROVE  UsersInv'
<1>1. /\ muts[i].op \in Ops \ (Deletes \cup {"create"})
      /\ UserIds(S) = UserIds(muts[i].users)
      /\ users' = {v \in users : v.id \notin UserIds(S)} \cup S
      /\ muts'[i].op = muts[i].op /\ muts'[i].answer = "ok" /\ muts'[i].users = S
  BY DEF ServedChange
<1>2. /\ Served(i, S) /\ ServerLeaves(i, S) /\ Users!Misses(muts[i].n)
      /\ UserIds(users') = UserIds(users)
      /\ \A v \in users : v \in users' \/ v.id \in UserIds(S)
      /\ \A k \in DOMAIN muts \ {i} :
           muts'[k].answer = "ok" /\ ~muts'[k].stale /\ muts'[k].op \in Upserts
             => muts'[k].users \subseteq users'
      /\ DOMAIN muts' = DOMAIN muts /\ key' = key
      /\ UsersTypes
  BY WriteOver
<1>3. /\ \A k \in DOMAIN muts \ {i} : Alike(muts'[k], muts[k])
      /\ People(users, nextUser) /\ muts[i] \in Mutations(nextUser)
      /\ muts' \in Seq(Mutations(nextUser'))
  <2>1. muts' \in Seq(Mutations(nextUser'))
    BY <1>2 DEF Served, Aged
  <2> QED
    BY <1>2, <2>1, ServedIs
<1>4. Alone'
  BY <1>1, <1>2, ServerLeavesAlone
<1>5. AnswersCurrent'
  BY <1>1, <1>2 DEF AnswersCurrent
<1>6. \A v : v.id \in UserIds(S) => Mends(muts'[i], v, users')
  <2>1. UserIds(S) \subseteq UserIds(users')
    BY <1>1 DEF UserIds
  <2> QED
    BY <1>1, <2>1 DEF Mends
<1>7. RowsCovered'
  <2>1. \A v \in users : v \in users' \/ Mends(muts'[i], v, users')
    BY <1>2, <1>6
  <2>2. ASSUME NEW v \in Users!User, NEW k \in DOMAIN muts \ {i}, Mends(muts[k], v, users)
        PROVE  Mends(muts'[k], v, users') \/ Mends(muts'[i], v, users')
    BY <1>2, <1>3, <2>2 DEF Mends, Alike
  <2>3. \A v \in Users!User : Mends(muts[i], v, users) => Mends(muts'[i], v, users')
    BY <1>1, <1>6 DEF Mends
  <2> QED
    BY <1>2, <2>1, <2>2, <2>3, CoverMoves
<1>8. TotalRight'
  <2> DEFINE K == Matching(users)
             L == Matching(users)'
  <2>1. K \in SUBSET Nat
    BY <1>3, MatchingIs
  <2>2. K \ UserIds(S) = L \ UserIds(S)
    <3>1. \A v \in users : v.id \notin UserIds(S) => v \in users'
      BY <1>2
    <3>2. \A v \in users' : v.id \notin UserIds(S) => v \in users
      BY <1>1 DEF UserIds
    <3> QED
      BY <1>2, <3>1, <3>2 DEF Matching
  <2>3. K = Matching(users) /\ L = Matching(users)'
    OBVIOUS
  <2> HIDE DEF K, L
  <2>4. CASE muts'[i].op = "bulk_disable"
    BY <1>1, <1>2, <2>1, <2>3, <2>4, TotalMoves
  <2>5. CASE muts'[i].op # "bulk_disable"
    <3>1. \E u \in S : S = {u}
      <4>1. \E u \in muts[i].users : muts[i].users = {u}
        <5> DEFINE m == muts[i]
        <5>1. m.op \notin {"bulk_delete", "bulk_disable"} /\ m \in Mutations(nextUser)
          BY <1>1, <1>3, <2>5 DEF Deletes
        <5> HIDE DEF m
        <5>2. \E u \in m.users : m.users = {u}
          BY <5>1, MutIs
        <5> QED
          BY <5>2 DEF m
      <4>2. \A u, v \in S : u.id = v.id => u = v
        BY DEF ServedChange
      <4>3. PICK x : UserIds(S) = {x}
        <5>1. PICK w \in muts[i].users : muts[i].users = {w}
          BY <4>1
        <5>2. UserIds(muts[i].users) = {w.id}
          BY <5>1 DEF UserIds
        <5> QED
          BY <1>1, <5>2
      <4>4. \A u \in S : u.id = x
        BY <4>3 DEF UserIds
      <4>5. \E u \in S : u.id = x
        BY <4>3 DEF UserIds
      <4> QED
        BY <4>2, <4>4, <4>5
    <3>2. PICK u \in S : S = {u}
      BY <3>1
    <3>3. UserIds(S) = {u.id}
      BY <3>2 DEF UserIds
    <3>4. muts'[i].op # "create" /\ muts'[i].op \notin Deletes
      BY <1>1
    <3>5. Users!IdsIn(page.rows) \subseteq K /\ IsFiniteSet(K) /\ page.total = Cardinality(K)
            => Before(muts'[i], K, page, L)
      BY <1>1, <2>2, <3>2, <3>3, <3>4 DEF Before
    <3> QED
      BY <1>1, <1>2, <2>1, <2>3, <3>5, TotalMoves
  <2> QED
    BY <2>4, <2>5
<1> QED
  BY <1>2, <1>4, <1>5, <1>7, <1>8 DEF UsersInv, ServerLeaves

\* The fields are changed, and the call with the status goes out: no status is changed yet.
LEMMA FirstHalfKeeps ==
  ASSUME UsersInv, NEW i \in DOMAIN muts, NEW S \in SUBSET Users!User, ServedChange(i, S),
         muts[i].op = "both"
  PROVE  UsersInv'
<1>1. /\ UserIds(S) = UserIds(muts[i].users)
      /\ UserIds(S) \subseteq UserIds(users)
      /\ users' = {v \in users : v.id \notin UserIds(S)} \cup S
      /\ muts'[i].op = "second" /\ muts'[i].answer = "none"
      /\ muts'[i].users = muts[i].users
      /\ \A u \in S, v \in users : u.id = v.id => u.status = v.status
  BY DEF ServedChange
<1>2. /\ Served(i, S) /\ ServerLeaves(i, S) /\ Users!Misses(muts[i].n)
      /\ UserIds(users') = UserIds(users)
      /\ \A v \in users : v \in users' \/ v.id \in UserIds(S)
      /\ \A k \in DOMAIN muts \ {i} :
           muts'[k].answer = "ok" /\ ~muts'[k].stale /\ muts'[k].op \in Upserts
             => muts'[k].users \subseteq users'
      /\ DOMAIN muts' = DOMAIN muts /\ key' = key
      /\ UsersTypes
  BY WriteOver
<1>3. /\ \A k \in DOMAIN muts \ {i} : Alike(muts'[k], muts[k]) /\ muts'[k].crossed = muts[k].crossed
      /\ muts'[i].crossed = muts[i].crossed /\ muts'[i].n = muts[i].n
      /\ muts[i].answer = "none"
      /\ People(users, nextUser) /\ got' = got /\ page' = page /\ late' = late /\ blurred' = blurred
  BY <1>2, ServedIs
<1>4. Alone'
  BY <1>1, <1>2, ServerLeavesAlone DEF Deletes
<1>5. AnswersCurrent'
  BY <1>1, <1>2 DEF AnswersCurrent
<1>6. \A v : v.id \in UserIds(S) => Mends(muts'[i], v, users')
  <2>1. UserIds(S) \subseteq UserIds(users')
    BY <1>1 DEF UserIds
  <2> QED
    BY <1>1, <2>1 DEF Mends, Deletes
<1>7. RowsCovered'
  <2>1. \A v \in users : v \in users' \/ Mends(muts'[i], v, users')
    BY <1>2, <1>6
  <2>2. ASSUME NEW v \in Users!User, NEW k \in DOMAIN muts \ {i}, Mends(muts[k], v, users)
        PROVE  Mends(muts'[k], v, users') \/ Mends(muts'[i], v, users')
    BY <1>2, <1>3, <2>2 DEF Mends, Alike
  <2>3. \A v \in Users!User : Mends(muts[i], v, users) => Mends(muts'[i], v, users')
    BY <1>1, <1>6 DEF Mends
  <2> QED
    BY <1>2, <2>1, <2>2, <2>3, CoverMoves
<1>8. Matching(users)' = Matching(users)
  <2>1. \A v \in users : \E w \in users' : w.id = v.id /\ w.status = v.status
    BY <1>1, <1>2 DEF UserIds
  <2>2. \A w \in users' : \E v \in users : w.id = v.id /\ w.status = v.status
    BY <1>1 DEF UserIds
  <2> QED
    BY <1>2, <2>1, <2>2 DEF Matching, Users!matchesUserFilters
<1>9. TotalRight'
  <2>1. Settled' = Settled
    BY <1>2, <1>3 DEF Settled, ServerLeaves
  <2>2. (\A k \in DOMAIN muts' : muts'[k].answer # "ok") => \A k \in DOMAIN muts : muts[k].answer # "ok"
    BY <1>2, <1>3 DEF Alike
  <2>3. ASSUME Settled, ~blurred, NEW k \in DOMAIN muts', ~muts'[k].crossed
        PROVE  muts'[k].answer = "none" /\ Users!IdsIn(page.rows) \subseteq Matching(users)
    <3>1. k \in DOMAIN muts /\ ~muts[k].crossed
      BY <1>2, <1>3, <2>3
    <3>2. k = i
      BY <3>1, OnlyOne
    <3> QED
      BY <1>1, <1>3, <2>3, <3>1, <3>2 DEF UsersInv, TotalRight
  <2>4. paging'.at = paging.at /\ paging'.page = paging.page /\ paging'.lost = paging.lost
    BY <1>2 DEF ServerLeaves
  <2>5. paging.at = "answer" => paging.missed \subseteq paging'.missed
    BY <1>2 DEF ServerLeaves
  <2>6. ASSUME paging.at = "answer",
               \A k \in DOMAIN muts' : muts'[k].answer = "ok" => muts'[k].n \notin paging'.missed
        PROVE  \A k \in DOMAIN muts : muts[k].answer = "ok" => muts[k].n \notin paging.missed
    BY <1>2, <1>3, <2>5, <2>6 DEF Alike
  <2>7. Settled' /\ ~blurred' =>
          ((\A k \in DOMAIN muts' : muts'[k].answer # "ok") => page'.total = Cardinality(Matching(users)))
    BY <1>3, <2>1, <2>2 DEF UsersInv, TotalRight
  <2>8. paging'.at = "answer" /\ ~paging'.lost =>
       ((\A k \in DOMAIN muts' : muts'[k].answer = "ok" => muts'[k].n \notin paging'.missed)
         => paging'.page.total = Cardinality(Matching(users)))
    BY <2>4, <2>6 DEF UsersInv, TotalRight
  <2> QED
    BY <1>3, <1>8, <2>1, <2>3, <2>7, <2>8 DEF TotalRight
<1> QED
  BY <1>2, <1>4, <1>5, <1>7, <1>9 DEF UsersInv, ServerLeaves

\* The server serves an operation.
LEMMA ServingKeeps ==
  ASSUME UsersInv, NEW i \in DOMAIN muts, Users!ServeUser(i)
  PROVE  UsersInv'
<1>1. \/ ServedFailed(i) \/ ServedDelete(i)
      \/ \E u \in Users!User : ServedCreate(i, u)
      \/ \E S \in SUBSET Users!User : ServedChange(i, S)
  BY UserServed DEF UsersInv
<1>2. CASE ServedFailed(i)
  BY <1>2, RefusalKeeps
<1>3. CASE ServedDelete(i)
  BY <1>3, DeletionKeeps
<1>4. ASSUME NEW u \in Users!User, ServedCreate(i, u)
      PROVE  UsersInv'
  BY <1>4, CreationKeeps
<1>5. ASSUME NEW S \in SUBSET Users!User, ServedChange(i, S)
      PROVE  UsersInv'
  <2>1. CASE muts[i].op = "both"
    BY <1>5, <2>1, FirstHalfKeeps
  <2>2. CASE muts[i].op # "both"
    BY <1>5, <2>2, ChangeKeeps
  <2> QED
    BY <2>1, <2>2
<1> QED
  BY <1>1, <1>2, <1>3, <1>4, <1>5

\* A request or its answer is lost.
LEMMA LossKeeps ==
  ASSUME UsersInv, NEW i \in DOMAIN muts, Users!MutationFails(i)
  PROVE  UsersInv'
<1> DEFINE m == muts[i]
           f == [m EXCEPT !.answer = "failed"]
<1>1. /\ m.answer # "failed" /\ userSteps' = userSteps + 1
      /\ muts' = [muts EXCEPT ![i].answer = "failed"]
      /\ late' = (late \/ m.answer = "ok" \/ m.op = "second")
      /\ paging' = [paging EXCEPT !.lost = paging.lost \/ m.n \in paging.missed]
      /\ UNCHANGED <<users, nextUser, key, got, page, form, blurred>>
  BY DEF Users!MutationFails, Users!UserStep
<1>2. /\ UsersTypes /\ muts \in Seq(Mutations(nextUser)) /\ nextUser \in Nat
      /\ page \in Pages(nextUser) /\ got \in BOOLEAN /\ blurred \in BOOLEAN /\ late \in BOOLEAN
      /\ key \in Users!Keys /\ userSteps \in Nat
      /\ paging \in [at : {"none", "server", "answer"}, page : Pages(nextUser),
                      missed : SUBSET Nat, lost : BOOLEAN]
      /\ paging.at # "answer" => paging.missed = {} /\ ~paging.lost
      /\ m \in Mutations(nextUser)
  BY MutAt DEF UsersInv, UsersTypes, UsersTyped, MutsTyped, PageTyped, PagingTyped
<1>3. /\ f \in Mutations(nextUser) /\ f.n = m.n /\ f.op = m.op /\ f.users = m.users
      /\ f.crossed = m.crossed /\ f.stale = m.stale /\ f.answer = "failed"
      /\ m.answer \in {"none", "ok", "failed"}
  <2>1. m \in Mutations(nextUser)
    BY <1>2
  <2> HIDE DEF m
  <2> QED
    BY <2>1 DEF Mutations
<1>4. /\ muts' \in Seq(Mutations(nextUser)) /\ DOMAIN muts' = DOMAIN muts /\ Len(muts') = Len(muts)
      /\ \A k \in DOMAIN muts : muts'[k] = IF k = i THEN f ELSE muts[k]
  <2>1. muts' = [muts EXCEPT ![i] = f]
    BY <1>1
  <2> DEFINE T == Mutations(nextUser)
  <2>2. muts \in Seq(T) /\ f \in T
    BY <1>2, <1>3
  <2> HIDE DEF f, T
  <2>3. /\ [muts EXCEPT ![i] = f] \in Seq(T) /\ DOMAIN [muts EXCEPT ![i] = f] = DOMAIN muts
        /\ Len([muts EXCEPT ![i] = f]) = Len(muts)
        /\ \A k \in DOMAIN muts : [muts EXCEPT ![i] = f][k] = IF k = i THEN f ELSE muts[k]
    BY <2>2, ReplacedIs
  <2> QED
    BY <2>1, <2>3 DEF T
<1>5. /\ \A k \in DOMAIN muts \ {i} : muts'[k] = muts[k]
      /\ muts'[i].n = m.n /\ muts'[i].op = m.op /\ muts'[i].users = m.users
      /\ muts'[i].crossed = m.crossed /\ muts'[i].stale = m.stale /\ muts'[i].answer = "failed"
  BY <1>3, <1>4
<1> HIDE DEF f
<1>6. /\ paging' \in [at : {"none", "server", "answer"}, page : Pages(nextUser),
                      missed : SUBSET Nat, lost : BOOLEAN]
      /\ paging'.at # "answer" => paging'.missed = {} /\ ~paging'.lost
      /\ paging'.at = paging.at /\ paging'.page = paging.page /\ paging'.missed = paging.missed
      /\ paging'.lost = (paging.lost \/ m.n \in paging.missed)
  <2> DEFINE b == paging.lost \/ m.n \in paging.missed
  <2>1. b \in BOOLEAN /\ paging' = [paging EXCEPT !.lost = b]
    BY <1>1
  <2>2. paging.at # "answer" => ~b
    BY <1>2
  <2> HIDE DEF b, m
  <2>3. /\ paging' \in [at : {"none", "server", "answer"}, page : Pages(nextUser),
                      missed : SUBSET Nat, lost : BOOLEAN]
        /\ paging'.at # "answer" => paging'.missed = {} /\ ~paging'.lost
        /\ paging'.at = paging.at /\ paging'.page = paging.page /\ paging'.missed = paging.missed
        /\ paging'.lost = b
    BY <1>2, <2>1, <2>2
  <2> QED
    BY <2>3 DEF b
<1>7. UsersTypes'
  <2>1. /\ key' \in Users!Keys /\ got' \in BOOLEAN /\ late' \in BOOLEAN /\ blurred' \in BOOLEAN
        /\ userSteps' \in Nat /\ page' \in Pages(nextUser) /\ form' = form
    BY <1>1, <1>2
  <2>2. UsersTyped' /\ PageTyped' /\ PagingTyped' /\ MutsTyped' /\ FormIsTyped'
    BY <1>1, <1>2, <1>4, <1>6, <2>1, TypesStay
  <2> QED
    BY <2>2 DEF UsersTypes
<1>8. RowsSorted'
  BY <1>1, <1>6 DEF UsersInv, RowsSorted
<1>9. AnswersCurrent'
  BY <1>1, <1>4, <1>5 DEF UsersInv, AnswersCurrent
<1>10. ASSUME NEW rows, NEW N, Covered(rows, N), m.n \notin N \/ (m.answer # "ok" /\ m.op # "second")
       PROVE  \A v \in Users!ToSet(rows) :
                \/ v \in users /\ Users!matchesUserFilters(v, key)
                \/ \E k \in DOMAIN muts' : muts'[k].n \in N /\ Mends(muts'[k], v, users)
  <2> SUFFICES ASSUME NEW v \in Users!ToSet(rows)
               PROVE  \/ v \in users /\ Users!matchesUserFilters(v, key)
                      \/ \E k \in DOMAIN muts' : muts'[k].n \in N /\ Mends(muts'[k], v, users)
    OBVIOUS
  <2>1. ASSUME NEW k \in DOMAIN muts, muts[k].n \in N, Mends(muts[k], v, users)
        PROVE  k # i
    BY <1>10, <2>1 DEF Mends
  <2> QED
    BY <1>4, <1>5, <1>10, <2>1 DEF Covered
<1>11. m.n \in Nat
  BY <1>2, MutIs
<1>12. RowsCovered'
  <2>1. Settled' => Settled /\ m.answer # "ok" /\ m.op # "second"
    BY <1>1, <1>6 DEF Settled
  <2>2. ASSUME Settled'
        PROVE  \A v \in Users!ToSet(page.rows) :
                \/ v \in users /\ Users!matchesUserFilters(v, key)
                \/ \E k \in DOMAIN muts' : muts'[k].n \in Nat /\ Mends(muts'[k], v, users)
    <3>1. Covered(page.rows, Nat) /\ m.answer # "ok" /\ m.op # "second"
      BY <2>1, <2>2 DEF UsersInv, RowsCovered
    <3> HIDE DEF m
    <3> QED
      BY <1>10, <3>1
  <2>3. ASSUME paging.at = "answer", ~paging'.lost
        PROVE  \A v \in Users!ToSet(paging.page.rows) :
                \/ v \in users /\ Users!matchesUserFilters(v, key)
                \/ \E k \in DOMAIN muts' : muts'[k].n \in paging.missed /\ Mends(muts'[k], v, users)
    <3>1. Covered(paging.page.rows, paging.missed) /\ m.n \notin paging.missed
      BY <1>6, <2>3 DEF UsersInv, RowsCovered
    <3> HIDE DEF m
    <3> QED
      BY <1>10, <3>1
  <2>4. Settled' => Covered(page.rows, Nat)'
    BY <1>1, <2>2 DEF Covered
  <2>5. paging'.at = "answer" /\ ~paging'.lost => Covered(paging.page.rows, paging.missed)'
    BY <1>1, <1>6, <2>3 DEF Covered
  <2> QED
    BY <2>4, <2>5 DEF RowsCovered
<1>13. Alone'
  BY <1>1, <1>4, <1>5, <1>6 DEF UsersInv, Alone
<1>14. TotalRight'
  <2>1. Matching(users)' = Matching(users)
    BY <1>1 DEF Matching
  <2>2. Settled' => Settled /\ m.answer # "ok"
    BY <1>1, <1>6 DEF Settled
  <2>3. m.answer # "ok" /\ (\A k \in DOMAIN muts' : muts'[k].answer # "ok")
          => \A k \in DOMAIN muts : muts[k].answer # "ok"
    BY <1>4, <1>5
  <2>4. ASSUME NEW k \in DOMAIN muts', ~muts'[k].crossed
        PROVE  muts'[k].answer = "failed"
    <3>1. k \in DOMAIN muts /\ ~muts[k].crossed
      BY <1>4, <1>5, <2>4
    <3>2. k = i
      BY <3>1, OnlyOne
    <3> QED
      BY <1>5, <3>2
  <2>5. m.n \notin paging.missed /\
          (\A k \in DOMAIN muts' : muts'[k].answer = "ok" => muts'[k].n \notin paging.missed)
          => \A k \in DOMAIN muts : muts[k].answer = "ok" => muts[k].n \notin paging.missed
    BY <1>4, <1>5
  <2>6. Settled' /\ ~blurred' =>
          ((\A k \in DOMAIN muts' : muts'[k].answer # "ok") => page'.total = Cardinality(Matching(users)))
    BY <1>1, <2>2, <2>3 DEF UsersInv, TotalRight
  <2>7. paging'.at = "answer" /\ ~paging'.lost =>
       ((\A k \in DOMAIN muts' : muts'[k].answer = "ok" => muts'[k].n \notin paging'.missed)
         => paging'.page.total = Cardinality(Matching(users)))
    BY <1>6, <2>5 DEF UsersInv, TotalRight
  <2> QED
    BY <2>1, <2>4, <2>6, <2>7 DEF TotalRight
<1> QED
  BY <1>7, <1>8, <1>9, <1>12, <1>13, <1>14 DEF UsersInv

-----------------------------------------------------------------------------
(* The answers arrive.                                                     *)

\* An operation is over: the others stay, and none of them was the only one.
LEMMA GoneIs ==
  ASSUME UsersInv, NEW i \in DOMAIN muts,
         muts' = Users!RemoveAt(muts, i) \/ muts' = Users!Crossed(Users!RemoveAt(muts, i))
  PROVE  /\ muts' \in Seq(Mutations(nextUser))
         /\ \A k \in DOMAIN muts' : /\ muts'[k].crossed
                                    /\ \E j \in DOMAIN muts \ {i} :
                                         Alike(muts'[k], muts[j]) /\ muts'[k].stale = muts[j].stale
         /\ \A j \in DOMAIN muts \ {i} : \E k \in DOMAIN muts' : Alike(muts'[k], muts[j])
<1> DEFINE r == Users!RemoveAt(muts, i)
           T == Mutations(nextUser)
<1>1. muts \in Seq(T)
  BY MutsAre DEF UsersInv
<1> HIDE DEF T
<1>2. /\ r \in Seq(T)
      /\ \A k \in DOMAIN r : \E j \in DOMAIN muts \ {i} : r[k] = muts[j]
      /\ \A j \in DOMAIN muts \ {i} : \E k \in DOMAIN r : r[k] = muts[j]
  <2> DEFINE q == muts
  <2>1. q \in Seq(T) /\ i \in DOMAIN q
    BY <1>1
  <2> HIDE DEF q
  <2>2. LET s == Users!RemoveAt(q, i) IN
         /\ s \in Seq(T) /\ Len(s) = Len(q) - 1
         /\ \A k \in DOMAIN s : \E j \in DOMAIN q \ {i} : s[k] = q[j]
         /\ \A j \in DOMAIN q \ {i} : \E k \in DOMAIN s : s[k] = q[j]
    BY <2>1, OthersStay
  <2> QED
    BY <2>2 DEF q
<1> HIDE DEF r
<1>3. \A j \in DOMAIN muts \ {i} : muts[j].crossed
  BY OnlyOne
<1>4. CASE muts' = r
  BY <1>2, <1>3, <1>4 DEF Alike, T
<1>5. CASE muts' = Users!Crossed(r)
  <2> DEFINE c == Users!Crossed(r)
  <2>1. /\ c \in Seq(T) /\ DOMAIN c = DOMAIN r
        /\ \A k \in DOMAIN r : Alike(c[k], r[k]) /\ c[k].stale = r[k].stale /\ c[k].crossed
    BY <1>2, CrossedIs DEF T
  <2>2. muts' = c
    BY <1>5
  <2> HIDE DEF c
  <2>3. ASSUME NEW k \in DOMAIN c
        PROVE  \E j \in DOMAIN muts \ {i} : Alike(c[k], muts[j]) /\ c[k].stale = muts[j].stale
    <3>1. PICK j \in DOMAIN muts \ {i} : r[k] = muts[j]
      BY <1>2, <2>1
    <3> QED
      BY <2>1, <3>1
  <2>4. ASSUME NEW j \in DOMAIN muts \ {i}
        PROVE  \E k \in DOMAIN c : Alike(c[k], muts[j])
    <3>1. PICK k \in DOMAIN r : r[k] = muts[j]
      BY <1>2
    <3> QED
      BY <2>1, <3>1
  <2> QED
    BY <2>1, <2>2, <2>3, <2>4 DEF T
<1> QED
  BY <1>4, <1>5 DEF r

\* The answers left are as current as they were.
LEMMA GoneCurrent ==
  ASSUME UsersInv, NEW i \in DOMAIN muts, users' = users,
         muts' = Users!RemoveAt(muts, i) \/ muts' = Users!Crossed(Users!RemoveAt(muts, i))
  PROVE  AnswersCurrent' /\ Alone' /\ \A k \in DOMAIN muts' : muts'[k].crossed
<1>1. \A k \in DOMAIN muts' : /\ muts'[k].crossed
                              /\ \E j \in DOMAIN muts \ {i} :
                                   Alike(muts'[k], muts[j]) /\ muts'[k].stale = muts[j].stale
  BY GoneIs
<1>2. AnswersCurrent'
  <2> SUFFICES ASSUME NEW k \in DOMAIN muts', muts'[k].answer = "ok", ~muts'[k].stale,
                      muts'[k].op \in Upserts
               PROVE  muts'[k].users \subseteq users'
    BY DEF AnswersCurrent
  <2>1. PICK j \in DOMAIN muts : Alike(muts'[k], muts[j]) /\ muts'[k].stale = muts[j].stale
    BY <1>1
  <2> QED
    BY <2>1 DEF UsersInv, AnswersCurrent, Alike
<1>3. Alone'
  BY <1>1 DEF Alone
<1> QED
  BY <1>1, <1>2, <1>3

\* Rows that the answer does not have are covered without it.
LEMMA GoneCovered ==
  ASSUME UsersInv, NEW i \in DOMAIN muts,
         muts' = Users!RemoveAt(muts, i) \/ muts' = Users!Crossed(Users!RemoveAt(muts, i)),
         NEW rows, NEW N, Covered(rows, N), NEW v \in Users!ToSet(rows),
         muts[i].n \notin N \/ ~Mends(muts[i], v, users)
  PROVE  \/ v \in users /\ Users!matchesUserFilters(v, key)
         \/ \E k \in DOMAIN muts' : muts'[k].n \in N /\ Mends(muts'[k], v, users)
<1>1. CASE v \in users /\ Users!matchesUserFilters(v, key)
  BY <1>1
<1>2. ASSUME NEW j \in DOMAIN muts, muts[j].n \in N, Mends(muts[j], v, users)
      PROVE  \E k \in DOMAIN muts' : muts'[k].n \in N /\ Mends(muts'[k], v, users)
  <2>1. j \in DOMAIN muts \ {i}
    BY <1>2
  <2>2. PICK k \in DOMAIN muts' : Alike(muts'[k], muts[j])
    BY <2>1, GoneIs
  <2> QED
    BY <1>2, <2>2 DEF Mends, Alike
<1> QED
  BY <1>1, <1>2 DEF Covered

\* The toast of a failed operation: nothing else changes.
LEMMA RefusedKeeps ==
  ASSUME UsersInv, NEW i \in DOMAIN muts, Users!MutationAnswered(i), muts[i].answer # "ok"
  PROVE  UsersInv'
<1>1. /\ muts[i].answer = "failed" /\ muts' = Users!RemoveAt(muts, i)
      /\ UNCHANGED <<users, nextUser, key, got, page, paging, form, late, blurred, userSteps>>
  <2>1. muts[i].answer \in {"none", "ok", "failed"}
    BY MutsAre, MutIs DEF UsersInv
  <2>2. /\ muts[i].answer # "none" /\ muts' = Users!RemoveAt(muts, i)
        /\ UNCHANGED <<users, nextUser, key, got, page, paging, form, late, blurred, userSteps>>
    BY DEF Users!MutationAnswered, Users!userGhosts
  <2> QED
    BY <2>1, <2>2
<1>2. /\ UsersTypes /\ nextUser \in Nat
      /\ page \in Pages(nextUser) /\ got \in BOOLEAN /\ blurred \in BOOLEAN /\ late \in BOOLEAN
      /\ key \in Users!Keys /\ userSteps \in Nat
      /\ paging \in [at : {"none", "server", "answer"}, page : Pages(nextUser),
                      missed : SUBSET Nat, lost : BOOLEAN]
      /\ paging.at # "answer" => paging.missed = {} /\ ~paging.lost
  BY DEF UsersInv, UsersTypes, UsersTyped, PageTyped, PagingTyped
<1>3. /\ muts' \in Seq(Mutations(nextUser))
      /\ \A j \in DOMAIN muts \ {i} : \E k \in DOMAIN muts' : Alike(muts'[k], muts[j])
  BY <1>1, GoneIs
<1>4. UsersTypes'
  <2>1. UsersTyped' /\ PageTyped' /\ PagingTyped' /\ MutsTyped' /\ FormIsTyped'
    BY <1>1, <1>2, <1>3, TypesStay
  <2> QED
    BY <2>1 DEF UsersTypes
<1>5. RowsSorted'
  BY <1>1 DEF UsersInv, RowsSorted
<1>6. AnswersCurrent' /\ Alone' /\ \A k \in DOMAIN muts' : muts'[k].crossed
  BY <1>1, GoneCurrent
<1>7. \A v : ~Mends(muts[i], v, users)
  BY <1>1 DEF Mends
<1>8. ASSUME NEW rows, NEW N, Covered(rows, N)
      PROVE  \A v \in Users!ToSet(rows) :
               \/ v \in users /\ Users!matchesUserFilters(v, key)
               \/ \E k \in DOMAIN muts' : muts'[k].n \in N /\ Mends(muts'[k], v, users)
  BY <1>1, <1>7, <1>8, GoneCovered
<1>9. RowsCovered'
  <2>1. Settled => Covered(page.rows, Nat)'
    <3>1. ASSUME Settled
          PROVE  \A v \in Users!ToSet(page.rows) :
               \/ v \in users /\ Users!matchesUserFilters(v, key)
               \/ \E k \in DOMAIN muts' : muts'[k].n \in Nat /\ Mends(muts'[k], v, users)
      BY <1>8, <3>1 DEF UsersInv, RowsCovered
    <3> QED
      BY <1>1, <3>1 DEF Covered
  <2>2. paging.at = "answer" /\ ~paging.lost => Covered(paging.page.rows, paging.missed)'
    <3>1. ASSUME paging.at = "answer", ~paging.lost
          PROVE  \A v \in Users!ToSet(paging.page.rows) :
               \/ v \in users /\ Users!matchesUserFilters(v, key)
               \/ \E k \in DOMAIN muts' : muts'[k].n \in paging.missed /\ Mends(muts'[k], v, users)
      BY <1>8, <3>1 DEF UsersInv, RowsCovered
    <3> QED
      BY <1>1, <3>1 DEF Covered
  <2> QED
    BY <1>1, <2>1, <2>2 DEF RowsCovered, Settled
<1>10. TotalRight'
  <2>1. Matching(users)' = Matching(users) /\ Settled' = Settled
    BY <1>1 DEF Matching, Settled
  <2>2. (\A k \in DOMAIN muts' : muts'[k].answer # "ok") => \A k \in DOMAIN muts : muts[k].answer # "ok"
    BY <1>1, <1>3 DEF Alike
  <2>3. (\A k \in DOMAIN muts' : muts'[k].answer = "ok" => muts'[k].n \notin paging.missed)
          => \A k \in DOMAIN muts : muts[k].answer = "ok" => muts[k].n \notin paging.missed
    BY <1>1, <1>3 DEF Alike
  <2>4. Settled' /\ ~blurred' =>
          ((\A k \in DOMAIN muts' : muts'[k].answer # "ok") => page'.total = Cardinality(Matching(users)))
    BY <1>1, <2>1, <2>2 DEF UsersInv, TotalRight
  <2>5. paging'.at = "answer" /\ ~paging'.lost =>
       ((\A k \in DOMAIN muts' : muts'[k].answer = "ok" => muts'[k].n \notin paging'.missed)
         => paging'.page.total = Cardinality(Matching(users)))
    BY <1>1, <2>3 DEF UsersInv, TotalRight
  <2> QED
    BY <1>6, <2>1, <2>4, <2>5 DEF TotalRight
<1> QED
  BY <1>4, <1>5, <1>6, <1>9, <1>10 DEF UsersInv

\* How the answer changes the page: one user put in, or users taken out.
PutIn(m, u, allow) ==
  /\ m.users = {u} /\ u \in Users!User /\ 0 < u.id /\ u.id < nextUser /\ allow \in BOOLEAN
  /\ m.op = "create" => allow
  /\ Users!PageAfter(m) = Users!upsertInSingleUsersQuery(page, u, key, allow)

TakenOut(m, S) ==
  /\ IsFiniteSet(S) /\ \A u, v \in S : u.id = v.id => u = v
  /\ \A v \in Users!ToSet(page.rows) : v.id \in UserIds(m.users) => v.id \in UserIds(S)
  /\ UserIds(m.users) \subseteq Users!IdsIn(page.rows) => UserIds(S) = UserIds(m.users)
  /\ Users!PageAfter(m) = Users!removeUsersFromSingleUsersQuery(page, S, key)

\* Every answer changes the page in one of these ways, or not at all.
LEMMA PageAfterIs ==
  ASSUME UsersTypes, NEW m \in Mutations(nextUser), m.answer = "ok"
  PROVE  /\ (~got \/ m.op = "bulk_disable") => Users!PageAfter(m) = page
         /\ (got /\ m.op \in Upserts) => \E u \in m.users, allow \in BOOLEAN : PutIn(m, u, allow)
         /\ (got /\ m.op \in Deletes) => \E S \in SUBSET Users!User : TakenOut(m, S)
         /\ m.op \in Upserts \cup Deletes \cup {"bulk_disable"}
<1>1. /\ m.op \in Ops /\ m.op # "both" /\ m.users \subseteq Users!User /\ IsFiniteSet(m.users)
      /\ \A u, v \in m.users : u.id = v.id => u = v
      /\ m.op \notin {"bulk_delete", "bulk_disable"} => \E u \in m.users : m.users = {u}
      /\ \A u \in m.users : 0 < u.id /\ u.id < nextUser
      /\ got \in BOOLEAN
  <2>1. nextUser \in Nat /\ got \in BOOLEAN
    BY DEF UsersTypes, UsersTyped
  <2> DEFINE n == nextUser
  <2>2. m \in Mutations(n)
    OBVIOUS
  <2> HIDE DEF n
  <2>3. /\ m.op \in Ops /\ m.users \subseteq Users!User /\ IsFiniteSet(m.users)
        /\ \A u, v \in m.users : u.id = v.id => u = v
        /\ m.op \notin {"bulk_delete", "bulk_disable"} => \E u \in m.users : m.users = {u}
        /\ m.op # "create" \/ m.answer = "ok" => \A u \in m.users : 0 < u.id /\ u.id < n
        /\ m.op = "both" => m.answer # "ok"
    BY ONLY <2>2, MutIs
  <2> QED
    BY <2>1, <2>3 DEF n
<1>2. (~got \/ m.op = "bulk_disable") => Users!PageAfter(m) = page
  BY <1>1 DEF Users!PageAfter, Users!EditOps
<1>3. ASSUME got, m.op \in Upserts
      PROVE  \E u \in m.users, allow \in BOOLEAN : PutIn(m, u, allow)
  <2>1. PICK u \in m.users : m.users = {u}
    BY <1>1, <1>3 DEF Upserts
  <2>2. (CHOOSE w \in m.users : TRUE) = u
    BY <2>1
  <2>3. CASE m.op = "reset"
    <3>1. Users!PageAfter(m) = Users!upsertInSingleUsersQuery(page, u, key, FALSE)
      BY <1>3, <2>2, <2>3 DEF Users!PageAfter, Users!EditOps
    <3>2. PutIn(m, u, FALSE)
      BY <1>1, <2>1, <2>3, <3>1 DEF PutIn
    <3> QED
      BY <3>2
  <2>4. CASE m.op # "reset"
    <3>1. m.op \in Users!EditOps \cup {"create"}
      BY <1>3, <2>4 DEF Upserts, Users!EditOps
    <3>2. m.op \notin {"delete", "bulk_delete", "bulk_disable", "reset"}
      BY <1>3, <2>4 DEF Upserts
    <3>3. Users!PageAfter(m) = Users!upsertInSingleUsersQuery(page, u, key, TRUE)
      BY <1>3, <2>2, <3>1, <3>2 DEF Users!PageAfter
    <3>4. PutIn(m, u, TRUE)
      BY <1>1, <2>1, <3>3 DEF PutIn
    <3> QED
      BY <3>4
  <2> QED
    BY <2>3, <2>4
<1>4. ASSUME got, m.op \in Deletes
      PROVE  \E S \in SUBSET Users!User : TakenOut(m, S)
  <2>1. CASE m.op = "delete"
    <3>1. Users!PageAfter(m) = Users!removeUsersFromSingleUsersQuery(page, m.users, key)
      BY <1>4, <2>1 DEF Users!PageAfter, Users!EditOps
    <3>2. TakenOut(m, m.users)
      BY <1>1, <3>1 DEF TakenOut
    <3> QED
      BY <1>1, <3>2
  <2>2. CASE m.op = "bulk_delete"
    <3> DEFINE S == {u \in Users!ToSet(page.rows) : u.id \in {v.id : v \in m.users}}
    <3>1. Users!PageAfter(m) = Users!removeUsersFromSingleUsersQuery(page, S, key)
      BY <1>4, <2>2 DEF Users!PageAfter, Users!EditOps
    <3>2. People(Users!ToSet(page.rows), nextUser)
      BY OnPage
    <3>3. People(S, nextUser)
      BY <3>2, PeoplePart
    <3>4. \A v : v \in S <=> v \in Users!ToSet(page.rows) /\ v.id \in UserIds(m.users)
      BY DEF UserIds
    <3> HIDE DEF S
    <3>5. \A v \in Users!ToSet(page.rows) : v.id \in UserIds(m.users) => v.id \in UserIds(S)
      BY <3>4 DEF UserIds
    <3>6. ASSUME UserIds(m.users) \subseteq Users!IdsIn(page.rows)
          PROVE  UserIds(S) = UserIds(m.users)
      <4>1. ASSUME NEW x \in UserIds(m.users)
            PROVE  x \in UserIds(S)
        <5>1. PICK v \in Users!ToSet(page.rows) : v.id = x
          BY <3>6, <4>1 DEF Users!IdsIn
        <5> QED
          BY <3>5, <4>1, <5>1
      <4>2. UserIds(S) \subseteq UserIds(m.users)
        BY <3>4 DEF UserIds
      <4> QED
        BY <4>1, <4>2
    <3>7. TakenOut(m, S) /\ S \in SUBSET Users!User
      BY <3>1, <3>3, <3>5, <3>6 DEF TakenOut, People
    <3> QED
      BY <3>7
  <2> QED
    BY <1>4, <2>1, <2>2 DEF Deletes
<1>5. m.op \in Upserts \cup Deletes \cup {"bulk_disable"}
  BY <1>1 DEF Ops, Upserts, Deletes
<1> QED
  BY <1>2, <1>3, <1>4, <1>5

\* What the answer m leaves of the page: what is on it was there or is the answer.
Patched(m, r) ==
  /\ r \in Pages(nextUser)
  /\ got => SortedRows(r.rows, key)
  /\ (got /\ m.op # "bulk_disable") =>
       \A v \in Users!ToSet(r.rows) :
         \/ m.op \in Upserts /\ m.users = {v} /\ Users!matchesUserFilters(v, key)
         \/ v \in Users!ToSet(page.rows) /\ v.id \notin UserIds(m.users)

\* What taking the users S out of page p gives.
Removed(r, p, S, k, n) ==
  /\ r \in Pages(n) /\ SortedRows(r.rows, k)
  /\ \A v \in Users!ToSet(r.rows) : v \in Users!ToSet(p.rows) /\ v.id \notin UserIds(S)
  /\ r.total = Users!Less(p.total,
                   Cardinality({u \in S : u.id \in Users!IdsIn(p.rows)
                                            \/ Users!matchesUserFilters(u, k)}))

\* Taking users out, as one fact.
LEMMA RemovedAre ==
  ASSUME NEW n, NEW p \in Pages(n), NEW k \in Users!Keys, SortedRows(p.rows, k), NEW S,
         IsFiniteSet(S)
  PROVE  Removed(Users!removeUsersFromSingleUsersQuery(p, S, k), p, S, k, n)
BY RemovedIs DEF Removed

\* After the answer the page is still one, and in order; what is on it was there or is the answer.
LEMMA PatchedPage ==
  ASSUME UsersInv, NEW m \in Mutations(nextUser), m.answer = "ok"
  PROVE  Patched(m, Users!PageAfter(m))
<1> DEFINE r == Users!PageAfter(m)
<1>1. UsersTypes /\ page \in Pages(nextUser) /\ key \in Users!Keys /\ got \in BOOLEAN
  BY DEF UsersInv, UsersTypes, PageTyped, UsersTyped
<1>2. got => SortedRows(page.rows, key)
  BY DEF UsersInv, RowsSorted
<1>3. CASE ~got \/ m.op = "bulk_disable"
  <2>1. r = page
    BY <1>1, <1>3, PageAfterIs
  <2> QED
    BY <1>1, <1>2, <1>3, <2>1 DEF Patched
<1>4. CASE got /\ m.op \in Upserts
  <2>1. PICK u \in m.users, allow \in BOOLEAN : PutIn(m, u, allow)
    BY <1>1, <1>4, PageAfterIs
  <2>2. /\ u \in Users!User /\ 0 < u.id /\ u.id < nextUser /\ m.users = {u}
        /\ r = Users!upsertInSingleUsersQuery(page, u, key, allow)
    BY <2>1 DEF PutIn
  <2>3. Upserted(r, page, u, key, nextUser, allow)
    BY <1>1, <1>2, <1>4, <2>2, UpsertIs
  <2>4. UserIds(m.users) = {u.id}
    BY <2>2 DEF UserIds
  <2> HIDE DEF r
  <2>5. Patched(m, r)
    BY <1>4, <2>2, <2>3, <2>4 DEF Upserted, Patched
  <2> QED
    BY <2>5 DEF r
<1>5. CASE got /\ m.op \in Deletes
  <2>1. PICK S \in SUBSET Users!User : TakenOut(m, S)
    BY <1>1, <1>5, PageAfterIs
  <2>2. /\ IsFiniteSet(S)
        /\ r = Users!removeUsersFromSingleUsersQuery(page, S, key)
        /\ \A v \in Users!ToSet(page.rows) : v.id \in UserIds(m.users) => v.id \in UserIds(S)
    BY <2>1 DEF TakenOut
  <2>3. Removed(r, page, S, key, nextUser)
    BY <1>1, <1>2, <1>5, <2>2, RemovedAre
  <2> HIDE DEF r
  <2>4. Patched(m, r)
    BY <1>5, <2>2, <2>3 DEF Removed, Patched
  <2> QED
    BY <2>4 DEF r
<1> QED
  BY <1>1, <1>3, <1>4, <1>5, PageAfterIs

\* Counting one more, one less, or the same.
LEMMA OneApart ==
  ASSUME NEW M, IsFiniteSet(M), NEW K, NEW x, M \ {x} = K \ {x}
  PROVE  /\ (x \in M <=> x \in K) => K = M
         /\ (x \in M /\ x \notin K) => Users!Less(Cardinality(M), 1) = Cardinality(K)
         /\ (x \notin M /\ x \in K) => Cardinality(K) = Cardinality(M) + 1
<1>1. (x \in M <=> x \in K) => K = M
  OBVIOUS
<1>2. ASSUME x \in M, x \notin K
      PROVE  Users!Less(Cardinality(M), 1) = Cardinality(K)
  <2>1. K = M \ {x}
    BY <1>2
  <2>2. IsFiniteSet(K) /\ Cardinality(K) = Cardinality(M) - 1
    BY <1>2, <2>1, FS_RemoveElement
  <2>3. Cardinality(K) \in Nat /\ Cardinality(M) \in Nat
    BY <2>2, FS_CardinalityType
  <2> QED
    BY <2>2, <2>3 DEF Users!Less
<1>3. ASSUME x \notin M, x \in K
      PROVE  Cardinality(K) = Cardinality(M) + 1
  <2>1. K = M \cup {x}
    BY <1>3
  <2> QED
    BY <1>3, <2>1, FS_AddElement
<1> QED
  BY <1>1, <1>2, <1>3

\* Counting without some of those counted.
LEMMA SomeLess ==
  ASSUME NEW M, IsFiniteSet(M), NEW X \in SUBSET M
  PROVE  Users!Less(Cardinality(M), Cardinality(X)) = Cardinality(M \ X)
<1>1. IsFiniteSet(X) /\ M \cap X = X
  BY FS_Subset
<1>2. Cardinality(M \ X) = Cardinality(M) - Cardinality(X) /\ IsFiniteSet(M \ X)
  BY <1>1, FS_Difference
<1>3. Cardinality(M \ X) \in Nat /\ Cardinality(M) \in Nat /\ Cardinality(X) \in Nat
  BY <1>1, <1>2, FS_CardinalityType
<1> QED
  BY <1>2, <1>3 DEF Users!Less

\* An answer that holds a user as stored counts it when it matches.
LEMMA CountedAsStored ==
  ASSUME UsersInv, NEW u \in users
  PROVE  u.id \in Matching(users) <=> Users!matchesUserFilters(u, key)
<1>1. \A v \in users : v.id = u.id => v = u
  BY DEF UsersInv, UsersTypes, UsersTyped, People
<1> QED
  BY <1>1 DEF Matching

\* What an operation alone brings makes the total right: the user put in.
LEMMA TotalAfterPut ==
  ASSUME UsersInv, NEW m, NEW u \in users, NEW allow \in BOOLEAN, PutIn(m, u, allow), got,
         NEW M \in SUBSET Nat, Before(m, M, page, Matching(users)), m.op \in Upserts,
         m.op = "create" => key.pg = 0,
         m.op # "create" => u.id \in Users!IdsIn(page.rows)
  PROVE  Users!PageAfter(m).total = Cardinality(Matching(users))
<1> DEFINE r == Users!PageAfter(m)
           K == Matching(users)
           x == u.id
           fits == Users!matchesUserFilters(u, key)
           here == x \in Users!IdsIn(page.rows)
<1>1. /\ m.users = {u} /\ u \in Users!User /\ 0 < u.id /\ u.id < nextUser
      /\ m.op = "create" => allow
      /\ r = Users!upsertInSingleUsersQuery(page, u, key, allow)
  BY DEF PutIn
<1>2. /\ page \in Pages(nextUser) /\ key \in Users!Keys /\ SortedRows(page.rows, key)
  BY DEF UsersInv, UsersTypes, PageTyped, UsersTyped, RowsSorted
<1>3. Upserted(r, page, u, key, nextUser, allow)
  BY <1>1, <1>2, UpsertIs
<1>4. /\ Users!IdsIn(page.rows) \subseteq M /\ IsFiniteSet(M) /\ page.total = Cardinality(M)
      /\ M \ {x} = K \ {x}
      /\ m.op = "create" => x \notin M
  BY <1>1 DEF Before
<1>5. x \in K <=> fits
  BY CountedAsStored
<1> HIDE DEF r, K, x
<1>6. /\ (x \in M <=> x \in K) => K = M
      /\ (x \in M /\ x \notin K) => Users!Less(Cardinality(M), 1) = Cardinality(K)
      /\ (x \notin M /\ x \in K) => Cardinality(K) = Cardinality(M) + 1
  BY <1>4, OneApart
<1>7. r.total = CASE here /\ fits  -> page.total
                  [] here /\ ~fits -> Users!Less(page.total, 1)
                  [] ~here         -> IF allow /\ fits /\ key.pg = 0
                                        THEN page.total + 1 ELSE page.total
  BY <1>3 DEF Upserted, x
<1>8. here => x \in M
  BY <1>4
<1>9. ~here => m.op = "create" /\ x \notin M /\ allow /\ key.pg = 0
  BY <1>1, <1>4 DEF x
<1> HIDE DEF here, fits
<1>10. r.total = Cardinality(K)
  <2>1. CASE here /\ fits
    BY <1>4, <1>5, <1>6, <1>7, <1>8, <2>1
  <2>2. CASE here /\ ~fits
    BY <1>4, <1>5, <1>6, <1>7, <1>8, <2>2
  <2>3. CASE ~here
    <3>1. r.total = IF allow /\ fits /\ key.pg = 0 THEN page.total + 1 ELSE page.total
      BY <1>7, <2>3
    <3> QED
      BY <1>4, <1>5, <1>6, <1>9, <2>3, <3>1
  <2> QED
    BY <2>1, <2>2, <2>3
<1> QED
  BY <1>10 DEF r, K

\* The users taken away.
LEMMA TotalAfterTaking ==
  ASSUME UsersInv, NEW m, NEW S, TakenOut(m, S), got,
         NEW M \in SUBSET Nat, Before(m, M, page, Matching(users)), m.op \in Deletes,
         UserIds(m.users) \subseteq Users!IdsIn(page.rows)
  PROVE  Users!PageAfter(m).total = Cardinality(Matching(users))
<1> DEFINE r == Users!PageAfter(m)
           X == UserIds(m.users)
           G == {u \in S : u.id \in Users!IdsIn(page.rows) \/ Users!matchesUserFilters(u, key)}
<1>1. /\ IsFiniteSet(S) /\ UserIds(S) = X /\ \A u, v \in S : u.id = v.id => u = v
      /\ r = Users!removeUsersFromSingleUsersQuery(page, S, key)
  BY DEF TakenOut
<1>2. /\ page \in Pages(nextUser) /\ key \in Users!Keys /\ SortedRows(page.rows, key)
  BY DEF UsersInv, UsersTypes, PageTyped, UsersTyped, RowsSorted
<1>3. Removed(r, page, S, key, nextUser)
  BY <1>1, <1>2, RemovedAre
<1>4. r.total = Users!Less(page.total, Cardinality(G))
  BY <1>3 DEF Removed
<1>5. /\ Users!IdsIn(page.rows) \subseteq M /\ IsFiniteSet(M) /\ page.total = Cardinality(M)
      /\ Matching(users) = M \ X
  BY DEF Before
<1>6. \A u \in S : u.id \in X
  BY <1>1 DEF UserIds
<1>7. G = S
  BY <1>6
<1>8. Cardinality(X) = Cardinality(S)
  BY <1>1, IdsAsMany
<1> HIDE DEF r, G, X
<1>9. X \subseteq M
  BY <1>5 DEF X
<1>10. Users!Less(Cardinality(M), Cardinality(X)) = Cardinality(M \ X)
  BY <1>5, <1>9, SomeLess
<1>11. r.total = Cardinality(Matching(users))
  BY <1>4, <1>5, <1>7, <1>8, <1>10
<1> QED
  BY <1>11 DEF r

\* Both: once an answer that overlapped nothing is in, the total is right.
LEMMA TotalAfter ==
  ASSUME UsersInv, NEW i \in DOMAIN muts, NEW m \in Mutations(nextUser), m = muts[i],
         m.answer = "ok", ~m.crossed, ~m.stale, got, m.op # "bulk_disable",
         NEW M \in SUBSET Nat, Before(m, M, page, Matching(users)),
         m.op = "create" => key.pg = 0,
         m.op \in Users!EditOps => UserIds(m.users) \subseteq Users!IdsIn(page.rows)
  PROVE  Users!PageAfter(m).total = Cardinality(Matching(users))
<1>1. UsersTypes
  BY DEF UsersInv
<1>2. m.op \in Upserts \cup Deletes
  BY <1>1, PageAfterIs
<1>3. m.op \in Deletes \cup {"reset"} => UserIds(m.users) \subseteq Users!IdsIn(page.rows)
  BY DEF UsersInv, Alone
<1>4. CASE m.op \in Upserts
  <2>1. PICK u \in m.users, allow \in BOOLEAN : PutIn(m, u, allow)
    BY <1>1, <1>4, PageAfterIs
  <2>2. u \in users
    BY <1>4 DEF UsersInv, AnswersCurrent
  <2>3. m.op # "create" => u.id \in Users!IdsIn(page.rows)
    <3>1. m.op # "create" => m.op \in Users!EditOps \cup {"reset"}
      BY <1>4 DEF Upserts, Users!EditOps
    <3>2. u.id \in UserIds(m.users)
      BY DEF UserIds
    <3> QED
      BY <1>3, <3>1, <3>2
  <2> QED
    BY <1>4, <2>1, <2>2, <2>3, TotalAfterPut
<1>5. CASE m.op \in Deletes
  <2>1. PICK S \in SUBSET Users!User : TakenOut(m, S)
    BY <1>1, <1>5, PageAfterIs
  <2> QED
    BY <1>3, <1>5, <2>1, TotalAfterTaking
<1> QED
  BY <1>2, <1>4, <1>5

\* A bulk operation is answered: the page is asked for again.
LEMMA BulkAnswerKeeps ==
  ASSUME UsersInv, NEW i \in DOMAIN muts, Users!MutationAnswered(i), muts[i].answer = "ok",
         muts[i].op = "bulk_disable"
  PROVE  UsersInv'
<1> DEFINE m == muts[i]
<1>1. /\ muts' = Users!Crossed(Users!RemoveAt(muts, i))
      /\ page' = Users!PageAfter(m)
      /\ form' = Users!FormClosing(form) \/ form' = Users!FormAfter(page')
      /\ late' = (late \/ m.stale) /\ blurred' \in BOOLEAN
      /\ paging' = Users!PagingAsked
      /\ UNCHANGED <<users, nextUser, key, got, userSteps>>
  <2>1. blurred' = \/ blurred \/ m.crossed
                   \/ m.op = "create" /\ key.pg > 0
                   \/ m.op \in Users!EditOps /\ \E u \in m.users : u.id \notin Users!IdsIn(page.rows)
    BY DEF Users!MutationAnswered
  <2>2. blurred' \in BOOLEAN
    BY <2>1
  <2> QED
    BY <2>2 DEF Users!MutationAnswered
<1>2. /\ UsersTypes /\ nextUser \in Nat /\ m \in Mutations(nextUser)
      /\ page \in Pages(nextUser) /\ got \in BOOLEAN /\ late \in BOOLEAN
      /\ key \in Users!Keys /\ userSteps \in Nat
  BY MutAt DEF UsersInv, UsersTypes, UsersTyped, MutsTyped, PageTyped
<1>3. m.stale \in BOOLEAN /\ page' = page
  <2>1. m.answer = "ok" /\ m.op = "bulk_disable"
    OBVIOUS
  <2> HIDE DEF m
  <2> QED
    BY <1>1, <1>2, <2>1, MutIs, PageAfterIs
<1>4. muts' \in Seq(Mutations(nextUser))
  BY <1>1, GoneIs
<1>5. /\ paging' \in [at : {"none", "server", "answer"}, page : Pages(nextUser),
                      missed : SUBSET Nat, lost : BOOLEAN]
      /\ paging'.missed = {} /\ ~paging'.lost /\ paging'.at = "server"
  BY <1>1, <1>2, NothingAsked
<1>6. UsersTypes'
  <2>1. /\ key' \in Users!Keys /\ got' \in BOOLEAN /\ late' \in BOOLEAN /\ blurred' \in BOOLEAN
        /\ userSteps' \in Nat /\ page' \in Pages(nextUser)
    BY <1>1, <1>2, <1>3
  <2>2. UsersTyped' /\ PageTyped' /\ PagingTyped' /\ MutsTyped'
    BY <1>1, <1>2, <1>4, <1>5, <2>1, TypesStay
  <2>3. form' \in {form, Users!Closed, Users!FormClosing(form)}
    BY <1>1 DEF Users!FormAfter
  <2>4. FormIsTyped'
    BY <1>1, <1>2, <2>3, DialogStays
  <2> QED
    BY <2>2, <2>4 DEF UsersTypes
<1>7. RowsSorted'
  BY <1>1, <1>3, <1>5 DEF UsersInv, RowsSorted, SortedRows
<1>8. AnswersCurrent' /\ Alone'
  BY <1>1, GoneCurrent
<1>9. RowsCovered' /\ TotalRight'
  BY <1>5 DEF RowsCovered, TotalRight, Settled
<1> QED
  BY <1>6, <1>7, <1>8, <1>9 DEF UsersInv

\* Any other answer is put into the page.
LEMMA AnswerKeeps ==
  ASSUME UsersInv, NEW i \in DOMAIN muts, Users!MutationAnswered(i), muts[i].answer = "ok",
         muts[i].op # "bulk_disable"
  PROVE  UsersInv'
<1> DEFINE m == muts[i]
           adds == \/ m.op = "create" /\ key.pg > 0
                   \/ m.op \in Users!EditOps /\ \E u \in m.users : u.id \notin Users!IdsIn(page.rows)
<1>1. /\ m.answer = "ok" /\ m.op # "bulk_disable"
      /\ muts' = Users!RemoveAt(muts, i)
      /\ page' = Users!PageAfter(m)
      /\ form' = Users!FormClosing(form) \/ form' = Users!FormAfter(page')
      /\ late' = (late \/ m.stale) /\ blurred' = (blurred \/ m.crossed \/ adds)
      /\ paging' = [paging EXCEPT !.lost = paging.lost \/ m.n \in paging.missed]
      /\ UNCHANGED <<users, nextUser, key, got, userSteps>>
  BY DEF Users!MutationAnswered
<1>2. /\ UsersTypes /\ nextUser \in Nat /\ m \in Mutations(nextUser)
      /\ page \in Pages(nextUser) /\ got \in BOOLEAN /\ blurred \in BOOLEAN /\ late \in BOOLEAN
      /\ key \in Users!Keys /\ userSteps \in Nat
      /\ paging \in [at : {"none", "server", "answer"}, page : Pages(nextUser),
                      missed : SUBSET Nat, lost : BOOLEAN]
      /\ paging.at # "answer" => paging.missed = {} /\ ~paging.lost
  BY MutAt DEF UsersInv, UsersTypes, UsersTyped, MutsTyped, PageTyped, PagingTyped
<1> HIDE DEF m
<1>3. Patched(m, page')
  BY <1>1, <1>2, PatchedPage
<1>4. m.stale \in BOOLEAN /\ m.crossed \in BOOLEAN /\ m.n \in Nat /\ m.op \in Upserts \cup Deletes
  BY <1>1, <1>2, MutIs, PageAfterIs
<1>5. /\ muts' \in Seq(Mutations(nextUser))
      /\ \A j \in DOMAIN muts \ {i} : \E k \in DOMAIN muts' : Alike(muts'[k], muts[j])
  BY <1>1, GoneIs
<1>6. /\ paging' \in [at : {"none", "server", "answer"}, page : Pages(nextUser),
                      missed : SUBSET Nat, lost : BOOLEAN]
      /\ paging'.at # "answer" => paging'.missed = {} /\ ~paging'.lost
      /\ paging'.at = paging.at /\ paging'.page = paging.page /\ paging'.missed = paging.missed
      /\ paging'.lost = (paging.lost \/ m.n \in paging.missed)
  <2> DEFINE b == paging.lost \/ m.n \in paging.missed
  <2>1. b \in BOOLEAN /\ paging' = [paging EXCEPT !.lost = b]
    BY <1>1
  <2>2. paging.at # "answer" => ~b
    BY <1>2
  <2> HIDE DEF b
  <2>3. /\ paging' \in [at : {"none", "server", "answer"}, page : Pages(nextUser),
                      missed : SUBSET Nat, lost : BOOLEAN]
        /\ paging'.at # "answer" => paging'.missed = {} /\ ~paging'.lost
        /\ paging'.at = paging.at /\ paging'.page = paging.page /\ paging'.missed = paging.missed
        /\ paging'.lost = b
    BY <1>2, <2>1, <2>2
  <2> QED
    BY <2>3 DEF b
<1>7. UsersTypes'
  <2>1. blurred' \in BOOLEAN
    BY <1>1
  <2>2. late' \in BOOLEAN
    BY <1>1
  <2>3. /\ key' \in Users!Keys /\ got' \in BOOLEAN
        /\ userSteps' \in Nat /\ page' \in Pages(nextUser)
    BY <1>1, <1>2, <1>3 DEF Patched
  <2>4. UsersTyped' /\ PageTyped' /\ PagingTyped' /\ MutsTyped'
    BY <1>1, <1>2, <1>5, <1>6, <2>1, <2>2, <2>3, TypesStay
  <2>5. form' \in {form, Users!Closed, Users!FormClosing(form)}
    BY <1>1 DEF Users!FormAfter
  <2>6. FormIsTyped'
    BY <1>1, <1>2, <2>5, DialogStays
  <2> QED
    BY <2>4, <2>6 DEF UsersTypes
<1>8. RowsSorted'
  <2>1. got => SortedRows(page'.rows, key)
    BY <1>3 DEF Patched
  <2> QED
    BY <1>1, <1>6, <2>1 DEF UsersInv, RowsSorted, SortedRows
<1>9. AnswersCurrent' /\ Alone' /\ \A k \in DOMAIN muts' : muts'[k].crossed
  BY <1>1, GoneCurrent
<1>10. Settled' => Settled /\ ~m.stale
  BY <1>1, <1>6 DEF Settled
<1>11. RowsCovered'
  <2>1. ASSUME Settled', NEW v \in Users!ToSet(page'.rows)
        PROVE  \/ v \in users /\ Users!matchesUserFilters(v, key)
               \/ \E k \in DOMAIN muts' : muts'[k].n \in Nat /\ Mends(muts'[k], v, users)
    <3>1. Settled /\ ~m.stale /\ got /\ Covered(page.rows, Nat)
      BY <1>10, <2>1 DEF UsersInv, RowsCovered, Settled
    <3>2. \/ m.op \in Upserts /\ m.users = {v} /\ Users!matchesUserFilters(v, key)
          \/ v \in Users!ToSet(page.rows) /\ v.id \notin UserIds(m.users)
      BY <1>1, <1>3, <2>1, <3>1 DEF Patched
    <3>3. CASE m.op \in Upserts /\ m.users = {v} /\ Users!matchesUserFilters(v, key)
      <4>1. v \in users
        BY <1>1, <3>1, <3>3 DEF UsersInv, AnswersCurrent, m
      <4> QED
        BY <3>3, <4>1
    <3>4. CASE v \in Users!ToSet(page.rows) /\ v.id \notin UserIds(m.users)
      <4>1. ~Mends(muts[i], v, users)
        BY <3>4 DEF Mends, m
      <4> QED
        BY <1>1, <3>1, <3>4, <4>1, GoneCovered
    <3> QED
      BY <3>2, <3>3, <3>4
  <2>2. ASSUME paging.at = "answer", ~paging'.lost, NEW v \in Users!ToSet(paging.page.rows)
        PROVE  \/ v \in users /\ Users!matchesUserFilters(v, key)
               \/ \E k \in DOMAIN muts' : muts'[k].n \in paging.missed /\ Mends(muts'[k], v, users)
    <3>1. Covered(paging.page.rows, paging.missed) /\ muts[i].n \notin paging.missed
      BY <1>6, <2>2 DEF UsersInv, RowsCovered, m
    <3> QED
      BY <1>1, <2>2, <3>1, GoneCovered
  <2>3. Settled' => Covered(page.rows, Nat)'
    BY <1>1, <2>1 DEF Covered
  <2>4. paging'.at = "answer" /\ ~paging'.lost => Covered(paging.page.rows, paging.missed)'
    BY <1>1, <1>6, <2>2 DEF Covered
  <2> QED
    BY <2>3, <2>4 DEF RowsCovered
<1>12. TotalRight'
  <2>1. Matching(users)' = Matching(users)
    BY <1>1 DEF Matching
  <2>2. ASSUME Settled', ~blurred'
        PROVE  page'.total = Cardinality(Matching(users))
    <3>1. Settled /\ ~m.stale /\ got /\ ~blurred /\ ~m.crossed /\ ~adds
      BY <1>1, <1>10, <2>2 DEF Settled
    <3>2. PICK M \in SUBSET Nat : Before(m, M, page, Matching(users))
      BY <1>1, <3>1 DEF UsersInv, TotalRight, m
    <3>3. m.op = "create" => key.pg = 0
      BY <1>2, <3>1, KeyIs
    <3>4. m.op \in Users!EditOps => UserIds(m.users) \subseteq Users!IdsIn(page.rows)
      BY <3>1 DEF UserIds
    <3>5. Users!PageAfter(m).total = Cardinality(Matching(users))
      BY <1>1, <1>2, <3>1, <3>2, <3>3, <3>4, TotalAfter DEF m
    <3> QED
      BY <1>1, <3>5
  <2>3. m.n \notin paging.missed /\
          (\A k \in DOMAIN muts' : muts'[k].answer = "ok" => muts'[k].n \notin paging.missed)
          => \A k \in DOMAIN muts : muts[k].answer = "ok" => muts[k].n \notin paging.missed
    BY <1>5 DEF Alike, m
  <2>4. paging'.at = "answer" /\ ~paging'.lost =>
       ((\A k \in DOMAIN muts' : muts'[k].answer = "ok" => muts'[k].n \notin paging'.missed)
         => paging'.page.total = Cardinality(Matching(users)))
    BY <1>6, <2>3 DEF UsersInv, TotalRight
  <2> QED
    BY <1>9, <2>1, <2>2, <2>4 DEF TotalRight
<1> QED
  BY <1>7, <1>8, <1>9, <1>11, <1>12 DEF UsersInv

-----------------------------------------------------------------------------
(* The invariant holds, and gives what the page promises.                  *)

\* What the page starts with is as stored.
LEMMA UsersInvStarts == Init => UsersInv
<1> SUFFICES ASSUME Init
             PROVE  UsersInv
  OBVIOUS
<1> DEFINE I == {0} \cup {u.id : u \in FirstUsers}
           M == {u \in users : Users!matchesUserFilters(u, key)}
<1>1. /\ users = FirstUsers /\ nextUser = 1 + Users!Max(I)
      /\ key = [filter |-> "all", pg |-> 0, desc |-> TRUE] /\ got = TRUE
      /\ page = Users!PageOf(users, key) /\ paging = Users!NoPaging /\ muts = <<>>
      /\ form = Users!Closed /\ late = FALSE /\ blurred = FALSE /\ userSteps = 0
  BY DEF Init, Users!UsersInit
<1>2. \A u \in FirstUsers : u \in Users!User /\ u.id \in Nat \ {0}
  BY UsersAssumption DEF Users!User
<1>3. nextUser \in Nat \ {0} /\ People(users, nextUser)
  <2>1. IsFiniteSet({u.id : u \in FirstUsers})
    BY UsersAssumption, IdsAsMany DEF UserIds
  <2>2. IsFiniteSet(I) /\ I \subseteq Nat /\ I # {}
    <3> DEFINE J == {u.id : u \in FirstUsers}
    <3>1. IsFiniteSet(J \cup {0})
      BY <2>1, FS_AddElement
    <3>2. I = J \cup {0}
      OBVIOUS
    <3>3. I \subseteq Nat /\ I # {}
      BY <1>2
    <3> QED
      BY <3>1, <3>2, <3>3
  <2>3. Users!Max(I) = Hosts!Max(I)
    BY DEF Users!Max, Hosts!Max
  <2> DEFINE x == Users!Max(I)
  <2>4. x \in I /\ \A n \in I : n <= x
    BY <2>2, <2>3, MaxIs
  <2> HIDE DEF x
  <2>5. x \in Nat
    BY <2>2, <2>4
  <2>6. nextUser = 1 + x
    BY <1>1 DEF x
  <2>7. \A u \in FirstUsers : u.id <= x
    BY <2>4
  <2>8. \A u \in FirstUsers : 0 < u.id /\ u.id < nextUser
    BY <1>2, <2>5, <2>6, <2>7
  <2> QED
    BY <1>1, <1>2, <2>5, <2>6, <2>8, UsersAssumption DEF People
<1>4. key \in Users!Keys
  BY <1>1, TableAssumption DEF Users!Keys
<1> HIDE DEF I
<1>5. /\ page \in Pages(nextUser) /\ SortedRows(page.rows, key)
      /\ Users!ToSet(page.rows) \subseteq M /\ page.total = Cardinality(M)
  <2> DEFINE p == Users!PageOf(users, key)
  <2>1. /\ p \in Pages(nextUser) /\ SortedRows(p.rows, key)
        /\ Users!ToSet(p.rows) \subseteq M /\ p.total = Cardinality(M)
    BY <1>3, <1>4, PageOfIs
  <2> QED
    BY <1>1, <2>1
<1>6. /\ paging \in [at : {"none", "server", "answer"}, page : Pages(nextUser),
                      missed : SUBSET Nat, lost : BOOLEAN]
      /\ paging.missed = {} /\ ~paging.lost /\ paging.at = "none"
  BY <1>1, <1>3, NothingAsked
<1>7. UsersTypes
  <2>1. UsersTyped /\ PageTyped /\ PagingTyped
    BY <1>1, <1>3, <1>4, <1>5, <1>6 DEF UsersTyped, PageTyped, PagingTyped
  <2>2. MutsTyped
    BY <1>1, EmptySeq DEF MutsTyped
  <2>3. FormIsTyped
    BY <1>1 DEF FormIsTyped, Users!Closed
  <2> QED
    BY <2>1, <2>2, <2>3 DEF UsersTypes
<1>8. RowsSorted
  BY <1>5, <1>6 DEF RowsSorted
<1>9. DOMAIN muts = {}
  BY <1>1
<1>10. AnswersCurrent /\ Alone
  BY <1>9 DEF AnswersCurrent, Alone
<1>11. RowsCovered
  <2>1. Covered(page.rows, Nat)
    BY <1>5 DEF Covered
  <2> QED
    BY <1>6, <2>1 DEF RowsCovered
<1>12. TotalRight
  <2>1. page.total = Cardinality(Matching(users))
    BY <1>3, <1>5, MatchingIs
  <2> QED
    BY <1>6, <1>9, <2>1 DEF TotalRight
<1> QED
  BY <1>7, <1>8, <1>10, <1>11, <1>12 DEF UsersInv

\* Every step of the page keeps the invariant.
LEMMA UsersStepKeeps ==
  ASSUME UsersInv, Users!UsersNext
  PROVE  UsersInv'
<1>1. UsersTypes
  BY DEF UsersInv
<1>2. CASE Users!ChangeKey \/ Users!handleRefresh
  BY <1>2, FetchAnewKeeps
<1>3. CASE Users!PagingServed
  BY <1>3, ReadKeeps
<1>4. CASE Users!PagingArrives
  BY <1>4, ArrivalKeeps
<1>5. CASE Users!PagingFails
  BY <1>5, FailedFetchKeeps
<1>6. CASE Users!CreateUser
  BY <1>1, <1>6, CreationAsks, AskKeeps
<1>7. CASE Users!SubmitEdit
  BY <1>1, <1>7, EditAsks, AskKeeps
<1>8. CASE Users!OthersChange
  BY <1>8, OthersKeep
<1>9. CASE Users!TypeNote \/ Users!handleEditModalClose \/ Users!CloseTimer
  BY <1>9, EditingKeeps
<1>10. ASSUME NEW u \in Users!ToSet(page.rows),
              Users!ResetUser(u) \/ Users!confirmDelete(u)
       PROVE  UsersInv'
  BY <1>1, <1>10, OperationAsks, AskKeeps
<1>11. ASSUME NEW u \in Users!ToSet(page.rows),
              Users!handleEdit(u, "row") \/ Users!handleEdit(u, "table")
       PROVE  UsersInv'
  BY <1>11, EditingKeeps
<1>12. ASSUME NEW S \in SUBSET Users!ToSet(page.rows),
              Users!handleBulkDelete(S) \/ Users!handleBulkDisableUsers(S)
       PROVE  UsersInv'
  BY <1>1, <1>12, BulkAsks, AskKeeps
<1>13. ASSUME NEW i \in DOMAIN muts, Users!ServeUser(i)
       PROVE  UsersInv'
  BY <1>13, ServingKeeps
<1>14. ASSUME NEW i \in DOMAIN muts, Users!MutationFails(i)
       PROVE  UsersInv'
  BY <1>14, LossKeeps
<1>15. ASSUME NEW i \in DOMAIN muts, Users!MutationAnswered(i)
       PROVE  UsersInv'
  <2>1. CASE muts[i].answer # "ok"
    BY <1>15, <2>1, RefusedKeeps
  <2>2. CASE muts[i].answer = "ok" /\ muts[i].op = "bulk_disable"
    BY <1>15, <2>2, BulkAnswerKeeps
  <2>3. CASE muts[i].answer = "ok" /\ muts[i].op # "bulk_disable"
    BY <1>15, <2>3, AnswerKeeps
  <2> QED
    BY <2>1, <2>2, <2>3
<1> QED
  BY <1>2, <1>3, <1>4, <1>5, <1>6, <1>7, <1>8, <1>9, <1>10, <1>11, <1>12, <1>13, <1>14, <1>15
     DEF Users!UsersNext

\* The table is consistent in every state of every behaviour.
LEMMA UsersInvHolds == Spec => []UsersInv
<1>1. UsersInv /\ [Next]_vars => UsersInv'
  <2> SUFFICES ASSUME UsersInv, [Next]_vars
               PROVE  UsersInv'
    OBVIOUS
  <2>1. CASE Users!UsersNext
    BY <2>1, UsersStepKeeps
  <2>2. CASE UNCHANGED userVars
    <3>1. /\ UNCHANGED <<users, nextUser, key, got, page, paging, muts, late, blurred, userSteps>>
          /\ form' = form
      BY <2>2 DEF userVars
    <3>2. UsersTypes'
      BY <3>1 DEF UsersInv, UsersTypes, UsersTyped, PageTyped, PagingTyped, MutsTyped, FormIsTyped
    <3> QED
      BY <3>1, <3>2, DialogKeeps
  <2> QED
    BY <2>1, <2>2 DEF Next, HostsStep, UsersStep, LogsStep, SessionStep, vars
<1> QED
  BY <1>1, UsersInvStarts, PTL DEF Spec

\* Whatever operations, fetches, faults and changes of others came in whatever order, once
\* nothing is under way every row of the table is a stored user that matches the filters, in
\* its place, and the total counts those that match (exceptions: module UsersPage).
THEOREM TableShowsStored == Spec => []RowsFresh
<1>1. UsersInv => RowsFresh
  <2> SUFFICES ASSUME UsersInv, muts = <<>>, paging.at = "none", got, ~late
               PROVE  /\ \A u \in Users!ToSet(page.rows) :
                           u \in users /\ Users!matchesUserFilters(u, key)
                      /\ page.rows = Users!Sorted(Users!ToSet(page.rows), key)
                      /\ ~blurred => page.total =
                           Users!Cardinality({u \in users : Users!matchesUserFilters(u, key)})
    BY DEF RowsFresh, Users!RowsFresh
  <2>1. DOMAIN muts = {} /\ Settled
    BY DEF Settled
  <2>2. /\ page \in Pages(nextUser) /\ key \in Users!Keys /\ People(users, nextUser)
        /\ SortedRows(page.rows, key)
    BY DEF UsersInv, UsersTypes, UsersTyped, PageTyped, RowsSorted
  <2>3. \A u \in Users!ToSet(page.rows) : u \in users /\ Users!matchesUserFilters(u, key)
    BY <2>1 DEF UsersInv, RowsCovered, Covered
  <2>4. Users!Sorted(Users!ToSet(page.rows), key) = page.rows
    <3>1. Lists(page.rows, Users!ToSet(page.rows)) /\ People(Users!ToSet(page.rows), nextUser)
      BY <2>2, RowsAsSet
    <3> QED
      BY <2>2, <3>1, SortedAlready
  <2>5. ASSUME ~blurred
        PROVE  page.total = Users!Cardinality({u \in users : Users!matchesUserFilters(u, key)})
    <3>1. page.total = Cardinality(Matching(users))
      BY <2>1, <2>5 DEF UsersInv, TotalRight
    <3>2. Cardinality(Matching(users)) =
            Cardinality({u \in users : Users!matchesUserFilters(u, key)})
      BY <2>2, MatchingIs
    <3> QED
      BY <3>1, <3>2, SameHelpers
  <2> QED
    BY <2>3, <2>4, <2>5
<1> QED
  BY <1>1, UsersInvHolds, PTL

\* What the pages hold in every state: hosts and users with one id each, a page no longer than
\* it may be, an open dialog with its user, a log within its buffer and an app with an account.
THEOREM PagesAreTyped == Spec => []PagesTypeOK
<1>1. HostsTyped => Hosts!HostsTypeOK
  <2> SUFFICES ASSUME HostsTyped
               PROVE  Hosts!HostsTypeOK
    OBVIOUS
  <2>1. Table(stored, nextId) /\ Known(data, nextId) /\ Known(hosts, nextId)
    BY DEF HostsTyped, StoredTyped, ListsTyped
  <2>2. Cardinality(UserIds(stored)) = Cardinality(stored)
    BY <2>1, IdsAsMany DEF Table
  <2>3. Cardinality(dialog) <= 1
    <3>1. CASE dialog = {}
      BY <3>1, FS_EmptySet
    <3>2. CASE dialog # {}
      <4>1. PICK h \in dialog : dialog = {h}
        BY <3>2 DEF HostsTyped, DialogTyped
      <4>2. Cardinality({h}) = 1
        BY FS_Singleton
      <4> DEFINE c == Cardinality(dialog)
      <4>3. c = 1
        BY <4>1, <4>2
      <4> HIDE DEF c
      <4>4. c <= 1
        BY <4>3
      <4> QED
        BY <4>4 DEF c
    <3> QED
      BY <3>1, <3>2
  <2>4. /\ Hosts!Cardinality(Hosts!Ids(stored)) = Cardinality(UserIds(stored))
        /\ Hosts!Cardinality(stored) = Cardinality(stored)
        /\ Hosts!Cardinality(dialog) = Cardinality(dialog)
        /\ Hosts!IsFiniteSet(stored) <=> IsFiniteSet(stored)
    BY DEF Hosts!Cardinality, Cardinality, Hosts!Ids, UserIds, Hosts!IsFiniteSet, IsFiniteSet
  <2>5. IsFiniteSet(stored) /\ \A h \in stored : h \in Hosts!Host /\ h.id < nextId
    BY <2>1 DEF Table
  <2>6. ASSUME NEW q, Known(q, nextId)
        PROVE  /\ \A i \in DOMAIN q : q[i] \in Hosts!Host
               /\ \A i, j \in DOMAIN q : i # j => q[i].id # q[j].id
    BY <2>6, LenProperties, ElementOfSeq DEF Known
  <2>7. \A r \in Hosts!ToSet(reqs) : r.answer \in {"none", "ok", "failed"} /\ r.here \in BOOLEAN
    <3>1. reqs \in Seq(Requests(nextId))
      BY DEF HostsTyped, ReqsTyped
    <3>2. \A i \in DOMAIN reqs : reqs[i] \in Requests(nextId)
      BY <3>1, LenProperties, ElementOfSeq
    <3>3. \A r \in Requests(nextId) : r.answer \in {"none", "ok", "failed"} /\ r.here \in BOOLEAN
      BY DEF Requests
    <3> QED
      BY <3>2, <3>3 DEF Hosts!ToSet
  <2> QED
    BY <2>1, <2>2, <2>3, <2>4, <2>5, <2>6, <2>7 DEF Hosts!HostsTypeOK
<1>2. UsersInv => Users!UsersTypeOK
  <2> SUFFICES ASSUME UsersInv
               PROVE  Users!UsersTypeOK
    OBVIOUS
  <2>1. /\ People(users, nextUser) /\ key \in Users!Keys /\ got \in BOOLEAN
        /\ page \in Pages(nextUser)
    BY DEF UsersInv, UsersTypes, UsersTyped, PageTyped
  <2>2. Cardinality(UserIds(users)) = Cardinality(users)
    BY <2>1, IdsAsMany DEF People
  <2> DEFINE T == Users!ToSet(page.rows)
  <2>3. Lists(page.rows, T) /\ People(T, nextUser)
    BY <2>1, RowsAsSet
  <2>4. Cardinality(UserIds(T)) = Cardinality(T) /\ Len(page.rows) = Cardinality(T)
    <3>1. IsFiniteSet(T) /\ \A u, v \in T : u.id = v.id => u = v
      BY <2>3 DEF People
    <3> HIDE DEF T
    <3> QED
      BY <2>3, <3>1, IdsAsMany, ListsIs
  <2>5. UserIds(T) = Users!IdsIn(page.rows)
    BY DEF UserIds, Users!IdsIn
  <2>6. \A u \in users : u \in Users!User /\ u.id < nextUser
    BY <2>1 DEF People
  <2>7. T \subseteq Users!User /\ page.total \in Nat /\ Len(page.rows) <= Limit
    BY <2>1, <2>3 DEF Pages, People
  <2>8. form.open => Cardinality(form.user) = 1 /\ ~form.closing
    BY FS_Singleton DEF UsersInv, UsersTypes, FormIsTyped
  <2>9. Cardinality({u.id : u \in users}) = Cardinality(users)
    BY <2>2 DEF UserIds
  <2> QED
    BY <2>1, <2>4, <2>5, <2>6, <2>7, <2>8, <2>9, SameHelpers DEF Users!UsersTypeOK
<1>3. LogsWhole => Logs!LogsTypeOK
  BY DEF LogsWhole, LogsTyped, Logs!LogsTypeOK
<1>4. SessionInv => Account!SessionTypeOK
  BY DEF SessionInv, SessionTyped, Toks, TabInv, ChecksOnly, AppHasAccount, Account!SessionTypeOK
<1>5. HostsTyped /\ UsersInv /\ LogsWhole /\ SessionInv => PagesTypeOK
  BY <1>1, <1>2, <1>3, <1>4 DEF PagesTypeOK
<1> QED
  BY <1>5, HostsTypedHolds, UsersInvHolds, LogsWholeHolds, SessionInvHolds, PTL
=============================================================================
