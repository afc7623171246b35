------------------------------ MODULE HostsList ------------------------------
(***************************************************************************)
(* The hosts page of the dashboard: the list an admin sees, edits and      *)
(* reorders by dragging, the query behind it, and the API it calls.        *)
(*                                                                         *)
(* The page keeps a copy of the query's data, which a drag rewrites before *)
(* the server knows of it.  Every other operation waits for the server and *)
(* then fetches the list again; a drag does not.  The query keeps its old  *)
(* data, and the page its copy, when an answer brings nothing new.         *)
(***************************************************************************)
EXTENDS Integers, Sequences, SequencesExt, FiniteSetsExt

CONSTANTS
  FirstHosts,   \* the hosts stored at the beginning
  MaxHostOps,      \* bounds what the admin does
  MaxHostUpsets    \* bounds other admins' changes, faults and new visits together

\* A fetch: none, one without an answer, or one with the list it brings.
NoFetch   == [at |-> "none", list |-> <<>>]
Waiting   == [at |-> "server", list |-> <<>>]
Got(list) == [at |-> "answer", list |-> list]

VARIABLES
  stored,    \* the hosts in the database
  nextId,    \* the id of the next host
  data,      \* the query's data: the last list fetched
  hosts,     \* the page's copy of it, in its order
  listing,   \* the fetch under way
  reqs,      \* the requests under way, in the order they were sent
  dialog,    \* the host in the form: a set of at most one; id 0 is a new one
  suspect, quiet,   \* history: see HostsShowStored
  hostOps, hostUpsets

hostGhosts == <<suspect, quiet>>
hostCounts == <<hostOps, hostUpsets>>
hostVars   == <<stored, nextId, data, hosts, listing, reqs, dialog, hostGhosts,
                hostCounts>>

\* Something from outside happens.
Upset == hostUpsets < MaxHostUpsets /\ hostUpsets' = hostUpsets + 1

Host == [id : Nat, val : {"old", "new"}, off : BOOLEAN, priority : Nat]

-----------------------------------------------------------------------------
(* The server.                                                             *)

Ids(S) == {h.id : h \in S}

\* The query sorts by priority alone: hosts that share one come in any order.
get_hosts(S) ==
  {q \in SetToSeqs(S) : \A i, j \in DOMAIN q : i < j => q[i].priority <= q[j].priority}

Overwrite(S, h) == {g \in S : g.id # h.id} \cup {h}

\* Each host is committed on its own; one that is gone is created anew.
modify_hosts_row(h) ==
  IF h.id \in Ids(stored)
    THEN stored' = Overwrite(stored, h) /\ UNCHANGED nextId
    ELSE stored' = stored \cup {[h EXCEPT !.id = nextId]} /\ nextId' = nextId + 1

\* The server takes the next step of a request.
Serve(i) ==
  LET r == reqs[i]
      Answer(a) == reqs' = [reqs EXCEPT ![i].answer = a]
      h == r.rows[1]
  IN
  /\ r.answer = "none"
  /\ \/ /\ r.op = "create"
        /\ stored' = stored \cup {[h EXCEPT !.id = nextId]}
        /\ nextId' = nextId + 1
        /\ Answer("ok")
     \/ /\ r.op = "modify"
        /\ IF h.id \in Ids(stored)
             THEN stored' = Overwrite(stored, h) /\ Answer("ok")
             ELSE Answer("failed") /\ UNCHANGED stored
        /\ UNCHANGED nextId
     \/ /\ r.op \in {"remove", "disable", "enable"}
        /\ IF r.ids \subseteq Ids(stored)
             THEN /\ stored' = IF r.op = "remove"
                                 THEN {g \in stored : g.id \notin r.ids}
                                 ELSE {[g EXCEPT !.off = IF g.id \in r.ids
                                                           THEN r.op = "disable" ELSE @]
                                        : g \in stored}
                  /\ Answer("ok")
             ELSE Answer("failed") /\ UNCHANGED stored
        /\ UNCHANGED nextId
     \/ /\ r.op = "reorder"
        /\ modify_hosts_row(h)
        /\ reqs' = [reqs EXCEPT ![i].rows = Tail(@),
                                ![i].answer = IF Len(r.rows) = 1 THEN "ok" ELSE @]
  /\ UNCHANGED <<data, hosts, listing, dialog, hostGhosts, hostCounts>>

\* Another admin changes a host, removes it, or moves it behind the others.
OtherAdmin ==
  /\ Upset
  /\ \E h \in stored :
       stored' \in {Overwrite(stored, [h EXCEPT !.val = "new"]),
                    stored \ {h},
                    Overwrite(stored, [h EXCEPT !.priority = 1 + Max({g.priority : g \in stored})])}
  /\ stored' # stored
  /\ suspect' = TRUE
  /\ quiet' = FALSE
  /\ UNCHANGED <<nextId, data, hosts, listing, reqs, dialog, hostOps>>

-----------------------------------------------------------------------------
(* The query and the page's copy of its data.                              *)

\* A drag's request is under way.
Dragging == \E i \in DOMAIN reqs : reqs[i].op = "reorder"

\* A fetch that is under way is dropped for the new one.
Refetched(quietly) ==
  /\ listing' = Waiting
  /\ quiet' = quietly

FetchServed ==
  /\ listing = Waiting
  /\ \E list \in get_hosts(stored) : listing' = Got(list)
  /\ UNCHANGED <<stored, nextId, data, hosts, reqs, dialog, hostGhosts, hostCounts>>

\* An equal answer leaves the data's identity, and with it the copy, alone.
FetchArrives ==
  /\ listing.at = "answer"
  /\ data' = listing.list
  /\ hosts' = IF listing.list = data THEN hosts ELSE listing.list
  /\ listing' = NoFetch
  /\ suspect' = (suspect /\ ~(quiet /\ hosts' = listing.list))
  /\ UNCHANGED <<stored, nextId, reqs, dialog, quiet, hostCounts>>

FetchFails ==
  /\ listing # NoFetch
  /\ Upset
  /\ listing' = NoFetch
  /\ suspect' = TRUE
  /\ UNCHANGED <<stored, nextId, data, hosts, reqs, dialog, quiet, hostOps>>

\* The refresh button.
handleRefreshClick ==
  /\ dialog = {}
  /\ Refetched(reqs = <<>>)
  /\ suspect' = (suspect \/ Dragging)
  /\ UNCHANGED <<stored, nextId, data, hosts, reqs, dialog, hostCounts>>

\* Leaving the page and coming back: a copy of the cached data, then a fetch.
Remount ==
  /\ Upset
  /\ hosts' = data
  /\ dialog' = {}
  /\ IF listing = NoFetch THEN Refetched(reqs = <<>>) ELSE UNCHANGED <<listing, quiet>>
  /\ reqs' = [i \in DOMAIN reqs |-> [reqs[i] EXCEPT !.here = FALSE]]
  /\ suspect' = (suspect \/ Dragging)
  /\ UNCHANGED <<stored, nextId, data, hostOps>>

-----------------------------------------------------------------------------
(* The operations.                                                         *)

\* A drag of this page waits for its answer (isUpdatingPriorities).
busy == \E i \in DOMAIN reqs : reqs[i].op = "reorder" /\ reqs[i].here

Request(op, rows, ids) ==
  [op |-> op, rows |-> rows, ids |-> ids, prev |-> <<>>, next |-> <<>>,
   here |-> TRUE, answer |-> "none"]

\* The admin starts an operation; beside a drag the outcome is anyone's guess.
Send(r) ==
  /\ hostOps < MaxHostOps
  /\ hostOps' = hostOps + 1
  /\ reqs' = Append(reqs, r)
  /\ quiet' = FALSE
  /\ suspect' = (suspect \/ Dragging)
  /\ UNCHANGED <<stored, nextId, data, listing, hostUpsets>>

NextPriority(list, first) ==
  IF list = <<>> THEN first ELSE 1 + Max({h.priority : h \in ToSet(list)})

handleDuplicate(h) ==
  /\ dialog = {}
  /\ Send(Request("create", <<[h EXCEPT !.priority = NextPriority(hosts, 1)]>>, {}))
  /\ UNCHANGED <<hosts, dialog>>

\* The whole host goes back as it is shown, with its status turned.
handleToggleStatus(h) ==
  /\ dialog = {}
  /\ Send(Request("modify", <<[h EXCEPT !.off = ~@]>>, {}))
  /\ UNCHANGED <<hosts, dialog>>

handleConfirmDelete(h) ==
  /\ dialog = {}
  /\ Send(Request("remove", <<>>, {h.id}))
  /\ UNCHANGED <<hosts, dialog>>

\* A bulk delete sends what was selected; the others what is shown and eligible.
\* A host that was selected may have gone since.
handleBulk(op) ==
  /\ dialog = {} /\ hostOps < MaxHostOps
  /\ \E picked \in SUBSET (1..(nextId - 1)) \ {{}} :
       LET Eligible(off) == picked \cap Ids({h \in ToSet(hosts) : h.off = off})
           ids == CASE op = "remove"  -> picked
                    [] op = "disable" -> Eligible(FALSE)
                    [] op = "enable"  -> Eligible(TRUE)
       IN ids # {} /\ Send(Request(op, <<>>, ids))
  /\ UNCHANGED <<hosts, dialog>>

\* The form takes the host as it is shown now and sends it whole later.
handleEdit(h) ==
  /\ dialog = {} /\ hostOps < MaxHostOps
  /\ dialog' = {h}
  /\ UNCHANGED <<stored, nextId, data, hosts, listing, reqs, hostGhosts, hostCounts>>

handleCreateClick ==
  /\ dialog = {} /\ hostOps < MaxHostOps
  /\ dialog' = {[id |-> 0, val |-> "new", off |-> FALSE, priority |-> 0]}
  /\ UNCHANGED <<stored, nextId, data, hosts, listing, reqs, hostGhosts, hostCounts>>

CloseDialog ==
  /\ dialog # {}
  /\ dialog' = {}
  /\ UNCHANGED <<stored, nextId, data, hosts, listing, reqs, hostGhosts, hostCounts>>

\* The form sends one request at a time.
handleSubmit ==
  /\ ~\E r \in ToSet(reqs) : r.here /\ r.op \in {"create", "modify"}
  /\ \E h \in dialog :
       IF h.id = 0
         THEN Send(Request("create", <<[h EXCEPT !.priority = NextPriority(data, 0)]>>, {}))
         ELSE Send(Request("modify", <<[h EXCEPT !.val = "new"]>>, {}))
  /\ UNCHANGED <<hosts, dialog>>

arrayMove(s, from, to) == InsertAt(RemoveAt(s, from), to, s[from])

Renumbered(s) == [i \in DOMAIN s |-> [s[i] EXCEPT !.priority = i - 1]]

\* What the table shows: by priority, then by id.
sortedHosts(s) ==
  CHOOSE q \in SetToSeqs(ToSet(s)) :
    \A i, j \in DOMAIN q :
      i < j => \/ q[i].priority < q[j].priority
               \/ q[i].priority = q[j].priority /\ q[i].id < q[j].id

\* A bug: the list is moved but keeps its old priorities.
MUT_Dragged(s, from, to) == arrayMove(s, from, to)

Dragged(s, from, to) == Renumbered(arrayMove(s, from, to))

handleDragEnd(from, to) ==
  /\ dialog = {}
  /\ ~busy
  /\ from # to
  /\ hosts' = Dragged(hosts, from, to)
  /\ hostOps < MaxHostOps
  /\ hostOps' = hostOps + 1
  /\ reqs' = Append(reqs, [Request("reorder", hosts', {}) EXCEPT !.prev = hosts, !.next = hosts'])
  /\ quiet' = FALSE
  /\ suspect' = (suspect \/ reqs # <<>> \/ listing # NoFetch)
  /\ UNCHANGED <<stored, nextId, data, listing, dialog, hostUpsets>>

-----------------------------------------------------------------------------
(* The answers.                                                            *)

\* A request fails on the way there, on the way back, or half way through.
RequestFails(i) ==
  /\ reqs[i].answer # "failed"
  /\ Upset
  /\ reqs' = [reqs EXCEPT ![i].answer = "failed"]
  /\ suspect' = (suspect \/ reqs[i].answer = "ok"
                   \/ (reqs[i].op = "reorder" /\ reqs[i].rows # reqs[i].next))
  /\ UNCHANGED <<stored, nextId, data, hosts, listing, dialog, quiet, hostOps>>

\* A bug: a failed drag leaves its order on the screen.
MUT_DragAnswered(r) == hosts' = IF r.here THEN r.next ELSE hosts

DragAnswered(r) ==
  hosts' = CASE ~r.here           -> hosts
             [] r.answer = "ok"   -> r.next
             [] OTHER             -> r.prev

\* The other operations fetch the list again when they succeeded.
Answered(i) ==
  LET r == reqs[i] IN
  /\ r.answer # "none"
  /\ reqs' = RemoveAt(reqs, i)
  /\ IF r.op = "reorder"
       THEN /\ DragAnswered(r)
            /\ suspect' = (suspect \/ (r.answer = "failed" /\ \E h \in dialog : h.id # 0))
            /\ UNCHANGED <<listing, dialog, quiet>>
       ELSE /\ IF r.answer = "ok" THEN Refetched(reqs' = <<>>)
                                  ELSE UNCHANGED <<listing, quiet>>
            /\ dialog' = IF r.answer = "ok" /\ r.here /\ r.op \in {"create", "modify"}
                           THEN {} ELSE dialog
            /\ UNCHANGED <<hosts, suspect>>
  /\ UNCHANGED <<stored, nextId, data, hostCounts>>

-----------------------------------------------------------------------------
HostsInit ==
  /\ stored = FirstHosts
  /\ nextId = 1 + Max({0} \cup Ids(FirstHosts))
  /\ data \in get_hosts(FirstHosts)
  /\ hosts = data
  /\ listing = NoFetch
  /\ reqs = <<>>
  /\ dialog = {}
  /\ suspect = FALSE /\ quiet = FALSE
  /\ hostOps = 0 /\ hostUpsets = 0

HostsNext ==
  \/ OtherAdmin \/ FetchServed \/ FetchArrives \/ FetchFails
  \/ handleRefreshClick \/ Remount
  \/ handleCreateClick \/ CloseDialog \/ handleSubmit
  \/ \E i \in DOMAIN reqs : Serve(i) \/ RequestFails(i) \/ Answered(i)
  \/ \E h \in ToSet(hosts) : \/ handleDuplicate(h) \/ handleToggleStatus(h)
                             \/ handleConfirmDelete(h) \/ handleEdit(h)
  \/ \E op \in {"remove", "disable", "enable"} : handleBulk(op)
  \/ \E from, to \in DOMAIN hosts : handleDragEnd(from, to)

-----------------------------------------------------------------------------
\* Hosts have one id each in the database and in the page's copy.
HostsTypeOK ==
  /\ IsFiniteSet(stored) /\ \A h \in stored : h \in Host /\ h.id < nextId
  /\ Cardinality(Ids(stored)) = Cardinality(stored)
  /\ \A list \in {data, hosts} :
       /\ \A i \in DOMAIN list : list[i] \in Host
       /\ \A i, j \in DOMAIN list : i # j => list[i].id # list[j].id
  /\ Cardinality(dialog) <= 1
  /\ \A r \in ToSet(reqs) : r.answer \in {"none", "ok", "failed"} /\ r.here \in BOOLEAN

\* Whatever the admin did and in whatever order the requests and the fetches were answered,
\* once nothing is under way the page shows the hosts that are stored: every operation
\* but the drag is followed by a fetch that began after it, and a drag leaves the screen
\* as the server has it, when it fails too.  Excepted, until a fetch with nothing
\* else under way has reached the screen: other admins' changes, answers that were lost, drags
\* that failed half way, drags that overlap another operation or fetch, and forms opened
\* on a host while a drag that then failed was under way: they hold the order it was to
\* have, and the answer to their fetch may equal the query's data and leave the screen.
HostsShowStored ==
  (reqs = <<>> /\ listing = NoFetch /\ ~suspect) => ToSet(hosts) = stored

\* A dragged host takes the place in the table of the host it was dropped on, and
\* the rest keep their order: the list that handleDragEnd moves is the page's copy and not
\* the sorted list on the screen, and the two agree as long as no priorities are equal.
DropsWhereShown ==
  (~busy /\ busy' /\ Cardinality({h.priority : h \in ToSet(hosts)}) = Len(hosts))
    => LET IdsOf(s) == [i \in DOMAIN s |-> s[i].id]
           before   == IdsOf(sortedHosts(hosts))
           after    == IdsOf(sortedHosts(hosts'))
       IN \E i, j \in DOMAIN before : i # j /\ after = arrayMove(before, i, j)
                                       /\ IdsOf(hosts') = after
=============================================================================
