----------------------------- MODULE CoreEditor -----------------------------
(***************************************************************************)
(* The core editor of the dashboard: one admin's browser with the page, the*)
(* global draft store behind it, the query cache, and the API.             *)
(*                                                                         *)
(* The draft of a core lives twice: as a structured profile and as JSON    *)
(* text, kept together by two debounced timers while the advanced section  *)
(* is open.  The store remembers a baseline (to tell whether there is      *)
(* anything to save), a snapshot (to discard to) and a fingerprint of the  *)
(* server's config (to pick up a refetch).  Saves and refetches are in     *)
(* flight while the admin goes on typing or leaves for another core, and   *)
(* other admins change the cores meanwhile.                                *)
(*                                                                         *)
(* A config is what its sections hold and the form it is written in: as    *)
(* the kit writes it ("kit"), equal content written by somebody else       *)
(* ("other"), or content the kit does not accept ("bad").                  *)
(***************************************************************************)
EXTENDS Integers, FiniteSets

CONSTANTS
  Cores,      \* ids a core may get
  Sections,   \* the parts of a config an edit can touch
  Values,     \* what such a part may hold
  Names,      \* the names of cores
  InitRows,   \* the rows of cores that may be stored at the beginning
  OtherRows,  \* the rows other admins may store
  NoRow, NoCfg,      \* no core, no config
  Idle, Sent, Lost,  \* no request for a core, one without an answer, one that failed
  MaxEdits, MaxSaves, MaxMoves, MaxOthers, MaxFaults   \* bounds

Kinds   == {"xray", "wg"}
Bodies  == [Sections -> Values]
Configs == [body : Bodies, form : {"kit", "other", "bad"}]
Rows    == [name : Names, kind : Kinds, tags : BOOLEAN, cfg : Configs]
New     == "new"
List    == "list"

ASSUME ConstantsAssumption ==
  /\ Cores \cap {New, List, "sent", "err"} = {}
  /\ {NoRow, Idle, Sent, Lost} \cap Rows = {} /\ NoCfg \notin Configs
  /\ Cardinality({Idle, Sent, Lost}) = 3
  /\ InitRows \subseteq Rows /\ OtherRows \subseteq Rows
  /\ Values # {} /\ Names # {}
  /\ {MaxEdits, MaxSaves, MaxMoves, MaxOthers, MaxFaults} \subseteq Nat

VARIABLES
  db,      \* the cores in the database
  cache,   \* the query cache's answer for each core
  fetch,   \* the request under way for each core: Idle, Sent, Lost or the answer
  route,   \* the page shown: the list, the page of a new core, or of a core
  failed,  \* the page shows that the core could not be loaded
  saving,  \* the page waits for its save
  saves,   \* the saves under way, whichever page sent them
  store,   \* the draft store (useCoreEditorStore)
  timers,  \* the debounced timers of the advanced section that are armed
  want,    \* history: the config the admin put together on this page
  acked,   \* history: the content the server last gave or took for this page
  overtaken, switched,   \* history: see CleanAgrees
  edits, saved, moves, others, faults

page   == <<route, failed, saving, timers>>
server == <<db, cache, fetch>>
ghosts == <<want, acked, overtaken, switched>>
counts == <<edits, saved, moves, others, faults>>
vars   == <<server, page, saves, store, ghosts, counts>>

-----------------------------------------------------------------------------
(* The store.                                                              *)

Default == [s \in Sections |-> CHOOSE v \in Values : TRUE]
NoName  == ""

\* What a draft is written as, by the save and into the JSON text.
Persisted(body) == [body |-> body, form |-> "kit"]

\* A WireGuard config that does not validate cannot become a draft.
Accepted(kind, cfg) == ~(kind = "wg" /\ cfg.form = "bad")

EmptyStore ==
  [hydrated |-> FALSE, isNew |-> FALSE, coreId |-> NoRow, name |-> NoName,
   kind |-> "xray", tags |-> FALSE, draft |-> Default, baseline |-> Default,
   section |-> "form", monaco |-> Persisted(Default), monacoDirty |-> FALSE,
   fp |-> NoCfg, snap |-> NoRow]

captureSnapshot(s) ==
  [kind |-> s.kind, name |-> s.name, tags |-> s.tags, draft |-> s.draft,
   section |-> s.section, monaco |-> s.monaco, fp |-> s.fp]

Snapshotted(s) == [s EXCEPT !.snap = captureSnapshot(s)]

\* A fresh page loads the row; a refetch keeps the section the admin is in.
initFromCore(s, c, row, preserveNavigation) ==
  LET ok   == Accepted(row.kind, row.cfg)
      body == IF ok THEN row.cfg.body ELSE Default
  IN Snapshotted(
       [hydrated |-> TRUE, isNew |-> FALSE, coreId |-> c, name |-> row.name,
        kind |-> row.kind, tags |-> row.tags /\ row.kind = "xray",
        draft |-> body, baseline |-> body,
        section |-> IF preserveNavigation /\ s.coreId = c THEN s.section ELSE "form",
        monaco |-> IF ok THEN Persisted(body) ELSE row.cfg,
        monacoDirty |-> FALSE, fp |-> row.cfg, snap |-> s.snap])

\* A bug: no snapshot is taken.
MUT_initNew(s, kind) ==
  [EmptyStore EXCEPT !.hydrated = TRUE, !.isNew = TRUE, !.kind = kind, !.name = s.name]

initNew(s, kind) ==
  Snapshotted([EmptyStore EXCEPT !.hydrated = TRUE, !.isNew = TRUE,
                                 !.kind = kind, !.name = s.name])

syncMonacoFromDraft(s) ==
  [s EXCEPT !.monaco = Persisted(s.draft), !.monacoDirty = FALSE]

\* The draft as it is now becomes the baseline and the snapshot.
markClean(s) ==
  IF s.hydrated
    THEN Snapshotted(syncMonacoFromDraft([s EXCEPT !.baseline = s.draft]))
    ELSE Snapshotted(s)

\* A bug: the draft goes back to the baseline, which switching the kind replaced.
MUT_discardDraft(s) ==
  [s EXCEPT !.kind = s.snap.kind, !.name = s.snap.name, !.tags = s.snap.tags,
            !.draft = s.baseline, !.section = s.snap.section,
            !.monaco = Persisted(s.baseline), !.monacoDirty = FALSE,
            !.fp = s.snap.fp]

discardDraft(s) ==
  [s EXCEPT !.kind = s.snap.kind, !.name = s.snap.name, !.tags = s.snap.tags,
            !.draft = s.snap.draft, !.baseline = s.snap.draft,
            !.section = s.snap.section, !.monaco = s.snap.monaco,
            !.monacoDirty = FALSE, !.fp = s.snap.fp]

switchKind(s, kind) ==
  [s EXCEPT !.kind = kind, !.tags = FALSE, !.draft = Default, !.baseline = Default,
            !.section = "form", !.monaco = Persisted(Default),
            !.monacoDirty = FALSE]

\* The text becomes the draft, unless it is not accepted.
applyMonacoJson(s) ==
  IF s.monaco.form = "bad" THEN s
  ELSE [s EXCEPT !.draft = s.monaco.body, !.monacoDirty = FALSE]

-----------------------------------------------------------------------------
(* Is there anything to save?                                              *)

currentConfig(s)  == IF s.monacoDirty THEN s.monaco ELSE Persisted(s.draft)
baselineConfig(s) == Persisted(s.baseline)

hasActualChanges(s) ==
  /\ s.hydrated
  /\ \/ s.kind # s.snap.kind
     \/ s.name # s.snap.name
     \/ s.tags # s.snap.tags
     \/ currentConfig(s) # baselineConfig(s)

-----------------------------------------------------------------------------
(* The page.                                                               *)

\* The form is on screen.
Editable ==
  /\ route # List
  /\ store.hydrated
  /\ route # New => ~failed /\ cache[route] # NoRow

\* Timers after a step to store s: none outside the advanced section; a typed
\* text arms the apply, a changed draft arms the sync of the text.
ArmedBy(s) ==
  IF s.section # "advanced" THEN {}
  ELSE (IF s.monacoDirty /\ (s.monaco # store.monaco \/ ~store.monacoDirty
                              \/ store.section # "advanced")
          THEN {"apply"} ELSE {x \in timers : x = "apply" /\ s.monacoDirty})
       \cup
       (IF ~s.monacoDirty /\ (s.draft # store.draft \/ s.kind # store.kind)
          THEN {"sync"} ELSE {x \in timers : x = "sync"})

\* The store becomes s; the admin's own content becomes w.
Put(s, w) == store' = s /\ timers' = ArmedBy(s) /\ want' = w

\* A user step that changes only the store and its history.
UserStep == /\ Editable
            /\ edits < MaxEdits /\ edits' = edits + 1
            /\ UNCHANGED <<server, route, failed, saving, saves, acked,
                           saved, moves, others, faults>>

SetCoreName(n) ==
  /\ UserStep
  /\ n # store.name
  /\ Put([store EXCEPT !.name = n], want)
  /\ UNCHANGED <<overtaken, switched>>

SetInboundTags ==
  /\ UserStep
  /\ store.kind = "xray"
  /\ Put([store EXCEPT !.tags = ~@], want)
  /\ UNCHANGED <<overtaken, switched>>

\* An edit in a form changes the profile and rewrites the text from it, also
\* when the text held something that was not applied.
UpdateDraft(sec, v) ==
  /\ UserStep
  /\ store.section = "form"
  /\ store.draft[sec] # v
  /\ Put(syncMonacoFromDraft([store EXCEPT !.draft[sec] = v]),
         [want EXCEPT !.body[sec] = v])
  /\ overtaken' = (overtaken \/ store.monacoDirty)
  /\ UNCHANGED switched

\* Typing JSON: a part changes, or the text stops being acceptable.
TypeJson(sec, v, form) ==
  /\ UserStep
  /\ store.section = "advanced"
  /\ LET text == [body |-> [store.monaco.body EXCEPT ![sec] = v], form |-> form]
     IN /\ text # store.monaco
        /\ Put([store EXCEPT !.monaco = text, !.monacoDirty = TRUE], text)
  /\ UNCHANGED <<overtaken, switched>>

SwitchKind(kind) ==
  /\ UserStep
  /\ kind # store.kind
  /\ IF route = New
       THEN /\ Put(initNew(store, kind), Persisted(Default))
            /\ UNCHANGED switched
       ELSE /\ Put(switchKind(store, kind), Persisted(Default))
            /\ switched' = TRUE
  /\ UNCHANGED overtaken

\* Opening another section ends the timers of the advanced one.
SetActiveSection ==
  /\ Editable
  /\ Put([store EXCEPT !.section = IF @ = "form" THEN "advanced" ELSE "form"], want)
  /\ UNCHANGED <<server, route, failed, saving, saves, acked, overtaken, switched,
                 counts>>

\* The bar's button waits for the save; the command menu's does not.
Discard ==
  /\ Editable
  /\ hasActualChanges(store)
  /\ LET s == discardDraft(store) IN Put(s, Persisted(s.draft))
  /\ switched' = FALSE
  /\ UNCHANGED <<server, route, failed, saving, saves, acked, overtaken, counts>>

\* The command menu's "Refresh JSON preview from draft".
SyncJson ==
  /\ Editable
  /\ LET s == syncMonacoFromDraft(store) IN Put(s, Persisted(s.draft))
  /\ UNCHANGED <<server, route, failed, saving, saves, acked, overtaken, switched,
                 counts>>

TimerStep == UNCHANGED <<server, route, failed, saving, saves, acked, overtaken,
                         switched, counts>>

\* 420 ms after the last key: the typed text becomes the draft.
ApplyTimer ==
  /\ "apply" \in timers
  /\ LET s == applyMonacoJson(store)
     IN /\ store' = s
        /\ timers' = (timers \ {"apply"})
                       \cup (IF s.draft # store.draft THEN {"sync"} ELSE {})
  /\ UNCHANGED want
  /\ TimerStep

\* A bug: the timer overwrites what is being typed.
MUT_SyncTimer ==
  /\ "sync" \in timers
  /\ store' = syncMonacoFromDraft(store)
  /\ timers' = timers \ {"sync"}
  /\ UNCHANGED want
  /\ TimerStep

\* 200 ms after the draft changed: the text is written from it, unless the
\* admin is typing.
SyncTimer ==
  /\ "sync" \in timers
  /\ store' = IF store.monacoDirty THEN store ELSE syncMonacoFromDraft(store)
  /\ timers' = timers \ {"sync"}
  /\ UNCHANGED want
  /\ TimerStep

-----------------------------------------------------------------------------
(* Moving between pages, and the query of a core.                          *)

\* The old page unmounts: the store is reset, its request is cancelled, a save
\* goes on by itself.  The new page mounts with what the cache holds.
Mount(r) ==
  LET s == CASE r = List -> EmptyStore
             [] r = New  -> initNew(EmptyStore, "xray")
             [] OTHER    -> IF cache[r] = NoRow THEN EmptyStore
                            ELSE initFromCore(EmptyStore, r, cache[r], FALSE)
  IN /\ route' = r /\ failed' = FALSE /\ saving' = FALSE /\ timers' = {}
     /\ fetch' = [c \in Cores |-> IF c = r THEN Sent ELSE Idle]
     /\ store' = s
     /\ want' = Persisted(s.draft) /\ acked' = s.draft
     /\ overtaken' = FALSE /\ switched' = FALSE

\* By a link, or by Back and the dialog, which discards before it leaves.
Navigate(r) ==
  /\ r # route
  /\ r \in Cores => db[r] # NoRow
  /\ moves < MaxMoves /\ moves' = moves + 1
  /\ Mount(r)
  /\ saves' = {[q EXCEPT !.mine = FALSE] : q \in saves}
  /\ UNCHANGED <<db, cache, edits, saved, others, faults>>

FetchAnswered(c) ==
  /\ fetch[c] = Sent
  /\ \/ db[c] # NoRow /\ fetch' = [fetch EXCEPT ![c] = db[c]] /\ UNCHANGED faults
     \/ /\ faults < MaxFaults /\ faults' = faults + 1
        /\ fetch' = [fetch EXCEPT ![c] = Lost]
  /\ UNCHANGED <<db, cache, page, saves, store, ghosts, edits, saved, moves, others>>

\* The answer is put into the cache and the page's effect looks at it: another
\* core is loaded; the same one again only into a draft without changes whose
\* fingerprint differs.
FetchArrives(c) ==
  /\ fetch[c] \notin {Idle, Sent, Lost}
  /\ cache' = [cache EXCEPT ![c] = fetch[c]]
  /\ fetch' = [fetch EXCEPT ![c] = Idle]
  /\ failed' = FALSE
  /\ LET again == store.coreId = c
         load  == \/ ~again
                  \/ /\ store.hydrated /\ ~hasActualChanges(store) /\ ~store.isNew
                     /\ store.fp # fetch[c].cfg
         s     == initFromCore(store, c, fetch[c], again)
     IN IF load /\ fetch[c] # cache[c]
          THEN /\ store' = s /\ timers' = ArmedBy(s)
               /\ want' = IF again /\ ~switched /\ want.body # acked
                            THEN want ELSE Persisted(s.draft)
               /\ acked' = s.draft
               /\ switched' = FALSE
          ELSE UNCHANGED <<store, timers, want, acked, switched>>
  /\ UNCHANGED <<db, route, saving, saves, overtaken, counts>>

\* The query gives up: the page shows an error instead of the form.
FetchFails(c) ==
  /\ fetch[c] = Lost
  /\ fetch' = [fetch EXCEPT ![c] = Idle]
  /\ failed' = TRUE
  /\ UNCHANGED <<db, cache, route, saving, timers, saves, store, ghosts, counts>>

\* The query client asks again when the network comes back.
Reconnect(c) ==
  /\ route = c /\ fetch[c] = Idle
  /\ others < MaxOthers /\ others' = others + 1
  /\ fetch' = [fetch EXCEPT ![c] = Sent]
  /\ UNCHANGED <<db, cache, page, saves, store, ghosts, edits, saved, moves, faults>>

-----------------------------------------------------------------------------
(* Saving.                                                                 *)

\* What is sent is the structured draft, whatever the text holds.
Save ==
  /\ Editable /\ ~saving
  /\ route = New \/ hasActualChanges(store)
  /\ store.name # NoName
  /\ saved < MaxSaves /\ saved' = saved + 1
  /\ saving' = TRUE
  /\ saves' = saves \cup
       {[core |-> route, mine |-> TRUE, state |-> "sent", id |-> saved,
         row |-> [name |-> store.name, kind |-> store.kind,
                  tags |-> store.tags /\ store.kind = "xray",
                  cfg |-> Persisted(store.draft)]]}
  /\ UNCHANGED <<server, route, failed, timers, store, ghosts, edits, moves,
                 others, faults>>

\* The API stores the row, or refuses it; the answer to either may be lost.
SaveCommitted(q) ==
  /\ q.state = "sent"
  /\ \E c \in Cores :
       /\ IF q.core = New THEN db[c] = NoRow ELSE c = q.core
       /\ db' = [db EXCEPT ![c] = q.row]
       /\ saves' = (saves \ {q}) \cup {[q EXCEPT !.state = c]}
  /\ UNCHANGED <<cache, fetch, page, store, ghosts, counts>>

SaveFails(q) ==
  /\ q.state # "err"
  /\ faults < MaxFaults /\ faults' = faults + 1
  /\ saves' = (saves \ {q}) \cup {[q EXCEPT !.state = "err"]}
  /\ UNCHANGED <<server, page, store, ghosts, edits, saved, moves, others>>

\* The admin is told and may try again.
SaveRejected(q) ==
  /\ q.state = "err"
  /\ saves' = saves \ {q}
  /\ saving' = (saving /\ ~q.mine)
  /\ UNCHANGED <<server, route, failed, timers, store, ghosts, counts>>

\* handleSave goes on after its await, also when its page is gone: the store,
\* whatever it holds now, is marked clean, and the core is fetched again or,
\* when it is new, opened.
SaveAnswered(q) ==
  /\ q.state \in Cores
  /\ IF q.core = New /\ route # q.state
       THEN /\ Mount(q.state)
            /\ saves' = {[x EXCEPT !.mine = FALSE] : x \in saves \ {q}}
            /\ UNCHANGED <<db, cache>>
       ELSE /\ LET s == markClean(store)
                   same == {currentConfig(store), Persisted(store.draft)} = {q.row.cfg}
               IN /\ store' = s /\ timers' = ArmedBy(s)
                  /\ acked' = IF q.mine THEN q.row.cfg.body ELSE acked
                  /\ overtaken' = (overtaken \/ ~q.mine \/ ~same)
                  /\ switched' = (switched /\ ~q.mine)
            /\ saves' = saves \ {q}
            /\ saving' = (saving /\ ~q.mine)
            /\ fetch' = IF route = q.core THEN [fetch EXCEPT ![q.core] = Sent]
                        ELSE fetch
            /\ UNCHANGED <<db, cache, route, failed, want>>
  /\ UNCHANGED counts

\* Another admin stores a core.
OtherAdmin(c, row) ==
  /\ db[c] \notin {NoRow, row}
  /\ others < MaxOthers /\ others' = others + 1
  /\ db' = [db EXCEPT ![c] = row]
  /\ UNCHANGED <<cache, fetch, page, saves, store, ghosts, edits, saved, moves, faults>>

-----------------------------------------------------------------------------
Init ==
  /\ db \in [Cores -> InitRows \cup {NoRow}]
  /\ cache = [c \in Cores |-> NoRow]
  /\ fetch = [c \in Cores |-> Idle]
  /\ route = List /\ failed = FALSE /\ saving = FALSE /\ timers = {}
  /\ saves = {}
  /\ store = EmptyStore
  /\ want = Persisted(Default) /\ acked = Default
  /\ overtaken = FALSE /\ switched = FALSE
  /\ edits = 0 /\ saved = 0 /\ moves = 0 /\ others = 0 /\ faults = 0

Next ==
  \/ \E n \in Names : SetCoreName(n)
  \/ SetInboundTags
  \/ \E sec \in Sections, v \in Values : UpdateDraft(sec, v)
  \/ \E sec \in Sections, v \in Values, form \in {"kit", "bad"} : TypeJson(sec, v, form)
  \/ \E k \in Kinds : SwitchKind(k)
  \/ SetActiveSection \/ Discard \/ SyncJson \/ ApplyTimer \/ SyncTimer
  \/ \E r \in Cores \cup {New, List} : Navigate(r)
  \/ \E c \in Cores : FetchAnswered(c) \/ FetchArrives(c) \/ FetchFails(c) \/ Reconnect(c)
  \/ Save
  \/ \E q \in saves : SaveCommitted(q) \/ SaveFails(q) \/ SaveRejected(q) \/ SaveAnswered(q)
  \/ \E c \in Cores, row \in OtherRows : OtherAdmin(c, row)

Spec == Init /\ [][Next]_vars

-----------------------------------------------------------------------------
(* Properties.                                                             *)

Snaps == [kind : Kinds, name : Names \cup {NoName}, tags : BOOLEAN, draft : Bodies,
          section : {"form", "advanced"}, monaco : Configs, fp : Configs \cup {NoCfg}]

\* The types of the state; a page that is ready has a snapshot to discard to.
TypeOK ==
  /\ db \in [Cores -> Rows \cup {NoRow}]
  /\ cache \in [Cores -> Rows \cup {NoRow}]
  /\ \A c \in Cores : fetch[c] \in Rows \cup {Idle, Sent, Lost}
  /\ route \in Cores \cup {New, List}
  /\ {failed, saving, overtaken, switched} \subseteq BOOLEAN
  /\ timers \subseteq {"apply", "sync"}
  /\ store.kind \in Kinds /\ store.draft \in Bodies /\ store.baseline \in Bodies
  /\ store.monaco \in Configs /\ store.fp \in Configs \cup {NoCfg}
  /\ store.snap \in Snaps \cup {NoRow}
  /\ store.hydrated => store.snap \in Snaps
  /\ \A q \in saves : q.row \in Rows /\ q.state \in Cores \cup {"sent", "err"}
  /\ want \in Configs /\ acked \in Bodies

\* What the admin put together on the page is still there: in the text while he
\* types, in the draft after that.  The debounced timers, refetches (his own or
\* after another admin's change), failed saves and error pages never take an edit
\* away.  Two things may, and are excluded: a save answered after further edits,
\* and a form edit over text that was not applied ("overtaken").  A draft emptied by
\* switching the kind there and back counts as unedited: a refetch replaces it.
EditsKept ==
  Editable /\ ~overtaken =>
    /\ currentConfig(store).body = want.body
    /\ (currentConfig(store).form = "bad") <=> (want.form = "bad")

\* When the page has nothing to save, what it holds is what the server last gave or
\* took: selectCoreEditorHasActualChanges never calls an unsaved draft clean,
\* unless the draft was overtaken or replaced by switching the kind there and back.
CleanAgrees ==
  Editable /\ ~overtaken /\ ~switched /\ ~hasActualChanges(store) =>
    currentConfig(store).body = acked
=============================================================================
