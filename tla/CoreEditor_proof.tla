-------------------------- MODULE CoreEditor_proof --------------------------
(***************************************************************************)
(* Proofs about CoreEditor, for every set of cores, sections, values and   *)
(* names and every number of edits, saves, moves, other admins and faults. *)
(***************************************************************************)
EXTENDS CoreEditor, FiniteSetTheorems, TLAPS

-----------------------------------------------------------------------------
(* The store and the operations on it.                                     *)

Stores ==
  [hydrated : BOOLEAN, isNew : BOOLEAN, coreId : Cores \cup {NoRow},
   name : Names \cup {NoName}, kind : Kinds, tags : BOOLEAN, draft : Bodies,
   baseline : Bodies, section : {"form", "advanced"}, monaco : Configs,
   monacoDirty : BOOLEAN, fp : Configs \cup {NoCfg}, snap : Snaps \cup {NoRow}]

LEMMA DefaultType == Default \in Bodies
BY ConstantsAssumption DEF Default, Bodies

LEMMA PersistedType ==
  ASSUME NEW body \in Bodies
  PROVE  /\ Persisted(body) \in Configs
         /\ Persisted(body).body = body /\ Persisted(body).form = "kit"
BY DEF Persisted, Configs

LEMMA EmptyStoreType == EmptyStore \in Stores
BY DefaultType, PersistedType DEF EmptyStore, Stores, Kinds

LEMMA SnapshotType ==
  ASSUME NEW s \in Stores
  PROVE  captureSnapshot(s) \in Snaps
BY DEF captureSnapshot, Stores, Snaps

\* Taking a snapshot changes nothing else.
LEMMA SnapshottedIs ==
  ASSUME NEW s \in Stores
  PROVE  /\ Snapshotted(s) \in Stores
         /\ Snapshotted(s).snap = captureSnapshot(s)
         /\ Snapshotted(s).snap.draft = s.draft
         /\ Snapshotted(s).hydrated = s.hydrated
         /\ Snapshotted(s).coreId = s.coreId
         /\ Snapshotted(s).draft = s.draft
         /\ Snapshotted(s).baseline = s.baseline
         /\ Snapshotted(s).monaco = s.monaco
         /\ Snapshotted(s).monacoDirty = s.monacoDirty
<1>1. captureSnapshot(s) \in Snaps
  BY SnapshotType
<1>2. captureSnapshot(s).draft = s.draft
  BY DEF captureSnapshot
<1> QED
  BY <1>1, <1>2 DEF Snapshotted, Stores

\* What a load leaves: a draft without changes, whatever the row holds.
LEMMA initFromCoreIs ==
  ASSUME NEW s \in Stores, NEW c \in Cores, NEW r \in Rows, NEW preserve \in BOOLEAN
  PROVE  LET t == initFromCore(s, c, r, preserve)
         IN /\ t \in Stores /\ t.snap \in Snaps
            /\ t.hydrated = TRUE /\ t.monacoDirty = FALSE
            /\ t.baseline = t.draft /\ t.snap.draft = t.draft
<1> DEFINE body == IF Accepted(r.kind, r.cfg) THEN r.cfg.body ELSE Default
           text == IF Accepted(r.kind, r.cfg) THEN Persisted(body) ELSE r.cfg
           section == IF preserve /\ s.coreId = c THEN s.section ELSE "form"
           tags == r.tags /\ r.kind = "xray"
           t == [hydrated |-> TRUE, isNew |-> FALSE, coreId |-> c, name |-> r.name,
                 kind |-> r.kind, tags |-> tags, draft |-> body, baseline |-> body,
                 section |-> section, monaco |-> text, monacoDirty |-> FALSE,
                 fp |-> r.cfg, snap |-> s.snap]
<1>1. body \in Bodies
  BY DefaultType DEF Rows, Configs
<1>2. text \in Configs
  BY <1>1, PersistedType DEF Rows
<1>3. section \in {"form", "advanced"}
  BY DEF Stores
<1>4. /\ r.name \in Names \cup {NoName} /\ r.kind \in Kinds /\ r.cfg \in Configs \cup {NoCfg}
      /\ s.snap \in Snaps \cup {NoRow}
  BY DEF Rows, Stores
<1>5. tags \in BOOLEAN
  BY DEF Rows
<1>6. initFromCore(s, c, r, preserve) = Snapshotted(t)
  BY DEF initFromCore
<1> HIDE DEF body, text, section, tags
<1>7. /\ t \in Stores
      /\ t.hydrated = TRUE /\ t.monacoDirty = FALSE
      /\ t.draft = body /\ t.baseline = body
  BY <1>1, <1>2, <1>3, <1>4, <1>5 DEF Stores
<1> HIDE DEF t
<1>8. captureSnapshot(t) \in Snaps
  BY <1>7, SnapshotType
<1> QED
  BY <1>6, <1>7, <1>8, SnapshottedIs

\* The page of a new core has nothing to save.
LEMMA initNewIs ==
  ASSUME NEW s \in Stores, NEW kind \in Kinds
  PROVE  LET t == initNew(s, kind)
         IN /\ t \in Stores /\ t.snap \in Snaps
            /\ t.hydrated = TRUE /\ t.monacoDirty = FALSE
            /\ t.draft = Default /\ t.baseline = Default /\ t.snap.draft = Default
<1> DEFINE t == [EmptyStore EXCEPT !.hydrated = TRUE, !.isNew = TRUE,
                                   !.kind = kind, !.name = s.name]
<1>1. s.name \in Names \cup {NoName}
  BY DEF Stores
<1>2. t \in Stores
  BY <1>1, EmptyStoreType DEF Stores
<1>3. /\ t.hydrated = TRUE /\ t.monacoDirty = FALSE
      /\ t.draft = Default /\ t.baseline = Default
  BY DEF EmptyStore
<1>4. initNew(s, kind) = Snapshotted(t)
  BY DEF initNew
<1> HIDE DEF t
<1>5. captureSnapshot(t) \in Snaps
  BY <1>2, SnapshotType
<1> QED
  BY <1>2, <1>3, <1>4, <1>5, SnapshottedIs

LEMMA syncMonacoFromDraftIs ==
  ASSUME NEW s \in Stores
  PROVE  LET t == syncMonacoFromDraft(s)
         IN /\ t \in Stores /\ t.snap = s.snap /\ t.hydrated = s.hydrated
            /\ t.monacoDirty = FALSE
            /\ t.draft = s.draft /\ t.baseline = s.baseline
<1>1. Persisted(s.draft) \in Configs
  BY PersistedType DEF Stores
<1> QED
  BY <1>1 DEF syncMonacoFromDraft, Stores

\* A save leaves nothing to save, and something to discard to.
LEMMA markCleanIs ==
  ASSUME NEW s \in Stores
  PROVE  LET t == markClean(s)
         IN /\ t \in Stores /\ t.snap \in Snaps /\ t.hydrated = s.hydrated
            /\ t.draft = s.draft /\ t.snap.draft = s.draft
            /\ s.hydrated => t.monacoDirty = FALSE /\ t.baseline = s.draft
<1> DEFINE u == [s EXCEPT !.baseline = s.draft]
           t == syncMonacoFromDraft(u)
<1>1. u \in Stores /\ u.draft = s.draft /\ u.baseline = s.draft /\ u.hydrated = s.hydrated
  BY DEF Stores
<1>2. /\ t \in Stores /\ t.hydrated = s.hydrated /\ t.monacoDirty = FALSE
      /\ t.draft = s.draft /\ t.baseline = s.draft
  BY <1>1, syncMonacoFromDraftIs
<1>3. markClean(s) = IF s.hydrated THEN Snapshotted(t) ELSE Snapshotted(s)
  BY DEF markClean
<1> HIDE DEF t
<1>4. captureSnapshot(t) \in Snaps /\ captureSnapshot(s) \in Snaps
  BY <1>2, SnapshotType
<1> QED
  BY <1>2, <1>3, <1>4, SnapshottedIs

LEMMA discardDraftIs ==
  ASSUME NEW s \in Stores, s.snap \in Snaps
  PROVE  LET t == discardDraft(s)
         IN /\ t \in Stores /\ t.snap = s.snap /\ t.hydrated = s.hydrated
            /\ t.monacoDirty = FALSE
            /\ t.draft = s.snap.draft /\ t.baseline = s.snap.draft
<1> DEFINE u == [s EXCEPT !.kind = s.snap.kind, !.name = s.snap.name,
                          !.tags = s.snap.tags, !.draft = s.snap.draft]
           t == [u EXCEPT !.baseline = s.snap.draft, !.section = s.snap.section,
                          !.monaco = s.snap.monaco, !.monacoDirty = FALSE,
                          !.fp = s.snap.fp]
<1>1. /\ s.snap.kind \in Kinds /\ s.snap.name \in Names \cup {NoName}
      /\ s.snap.tags \in BOOLEAN /\ s.snap.draft \in Bodies
      /\ s.snap.section \in {"form", "advanced"} /\ s.snap.monaco \in Configs
      /\ s.snap.fp \in Configs \cup {NoCfg}
  BY DEF Snaps
<1>2. discardDraft(s) = t
  BY DEF discardDraft
<1>3. /\ u \in Stores /\ u.snap = s.snap /\ u.hydrated = s.hydrated
      /\ u.draft = s.snap.draft
  BY <1>1 DEF Stores
<1> HIDE DEF u
<1>4. /\ t \in Stores /\ t.snap = s.snap /\ t.hydrated = s.hydrated
      /\ t.monacoDirty = FALSE
      /\ t.draft = s.snap.draft /\ t.baseline = s.snap.draft
  BY <1>1, <1>3 DEF Stores
<1> HIDE DEF t
<1> QED
  BY <1>2, <1>4

LEMMA switchKindIs ==
  ASSUME NEW s \in Stores, NEW kind \in Kinds
  PROVE  LET t == switchKind(s, kind)
         IN /\ t \in Stores /\ t.snap = s.snap /\ t.hydrated = s.hydrated
            /\ t.monacoDirty = FALSE /\ t.draft = Default
<1>1. Default \in Bodies /\ Persisted(Default) \in Configs
  BY DefaultType, PersistedType
<1> QED
  BY <1>1 DEF switchKind, Stores

LEMMA applyMonacoJsonIs ==
  ASSUME NEW s \in Stores
  PROVE  LET t == applyMonacoJson(s)
         IN /\ t \in Stores /\ t.snap = s.snap /\ t.hydrated = s.hydrated
            /\ t.baseline = s.baseline
            /\ IF s.monaco.form = "bad" THEN t = s
               ELSE t.monacoDirty = FALSE /\ t.draft = s.monaco.body
<1> DEFINE u == [s EXCEPT !.draft = s.monaco.body, !.monacoDirty = FALSE]
<1>1. s.monaco.body \in Bodies
  BY DEF Stores, Configs
<1>2. /\ u \in Stores /\ u.snap = s.snap /\ u.hydrated = s.hydrated
      /\ u.baseline = s.baseline /\ u.monacoDirty = FALSE /\ u.draft = s.monaco.body
  BY <1>1 DEF Stores
<1>3. applyMonacoJson(s) = IF s.monaco.form = "bad" THEN s ELSE u
  BY DEF applyMonacoJson
<1> HIDE DEF u
<1> QED
  BY <1>2, <1>3

-----------------------------------------------------------------------------
(* The inductive invariant.  EditsKept and CleanAgrees speak of a page that *)
(* shows its form; what they say holds of every store that was filled, also *)
(* while an error page hides it, and of one whose kind was switched as far  *)
(* as the edits go.                                                         *)

Saves ==
  [core : Cores \cup {New}, mine : BOOLEAN, state : Cores \cup {"sent", "err"},
   id : Nat, row : Rows]

ServerTyped ==
  /\ db \in [Cores -> Rows \cup {NoRow}]
  /\ cache \in [Cores -> Rows \cup {NoRow}]
  /\ fetch \in [Cores -> Rows \cup {Idle, Sent, Lost}]

PageTyped ==
  /\ route \in Cores \cup {New, List}
  /\ failed \in BOOLEAN /\ saving \in BOOLEAN
  /\ timers \subseteq {"apply", "sync"}

StoreTyped == store \in Stores /\ (store.hydrated => store.snap \in Snaps)

SavesTyped == saves \subseteq Saves /\ saved \in Nat

GhostsTyped ==
  /\ want \in Configs /\ acked \in Bodies
  /\ overtaken \in BOOLEAN /\ switched \in BOOLEAN

Typed == ServerTyped /\ PageTyped /\ StoreTyped /\ SavesTyped /\ GhostsTyped

\* The page holds what the admin put together.
Kept ==
  store.hydrated /\ ~overtaken =>
    /\ currentConfig(store).body = want.body
    /\ (currentConfig(store).form = "bad") <=> (want.form = "bad")

\* Discarding goes back to what the server last gave or took, and so does the
\* comparison with the baseline.
Clean ==
  store.hydrated /\ ~overtaken =>
    /\ store.snap.draft = acked
    /\ ~switched => store.baseline = acked

\* A text waits to be applied only while it is not applied.
ApplyIsDue == "apply" \in timers => store.monacoDirty

\* Only the core that is shown is fetched, only the page's own save is awaited.
FetchesOwn == \A c \in Cores : fetch[c] # Idle => route = c
SavesOwn   == \A q \in saves : q.mine => q.core = route

\* The server has given the page of a new core nothing.
NewIsEmpty == route = New /\ ~overtaken => acked = Default

IInv == /\ Typed /\ Kept /\ Clean
        /\ ApplyIsDue /\ FetchesOwn /\ SavesOwn /\ NewIsEmpty

-----------------------------------------------------------------------------
(* Steps that have much in common.                                         *)

LEMMA ArmedByIs ==
  ASSUME timers \subseteq {"apply", "sync"}, NEW s
  PROVE  /\ ArmedBy(s) \subseteq {"apply", "sync"}
         /\ "apply" \in ArmedBy(s) => s.monacoDirty
BY DEF ArmedBy

\* A step of the page that changes the store, but not which core it is about.
LEMMA StoreStep ==
  ASSUME IInv, NEW s \in Stores, NEW w \in Configs, Put(s, w),
         s.hydrated => s.snap \in Snaps,
         UNCHANGED <<server, route, failed, saving, saves, acked, saved>>,
         overtaken' \in BOOLEAN, switched' \in BOOLEAN, ~overtaken' => ~overtaken
  PROVE  Typed' /\ ApplyIsDue' /\ FetchesOwn' /\ SavesOwn' /\ NewIsEmpty'
<1> USE DEF IInv, Typed
<1>1. ServerTyped' /\ SavesTyped' /\ FetchesOwn' /\ SavesOwn'
  BY DEF ServerTyped, SavesTyped, FetchesOwn, SavesOwn, server
<1>2. timers' \subseteq {"apply", "sync"} /\ ("apply" \in timers' => s.monacoDirty)
  BY ArmedByIs DEF PageTyped, Put
<1>3. PageTyped'
  BY <1>2 DEF PageTyped
<1>4. StoreTyped' /\ ApplyIsDue'
  BY <1>2 DEF StoreTyped, Put, ApplyIsDue
<1>5. GhostsTyped' /\ NewIsEmpty'
  BY DEF GhostsTyped, Put, NewIsEmpty
<1> QED
  BY <1>1, <1>3, <1>4, <1>5

\* A page that mounts has nothing to save and nothing under way.
LEMMA MountIs ==
  ASSUME IInv, NEW r \in Cores \cup {New, List}, Mount(r)
  PROVE  /\ fetch' \in [Cores -> Rows \cup {Idle, Sent, Lost}]
         /\ PageTyped' /\ StoreTyped' /\ GhostsTyped' /\ Kept' /\ Clean'
         /\ ApplyIsDue' /\ FetchesOwn' /\ NewIsEmpty' /\ route' = r
<1> USE DEF IInv, Typed
<1> DEFINE s == CASE r = List -> EmptyStore
                  [] r = New  -> initNew(EmptyStore, "xray")
                  [] OTHER    -> IF cache[r] = NoRow THEN EmptyStore
                                 ELSE initFromCore(EmptyStore, r, cache[r], FALSE)
<1>1. /\ route' = r /\ failed' = FALSE /\ saving' = FALSE /\ timers' = {}
      /\ fetch' = [c \in Cores |-> IF c = r THEN Sent ELSE Idle]
      /\ store' = s
      /\ want' = Persisted(s.draft) /\ acked' = s.draft
      /\ overtaken' = FALSE /\ switched' = FALSE
  BY DEF Mount
<1>2. /\ s \in Stores /\ (s.hydrated => s.snap \in Snaps)
      /\ s.hydrated => /\ s.monacoDirty = FALSE
                       /\ s.baseline = s.draft /\ s.snap.draft = s.draft
      /\ r = New => s.draft = Default
  <2>1. EmptyStore \in Stores /\ EmptyStore.hydrated = FALSE
    BY EmptyStoreType DEF EmptyStore
  <2>2. CASE r = List
    BY <2>1, <2>2 DEF New, List
  <2>3. CASE r = New
    BY <2>1, <2>3, initNewIs DEF New, List, Kinds
  <2>4. CASE r \notin {New, List}
    <3>1. r \in Cores /\ cache[r] \in Rows \cup {NoRow}
      BY <2>4 DEF ServerTyped
    <3>2. s = IF cache[r] = NoRow THEN EmptyStore
              ELSE initFromCore(EmptyStore, r, cache[r], FALSE)
      BY <2>4
    <3> HIDE DEF s
    <3>3. CASE cache[r] = NoRow
      BY <3>2, <3>3, <2>1, <2>4
    <3>4. CASE cache[r] \in Rows
      <4>1. FALSE \in BOOLEAN /\ cache[r] # NoRow
        BY <3>4, ConstantsAssumption
      <4> QED
        BY <3>1, <3>2, <3>4, <4>1, <2>1, <2>4, initFromCoreIs
    <3> QED
      BY <3>1, <3>3, <3>4
  <2> QED
    BY <2>2, <2>3, <2>4
<1> HIDE DEF s
<1>3. s.draft \in Bodies
  BY <1>2 DEF Stores
<1>4. Persisted(s.draft) \in Configs /\ Persisted(s.draft).form = "kit"
  BY <1>3, PersistedType
<1>5. fetch' \in [Cores -> Rows \cup {Idle, Sent, Lost}] /\ FetchesOwn'
  BY <1>1 DEF FetchesOwn
<1>6. PageTyped' /\ StoreTyped' /\ ApplyIsDue' /\ NewIsEmpty'
  BY <1>1, <1>2 DEF PageTyped, StoreTyped, ApplyIsDue, NewIsEmpty
<1>7. GhostsTyped'
  BY <1>1, <1>3, <1>4 DEF GhostsTyped
<1>8. Kept' /\ Clean'
  BY <1>1, <1>2, <1>4 DEF Kept, Clean, currentConfig
<1> QED
  BY <1>1, <1>5, <1>6, <1>7, <1>8

-----------------------------------------------------------------------------
(* What the admin does, and the timers.                                    *)

\* The fields of the store an action reads.
LEMMA StoreFields ==
  ASSUME StoreTyped
  PROVE  /\ store.hydrated \in BOOLEAN /\ store.monacoDirty \in BOOLEAN
         /\ store.name \in Names \cup {NoName} /\ store.kind \in Kinds
         /\ store.tags \in BOOLEAN
         /\ store.draft \in Bodies /\ store.baseline \in Bodies
         /\ store.monaco \in Configs /\ store.fp \in Configs \cup {NoCfg}
         /\ store.snap \in Snaps \cup {NoRow}
BY DEF StoreTyped, Stores

LEMMA SetCoreNameKeeps ==
  ASSUME IInv, NEW n \in Names, SetCoreName(n)
  PROVE  IInv'
<1> DEFINE s == [store EXCEPT !.name = n]
<1>1. /\ s \in Stores /\ s.hydrated = store.hydrated /\ s.snap = store.snap
      /\ s.draft = store.draft /\ s.baseline = store.baseline
      /\ s.monaco = store.monaco /\ s.monacoDirty = store.monacoDirty
  BY DEF IInv, Typed, StoreTyped, Stores
<1>2. Put(s, want)
  BY DEF SetCoreName
<1> HIDE DEF s
<1>3. /\ UNCHANGED <<server, route, failed, saving, saves, acked, saved>>
      /\ UNCHANGED <<overtaken, switched>>
  BY DEF SetCoreName, UserStep
<1>4. Typed' /\ ApplyIsDue' /\ FetchesOwn' /\ SavesOwn' /\ NewIsEmpty'
  BY <1>1, <1>2, <1>3, StoreStep DEF IInv, Typed, StoreTyped, GhostsTyped
<1>5. Kept' /\ Clean'
  BY <1>1, <1>2, <1>3 DEF IInv, Kept, Clean, Put, currentConfig
<1> QED
  BY <1>4, <1>5 DEF IInv

LEMMA SetInboundTagsKeeps ==
  ASSUME IInv, SetInboundTags
  PROVE  IInv'
<1> DEFINE s == [store EXCEPT !.tags = ~@]
<1>1. /\ s \in Stores /\ s.hydrated = store.hydrated /\ s.snap = store.snap
      /\ s.draft = store.draft /\ s.baseline = store.baseline
      /\ s.monaco = store.monaco /\ s.monacoDirty = store.monacoDirty
  BY DEF IInv, Typed, StoreTyped, Stores
<1>2. Put(s, want)
  BY DEF SetInboundTags
<1> HIDE DEF s
<1>3. /\ UNCHANGED <<server, route, failed, saving, saves, acked, saved>>
      /\ UNCHANGED <<overtaken, switched>>
  BY DEF SetInboundTags, UserStep
<1>4. Typed' /\ ApplyIsDue' /\ FetchesOwn' /\ SavesOwn' /\ NewIsEmpty'
  BY <1>1, <1>2, <1>3, StoreStep DEF IInv, Typed, StoreTyped, GhostsTyped
<1>5. Kept' /\ Clean'
  BY <1>1, <1>2, <1>3 DEF IInv, Kept, Clean, Put, currentConfig
<1> QED
  BY <1>4, <1>5 DEF IInv

LEMMA SetActiveSectionKeeps ==
  ASSUME IInv, SetActiveSection
  PROVE  IInv'
<1> DEFINE s == [store EXCEPT !.section = IF @ = "form" THEN "advanced" ELSE "form"]
<1>1. /\ s \in Stores /\ s.hydrated = store.hydrated /\ s.snap = store.snap
      /\ s.draft = store.draft /\ s.baseline = store.baseline
      /\ s.monaco = store.monaco /\ s.monacoDirty = store.monacoDirty
  BY DEF IInv, Typed, StoreTyped, Stores
<1>2. Put(s, want)
  BY DEF SetActiveSection
<1> HIDE DEF s
<1>3. /\ UNCHANGED <<server, route, failed, saving, saves, acked, saved>>
      /\ UNCHANGED <<overtaken, switched>>
  BY DEF SetActiveSection, counts
<1>4. Typed' /\ ApplyIsDue' /\ FetchesOwn' /\ SavesOwn' /\ NewIsEmpty'
  BY <1>1, <1>2, <1>3, StoreStep DEF IInv, Typed, StoreTyped, GhostsTyped
<1>5. Kept' /\ Clean'
  BY <1>1, <1>2, <1>3 DEF IInv, Kept, Clean, Put, currentConfig
<1> QED
  BY <1>4, <1>5 DEF IInv

LEMMA UpdateDraftKeeps ==
  ASSUME IInv, NEW sec \in Sections, NEW v \in Values, UpdateDraft(sec, v)
  PROVE  IInv'
<1> DEFINE u == [store EXCEPT !.draft[sec] = v]
           s == syncMonacoFromDraft(u)
           w == [want EXCEPT !.body[sec] = v]
<1>1. store \in Stores /\ want \in Configs
  BY DEF IInv, Typed, StoreTyped, GhostsTyped
<1>2. [store.draft EXCEPT ![sec] = v] \in Bodies
  BY <1>1 DEF Stores, Bodies
<1>3. /\ u \in Stores /\ u.hydrated = store.hydrated /\ u.snap = store.snap
      /\ u.draft = [store.draft EXCEPT ![sec] = v] /\ u.baseline = store.baseline
  BY <1>1, <1>2 DEF Stores
<1> HIDE DEF u
<1>4. /\ s \in Stores /\ s.hydrated = store.hydrated /\ s.snap = store.snap
      /\ s.draft = [store.draft EXCEPT ![sec] = v] /\ s.baseline = store.baseline
      /\ s.monacoDirty = FALSE
  BY <1>3, syncMonacoFromDraftIs
<1>5. /\ w \in Configs /\ w.form = want.form
      /\ w.body = [want.body EXCEPT ![sec] = v]
  <2>1. [want.body EXCEPT ![sec] = v] \in Bodies
    BY <1>1 DEF Configs, Bodies
  <2> QED
    BY <1>1, <2>1 DEF Configs
<1>6. Put(s, w) /\ overtaken' = (overtaken \/ store.monacoDirty)
  BY DEF UpdateDraft, u
<1> HIDE DEF s, w
<1>7. UNCHANGED <<server, route, failed, saving, saves, acked, saved, switched>>
  BY DEF UpdateDraft, UserStep
<1>8. /\ overtaken \in BOOLEAN /\ switched' \in BOOLEAN /\ store.monacoDirty \in BOOLEAN
      /\ store.hydrated => store.snap \in Snaps
  BY <1>7, StoreFields DEF IInv, Typed, GhostsTyped, StoreTyped
<1>9. overtaken' \in BOOLEAN /\ (~overtaken' => ~overtaken /\ ~store.monacoDirty)
  BY <1>6, <1>8
<1>10. Typed' /\ ApplyIsDue' /\ FetchesOwn' /\ SavesOwn' /\ NewIsEmpty'
  BY <1>4, <1>5, <1>6, <1>7, <1>8, <1>9, StoreStep
<1>11. Kept'
  BY <1>4, <1>5, <1>6, <1>9 DEF IInv, Kept, Put, currentConfig, Persisted
<1>12. Clean'
  BY <1>4, <1>6, <1>7, <1>9 DEF IInv, Clean, Put
<1> QED
  BY <1>10, <1>11, <1>12 DEF IInv

LEMMA TypeJsonKeeps ==
  ASSUME IInv, NEW sec \in Sections, NEW v \in Values, NEW form \in {"kit", "bad"},
         TypeJson(sec, v, form)
  PROVE  IInv'
<1> DEFINE text == [body |-> [store.monaco.body EXCEPT ![sec] = v], form |-> form]
           s == [store EXCEPT !.monaco = text, !.monacoDirty = TRUE]
<1>1. store \in Stores
  BY DEF IInv, Typed, StoreTyped
<1>2. text \in Configs
  BY <1>1 DEF Stores, Configs, Bodies
<1>3. Put(s, text)
  BY DEF TypeJson
<1> HIDE DEF text
<1>4. /\ s \in Stores /\ s.hydrated = store.hydrated /\ s.snap = store.snap
      /\ s.baseline = store.baseline /\ s.monaco = text /\ s.monacoDirty = TRUE
  BY <1>1, <1>2 DEF Stores
<1> HIDE DEF s
<1>5. /\ UNCHANGED <<server, route, failed, saving, saves, acked, saved>>
      /\ UNCHANGED <<overtaken, switched>>
  BY DEF TypeJson, UserStep
<1>6. Typed' /\ ApplyIsDue' /\ FetchesOwn' /\ SavesOwn' /\ NewIsEmpty'
  BY <1>2, <1>3, <1>4, <1>5, StoreStep DEF IInv, Typed, StoreTyped, GhostsTyped
<1>7. Kept' /\ Clean'
  BY <1>3, <1>4, <1>5 DEF IInv, Kept, Clean, Put, currentConfig
<1> QED
  BY <1>6, <1>7 DEF IInv

LEMMA SwitchKindKeeps ==
  ASSUME IInv, NEW k \in Kinds, SwitchKind(k)
  PROVE  IInv'
<1>1. store \in Stores /\ (store.hydrated => store.snap \in Snaps)
  BY DEF IInv, Typed, StoreTyped
<1>2. /\ UNCHANGED <<server, route, failed, saving, saves, acked, saved, overtaken>>
      /\ overtaken \in BOOLEAN /\ switched \in BOOLEAN
  BY DEF SwitchKind, UserStep, IInv, Typed, GhostsTyped
<1>3. /\ Persisted(Default) \in Configs /\ Persisted(Default).form = "kit"
      /\ Persisted(Default).body = Default
  BY DefaultType, PersistedType
<1>4. CASE route = New
  <2> DEFINE s == initNew(store, k)
  <2>1. Put(s, Persisted(Default)) /\ switched' = switched
    BY <1>4 DEF SwitchKind
  <2>2. /\ s \in Stores /\ s.snap \in Snaps
        /\ s.hydrated = TRUE /\ s.monacoDirty = FALSE
        /\ s.draft = Default /\ s.baseline = Default /\ s.snap.draft = Default
    BY <1>1, initNewIs
  <2> HIDE DEF s
  <2>3. Typed' /\ ApplyIsDue' /\ FetchesOwn' /\ SavesOwn' /\ NewIsEmpty'
    BY <1>2, <1>3, <2>1, <2>2, StoreStep
  <2>4. Kept'
    BY <1>3, <2>1, <2>2 DEF Kept, Put, currentConfig
  <2>5. Clean'
    BY <1>2, <1>4, <2>1, <2>2 DEF IInv, NewIsEmpty, Clean, Put
  <2> QED
    BY <2>3, <2>4, <2>5 DEF IInv
<1>5. CASE route # New
  <2> DEFINE s == switchKind(store, k)
  <2>1. Put(s, Persisted(Default)) /\ switched' = TRUE
    BY <1>5 DEF SwitchKind
  <2>2. /\ s \in Stores /\ s.snap = store.snap /\ s.hydrated = store.hydrated
        /\ s.monacoDirty = FALSE /\ s.draft = Default
    BY <1>1, switchKindIs
  <2> HIDE DEF s
  <2>3. Typed' /\ ApplyIsDue' /\ FetchesOwn' /\ SavesOwn' /\ NewIsEmpty'
    BY <1>1, <1>2, <1>3, <2>1, <2>2, StoreStep
  <2>4. Kept'
    BY <1>3, <2>1, <2>2 DEF Kept, Put, currentConfig
  <2>5. Clean'
    BY <1>2, <2>1, <2>2 DEF IInv, Clean, Put
  <2> QED
    BY <2>3, <2>4, <2>5 DEF IInv
<1> QED
  BY <1>4, <1>5

LEMMA DiscardKeeps ==
  ASSUME IInv, Discard
  PROVE  IInv'
<1> DEFINE s == discardDraft(store)
           w == Persisted(s.draft)
<1>1. store \in Stores /\ store.hydrated /\ store.snap \in Snaps
  BY DEF IInv, Typed, StoreTyped, Discard, Editable
<1>2. /\ UNCHANGED <<server, route, failed, saving, saves, acked, saved, overtaken>>
      /\ overtaken \in BOOLEAN /\ switched' = FALSE
  BY DEF Discard, counts, IInv, Typed, GhostsTyped
<1>3. /\ s \in Stores /\ s.snap = store.snap /\ s.hydrated = store.hydrated
      /\ s.monacoDirty = FALSE
      /\ s.draft = store.snap.draft /\ s.baseline = store.snap.draft
  BY <1>1, discardDraftIs
<1>4. Put(s, w)
  BY DEF Discard
<1> HIDE DEF s
<1>5. s.draft \in Bodies
  BY <1>3 DEF Stores
<1>6. w \in Configs
  BY <1>5, PersistedType
<1>7. Typed' /\ ApplyIsDue' /\ FetchesOwn' /\ SavesOwn' /\ NewIsEmpty'
  BY <1>1, <1>2, <1>3, <1>4, <1>6, StoreStep
<1>8. Kept'
  BY <1>3, <1>4 DEF Kept, Put, currentConfig
<1>9. Clean'
  BY <1>1, <1>2, <1>3, <1>4 DEF IInv, Clean, Put
<1> QED
  BY <1>7, <1>8, <1>9 DEF IInv

LEMMA SyncJsonKeeps ==
  ASSUME IInv, SyncJson
  PROVE  IInv'
<1> DEFINE s == syncMonacoFromDraft(store)
           w == Persisted(s.draft)
<1>1. store \in Stores /\ (store.hydrated => store.snap \in Snaps)
  BY DEF IInv, Typed, StoreTyped
<1>2. /\ UNCHANGED <<server, route, failed, saving, saves, acked, saved, overtaken, switched>>
      /\ overtaken \in BOOLEAN /\ switched \in BOOLEAN
  BY DEF SyncJson, counts, IInv, Typed, GhostsTyped
<1>3. /\ s \in Stores /\ s.snap = store.snap /\ s.hydrated = store.hydrated
      /\ s.monacoDirty = FALSE /\ s.baseline = store.baseline
  BY <1>1, syncMonacoFromDraftIs
<1>4. Put(s, w)
  BY DEF SyncJson
<1> HIDE DEF s
<1>5. s.draft \in Bodies
  BY <1>3 DEF Stores
<1>6. w \in Configs
  BY <1>5, PersistedType
<1>7. Typed' /\ ApplyIsDue' /\ FetchesOwn' /\ SavesOwn' /\ NewIsEmpty'
  BY <1>1, <1>2, <1>3, <1>4, <1>6, StoreStep
<1>8. Kept'
  BY <1>3, <1>4 DEF Kept, Put, currentConfig
<1>9. Clean'
  BY <1>2, <1>3, <1>4 DEF IInv, Clean, Put
<1> QED
  BY <1>7, <1>8, <1>9 DEF IInv

\* What a timer step leaves alone; the timers themselves are not armed anew for
\* a text.
LEMMA TimerStepKeeps ==
  ASSUME IInv, TimerStep, UNCHANGED want,
         store' \in Stores, store'.hydrated = store.hydrated, store'.snap = store.snap,
         timers' \subseteq {"apply", "sync"}
  PROVE  Typed' /\ FetchesOwn' /\ SavesOwn' /\ NewIsEmpty'
<1> USE DEF IInv, Typed, TimerStep, counts
<1>1. ServerTyped' /\ SavesTyped' /\ FetchesOwn' /\ SavesOwn'
  BY DEF ServerTyped, SavesTyped, FetchesOwn, SavesOwn, server
<1>2. PageTyped' /\ StoreTyped'
  BY DEF PageTyped, StoreTyped
<1>3. GhostsTyped' /\ NewIsEmpty'
  BY DEF GhostsTyped, NewIsEmpty
<1> QED
  BY <1>1, <1>2, <1>3

LEMMA ApplyTimerKeeps ==
  ASSUME IInv, ApplyTimer
  PROVE  IInv'
<1> DEFINE s == applyMonacoJson(store)
<1>1. store \in Stores /\ store.monacoDirty
  BY DEF IInv, Typed, StoreTyped, ApplyIsDue, ApplyTimer
<1>2. /\ s \in Stores /\ s.snap = store.snap /\ s.hydrated = store.hydrated
      /\ s.baseline = store.baseline
      /\ IF store.monaco.form = "bad" THEN s = store
         ELSE s.monacoDirty = FALSE /\ s.draft = store.monaco.body
  BY <1>1, applyMonacoJsonIs
<1>3. /\ store' = s /\ UNCHANGED want /\ TimerStep
      /\ timers' = (timers \ {"apply"})
                     \cup (IF s.draft # store.draft THEN {"sync"} ELSE {})
  BY DEF ApplyTimer
<1> HIDE DEF s
<1>4. timers' \subseteq {"apply", "sync"} /\ ApplyIsDue'
  BY <1>3 DEF IInv, Typed, PageTyped, ApplyIsDue
<1>5. Typed' /\ FetchesOwn' /\ SavesOwn' /\ NewIsEmpty'
  BY <1>2, <1>3, <1>4, TimerStepKeeps
<1>6. Kept'
  <2>1. UNCHANGED <<overtaken, want>>
    BY <1>3 DEF TimerStep
  <2>2. CASE store.monaco.form = "bad"
    BY <1>2, <1>3, <2>1, <2>2 DEF IInv, Kept, currentConfig
  <2>3. CASE store.monaco.form # "bad"
    BY <1>1, <1>2, <1>3, <2>1, <2>3 DEF IInv, Kept, currentConfig, Persisted
  <2> QED
    BY <2>2, <2>3
<1>7. Clean'
  BY <1>2, <1>3 DEF IInv, Clean, TimerStep
<1> QED
  BY <1>4, <1>5, <1>6, <1>7 DEF IInv

LEMMA SyncTimerKeeps ==
  ASSUME IInv, SyncTimer
  PROVE  IInv'
<1> DEFINE s == syncMonacoFromDraft(store)
<1>1. store \in Stores
  BY DEF IInv, Typed, StoreTyped
<1>2. /\ s \in Stores /\ s.snap = store.snap /\ s.hydrated = store.hydrated
      /\ s.monacoDirty = FALSE /\ s.draft = store.draft /\ s.baseline = store.baseline
  BY <1>1, syncMonacoFromDraftIs
<1>3. /\ store' = (IF store.monacoDirty THEN store ELSE s)
      /\ timers' = timers \ {"sync"} /\ UNCHANGED want /\ TimerStep
  BY DEF SyncTimer
<1> HIDE DEF s
<1>4. timers' \subseteq {"apply", "sync"} /\ ApplyIsDue'
  BY <1>2, <1>3 DEF IInv, Typed, PageTyped, ApplyIsDue
<1>5. /\ store' \in Stores /\ store'.hydrated = store.hydrated
      /\ store'.snap = store.snap /\ store'.draft = store.draft
      /\ store'.baseline = store.baseline
      /\ currentConfig(store') = currentConfig(store)
  BY <1>1, <1>2, <1>3 DEF currentConfig
<1>6. Typed' /\ FetchesOwn' /\ SavesOwn' /\ NewIsEmpty'
  BY <1>3, <1>4, <1>5, TimerStepKeeps
<1>7. UNCHANGED <<overtaken, want, acked, switched>>
  BY <1>3 DEF TimerStep
<1>8. Kept' /\ Clean'
  <2>1. Kept'
    BY <1>5, <1>7 DEF IInv, Kept
  <2>2. Clean'
    BY <1>5, <1>7 DEF IInv, Clean
  <2> QED
    BY <2>1, <2>2
<1> QED
  BY <1>4, <1>6, <1>8 DEF IInv

-----------------------------------------------------------------------------
(* Requests and pages.                                                     *)

\* What a step that leaves the store, its history and the route alone preserves.
LEMMA StoreStays ==
  ASSUME IInv, UNCHANGED <<route, timers, store, ghosts>>,
         failed' \in BOOLEAN, saving' \in BOOLEAN
  PROVE  PageTyped' /\ StoreTyped' /\ GhostsTyped' /\ Kept' /\ Clean' /\ ApplyIsDue'
         /\ NewIsEmpty'
<1> USE DEF IInv, Typed, ghosts
<1>1. PageTyped' /\ StoreTyped' /\ ApplyIsDue'
  BY DEF PageTyped, StoreTyped, ApplyIsDue
<1>2. GhostsTyped' /\ NewIsEmpty'
  BY DEF GhostsTyped, NewIsEmpty
<1>3. Kept' /\ Clean'
  BY DEF Kept, Clean, currentConfig
<1> QED
  BY <1>1, <1>2, <1>3

\* A set of saves with one replaced by a later state of it.
LEMMA SavesAdvance ==
  ASSUME SavesTyped, SavesOwn, NEW q \in saves, NEW st \in Cores \cup {"err"},
         saves' = (saves \ {q}) \cup {[q EXCEPT !.state = st]},
         UNCHANGED <<saved, route>>
  PROVE  SavesTyped' /\ SavesOwn'
<1>1. /\ [q EXCEPT !.state = st] \in Saves
      /\ [q EXCEPT !.state = st].mine = q.mine /\ [q EXCEPT !.state = st].core = q.core
  BY DEF SavesTyped, Saves
<1> QED
  BY <1>1 DEF SavesTyped, SavesOwn

LEMMA FewerSaves ==
  ASSUME SavesTyped, SavesOwn, NEW q, saves' = saves \ {q}, UNCHANGED <<saved, route>>
  PROVE  SavesTyped' /\ SavesOwn'
BY DEF SavesTyped, SavesOwn

\* The saves of a page that is gone.
LEMMA SavesOrphaned ==
  ASSUME SavesTyped, NEW gone \in SUBSET saves,
         saves' = {[q EXCEPT !.mine = FALSE] : q \in gone}, UNCHANGED saved
  PROVE  SavesTyped' /\ SavesOwn'
<1>1. ASSUME NEW q \in gone
      PROVE  [q EXCEPT !.mine = FALSE] \in Saves /\ ~[q EXCEPT !.mine = FALSE].mine
  BY DEF SavesTyped, Saves
<1> QED
  BY <1>1 DEF SavesTyped, SavesOwn

LEMMA NavigateKeeps ==
  ASSUME IInv, NEW r \in Cores \cup {New, List}, Navigate(r)
  PROVE  IInv'
<1>1. Mount(r) /\ saves' = {[q EXCEPT !.mine = FALSE] : q \in saves}
      /\ UNCHANGED <<db, cache, saved>>
  BY DEF Navigate
<1>2. SavesTyped' /\ SavesOwn'
  BY <1>1, SavesOrphaned DEF IInv, Typed
<1>3. /\ fetch' \in [Cores -> Rows \cup {Idle, Sent, Lost}]
      /\ PageTyped' /\ StoreTyped' /\ GhostsTyped' /\ Kept' /\ Clean'
      /\ ApplyIsDue' /\ FetchesOwn' /\ NewIsEmpty'
  BY <1>1, MountIs
<1>4. ServerTyped'
  BY <1>1, <1>3 DEF IInv, Typed, ServerTyped
<1> QED
  BY <1>2, <1>3, <1>4 DEF IInv, Typed

LEMMA IdleIsNotSent == Idle # Sent
<1> SUFFICES ASSUME Idle = Sent PROVE FALSE
  OBVIOUS
<1>1. Cardinality({Idle, Sent, Lost}) = 3
  BY ConstantsAssumption
<1>2. {Idle, Sent, Lost} = {Sent} \cup {Lost}
  OBVIOUS
<1>3. IsFiniteSet({Sent}) /\ Cardinality({Sent}) = 1
  BY FS_Singleton
<1>4. Cardinality({Sent} \cup {Lost}) \in {1, 2}
  BY <1>3, FS_AddElement
<1> QED
  BY <1>1, <1>2, <1>4

LEMMA FetchAnsweredKeeps ==
  ASSUME IInv, NEW c \in Cores, FetchAnswered(c)
  PROVE  IInv'
<1>1. /\ UNCHANGED <<db, cache, page, saves, store, ghosts, saved>>
      /\ fetch[c] = Sent
      /\ \E a \in Rows \cup {Lost} : fetch' = [fetch EXCEPT ![c] = a]
  <2>1. db[c] \in Rows \cup {NoRow}
    BY DEF IInv, Typed, ServerTyped
  <2> QED
    BY <2>1 DEF FetchAnswered
<1>2. ServerTyped'
  BY <1>1 DEF IInv, Typed, ServerTyped
<1>3. Idle # Sent
  BY IdleIsNotSent
<1>4. FetchesOwn'
  BY <1>1, <1>3 DEF IInv, Typed, ServerTyped, FetchesOwn, page
<1>5. SavesTyped' /\ SavesOwn'
  BY <1>1 DEF IInv, Typed, SavesTyped, SavesOwn, page
<1>6. /\ PageTyped' /\ StoreTyped' /\ GhostsTyped' /\ Kept' /\ Clean' /\ ApplyIsDue'
      /\ NewIsEmpty'
  BY <1>1, StoreStays DEF page, IInv, Typed, PageTyped
<1> QED
  BY <1>2, <1>4, <1>5, <1>6 DEF IInv, Typed

\* The heart of the matter: a refetch replaces the draft only where there is
\* nothing in it that the server does not have.
LEMMA FetchArrivesKeeps ==
  ASSUME IInv, NEW c \in Cores, FetchArrives(c)
  PROVE  IInv'
<1> DEFINE again == store.coreId = c
           load  == \/ ~again
                    \/ /\ store.hydrated /\ ~hasActualChanges(store) /\ ~store.isNew
                       /\ store.fp # fetch[c].cfg
           s     == initFromCore(store, c, fetch[c], again)
<1>1. /\ fetch[c] \notin {Idle, Sent, Lost}
      /\ cache' = [cache EXCEPT ![c] = fetch[c]]
      /\ fetch' = [fetch EXCEPT ![c] = Idle]
      /\ failed' = FALSE
      /\ UNCHANGED <<db, route, saving, saves, overtaken, counts>>
  BY DEF FetchArrives
<1>2. IF load /\ fetch[c] # cache[c]
        THEN /\ store' = s /\ timers' = ArmedBy(s)
             /\ want' = IF again /\ ~switched /\ want.body # acked
                          THEN want ELSE Persisted(s.draft)
             /\ acked' = s.draft
             /\ switched' = FALSE
        ELSE UNCHANGED <<store, timers, want, acked, switched>>
  BY DEF FetchArrives
<1>3. fetch[c] \in Rows /\ route = c
  BY <1>1 DEF IInv, Typed, ServerTyped, FetchesOwn
<1>4. ServerTyped' /\ FetchesOwn'
  BY <1>1, <1>3 DEF IInv, Typed, ServerTyped, FetchesOwn
<1>5. SavesTyped' /\ SavesOwn'
  BY <1>1 DEF IInv, Typed, SavesTyped, SavesOwn, counts
<1>6. CASE ~(load /\ fetch[c] # cache[c])
  <2>1. UNCHANGED <<route, timers, store, ghosts>>
    BY <1>1, <1>2, <1>6 DEF ghosts
  <2>2. failed' \in BOOLEAN /\ saving' \in BOOLEAN
    BY <1>1 DEF IInv, Typed, PageTyped
  <2> QED
    BY <1>4, <1>5, <2>1, <2>2, StoreStays DEF IInv, Typed
<1>7. CASE load /\ fetch[c] # cache[c]
  <2>1. store \in Stores /\ again \in BOOLEAN
    BY DEF IInv, Typed, StoreTyped
  <2>2. ~again \/ (store.hydrated /\ ~hasActualChanges(store))
    BY <1>7
  <2>3. /\ store' = s /\ timers' = ArmedBy(s)
        /\ want' = IF again /\ ~switched /\ want.body # acked
                     THEN want ELSE Persisted(s.draft)
        /\ acked' = s.draft
        /\ switched' = FALSE
    BY <1>2, <1>7
  <2> HIDE DEF load, again
  <2>4. /\ s \in Stores /\ s.snap \in Snaps
        /\ s.hydrated = TRUE /\ s.monacoDirty = FALSE
        /\ s.baseline = s.draft /\ s.snap.draft = s.draft
    BY <1>3, <2>1, initFromCoreIs
  <2> HIDE DEF s
  <2>5. s.draft \in Bodies
    BY <2>4 DEF Stores
  <2>6. /\ Persisted(s.draft) \in Configs /\ Persisted(s.draft).body = s.draft
        /\ Persisted(s.draft).form = "kit"
    BY <2>5, PersistedType
  <2>7. timers' \subseteq {"apply", "sync"} /\ ("apply" \in timers' => s.monacoDirty)
    BY <2>3, ArmedByIs DEF IInv, Typed, PageTyped
  <2>8. PageTyped'
    BY <1>1, <2>7 DEF IInv, Typed, PageTyped
  <2>9. StoreTyped' /\ ApplyIsDue'
    BY <2>3, <2>4, <2>7 DEF StoreTyped, ApplyIsDue
  <2>10. GhostsTyped'
    <3>1. want' \in Configs
      BY <2>3, <2>6 DEF IInv, Typed, GhostsTyped
    <3>2. overtaken' \in BOOLEAN
      BY <1>1 DEF IInv, Typed, GhostsTyped
    <3> QED
      BY <2>3, <2>5, <3>1, <3>2 DEF GhostsTyped
  <2>11. NewIsEmpty'
    BY <1>1, <1>3, ConstantsAssumption DEF NewIsEmpty
  <2>12. ASSUME again, ~switched, ~overtaken
         PROVE  want.body = acked
    <3>1. store.hydrated /\ ~hasActualChanges(store)
      BY <2>2, <2>12
    <3>2. currentConfig(store) = Persisted(store.baseline)
      BY <3>1 DEF hasActualChanges, baselineConfig
    <3>3. store.baseline = acked /\ currentConfig(store).body = want.body
      BY <2>12, <3>1 DEF IInv, Clean, Kept
    <3> QED
      BY <3>2, <3>3 DEF Persisted
  <2>13. Kept'
    <3> SUFFICES ASSUME ~overtaken'
                 PROVE  /\ currentConfig(store').body = want'.body
                        /\ (currentConfig(store').form = "bad") <=> (want'.form = "bad")
      BY DEF Kept
    <3>1. want' = Persisted(s.draft)
      BY <1>1, <2>3, <2>12
    <3> QED
      BY <2>3, <2>4, <3>1 DEF currentConfig
  <2>14. Clean'
    BY <2>3, <2>4 DEF Clean
  <2> QED
    BY <1>4, <1>5, <2>8, <2>9, <2>10, <2>11, <2>13, <2>14 DEF IInv, Typed
<1> QED
  BY <1>6, <1>7

LEMMA FetchFailsKeeps ==
  ASSUME IInv, NEW c \in Cores, FetchFails(c)
  PROVE  IInv'
<1>1. /\ fetch' = [fetch EXCEPT ![c] = Idle] /\ failed' = TRUE
      /\ UNCHANGED <<db, cache, route, saving, timers, saves, store, ghosts, saved>>
  BY DEF FetchFails, counts
<1>2. ServerTyped' /\ FetchesOwn'
  BY <1>1 DEF IInv, Typed, ServerTyped, FetchesOwn
<1>3. SavesTyped' /\ SavesOwn'
  BY <1>1 DEF IInv, Typed, SavesTyped, SavesOwn
<1>4. /\ PageTyped' /\ StoreTyped' /\ GhostsTyped' /\ Kept' /\ Clean' /\ ApplyIsDue'
      /\ NewIsEmpty'
  BY <1>1, StoreStays DEF IInv, Typed, PageTyped
<1> QED
  BY <1>2, <1>3, <1>4 DEF IInv, Typed

LEMMA ReconnectKeeps ==
  ASSUME IInv, NEW c \in Cores, Reconnect(c)
  PROVE  IInv'
<1>1. /\ fetch' = [fetch EXCEPT ![c] = Sent] /\ route = c
      /\ UNCHANGED <<db, cache, page, saves, store, ghosts, saved>>
  BY DEF Reconnect
<1>2. ServerTyped' /\ FetchesOwn'
  BY <1>1 DEF IInv, Typed, ServerTyped, FetchesOwn, page
<1>3. SavesTyped' /\ SavesOwn'
  BY <1>1 DEF IInv, Typed, SavesTyped, SavesOwn, page
<1>4. /\ PageTyped' /\ StoreTyped' /\ GhostsTyped' /\ Kept' /\ Clean' /\ ApplyIsDue'
      /\ NewIsEmpty'
  BY <1>1, StoreStays DEF IInv, Typed, PageTyped, page
<1> QED
  BY <1>2, <1>3, <1>4 DEF IInv, Typed

LEMMA OtherAdminKeeps ==
  ASSUME IInv, NEW c \in Cores, NEW row \in OtherRows, OtherAdmin(c, row)
  PROVE  IInv'
<1>1. /\ db' = [db EXCEPT ![c] = row] /\ row \in Rows
      /\ UNCHANGED <<cache, fetch, page, saves, store, ghosts, saved>>
  BY ConstantsAssumption DEF OtherAdmin
<1>2. ServerTyped' /\ FetchesOwn'
  BY <1>1 DEF IInv, Typed, ServerTyped, FetchesOwn, page
<1>3. SavesTyped' /\ SavesOwn'
  BY <1>1 DEF IInv, Typed, SavesTyped, SavesOwn, page
<1>4. /\ PageTyped' /\ StoreTyped' /\ GhostsTyped' /\ Kept' /\ Clean' /\ ApplyIsDue'
      /\ NewIsEmpty'
  BY <1>1, StoreStays DEF IInv, Typed, PageTyped, page
<1> QED
  BY <1>2, <1>3, <1>4 DEF IInv, Typed

-----------------------------------------------------------------------------
(* Saves.                                                                  *)

LEMMA SaveKeeps ==
  ASSUME IInv, Save
  PROVE  IInv'
<1> DEFINE row == [name |-> store.name, kind |-> store.kind,
                   tags |-> store.tags /\ store.kind = "xray",
                   cfg |-> Persisted(store.draft)]
           q   == [core |-> route, mine |-> TRUE, state |-> "sent", id |-> saved,
                   row |-> row]
<1>1. /\ route # List /\ store.name # NoName
      /\ saved' = saved + 1 /\ saving' = TRUE /\ saves' = saves \cup {q}
      /\ UNCHANGED <<server, route, failed, timers, store, ghosts>>
  BY DEF Save, Editable
<1>2. row \in Rows
  <2>1. Persisted(store.draft) \in Configs
    BY StoreFields, PersistedType DEF IInv, Typed
  <2>2. (store.tags /\ store.kind = "xray") \in BOOLEAN
    OBVIOUS
  <2>3. store.name \in Names /\ store.kind \in Kinds
    BY <1>1, StoreFields DEF IInv, Typed
  <2> QED
    BY <2>1, <2>2, <2>3 DEF Rows
<1> HIDE DEF row
<1>3. q \in Saves /\ q.core = route
  BY <1>1, <1>2 DEF IInv, Typed, PageTyped, SavesTyped, Saves
<1> HIDE DEF q
<1>4. SavesTyped' /\ SavesOwn'
  BY <1>1, <1>3 DEF IInv, Typed, SavesTyped, SavesOwn
<1>5. ServerTyped' /\ FetchesOwn'
  BY <1>1 DEF IInv, Typed, ServerTyped, FetchesOwn, server
<1>6. /\ PageTyped' /\ StoreTyped' /\ GhostsTyped' /\ Kept' /\ Clean' /\ ApplyIsDue'
      /\ NewIsEmpty'
  BY <1>1, StoreStays DEF IInv, Typed, PageTyped
<1> QED
  BY <1>4, <1>5, <1>6 DEF IInv, Typed

LEMMA SaveCommittedKeeps ==
  ASSUME IInv, NEW q \in saves, SaveCommitted(q)
  PROVE  IInv'
<1>1. PICK c \in Cores : /\ db' = [db EXCEPT ![c] = q.row]
                         /\ saves' = (saves \ {q}) \cup {[q EXCEPT !.state = c]}
  BY DEF SaveCommitted
<1>2. UNCHANGED <<cache, fetch, page, store, ghosts, saved>>
  BY DEF SaveCommitted, counts
<1>3. q.row \in Rows
  BY DEF IInv, Typed, SavesTyped, Saves
<1>4. ServerTyped' /\ FetchesOwn'
  BY <1>1, <1>2, <1>3 DEF IInv, Typed, ServerTyped, FetchesOwn, page
<1>5. SavesTyped' /\ SavesOwn'
  BY <1>1, <1>2, SavesAdvance DEF IInv, Typed, page
<1>6. /\ PageTyped' /\ StoreTyped' /\ GhostsTyped' /\ Kept' /\ Clean' /\ ApplyIsDue'
      /\ NewIsEmpty'
  BY <1>2, StoreStays DEF IInv, Typed, PageTyped, page
<1> QED
  BY <1>4, <1>5, <1>6 DEF IInv, Typed

LEMMA SaveFailsKeeps ==
  ASSUME IInv, NEW q \in saves, SaveFails(q)
  PROVE  IInv'
<1>1. /\ saves' = (saves \ {q}) \cup {[q EXCEPT !.state = "err"]}
      /\ UNCHANGED <<server, page, store, ghosts, saved>>
  BY DEF SaveFails
<1>2. ServerTyped' /\ FetchesOwn'
  BY <1>1 DEF IInv, Typed, ServerTyped, FetchesOwn, page, server
<1>3. SavesTyped' /\ SavesOwn'
  BY <1>1, SavesAdvance DEF IInv, Typed, page
<1>4. /\ PageTyped' /\ StoreTyped' /\ GhostsTyped' /\ Kept' /\ Clean' /\ ApplyIsDue'
      /\ NewIsEmpty'
  BY <1>1, StoreStays DEF IInv, Typed, PageTyped, page
<1> QED
  BY <1>2, <1>3, <1>4 DEF IInv, Typed

LEMMA SaveRejectedKeeps ==
  ASSUME IInv, NEW q \in saves, SaveRejected(q)
  PROVE  IInv'
<1>1. /\ saves' = saves \ {q}
      /\ saving' = (saving /\ ~q.mine)
      /\ UNCHANGED <<server, route, failed, timers, store, ghosts, saved>>
  BY DEF SaveRejected, counts
<1>2. ServerTyped' /\ FetchesOwn'
  BY <1>1 DEF IInv, Typed, ServerTyped, FetchesOwn, server
<1>3. SavesTyped' /\ SavesOwn'
  BY <1>1, FewerSaves DEF IInv, Typed
<1>4. saving' \in BOOLEAN
  BY <1>1
<1>5. /\ PageTyped' /\ StoreTyped' /\ GhostsTyped' /\ Kept' /\ Clean' /\ ApplyIsDue'
      /\ NewIsEmpty'
  BY <1>1, <1>4, StoreStays DEF IInv, Typed, PageTyped
<1> QED
  BY <1>2, <1>3, <1>5 DEF IInv, Typed

\* The save of a new core opens the page of it; the save of an earlier page
\* marks the draft clean, whatever it holds.
LEMMA SaveAnsweredKeeps ==
  ASSUME IInv, NEW q \in saves, SaveAnswered(q)
  PROVE  IInv'
<1>1. /\ q \in Saves /\ q.state \in Cores /\ saved' = saved
      /\ q.mine => q.core = route
  BY DEF IInv, Typed, SavesTyped, SavesOwn, SaveAnswered, counts
<1>2. CASE q.core = New /\ route # q.state
  <2>1. /\ Mount(q.state)
        /\ saves' = {[x EXCEPT !.mine = FALSE] : x \in saves \ {q}}
        /\ UNCHANGED <<db, cache>>
    BY <1>2 DEF SaveAnswered
  <2>2. /\ fetch' \in [Cores -> Rows \cup {Idle, Sent, Lost}]
        /\ PageTyped' /\ StoreTyped' /\ GhostsTyped' /\ Kept' /\ Clean'
        /\ ApplyIsDue' /\ FetchesOwn' /\ NewIsEmpty'
    BY <1>1, <2>1, MountIs
  <2>3. ServerTyped'
    BY <2>1, <2>2 DEF IInv, Typed, ServerTyped
  <2>4. saves \ {q} \in SUBSET saves
    OBVIOUS
  <2>5. SavesTyped' /\ SavesOwn'
    BY <1>1, <2>1, <2>4, SavesOrphaned DEF IInv, Typed
  <2> QED
    BY <2>2, <2>3, <2>5 DEF IInv, Typed
<1>3. CASE ~(q.core = New /\ route # q.state)
  <2> DEFINE s    == markClean(store)
             same == {currentConfig(store), Persisted(store.draft)} = {q.row.cfg}
  <2>1. /\ store' = s /\ timers' = ArmedBy(s)
        /\ acked' = (IF q.mine THEN q.row.cfg.body ELSE acked)
        /\ overtaken' = (overtaken \/ ~q.mine \/ ~same)
        /\ switched' = (switched /\ ~q.mine)
        /\ saves' = saves \ {q}
        /\ saving' = (saving /\ ~q.mine)
        /\ fetch' = (IF route = q.core THEN [fetch EXCEPT ![q.core] = Sent] ELSE fetch)
        /\ UNCHANGED <<db, cache, route, failed, want>>
    BY <1>3 DEF SaveAnswered
  <2>2. store \in Stores
    BY DEF IInv, Typed, StoreTyped
  <2>3. /\ s \in Stores /\ s.snap \in Snaps /\ s.hydrated = store.hydrated
        /\ s.draft = store.draft /\ s.snap.draft = store.draft
        /\ store.hydrated => s.monacoDirty = FALSE /\ s.baseline = store.draft
    BY <2>2, markCleanIs
  <2> HIDE DEF s
  <2>4. q.core = route => q.core \in Cores
    <3>1. SUFFICES ASSUME q.core = New, route = New PROVE FALSE
      BY <1>1 DEF Saves
    <3> QED
      BY <1>1, <1>3, <3>1, ConstantsAssumption
  <2>5. ServerTyped' /\ FetchesOwn'
    <3>1. CASE route = q.core
      BY <2>1, <2>4, <3>1 DEF IInv, Typed, ServerTyped, FetchesOwn
    <3>2. CASE route # q.core
      BY <2>1, <3>2 DEF IInv, Typed, ServerTyped, FetchesOwn
    <3> QED
      BY <3>1, <3>2
  <2>6. SavesTyped' /\ SavesOwn'
    BY <1>1, <2>1, FewerSaves DEF IInv, Typed
  <2>7. /\ timers' \subseteq {"apply", "sync"} /\ ("apply" \in timers' => s.monacoDirty)
    BY <2>1, ArmedByIs DEF IInv, Typed, PageTyped
  <2>8. PageTyped'
    <3>1. saving' \in BOOLEAN
      BY <2>1
    <3> QED
      BY <2>1, <2>7, <3>1 DEF IInv, Typed, PageTyped
  <2>9. StoreTyped' /\ ApplyIsDue'
    BY <2>1, <2>3, <2>7 DEF StoreTyped, ApplyIsDue
  <2>10. GhostsTyped'
    <3>1. overtaken' \in BOOLEAN
      BY <2>1
    <3>2. switched' \in BOOLEAN
      BY <2>1
    <3>3. acked' \in Bodies
      BY <1>1, <2>1 DEF IInv, Typed, GhostsTyped, Saves, Rows, Configs
    <3> QED
      BY <2>1, <3>1, <3>2, <3>3 DEF IInv, Typed, GhostsTyped
  <2>11. ASSUME ~overtaken'
         PROVE  /\ ~overtaken /\ q.mine /\ q.core = route
                /\ currentConfig(store) = Persisted(store.draft)
                /\ acked' = store.draft
    <3>1. ~overtaken /\ q.mine /\ same
      BY <2>1, <2>11
    <3>2. currentConfig(store) = q.row.cfg /\ Persisted(store.draft) = q.row.cfg
      BY <3>1
    <3>3. q.row.cfg.body = store.draft
      BY <3>2 DEF Persisted
    <3> QED
      BY <1>1, <2>1, <3>1, <3>2, <3>3
  <2>12. Kept'
    <3> SUFFICES ASSUME store'.hydrated, ~overtaken'
                 PROVE  /\ currentConfig(store').body = want'.body
                        /\ (currentConfig(store').form = "bad") <=> (want'.form = "bad")
      BY DEF Kept
    <3>1. store.hydrated /\ ~overtaken /\ currentConfig(store) = Persisted(store.draft)
      BY <2>1, <2>3, <2>11
    <3>2. currentConfig(store') = Persisted(store.draft)
      BY <2>1, <2>3, <3>1 DEF currentConfig
    <3> QED
      BY <2>1, <3>1, <3>2 DEF IInv, Kept
  <2>13. Clean'
    BY <2>1, <2>3, <2>11 DEF Clean
  <2>14. NewIsEmpty'
    BY <2>1, <2>4, <2>11, ConstantsAssumption DEF NewIsEmpty
  <2> QED
    BY <2>5, <2>6, <2>8, <2>9, <2>10, <2>12, <2>13, <2>14 DEF IInv, Typed
<1> QED
  BY <1>2, <1>3

-----------------------------------------------------------------------------
(* The theorems.                                                           *)

LEMMA InitHolds == Init => IInv
<1> SUFFICES ASSUME Init PROVE IInv
  OBVIOUS
<1>1. Default \in Bodies /\ Persisted(Default) \in Configs
  BY DefaultType, PersistedType
<1>2. EmptyStore \in Stores /\ EmptyStore.hydrated = FALSE
  BY EmptyStoreType DEF EmptyStore
<1>3. ServerTyped
  BY ConstantsAssumption DEF Init, ServerTyped
<1>4. PageTyped /\ SavesTyped /\ StoreTyped /\ GhostsTyped
  BY <1>1, <1>2 DEF Init, PageTyped, SavesTyped, StoreTyped, GhostsTyped
<1>5. Kept /\ Clean /\ NewIsEmpty /\ ApplyIsDue /\ FetchesOwn /\ SavesOwn
  BY <1>2 DEF Init, Kept, Clean, NewIsEmpty, ApplyIsDue, FetchesOwn, SavesOwn
<1> QED
  BY <1>3, <1>4, <1>5 DEF IInv, Typed

LEMMA NextKeeps == IInv /\ [Next]_vars => IInv'
<1> SUFFICES ASSUME IInv, [Next]_vars PROVE IInv'
  OBVIOUS
<1>1. CASE \E n \in Names : SetCoreName(n)
  BY <1>1, SetCoreNameKeeps
<1>2. CASE SetInboundTags
  BY <1>2, SetInboundTagsKeeps
<1>3. CASE \E sec \in Sections, v \in Values : UpdateDraft(sec, v)
  BY <1>3, UpdateDraftKeeps
<1>4. CASE \E sec \in Sections, v \in Values, form \in {"kit", "bad"} : TypeJson(sec, v, form)
  BY <1>4, TypeJsonKeeps
<1>5. CASE \E k \in Kinds : SwitchKind(k)
  BY <1>5, SwitchKindKeeps
<1>6. CASE SetActiveSection \/ Discard \/ SyncJson \/ ApplyTimer \/ SyncTimer
  BY <1>6, SetActiveSectionKeeps, DiscardKeeps, SyncJsonKeeps, ApplyTimerKeeps,
     SyncTimerKeeps
<1>7. CASE \E r \in Cores \cup {New, List} : Navigate(r)
  BY <1>7, NavigateKeeps
<1>8. CASE \E c \in Cores : FetchAnswered(c) \/ FetchArrives(c) \/ FetchFails(c) \/ Reconnect(c)
  BY <1>8, FetchAnsweredKeeps, FetchArrivesKeeps, FetchFailsKeeps, ReconnectKeeps
<1>9. CASE Save
  BY <1>9, SaveKeeps
<1>10. CASE \E q \in saves : SaveCommitted(q) \/ SaveFails(q) \/ SaveRejected(q) \/ SaveAnswered(q)
  BY <1>10, SaveCommittedKeeps, SaveFailsKeeps, SaveRejectedKeeps, SaveAnsweredKeeps
<1>11. CASE \E c \in Cores, row \in OtherRows : OtherAdmin(c, row)
  BY <1>11, OtherAdminKeeps
<1>12. CASE UNCHANGED vars
  <2>1. UNCHANGED <<db, cache, fetch, page, saves, store, ghosts, saved>>
    BY <1>12 DEF vars, server, counts
  <2>2. ServerTyped' /\ FetchesOwn' /\ SavesTyped' /\ SavesOwn'
    BY <2>1 DEF IInv, Typed, ServerTyped, FetchesOwn, SavesTyped, SavesOwn, page
  <2>3. /\ PageTyped' /\ StoreTyped' /\ GhostsTyped' /\ Kept' /\ Clean' /\ ApplyIsDue'
        /\ NewIsEmpty'
    BY <2>1, StoreStays DEF IInv, Typed, PageTyped, page
  <2> QED
    BY <2>2, <2>3 DEF IInv, Typed
<1> QED
  BY <1>1, <1>2, <1>3, <1>4, <1>5, <1>6, <1>7, <1>8, <1>9, <1>10, <1>11, <1>12 DEF Next

LEMMA InvariantHolds == Spec => []IInv
<1>1. Init => IInv
  BY InitHolds
<1>2. IInv /\ [Next]_vars => IInv'
  BY NextKeeps
<1> QED
  BY <1>1, <1>2, PTL DEF Spec

\* The state of the page, the store, the saves under way and the database has
\* its types, and a page that is ready has a snapshot to discard to.
THEOREM TypeCorrect == Spec => []TypeOK
<1>1. IInv => TypeOK
  <2> SUFFICES ASSUME IInv PROVE TypeOK
    OBVIOUS
  <2> USE DEF IInv, Typed
  <2>1. \A c \in Cores : fetch[c] \in Rows \cup {Idle, Sent, Lost}
    BY DEF ServerTyped
  <2>2. {failed, saving, overtaken, switched} \subseteq BOOLEAN
    BY DEF PageTyped, GhostsTyped
  <2>3. \A q \in saves : q.row \in Rows /\ q.state \in Cores \cup {"sent", "err"}
    BY DEF SavesTyped, Saves
  <2>4. store.hydrated => store.snap \in Snaps
    BY DEF StoreTyped
  <2> QED
    BY <2>1, <2>2, <2>3, <2>4, StoreFields DEF TypeOK, ServerTyped, PageTyped, GhostsTyped
<1> QED
  BY <1>1, InvariantHolds, PTL

\* The debounced timers, refetches, failed saves and error pages of the editor
\* (use-core-editor-json-sync.ts, core-editor-store.ts) take no edit away.
THEOREM EditsAreKept == Spec => []EditsKept
<1>1. IInv => EditsKept
  BY DEF IInv, Kept, EditsKept, Editable
<1> QED
  BY <1>1, InvariantHolds, PTL

\* A draft selectCoreEditorHasActualChanges calls clean is what the server last
\* gave or took.
THEOREM CleanIsTheServers == Spec => []CleanAgrees
<1>1. IInv => CleanAgrees
  <2> SUFFICES ASSUME IInv, store.hydrated, ~overtaken, ~switched, ~hasActualChanges(store)
               PROVE  currentConfig(store).body = acked
    BY DEF CleanAgrees, Editable
  <2>1. currentConfig(store) = Persisted(store.baseline)
    BY DEF hasActualChanges, baselineConfig
  <2>2. store.baseline = acked
    BY DEF IInv, Clean
  <2> QED
    BY <2>1, <2>2 DEF Persisted
<1> QED
  BY <1>1, InvariantHolds, PTL
=============================================================================
