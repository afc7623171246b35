--------------------------- MODULE HostsList_proof ---------------------------
(***************************************************************************)
(* The proofs that the hosts page shows what is stored and that a dragged  *)
(* host lands where it was dropped, for any hosts, any number of           *)
(* operations, faults and visits, and any order of the answers.            *)
(***************************************************************************)
EXTENDS Dashboard, SequenceTheorems, FiniteSetTheorems, FunctionTheorems,
        WellFoundedInduction, TLAPS

-----------------------------------------------------------------------------
(* Lists, finite sets, and what a drag does to a list.                     *)

\* A list without one of its elements: those behind it move up.
LEMMA RemoveAtIs ==
  ASSUME NEW S, NEW s \in Seq(S), NEW i \in 1 .. Len(s)
  PROVE  /\ Hosts!RemoveAt(s, i) \in Seq(S)
         /\ Len(Hosts!RemoveAt(s, i)) = Len(s) - 1
         /\ \A k \in 1 .. Len(s) - 1 :
              Hosts!RemoveAt(s, i)[k] = IF k < i THEN s[k] ELSE s[k + 1]
<1> DEFINE a == SubSeq(s, 1, i - 1)
           b == SubSeq(s, i + 1, Len(s))
<1>1. Len(s) \in Nat /\ i \in Nat /\ \A k \in 1 .. Len(s) : s[k] \in S
  BY LenProperties, ElementOfSeq
<1>2. /\ a \in Seq(S) /\ Len(a) = i - 1
      /\ \A k \in 1 .. i - 1 : a[k] = s[k]
  <2>1. \A k \in 1 .. i - 1 : s[k] \in S
    BY <1>1
  <2>2. /\ a \in Seq(S) /\ Len(a) = (IF 1 <= i - 1 THEN (i - 1) - 1 + 1 ELSE 0)
        /\ \A k \in 1 .. (i - 1) - 1 + 1 : a[k] = s[1 + k - 1]
    BY <1>1, <2>1, SubSeqProperties
  <2> HIDE DEF a
  <2> QED
    BY <1>1, <2>2
<1>3. /\ b \in Seq(S) /\ Len(b) = Len(s) - i
      /\ \A k \in 1 .. Len(s) - i : b[k] = s[i + k]
  <2>1. \A k \in i + 1 .. Len(s) : s[k] \in S
    BY <1>1
  <2>2. /\ b \in Seq(S) /\ Len(b) = (IF i + 1 <= Len(s) THEN Len(s) - (i + 1) + 1 ELSE 0)
        /\ \A k \in 1 .. Len(s) - (i + 1) + 1 : b[k] = s[(i + 1) + k - 1]
    BY <1>1, <2>1, SubSeqProperties
  <2> HIDE DEF b
  <2> QED
    BY <1>1, <2>2
<1>4. Hosts!RemoveAt(s, i) = a \o b
  BY DEF Hosts!RemoveAt
<1> HIDE DEF a, b
<1>5. /\ a \o b \in Seq(S) /\ Len(a \o b) = Len(s) - 1
      /\ \A k \in 1 .. Len(s) - 1 :
           (a \o b)[k] = IF k <= i - 1 THEN a[k] ELSE b[k - (i - 1)]
  <2>1. /\ a \o b \in Seq(S) /\ Len(a \o b) = Len(a) + Len(b)
        /\ \A k \in 1 .. Len(a) + Len(b) :
             (a \o b)[k] = IF k <= Len(a) THEN a[k] ELSE b[k - Len(a)]
    BY <1>2, <1>3, ConcatProperties
  <2>2. Len(a) + Len(b) = Len(s) - 1
    BY <1>1, <1>2, <1>3
  <2> QED
    BY <1>2, <2>1, <2>2
<1>6. ASSUME NEW k \in 1 .. Len(s) - 1
      PROVE  (a \o b)[k] = IF k < i THEN s[k] ELSE s[k + 1]
  <2>1. CASE k < i
    BY <1>1, <1>2, <1>5, <2>1
  <2>2. CASE ~(k < i)
    <3>1. k - (i - 1) \in 1 .. Len(s) - i /\ i + (k - (i - 1)) = k + 1 /\ ~(k <= i - 1)
      BY <1>1, <2>2
    <3> QED
      BY <1>3, <1>5, <2>2, <3>1
  <2> QED
    BY <2>1, <2>2
<1> QED
  BY <1>4, <1>5, <1>6

\* A list with one more element: those behind it move down.
LEMMA InsertAtIs ==
  ASSUME NEW S, NEW s \in Seq(S), NEW i \in 1 .. Len(s) + 1, NEW e \in S
  PROVE  /\ Hosts!InsertAt(s, i, e) \in Seq(S)
         /\ Len(Hosts!InsertAt(s, i, e)) = Len(s) + 1
         /\ \A k \in 1 .. Len(s) + 1 :
              Hosts!InsertAt(s, i, e)[k] =
                IF k < i THEN s[k] ELSE IF k = i THEN e ELSE s[k - 1]
<1> DEFINE a == SubSeq(s, 1, i - 1)
           b == SubSeq(s, i, Len(s))
           m == <<e>>
<1>1. Len(s) \in Nat /\ i \in Nat /\ i >= 1 /\ \A k \in 1 .. Len(s) : s[k] \in S
  BY LenProperties, ElementOfSeq
<1>2. /\ a \in Seq(S) /\ Len(a) = i - 1
      /\ \A k \in 1 .. i - 1 : a[k] = s[k]
  <2>1. \A k \in 1 .. i - 1 : s[k] \in S
    BY <1>1
  <2>2. /\ a \in Seq(S) /\ Len(a) = (IF 1 <= i - 1 THEN (i - 1) - 1 + 1 ELSE 0)
        /\ \A k \in 1 .. (i - 1) - 1 + 1 : a[k] = s[1 + k - 1]
    BY <1>1, <2>1, SubSeqProperties
  <2> HIDE DEF a, b, m
  <2>3. Len(a) = i - 1
    BY <1>1, <2>2
  <2>4. \A k \in 1 .. i - 1 : 1 + k - 1 = k /\ k \in 1 .. (i - 1) - 1 + 1
    BY <1>1
  <2> QED
    BY <2>2, <2>3, <2>4
<1>3. /\ b \in Seq(S) /\ Len(b) = Len(s) - i + 1
      /\ \A k \in 1 .. Len(s) - i + 1 : b[k] = s[i + k - 1]
  <2>1. \A k \in i .. Len(s) : s[k] \in S
    BY <1>1
  <2>2. /\ b \in Seq(S) /\ Len(b) = (IF i <= Len(s) THEN Len(s) - i + 1 ELSE 0)
        /\ \A k \in 1 .. Len(s) - i + 1 : b[k] = s[i + k - 1]
    BY <1>1, <2>1, SubSeqProperties
  <2> HIDE DEF b
  <2> QED
    BY <1>1, <2>2
<1>4. m \in Seq(S) /\ Len(m) = 1 /\ m[1] = e
  OBVIOUS
<1>5. Hosts!InsertAt(s, i, e) = (a \o m) \o b
  BY DEF Hosts!InsertAt
<1> HIDE DEF a, b, m
<1>6. /\ a \o m \in Seq(S) /\ Len(a \o m) = i
      /\ \A k \in 1 .. i : (a \o m)[k] = IF k <= i - 1 THEN a[k] ELSE m[k - (i - 1)]
  <2>1. /\ a \o m \in Seq(S) /\ Len(a \o m) = Len(a) + Len(m)
        /\ \A k \in 1 .. Len(a) + Len(m) :
             (a \o m)[k] = IF k <= Len(a) THEN a[k] ELSE m[k - Len(a)]
    BY <1>2, <1>4, ConcatProperties
  <2>2. Len(a) + Len(m) = i
    BY <1>1, <1>2, <1>4
  <2> QED
    BY <1>2, <2>1, <2>2
<1>7. \A k \in 1 .. i : (a \o m)[k] = IF k < i THEN s[k] ELSE e
  BY <1>1, <1>2, <1>4, <1>6
<1>8. /\ (a \o m) \o b \in Seq(S) /\ Len((a \o m) \o b) = Len(s) + 1
      /\ \A k \in 1 .. Len(s) + 1 :
           ((a \o m) \o b)[k] = IF k <= i THEN (a \o m)[k] ELSE b[k - i]
  <2> DEFINE c == a \o m
  <2>1. c \in Seq(S) /\ Len(c) = i
    BY <1>6
  <2> HIDE DEF c
  <2>2. /\ c \o b \in Seq(S) /\ Len(c \o b) = Len(c) + Len(b)
        /\ \A k \in 1 .. Len(c) + Len(b) :
             (c \o b)[k] = IF k <= Len(c) THEN c[k] ELSE b[k - Len(c)]
    BY <1>3, <2>1, ConcatProperties
  <2>3. Len(c) + Len(b) = Len(s) + 1
    BY <1>1, <1>3, <2>1
  <2>4. /\ c \o b \in Seq(S) /\ Len(c \o b) = Len(s) + 1
        /\ \A k \in 1 .. Len(s) + 1 : (c \o b)[k] = IF k <= i THEN c[k] ELSE b[k - i]
    BY <2>1, <2>2, <2>3
  <2> QED
    BY <2>4 DEF c
<1>9. ASSUME NEW k \in 1 .. Len(s) + 1
      PROVE  ((a \o m) \o b)[k] = IF k < i THEN s[k] ELSE IF k = i THEN e ELSE s[k - 1]
  <2>1. CASE k <= i
    <3>1. k \in 1 .. i /\ (k < i \/ k = i)
      BY <1>1, <2>1
    <3>2. ((a \o m) \o b)[k] = (a \o m)[k]
      BY <1>8, <2>1
    <3>3. (a \o m)[k] = IF k < i THEN s[k] ELSE e
      BY <1>7, <3>1
    <3> QED
      BY <1>1, <3>1, <3>2, <3>3
  <2>2. CASE ~(k <= i)
    <3>1. k - i \in 1 .. Len(s) - i + 1 /\ i + (k - i) - 1 = k - 1 /\ ~(k < i) /\ k # i
      BY <1>1, <2>2
    <3> QED
      BY <1>3, <1>8, <2>2, <3>1
  <2> QED
    BY <2>1, <2>2
<1> QED
  BY <1>5, <1>8, <1>9

\* The place where the element at k stood before a move.
Place(from, to, k) ==
  IF k = to THEN from
  ELSE IF k < to THEN (IF k < from THEN k ELSE k + 1)
  ELSE (IF k - 1 < from THEN k - 1 ELSE k)

\* arrayMove by place: what stands at k stood at Place(from, to, k).
LEMMA MoveIs ==
  ASSUME NEW S, NEW s \in Seq(S), NEW from \in 1 .. Len(s), NEW to \in 1 .. Len(s)
  PROVE  /\ Hosts!arrayMove(s, from, to) \in Seq(S)
         /\ Len(Hosts!arrayMove(s, from, to)) = Len(s)
         /\ \A k \in 1 .. Len(s) :
              Hosts!arrayMove(s, from, to)[k] = s[Place(from, to, k)]
<1> DEFINE r == Hosts!RemoveAt(s, from)
<1>1. Len(s) \in Nat /\ from \in Nat /\ to \in Nat /\ s[from] \in S
  BY LenProperties, ElementOfSeq
<1>2. /\ r \in Seq(S) /\ Len(r) = Len(s) - 1
      /\ \A k \in 1 .. Len(s) - 1 : r[k] = IF k < from THEN s[k] ELSE s[k + 1]
  BY RemoveAtIs
<1>3. Hosts!arrayMove(s, from, to) = Hosts!InsertAt(r, to, s[from])
  BY DEF Hosts!arrayMove
<1> HIDE DEF r
<1>4. to \in 1 .. Len(r) + 1 /\ Len(r) + 1 = Len(s)
  BY <1>1, <1>2
<1>5. /\ Hosts!InsertAt(r, to, s[from]) \in Seq(S)
      /\ Len(Hosts!InsertAt(r, to, s[from])) = Len(r) + 1
      /\ \A k \in 1 .. Len(r) + 1 :
           Hosts!InsertAt(r, to, s[from])[k] =
             IF k < to THEN r[k] ELSE IF k = to THEN s[from] ELSE r[k - 1]
  <2> DEFINE e == s[from]
  <2>1. e \in S /\ r \in Seq(S) /\ to \in 1 .. Len(r) + 1
    BY <1>1, <1>2, <1>4
  <2> HIDE DEF e
  <2>2. /\ Hosts!InsertAt(r, to, e) \in Seq(S)
        /\ Len(Hosts!InsertAt(r, to, e)) = Len(r) + 1
        /\ \A k \in 1 .. Len(r) + 1 :
             Hosts!InsertAt(r, to, e)[k] =
               IF k < to THEN r[k] ELSE IF k = to THEN e ELSE r[k - 1]
    BY <2>1, InsertAtIs
  <2> QED
    BY <2>2 DEF e
<1>6. ASSUME NEW k \in 1 .. Len(s)
      PROVE  Hosts!InsertAt(r, to, s[from])[k] = s[Place(from, to, k)]
  <2>1. CASE k = to
    BY <1>1, <1>4, <1>5, <2>1 DEF Place
  <2>2. CASE k < to
    <3>1. k \in 1 .. Len(s) - 1
      BY <1>1, <2>2
    <3> QED
      BY <1>1, <1>2, <1>4, <1>5, <2>2, <3>1 DEF Place
  <2>3. CASE k > to
    <3>1. k - 1 \in 1 .. Len(s) - 1 /\ (k - 1) + 1 = k
      BY <1>1, <2>3
    <3> QED
      BY <1>1, <1>2, <1>4, <1>5, <2>3, <3>1 DEF Place
  <2> QED
    BY <1>1, <2>1, <2>2, <2>3
<1> QED
  BY <1>3, <1>4, <1>5, <1>6

\* Place is a permutation of the list's places, undone by the move back.
LEMMA PlaceIs ==
  ASSUME NEW n \in Nat, NEW from \in 1 .. n, NEW to \in 1 .. n
  PROVE  /\ \A k \in 1 .. n : Place(from, to, k) \in 1 .. n
         /\ \A j, k \in 1 .. n : Place(from, to, j) = Place(from, to, k) => j = k
         /\ \A j \in 1 .. n : \E k \in 1 .. n : Place(from, to, k) = j
<1>1. ASSUME NEW j \in 1 .. n
      PROVE  Place(from, to, Place(to, from, j)) = j /\ Place(to, from, j) \in 1 .. n
  BY DEF Place
<1> QED
  <2>1. \A k \in 1 .. n : Place(from, to, k) \in 1 .. n
    BY DEF Place
  <2>2. ASSUME NEW j \in 1 .. n, NEW k \in 1 .. n, Place(from, to, j) = Place(from, to, k)
        PROVE  j = k
    BY <2>2 DEF Place
  <2> QED
    BY <1>1, <2>1, <2>2

\* The values of a function on a finite set are finitely many.
LEMMA ImageFinite ==
  ASSUME NEW f, IsFiniteSet(DOMAIN f), f = [x \in DOMAIN f |-> f[x]]
  PROVE  IsFiniteSet({f[x] : x \in DOMAIN f})
<1> DEFINE D == DOMAIN f
           T == {f[x] : x \in D}
<1>1. f \in Surjection(D, T)
  <2>1. f \in [D -> T]
    OBVIOUS
  <2> QED
    BY <2>1, Fun_IsSurj
<1> HIDE DEF D, T
<1>2. IsFiniteSet(D)
  BY DEF D
<1>3. IsFiniteSet(T)
  BY <1>1, <1>2, FS_Surjection
<1> QED
  BY <1>3 DEF T, D

\* A finite nonempty set of numbers has its maximum: by minimal counterexample.
LEMMA MaxIs ==
  ASSUME NEW S \in SUBSET Nat, IsFiniteSet(S), S # {}
  PROVE  Hosts!Max(S) \in S /\ \A n \in S : n <= Hosts!Max(S)
<1> DEFINE Top(T, n) == n \in T /\ \A k \in T : n >= k
           Bad == {T \in SUBSET S : T # {} /\ \A n \in T : ~Top(T, n)}
<1>1. CASE Bad = {}
  <2>1. \E n \in S : Top(S, n)
    BY <1>1
  <2>2. \E n \in S : \A k \in S : n >= k
    BY <2>1
  <2>3. Hosts!Max(S) \in S /\ \A k \in S : Hosts!Max(S) >= k
    BY <2>2 DEF Hosts!Max
  <2> QED
    BY <2>3
<1>2. CASE Bad # {}
  <2>1. IsWellFoundedOn(StrictSubsetOrdering(S), SUBSET S)
    BY FS_StrictSubsetOrderingWellFounded, FS_FiniteSubsetsOfFinite
  <2>2. PICK T \in Bad : \A R \in Bad : ~(<<R, T>> \in StrictSubsetOrdering(S))
    BY <1>2, <2>1, WFMin
  <2>3. PICK x \in T : TRUE
    BY <2>2
  <2>4. T \ {x} \notin Bad
    <3>1. <<T \ {x}, T>> \in StrictSubsetOrdering(S)
      BY <2>2, <2>3 DEF StrictSubsetOrdering
    <3> QED
      BY <2>2, <3>1
  <2>5. T \subseteq Nat /\ T \in SUBSET S
    BY <2>2
  <2>6. CASE T \ {x} = {}
    <3>1. Top(T, x)
      BY <2>3, <2>5, <2>6
    <3> QED
      BY <2>2, <2>3, <3>1
  <2>7. CASE T \ {x} # {}
    <3>1. PICK m \in T \ {x} : \A k \in T \ {x} : m >= k
      BY <2>4, <2>5, <2>7
    <3>2. Top(T, IF m >= x THEN m ELSE x)
      BY <2>3, <2>5, <3>1
    <3>3. (IF m >= x THEN m ELSE x) \in T
      BY <2>3, <3>1
    <3> QED
      BY <2>2, <3>2, <3>3
  <2> QED
    BY <2>6, <2>7
<1> QED
  BY <1>1, <1>2

\* A list the page can know of: hosts with ids given out so far, each at most once.
Known(q, n) ==
  /\ q \in Seq(Hosts!Host)
  /\ \A i \in DOMAIN q : q[i].id > 0 /\ q[i].id < n
  /\ \A i, j \in DOMAIN q : i # j => q[i].id # q[j].id

\* The same for a set of them.
Table(S, n) ==
  /\ IsFiniteSet(S) /\ S \subseteq Hosts!Host
  /\ \A h \in S : h.id > 0 /\ h.id < n
  /\ \A g, h \in S : g.id = h.id => g = h

\* The query's answer has each stored host once.
LEMMA QueryIs ==
  ASSUME NEW S, NEW n, Table(S, n), NEW q \in Hosts!get_hosts(S)
  PROVE  Known(q, n) /\ Hosts!ToSet(q) = S
<1> DEFINE c == Cardinality(S)
<1>1. c \in Nat /\ IsFiniteSet(S)
  BY FS_CardinalityType DEF Table
<1>2. Hosts!Cardinality(S) = c
  BY DEF Hosts!Cardinality, Cardinality
<1>3. q \in Hosts!SetToSeqs(S)
  BY DEF Hosts!get_hosts
<1> HIDE DEF c
<1>4. q \in [1 .. c -> S] /\ \A i, j \in 1 .. c : i # j => q[i] # q[j]
  BY <1>2, <1>3 DEF Hosts!SetToSeqs
<1>5. q \in Injection(1 .. c, S)
  BY <1>4, Fun_IsInj
<1>6. IsFiniteSet(1 .. c) /\ Cardinality(1 .. c) = c
  <2>1. Cardinality(1 .. c) = IF 1 > c THEN 0 ELSE c - 1 + 1
    BY <1>1, FS_Interval
  <2> QED
    BY <1>1, <2>1, FS_Interval
<1>7. q \in Surjection(1 .. c, S)
  <2> DEFINE D == 1 .. c
  <2>1. q \in Injection(D, S) /\ Cardinality(D) = Cardinality(S)
    BY <1>5, <1>6 DEF c
  <2> HIDE DEF D
  <2>2. q \in Surjection(D, S)
    BY <1>1, <2>1, FS_Injection
  <2> QED
    BY <2>2 DEF D
<1>8. q \in Seq(S) /\ Len(q) = c /\ DOMAIN q = 1 .. c
  BY <1>1, <1>4
<1>9. Hosts!ToSet(q) = S
  <2> DEFINE D == 1 .. c
  <2>0. q \in Surjection(D, S)
    BY <1>7
  <2> HIDE DEF D
  <2>1. \A t \in S : \E i \in D : q[i] = t
    BY <2>0, Fun_SurjectionProperties
  <2> USE DEF D
  <2> QED
    BY <1>4, <1>8, <2>1 DEF Hosts!ToSet
<1>10. q \in Seq(Hosts!Host)
  BY <1>8, SeqMonotonic DEF Table
<1>11. \A i \in DOMAIN q : q[i] \in S
  BY <1>4, <1>8
<1>12. \A i, j \in DOMAIN q : i # j => q[i].id # q[j].id
  BY <1>4, <1>8, <1>11 DEF Table
<1>13. \A i \in DOMAIN q : q[i].id > 0 /\ q[i].id < n
  BY <1>11 DEF Table
<1> QED
  BY <1>9, <1>10, <1>12, <1>13 DEF Known

\* The same host but for its priority.
Same(g, h) == g.id = h.id /\ g.val = h.val /\ g.off = h.off

\* Two lists of the same hosts, in whatever order and with whatever priorities.
SameHosts(p, q) ==
  /\ \A i \in DOMAIN p : \E j \in DOMAIN q : Same(p[i], q[j])
  /\ \A j \in DOMAIN q : \E i \in DOMAIN p : Same(p[i], q[j])

\* Lists with the same hosts as a third have the same hosts.
LEMMA SameHostsJoin ==
  ASSUME NEW p, NEW q, NEW r, SameHosts(p, q), SameHosts(p, r)
  PROVE  SameHosts(q, r)
<1>1. ASSUME NEW i \in DOMAIN q
      PROVE  \E j \in DOMAIN r : Same(q[i], r[j])
  BY DEF SameHosts, Same
<1>2. ASSUME NEW j \in DOMAIN r
      PROVE  \E i \in DOMAIN q : Same(q[i], r[j])
  BY DEF SameHosts, Same
<1> QED
  BY <1>1, <1>2 DEF SameHosts

\* A drag gives the same hosts in another order.
LEMMA DraggedIs ==
  ASSUME NEW n, NEW q, Known(q, n), NEW from \in DOMAIN q, NEW to \in DOMAIN q
  PROVE  LET d == Hosts!Dragged(q, from, to)
         IN Known(d, n) /\ SameHosts(q, d) /\ d # <<>>
<1> DEFINE m == Hosts!arrayMove(q, from, to)
           d == Hosts!Dragged(q, from, to)
           c == Len(q)
<1>1. q \in Seq(Hosts!Host) /\ c \in Nat /\ DOMAIN q = 1 .. c
  BY LenProperties DEF Known
<1>2. /\ m \in Seq(Hosts!Host) /\ Len(m) = c
      /\ \A k \in 1 .. c : m[k] = q[Place(from, to, k)]
  BY <1>1, MoveIs
<1>3. d = [i \in DOMAIN m |-> [m[i] EXCEPT !.priority = i - 1]]
  BY DEF Hosts!Dragged, Hosts!Renumbered
<1> HIDE DEF m, d, c
<1>4. DOMAIN m = 1 .. c
  BY <1>2, LenProperties
<1>5. from \in 1 .. c /\ to \in 1 .. c
  BY <1>1
<1>6. /\ \A k \in 1 .. c : Place(from, to, k) \in 1 .. c
      /\ \A j, k \in 1 .. c : Place(from, to, j) = Place(from, to, k) => j = k
      /\ \A j \in 1 .. c : \E k \in 1 .. c : Place(from, to, k) = j
  <2>1. \A a, b \in 1 .. c :
          /\ \A k \in 1 .. c : Place(a, b, k) \in 1 .. c
          /\ \A j, k \in 1 .. c : Place(a, b, j) = Place(a, b, k) => j = k
          /\ \A j \in 1 .. c : \E k \in 1 .. c : Place(a, b, k) = j
    BY <1>1, PlaceIs
  <2> QED
    BY <1>5, <2>1
<1>7. DOMAIN d = 1 .. c
  BY <1>3, <1>4
<1>8. \A k \in 1 .. c : q[k] \in Hosts!Host /\ q[k].id > 0 /\ q[k].id < n
  BY <1>1, ElementOfSeq DEF Known, c
<1>9. ASSUME NEW k \in 1 .. c
      PROVE  /\ d[k] \in Hosts!Host
             /\ Same(q[Place(from, to, k)], d[k])
  <2>1. d[k] = [q[Place(from, to, k)] EXCEPT !.priority = k - 1]
    BY <1>2, <1>3, <1>4
  <2>2. q[Place(from, to, k)] \in Hosts!Host /\ k - 1 \in Nat
    BY <1>1, <1>6, <1>8
  <2> QED
    BY <2>1, <2>2 DEF Hosts!Host, Same
<1>10. d \in Seq(Hosts!Host)
  <2>1. d \in [1 .. c -> Hosts!Host]
    BY <1>3, <1>4, <1>9
  <2> QED
    BY <1>1, <2>1
<1>11. \A k \in DOMAIN d : d[k].id > 0 /\ d[k].id < n
  BY <1>6, <1>7, <1>8, <1>9 DEF Same
<1>12. ASSUME NEW j \in DOMAIN d, NEW k \in DOMAIN d, j # k
       PROVE  d[j].id # d[k].id
  <2>1. /\ Place(from, to, j) # Place(from, to, k)
        /\ Place(from, to, j) \in DOMAIN q /\ Place(from, to, k) \in DOMAIN q
    BY <1>1, <1>6, <1>7, <1>12
  <2>2. q[Place(from, to, j)].id # q[Place(from, to, k)].id
    BY <2>1 DEF Known
  <2> QED
    BY <1>7, <1>9, <2>2 DEF Same
<1>13. SameHosts(q, d)
  BY <1>1, <1>6, <1>7, <1>9 DEF SameHosts
<1>14. d # <<>>
  BY <1>1, <1>5, <1>7
<1> QED
  BY <1>10, <1>11, <1>12, <1>13, <1>14 DEF Known, d

\* A host of one list that the other has with another priority.
LEMMA Moved ==
  ASSUME NEW n, NEW p, NEW q, Known(p, n), Known(q, n), SameHosts(p, q),
         Hosts!ToSet(p) # Hosts!ToSet(q)
  PROVE  \E d \in Hosts!ToSet(q) :
           \A g \in Hosts!ToSet(p) : ~(g.id = d.id /\ g.priority = d.priority)
<1>1. /\ \A i \in DOMAIN p : p[i] \in Hosts!Host
      /\ \A i \in DOMAIN q : q[i] \in Hosts!Host
  BY LenProperties, ElementOfSeq DEF Known
<1>2. ASSUME NEW i \in DOMAIN p, NEW j \in DOMAIN q, Same(p[i], q[j]),
             p[i].priority = q[j].priority
      PROVE  p[i] = q[j]
  BY <1>1, <1>2 DEF Same, Hosts!Host
<1>3. PICK j \in DOMAIN q : \A i \in DOMAIN p : p[i] # q[j]
  <2>1. CASE \E x \in Hosts!ToSet(q) : x \notin Hosts!ToSet(p)
    BY <2>1 DEF Hosts!ToSet
  <2>2. CASE \E x \in Hosts!ToSet(p) : x \notin Hosts!ToSet(q)
    <3>1. PICK i \in DOMAIN p : \A k \in DOMAIN q : p[i] # q[k]
      BY <2>2 DEF Hosts!ToSet
    <3>2. PICK j \in DOMAIN q : Same(p[i], q[j])
      BY DEF SameHosts
    <3>3. \A k \in DOMAIN p : p[k] # q[j]
      BY <3>1, <3>2 DEF Same, Known
    <3> QED
      BY <3>3
  <2> QED
    BY <2>1, <2>2
<1>4. PICK i \in DOMAIN p : Same(p[i], q[j])
  BY DEF SameHosts
<1>5. \A k \in DOMAIN p : ~(p[k].id = q[j].id /\ p[k].priority = q[j].priority)
  BY <1>2, <1>3, <1>4 DEF Same, Known
<1> QED
  BY <1>5 DEF Hosts!ToSet

-----------------------------------------------------------------------------
(* The inductive invariant.                                                *)

\* A request, with lists and hosts the page can know of.
Requests(n) ==
  {r \in [op     : {"create", "modify", "remove", "disable", "enable", "reorder"},
          rows   : Seq(Hosts!Host),
          ids    : SUBSET Nat,
          prev   : Seq(Hosts!Host),
          next   : Seq(Hosts!Host),
          here   : BOOLEAN,
          answer : {"none", "ok", "failed"}] :
     /\ Known(r.prev, n) /\ Known(r.next, n)
     /\ r.op \in {"create", "modify", "reorder"} /\ r.answer = "none" => r.rows # <<>>}

\* The types of the page's state, part by part.
StoredTyped == nextId \in Nat \ {0} /\ Table(stored, nextId)

ListsTyped ==
  /\ Known(data, nextId) /\ Known(hosts, nextId) /\ Known(listing.list, nextId)
  /\ listing \in [at : {"none", "server", "answer"}, list : Seq(Hosts!Host)]
  /\ listing.at # "answer" => listing.list = <<>>

DialogTyped == dialog \subseteq Hosts!Host /\ \A g, h \in dialog : g = h

ReqsTyped == reqs \in Seq(Requests(nextId))

HostsTyped ==
  /\ StoredTyped /\ ListsTyped /\ DialogTyped /\ ReqsTyped
  /\ suspect \in BOOLEAN /\ quiet \in BOOLEAN

\* What a fetch brings that began with no request under way.
QuietInv ==
  quiet => /\ listing.at # "none" => reqs = <<>>
           /\ listing.at = "answer" => Hosts!ToSet(listing.list) = stored

\* An operation other than a drag has succeeded and its fetch has not begun.
Dirty == \E i \in DOMAIN reqs : reqs[i].op # "reorder" /\ reqs[i].answer = "ok"

\* The hosts that are stored, shown, being fetched, in the form or on their way.
Rows ==
  stored \cup Hosts!ToSet(hosts) \cup Hosts!ToSet(listing.list) \cup dialog
    \cup {reqs[i].rows[1] : i \in {k \in DOMAIN reqs : reqs[k].op = "modify"}}

\* No such host has the id and the priority of d, so that no answer can bring d back.
Gone(d) == \A g \in Rows : ~(g.id = d.id /\ g.priority = d.priority)

\* With no drag under way: what is shown or about to be shown is what is stored, and
\* where the page's copy differs from the query's data the next answer differs too.
CalmInv ==
  /\ listing.at = "none" /\ ~Dirty => Hosts!ToSet(hosts) = stored
  /\ listing.at = "answer" /\ ~Dirty => Hosts!ToSet(listing.list) = stored
  /\ Hosts!ToSet(hosts) # Hosts!ToSet(data) => \E d \in Hosts!ToSet(data) : Gone(d)

\* With a drag under way: it is the only request, and the hosts are stored as they were
\* before it but for those the server has come to.
DragInv ==
  LET r == reqs[1]
      waiting == {h.id : h \in Hosts!ToSet(r.rows)}
  IN
  /\ Len(reqs) = 1 /\ listing = Hosts!NoFetch
  /\ r.op = "reorder" /\ r.here
  /\ hosts = r.next /\ SameHosts(r.prev, r.next)
  /\ Known(r.rows, nextId) /\ Hosts!ToSet(r.rows) \subseteq Hosts!ToSet(r.next)
  /\ stored = {h \in Hosts!ToSet(r.next) : h.id \notin waiting}
                \cup {g \in Hosts!ToSet(r.prev) : g.id \in waiting}
  /\ r.answer = "ok" => r.rows = <<>>
  /\ r.answer = "failed" => r.rows = r.next
  /\ \A h \in dialog : h.id = 0 \/ h \in Hosts!ToSet(hosts)

\* A page that is trusted shows the hosts the query has, and is calm or in one drag.
TrustInv ==
  ~suspect => /\ SameHosts(hosts, data)
              /\ Hosts!Dragging => DragInv
              /\ ~Hosts!Dragging => CalmInv

\* The inductive invariant behind HostsShowStored.
HostsInv == HostsTyped /\ QuietInv /\ TrustInv

-----------------------------------------------------------------------------
(* Types.                                                                  *)

\* What the page can know it can still know when more ids are given out.
LEMMA KnownGrows ==
  ASSUME NEW m \in Nat, NEW n \in Nat, m <= n, NEW q, Known(q, m)
  PROVE  Known(q, n)
<1>1. q \in Seq(Hosts!Host)
  BY DEF Known
<1>2. \A i \in DOMAIN q : q[i] \in Hosts!Host
  BY <1>1, LenProperties, ElementOfSeq
<1>3. \A i \in DOMAIN q : q[i].id \in Nat
  BY <1>2 DEF Hosts!Host
<1> QED
  BY <1>3 DEF Known

\* The same for requests.
LEMMA RequestsGrow ==
  ASSUME NEW m \in Nat, NEW n \in Nat, m <= n
  PROVE  Requests(m) \subseteq Requests(n)
BY KnownGrows DEF Requests

\* The empty list is always known.
LEMMA EmptyKnown == \A n : Known(<<>>, n)
BY DEF Known

\* The hosts of a known list.
LEMMA KnownRows ==
  ASSUME NEW n, NEW q, Known(q, n), NEW h \in Hosts!ToSet(q)
  PROVE  h \in Hosts!Host /\ h.id \in Nat /\ h.id > 0 /\ h.id < n
<1>1. \A i \in DOMAIN q : q[i] \in Hosts!Host
  BY LenProperties, ElementOfSeq DEF Known
<1> QED
  BY <1>1 DEF Hosts!ToSet, Known, Hosts!Host

\* A host with another id, priority, status or value is a host.
LEMMA HostFields ==
  ASSUME NEW h \in Hosts!Host
  PROVE  /\ \A n \in Nat : /\ [h EXCEPT !.id = n] \in Hosts!Host
                           /\ [h EXCEPT !.id = n].id = n
                           /\ [h EXCEPT !.priority = n] \in Hosts!Host
                           /\ [h EXCEPT !.priority = n].id = h.id
         /\ \A b \in BOOLEAN : /\ [h EXCEPT !.off = b] \in Hosts!Host
                               /\ [h EXCEPT !.off = b].id = h.id
                               /\ [h EXCEPT !.off = b].priority = h.priority
         /\ [h EXCEPT !.val = "new"] \in Hosts!Host
         /\ [h EXCEPT !.val = "new"].id = h.id
         /\ [h EXCEPT !.val = "new"].priority = h.priority
BY DEF Hosts!Host

\* A table without some of its hosts.
LEMMA TablePart ==
  ASSUME NEW n, NEW S, Table(S, n), NEW T \in SUBSET S
  PROVE  Table(T, n)
BY FS_Subset DEF Table

\* A table with one host overwritten.
LEMMA TableOverwrites ==
  ASSUME NEW n, NEW S, Table(S, n), NEW h \in Hosts!Host, h.id > 0, h.id < n
  PROVE  Table(Hosts!Overwrite(S, h), n)
<1> DEFINE T == {g \in S : g.id # h.id}
<1>1. Table(T, n)
  BY TablePart
<1>2. IsFiniteSet(T \cup {h})
  BY <1>1, FS_AddElement DEF Table
<1> QED
  BY <1>1, <1>2 DEF Table, Hosts!Overwrite

\* A table with one more host, under the next id.
LEMMA TableAdds ==
  ASSUME NEW n \in Nat \ {0}, NEW S, Table(S, n), NEW h \in Hosts!Host
  PROVE  Table(S \cup {[h EXCEPT !.id = n]}, n + 1)
<1> DEFINE g == [h EXCEPT !.id = n]
<1>1. g \in Hosts!Host /\ g.id = n
  BY HostFields
<1> HIDE DEF g
<1>2. IsFiniteSet(S \cup {g})
  BY FS_AddElement DEF Table
<1>3. \A x \in S : x.id \in Nat /\ x.id > 0 /\ x.id < n
  BY DEF Table, Hosts!Host
<1>4. \A x \in S \cup {g} : x \in Hosts!Host /\ x.id > 0 /\ x.id < n + 1
  BY <1>1, <1>3 DEF Table
<1>5. \A x, y \in S \cup {g} : x.id = y.id => x = y
  BY <1>1, <1>3 DEF Table
<1>6. Table(S \cup {g}, n + 1)
  BY <1>2, <1>4, <1>5 DEF Table
<1> QED
  BY <1>6 DEF g

\* A host that a bulk operation turned on or off.
Turned(g, ids, b) == [g EXCEPT !.off = IF g.id \in ids THEN b ELSE @]

\* A table with some hosts enabled or disabled.
LEMMA TableTurns ==
  ASSUME NEW n, NEW S, Table(S, n), NEW ids, NEW b \in BOOLEAN
  PROVE  Table({Turned(g, ids, b) : g \in S}, n)
<1> DEFINE f == [g \in S |-> Turned(g, ids, b)]
           T == {Turned(g, ids, b) : g \in S}
<1>1. ASSUME NEW g \in S
      PROVE  Turned(g, ids, b) \in Hosts!Host /\ Turned(g, ids, b).id = g.id
  <2>1. g \in Hosts!Host /\ (IF g.id \in ids THEN b ELSE g.off) \in BOOLEAN
    BY DEF Table, Hosts!Host
  <2> QED
    BY <2>1 DEF Turned, Hosts!Host
<1>2. T = {f[g] : g \in DOMAIN f}
  OBVIOUS
<1>3. IsFiniteSet(DOMAIN f) /\ f = [g \in DOMAIN f |-> f[g]]
  BY DEF Table
<1>4. IsFiniteSet(T)
  <2> HIDE DEF f, T
  <2> QED
    BY <1>2, <1>3, ImageFinite
<1> QED
  BY <1>1, <1>4 DEF Table

\* The highest priority of a list or of the table, and the one after it.
LEMMA PrioritiesFinite ==
  ASSUME NEW S, IsFiniteSet(S), S \subseteq Hosts!Host, S # {}
  PROVE  1 + Hosts!Max({h.priority : h \in S}) \in Nat
<1> DEFINE f == [h \in S |-> h.priority]
           P == {h.priority : h \in S}
<1>1. P = {f[h] : h \in DOMAIN f} /\ IsFiniteSet(DOMAIN f) /\ f = [h \in DOMAIN f |-> f[h]]
  OBVIOUS
<1>2. P \in SUBSET Nat /\ P # {}
  BY DEF Hosts!Host
<1> HIDE DEF f, P
<1>3. IsFiniteSet(P)
  BY <1>1, ImageFinite
<1>4. Hosts!Max(P) \in Nat
  BY <1>2, <1>3, MaxIs
<1> QED
  BY <1>4 DEF P

\* A list has finitely many elements.
LEMMA ListFinite ==
  ASSUME NEW S, NEW q \in Seq(S)
  PROVE  IsFiniteSet(Hosts!ToSet(q))
<1>1. DOMAIN q = 1 .. Len(q) /\ Len(q) \in Nat /\ q = [i \in DOMAIN q |-> q[i]]
  BY LenProperties
<1>2. IsFiniteSet(DOMAIN q)
  <2> DEFINE c == Len(q)
  <2>1. c \in Int /\ 1 \in Int
    BY <1>1
  <2> HIDE DEF c
  <2>2. IsFiniteSet(1 .. c)
    BY <2>1, FS_Interval
  <2> QED
    BY <1>1, <2>2 DEF c
<1>3. IsFiniteSet({q[i] : i \in DOMAIN q})
  BY <1>1, <1>2, ImageFinite
<1> QED
  BY <1>3 DEF Hosts!ToSet

\* The priority of a new host is a number.
LEMMA NextPriorityIs ==
  ASSUME NEW n, NEW q, Known(q, n), NEW first \in Nat
  PROVE  Hosts!NextPriority(q, first) \in Nat
<1>1. CASE q = <<>>
  BY <1>1 DEF Hosts!NextPriority
<1>2. CASE q # <<>>
  <2>1. q \in Seq(Hosts!Host) /\ Hosts!ToSet(q) \subseteq Hosts!Host
    BY KnownRows DEF Known
  <2>2. IsFiniteSet(Hosts!ToSet(q))
    BY <2>1, ListFinite
  <2>3. Hosts!ToSet(q) # {}
    <3>1. Len(q) \in Nat \ {0} /\ DOMAIN q = 1 .. Len(q)
      BY <1>2, <2>1, EmptySeq, LenProperties
    <3>2. 1 \in DOMAIN q
      BY <3>1
    <3> QED
      BY <3>2 DEF Hosts!ToSet
  <2>4. 1 + Hosts!Max({h.priority : h \in Hosts!ToSet(q)}) \in Nat
    BY <2>1, <2>2, <2>3, PrioritiesFinite
  <2> QED
    BY <1>2, <2>4 DEF Hosts!NextPriority
<1> QED
  BY <1>1, <1>2

\* The requests under way after one more, one less, or one that went on.
LEMMA RequestAt ==
  ASSUME ReqsTyped, NEW i \in DOMAIN reqs
  PROVE  reqs[i] \in Requests(nextId) /\ DOMAIN reqs = 1 .. Len(reqs) /\ Len(reqs) \in Nat
BY LenProperties, ElementOfSeq DEF ReqsTyped

\* The fields of a request.
LEMMA RequestIs ==
  ASSUME NEW n, NEW r \in Requests(n)
  PROVE  /\ r.op \in {"create", "modify", "remove", "disable", "enable", "reorder"}
         /\ r.rows \in Seq(Hosts!Host) /\ r.ids \subseteq Nat
         /\ r.here \in BOOLEAN /\ r.answer \in {"none", "ok", "failed"}
         /\ Known(r.prev, n) /\ Known(r.next, n)
         /\ r.op \in {"create", "modify", "reorder"} /\ r.answer = "none" =>
              r.rows # <<>> /\ r.rows[1] \in Hosts!Host
<1>1. ASSUME r.rows # <<>>
      PROVE  r.rows[1] \in Hosts!Host
  <2>1. r.rows \in Seq(Hosts!Host)
    BY DEF Requests
  <2> QED
    BY <1>1, <2>1, HeadTailProperties
<1> QED
  BY <1>1 DEF Requests

\* What a request is after its answer, its next row or a new visit.
LEMMA RequestGoesOn ==
  ASSUME NEW n, NEW r \in Requests(n)
  PROVE  /\ \A a \in {"ok", "failed"} :
              LET s == [r EXCEPT !.answer = a]
              IN /\ s \in Requests(n) /\ s.answer = a
                 /\ s.op = r.op /\ s.rows = r.rows /\ s.next = r.next /\ s.prev = r.prev
                 /\ s.here = r.here
         /\ LET s == [r EXCEPT !.here = FALSE]
            IN /\ s \in Requests(n) /\ s.answer = r.answer
               /\ s.op = r.op /\ s.rows = r.rows
<1>1. ASSUME NEW a \in {"ok", "failed"}
      PROVE  LET s == [r EXCEPT !.answer = a]
             IN /\ s \in Requests(n) /\ s.answer = a
                /\ s.op = r.op /\ s.rows = r.rows /\ s.next = r.next /\ s.prev = r.prev
                /\ s.here = r.here
  BY DEF Requests
<1>2. LET s == [r EXCEPT !.here = FALSE]
      IN /\ s \in Requests(n) /\ s.answer = r.answer
         /\ s.op = r.op /\ s.rows = r.rows
  BY DEF Requests
<1> QED
  BY <1>1, <1>2

\* A drag's request after the server has taken its next row.
Stepped(r) == [r EXCEPT !.rows = Tail(@), !.answer = IF Len(r.rows) = 1 THEN "ok" ELSE @]

\* It is a request still, and is answered when its last row was taken.
LEMMA RequestStepped ==
  ASSUME NEW n, NEW r \in Requests(n), r.op = "reorder", r.answer = "none"
  PROVE  LET s == Stepped(r)
         IN /\ s \in Requests(n) /\ s.op = r.op /\ s.here = r.here
            /\ s.next = r.next /\ s.prev = r.prev /\ s.rows = Tail(r.rows)
            /\ s.answer = IF Tail(r.rows) = <<>> THEN "ok" ELSE "none"
<1> DEFINE t == Tail(r.rows)
           a == IF Len(r.rows) = 1 THEN "ok" ELSE r.answer
           s == [r EXCEPT !.rows = t, !.answer = a]
<1>1. r.rows \in Seq(Hosts!Host) /\ r.rows # <<>>
  BY RequestIs
<1>2. t \in Seq(Hosts!Host) /\ Len(t) = Len(r.rows) - 1 /\ Len(r.rows) \in Nat
  BY <1>1, HeadTailProperties, LenProperties
<1>3. (t = <<>>) <=> (Len(r.rows) = 1)
  <2> HIDE DEF t
  <2>1. (t = <<>>) <=> (Len(t) = 0)
    BY <1>2, EmptySeq
  <2> QED
    BY <1>2, <2>1
<1>4. a = IF t = <<>> THEN "ok" ELSE "none"
  BY <1>3
<1>5. a \in {"none", "ok", "failed"} /\ (a = "none" => t # <<>>)
  BY <1>4
<1>6. Stepped(r) = s
  BY DEF Stepped
<1> HIDE DEF t, a
<1>7. /\ s \in Requests(n) /\ s.op = r.op /\ s.here = r.here
      /\ s.next = r.next /\ s.prev = r.prev /\ s.rows = t /\ s.answer = a
  BY <1>2, <1>5 DEF Requests
<1> HIDE DEF s
<1> QED
  BY <1>4, <1>6, <1>7 DEF t

\* The requests with one of them replaced.
LEMMA RequestReplaced ==
  ASSUME ReqsTyped, NEW i \in DOMAIN reqs, NEW s \in Requests(nextId)
  PROVE  /\ [reqs EXCEPT ![i] = s] \in Seq(Requests(nextId))
         /\ DOMAIN [reqs EXCEPT ![i] = s] = DOMAIN reqs
         /\ Len([reqs EXCEPT ![i] = s]) = Len(reqs)
         /\ \A k \in DOMAIN reqs : [reqs EXCEPT ![i] = s][k] = IF k = i THEN s ELSE reqs[k]
<1>1. DOMAIN reqs = 1 .. Len(reqs) /\ reqs \in Seq(Requests(nextId))
  BY LenProperties DEF ReqsTyped
<1> QED
  BY <1>1, ExceptSeq

\* The requests without the one that was answered.
LEMMA RequestRemoved ==
  ASSUME ReqsTyped, NEW i \in DOMAIN reqs, reqs' = Hosts!RemoveAt(reqs, i)
  PROVE  /\ reqs' \in Seq(Requests(nextId))
         /\ \A k \in DOMAIN reqs' : \E j \in DOMAIN reqs \ {i} : reqs'[k] = reqs[j]
         /\ \A j \in DOMAIN reqs \ {i} : \E k \in DOMAIN reqs' : reqs'[k] = reqs[j]
         /\ Len(reqs') = Len(reqs) - 1
<1>1. DOMAIN reqs = 1 .. Len(reqs) /\ reqs \in Seq(Requests(nextId)) /\ Len(reqs) \in Nat
  BY LenProperties DEF ReqsTyped
<1>2. /\ reqs' \in Seq(Requests(nextId)) /\ Len(reqs') = Len(reqs) - 1
      /\ \A k \in 1 .. Len(reqs) - 1 : reqs'[k] = IF k < i THEN reqs[k] ELSE reqs[k + 1]
  BY <1>1, RemoveAtIs
<1>3. DOMAIN reqs' = 1 .. Len(reqs) - 1
  BY <1>2, LenProperties
<1>4. ASSUME NEW k \in DOMAIN reqs'
      PROVE  \E j \in DOMAIN reqs \ {i} : reqs'[k] = reqs[j]
  <2>1. CASE k < i
    <3>1. k \in DOMAIN reqs \ {i} /\ reqs'[k] = reqs[k]
      BY <1>1, <1>2, <1>3, <2>1
    <3> QED
      BY <3>1
  <2>2. CASE ~(k < i)
    <3>1. k + 1 \in DOMAIN reqs \ {i} /\ reqs'[k] = reqs[k + 1]
      BY <1>1, <1>2, <1>3, <2>2
    <3> QED
      BY <3>1
  <2> QED
    BY <2>1, <2>2
<1>5. ASSUME NEW j \in DOMAIN reqs \ {i}
      PROVE  \E k \in DOMAIN reqs' : reqs'[k] = reqs[j]
  <2>1. CASE j < i
    <3>1. j \in DOMAIN reqs' /\ reqs'[j] = reqs[j]
      BY <1>1, <1>2, <1>3, <2>1
    <3> QED
      BY <3>1
  <2>2. CASE ~(j < i)
    <3>1. j - 1 \in DOMAIN reqs' /\ ~(j - 1 < i) /\ (j - 1) + 1 = j
      BY <1>1, <1>3, <2>2
    <3>2. reqs'[j - 1] = reqs[j]
      BY <1>2, <1>3, <3>1
    <3> QED
      BY <3>1, <3>2
  <2> QED
    BY <2>1, <2>2
<1> QED
  BY <1>2, <1>4, <1>5

\* The requests with one that was sent.
LEMMA RequestAppended ==
  ASSUME ReqsTyped, NEW s \in Requests(nextId), reqs' = Append(reqs, s)
  PROVE  /\ reqs' \in Seq(Requests(nextId)) /\ Len(reqs') = Len(reqs) + 1
         /\ Len(reqs) \in Nat
         /\ \A k \in DOMAIN reqs : k \in DOMAIN reqs' /\ reqs'[k] = reqs[k]
         /\ \A k \in DOMAIN reqs' : reqs'[k] = s \/ (k \in DOMAIN reqs /\ reqs'[k] = reqs[k])
         /\ \E k \in DOMAIN reqs' : reqs'[k] = s
         /\ reqs' # <<>>
<1>1. DOMAIN reqs = 1 .. Len(reqs) /\ reqs \in Seq(Requests(nextId)) /\ Len(reqs) \in Nat
  BY LenProperties DEF ReqsTyped
<1> QED
  BY <1>1, AppendProperties

\* A request with an answer.
WithAnswer(i, a) == [reqs EXCEPT ![i] = [reqs[i] EXCEPT !.answer = a]]

\* A step of the server, case by case.
LEMMA ServeIs ==
  ASSUME HostsTyped, NEW i \in DOMAIN reqs, Hosts!Serve(i)
  PROVE  LET r == reqs[i] IN
         /\ r.answer = "none"
         /\ UNCHANGED <<data, hosts, listing, dialog, suspect, quiet>>
         /\ \/ /\ r.op = "create"
               /\ stored' = stored \cup {[r.rows[1] EXCEPT !.id = nextId]}
               /\ nextId' = nextId + 1
               /\ reqs' = WithAnswer(i, "ok")
            \/ /\ r.op = "modify" /\ r.rows[1].id \in Hosts!Ids(stored)
               /\ stored' = Hosts!Overwrite(stored, r.rows[1]) /\ nextId' = nextId
               /\ reqs' = WithAnswer(i, "ok")
            \/ /\ r.op # "reorder"
               /\ stored' = stored /\ nextId' = nextId
               /\ reqs' = WithAnswer(i, "failed")
            \/ /\ r.op = "remove"
               /\ stored' = {g \in stored : g.id \notin r.ids} /\ nextId' = nextId
               /\ reqs' = WithAnswer(i, "ok")
            \/ /\ r.op \in {"disable", "enable"}
               /\ stored' = {Turned(g, r.ids, r.op = "disable") : g \in stored}
               /\ nextId' = nextId
               /\ reqs' = WithAnswer(i, "ok")
            \/ /\ r.op = "reorder"
               /\ Hosts!modify_hosts_row(r.rows[1])
               /\ reqs' = [reqs EXCEPT ![i] = Stepped(r)]
<1> DEFINE r == reqs[i]
<1>1. \A a : [reqs EXCEPT ![i].answer = a] = WithAnswer(i, a)
  BY DEF WithAnswer
<1>2. CASE r.op = "create"
  BY <1>1, <1>2 DEF Hosts!Serve, Hosts!hostGhosts, Hosts!hostCounts
<1>3. CASE r.op = "modify"
  BY <1>1, <1>3 DEF Hosts!Serve, Hosts!hostGhosts, Hosts!hostCounts
<1>4. CASE r.op = "remove"
  BY <1>1, <1>4 DEF Hosts!Serve, Hosts!hostGhosts, Hosts!hostCounts
<1>5. CASE r.op \in {"disable", "enable"}
  <2>1. {[g EXCEPT !.off = IF g.id \in r.ids THEN r.op = "disable" ELSE @] : g \in stored}
          = {Turned(g, r.ids, r.op = "disable") : g \in stored}
    BY DEF Turned
  <2>2. /\ r.answer = "none"
        /\ UNCHANGED <<data, hosts, listing, dialog, suspect, quiet>>
        /\ nextId' = nextId
        /\ \/ /\ stored' = {[g EXCEPT !.off = IF g.id \in r.ids THEN r.op = "disable" ELSE @]
                             : g \in stored}
              /\ reqs' = WithAnswer(i, "ok")
           \/ stored' = stored /\ reqs' = WithAnswer(i, "failed")
    BY <1>1, <1>5 DEF Hosts!Serve, Hosts!hostGhosts, Hosts!hostCounts
  <2> QED
    BY <1>5, <2>1, <2>2
<1>6. CASE r.op = "reorder"
  <2>1. /\ r.answer = "none"
        /\ UNCHANGED <<data, hosts, listing, dialog, suspect, quiet>>
        /\ Hosts!modify_hosts_row(r.rows[1])
        /\ reqs' = [reqs EXCEPT ![i].rows = Tail(@),
                                ![i].answer = IF Len(r.rows) = 1 THEN "ok" ELSE @]
    BY <1>6 DEF Hosts!Serve, Hosts!hostGhosts, Hosts!hostCounts
  <2>2. reqs' = [reqs EXCEPT ![i] = Stepped(r)]
    BY <2>1 DEF Stepped
  <2> QED
    BY <1>6, <2>1, <2>2
<1>7. r.op \in {"create", "modify", "remove", "disable", "enable", "reorder"}
  BY RequestAt, RequestIs DEF HostsTyped
<1> QED
  BY <1>2, <1>3, <1>4, <1>5, <1>6, <1>7

\* The requests with one that was answered by the server.
LEMMA AnswerTyped ==
  ASSUME ReqsTyped, NEW i \in DOMAIN reqs, NEW a \in {"ok", "failed"}
  PROVE  WithAnswer(i, a) \in Seq(Requests(nextId))
<1>1. [reqs[i] EXCEPT !.answer = a] \in Requests(nextId)
  BY RequestAt, RequestGoesOn
<1> QED
  BY <1>1, RequestReplaced DEF WithAnswer

\* A step of the server keeps the types.
LEMMA ServeTyped ==
  ASSUME HostsTyped, NEW i \in DOMAIN reqs, Hosts!Serve(i)
  PROVE  HostsTyped'
<1> DEFINE r == reqs[i]
           h == r.rows[1]
<1>0. nextId \in Nat \ {0} /\ Table(stored, nextId) /\ ReqsTyped
  BY DEF HostsTyped, StoredTyped
<1>1. r \in Requests(nextId)
  BY <1>0, RequestAt
<1>2. /\ r.answer = "none" /\ UNCHANGED <<data, hosts, listing, dialog, suspect, quiet>>
      /\ r.op \in {"create", "modify", "reorder"} => h \in Hosts!Host
  BY <1>1, RequestIs, ServeIs
<1>3. /\ nextId' \in {nextId, nextId + 1} /\ Table(stored', nextId')
      /\ reqs' \in Seq(Requests(nextId))
  <2>1. CASE /\ r.op = "create"
             /\ stored' = stored \cup {[h EXCEPT !.id = nextId]}
             /\ nextId' = nextId + 1 /\ reqs' = WithAnswer(i, "ok")
    BY <1>0, <1>2, <2>1, TableAdds, AnswerTyped
  <2>2. CASE /\ r.op = "modify" /\ h.id \in Hosts!Ids(stored)
             /\ stored' = Hosts!Overwrite(stored, h) /\ nextId' = nextId
             /\ reqs' = WithAnswer(i, "ok")
    <3>1. h.id > 0 /\ h.id < nextId
      BY <1>0, <2>2 DEF Hosts!Ids, Table
    <3> QED
      BY <1>0, <1>2, <2>2, <3>1, TableOverwrites, AnswerTyped
  <2>3. CASE stored' = stored /\ nextId' = nextId /\ reqs' = WithAnswer(i, "failed")
    BY <1>0, <2>3, AnswerTyped
  <2>4. CASE /\ stored' = {g \in stored : g.id \notin r.ids} /\ nextId' = nextId
             /\ reqs' = WithAnswer(i, "ok")
    BY <1>0, <2>4, TablePart, AnswerTyped
  <2>5. CASE /\ stored' = {Turned(g, r.ids, r.op = "disable") : g \in stored}
             /\ nextId' = nextId /\ reqs' = WithAnswer(i, "ok")
    <3> DEFINE b == r.op = "disable"
               ids == r.ids
    <3>1. b \in BOOLEAN
      OBVIOUS
    <3> HIDE DEF b, ids
    <3>2. Table({Turned(g, ids, b) : g \in stored}, nextId)
      BY <1>0, <3>1, TableTurns
    <3> USE DEF b, ids
    <3> QED
      BY <1>0, <2>5, <3>2, AnswerTyped
  <2>6. CASE /\ r.op = "reorder"
             /\ Hosts!modify_hosts_row(h)
             /\ reqs' = [reqs EXCEPT ![i] = Stepped(r)]
    <3> DEFINE s == Stepped(r)
    <3>1. s \in Requests(nextId)
      BY <1>1, <1>2, <2>6, RequestStepped
    <3> HIDE DEF s
    <3>2. [reqs EXCEPT ![i] = s] \in Seq(Requests(nextId))
      BY <1>0, <3>1, RequestReplaced
    <3>3. CASE h.id \in Hosts!Ids(stored)
      <4>1. h.id > 0 /\ h.id < nextId
        BY <1>0, <3>3 DEF Hosts!Ids, Table
      <4>2. stored' = Hosts!Overwrite(stored, h) /\ nextId' = nextId
        BY <2>6, <3>3 DEF Hosts!modify_hosts_row
      <4>3. Table(Hosts!Overwrite(stored, h), nextId)
        BY <1>0, <1>2, <2>6, <4>1, TableOverwrites
      <4> QED
        BY <2>6, <3>2, <4>2, <4>3 DEF s
    <3>4. CASE h.id \notin Hosts!Ids(stored)
      <4>1. stored' = stored \cup {[h EXCEPT !.id = nextId]} /\ nextId' = nextId + 1
        BY <2>6, <3>4 DEF Hosts!modify_hosts_row
      <4>2. Table(stored \cup {[h EXCEPT !.id = nextId]}, nextId + 1)
        BY <1>0, <1>2, <2>6, TableAdds
      <4> QED
        BY <2>6, <3>2, <4>1, <4>2 DEF s
    <3> QED
      BY <3>3, <3>4
  <2> QED
    BY <2>1, <2>2, <2>3, <2>4, <2>5, <2>6, ServeIs
<1>4. nextId' \in Nat \ {0} /\ nextId <= nextId' /\ nextId \in Nat
  BY <1>0, <1>3
<1>5. StoredTyped'
  BY <1>3, <1>4 DEF StoredTyped
<1>6. ReqsTyped'
  <2>1. Requests(nextId) \subseteq Requests(nextId')
    BY <1>4, RequestsGrow
  <2>2. reqs' \in Seq(Requests(nextId'))
    BY <1>3, <2>1, SeqMonotonic
  <2> QED
    BY <2>2 DEF ReqsTyped
<1>7. ListsTyped'
  <2>1. Known(data, nextId) /\ Known(hosts, nextId) /\ Known(listing.list, nextId)
    BY DEF HostsTyped, ListsTyped
  <2>2. Known(data, nextId') /\ Known(hosts, nextId') /\ Known(listing.list, nextId')
    BY <1>4, <2>1, KnownGrows
  <2> QED
    BY <1>2, <2>2 DEF HostsTyped, ListsTyped
<1>8. DialogTyped' /\ suspect' \in BOOLEAN /\ quiet' \in BOOLEAN
  BY <1>2 DEF HostsTyped, DialogTyped
<1> QED
  BY <1>5, <1>6, <1>7, <1>8 DEF HostsTyped

\* The page's own steps keep the lists and requests to what the page can know.
LEMMA SendTyped ==
  ASSUME HostsTyped, NEW s \in Requests(nextId), Hosts!Send(s), UNCHANGED <<hosts, dialog>>
  PROVE  HostsTyped'
<1>1. /\ reqs' = Append(reqs, s) /\ quiet' = FALSE /\ suspect' = (suspect \/ Hosts!Dragging)
      /\ UNCHANGED <<stored, nextId, data, listing>>
  BY DEF Hosts!Send
<1>2. suspect' \in BOOLEAN
  BY <1>1 DEF Hosts!Dragging, HostsTyped
<1>3. reqs' \in Seq(Requests(nextId))
  BY <1>1, RequestAppended DEF HostsTyped
<1> QED
  BY <1>1, <1>2, <1>3
     DEF HostsTyped, StoredTyped, ListsTyped, DialogTyped, ReqsTyped

\* What the operations other than a drag send is a request.
LEMMA RequestMade ==
  ASSUME NEW n, NEW op \in {"create", "modify", "remove", "disable", "enable"},
         NEW rows \in Seq(Hosts!Host), NEW ids \in SUBSET Nat,
         op \in {"create", "modify"} => rows # <<>>
  PROVE  /\ Hosts!Request(op, rows, ids) \in Requests(n)
         /\ Hosts!Request(op, rows, ids).op = op
         /\ Hosts!Request(op, rows, ids).rows = rows
         /\ Hosts!Request(op, rows, ids).answer = "none"
BY EmptyKnown DEF Hosts!Request, Requests

\* The operations that send something, by what they send.
Sends(op, rows, ids) ==
  /\ op \in {"create", "modify", "remove", "disable", "enable"}
  /\ rows \in Seq(Hosts!Host) /\ ids \in SUBSET Nat
  /\ op \in {"create", "modify"} => rows # <<>>
  /\ op = "modify" =>
       \E h \in Hosts!ToSet(hosts) \cup dialog :
         rows[1].id = h.id /\ rows[1].priority = h.priority
  /\ Hosts!Send(Hosts!Request(op, rows, ids))
  /\ UNCHANGED <<hosts, dialog>>

\* A list of one host.
LEMMA OneRow ==
  ASSUME NEW h \in Hosts!Host
  PROVE  <<h>> \in Seq(Hosts!Host) /\ <<h>> # <<>> /\ <<h>>[1] = h
OBVIOUS

\* Each operation of the page but the drag sends such a request.
LEMMA OperationSends ==
  ASSUME HostsTyped,
         \/ Hosts!handleSubmit
         \/ \E h \in Hosts!ToSet(hosts) : \/ Hosts!handleDuplicate(h)
                                          \/ Hosts!handleToggleStatus(h)
                                          \/ Hosts!handleConfirmDelete(h)
         \/ \E op \in {"remove", "disable", "enable"} : Hosts!handleBulk(op)
  PROVE  \E op, rows, ids : Sends(op, rows, ids)
<1>0. /\ Known(hosts, nextId) /\ Known(data, nextId) /\ nextId \in Nat
      /\ \A h \in Hosts!ToSet(hosts) : h \in Hosts!Host
      /\ \A h \in dialog : h \in Hosts!Host
  BY KnownRows DEF HostsTyped, ListsTyped, StoredTyped, DialogTyped
<1>e. <<>> \in Seq(Hosts!Host)
  OBVIOUS
<1>1. CASE Hosts!handleSubmit
  <2>1. PICK h \in dialog :
          /\ UNCHANGED <<hosts, dialog>>
          /\ IF h.id = 0
               THEN Hosts!Send(Hosts!Request("create",
                      <<[h EXCEPT !.priority = Hosts!NextPriority(data, 0)]>>, {}))
               ELSE Hosts!Send(Hosts!Request("modify", <<[h EXCEPT !.val = "new"]>>, {}))
    BY <1>1 DEF Hosts!handleSubmit
  <2>2. Hosts!NextPriority(data, 0) \in Nat
    BY <1>0, NextPriorityIs
  <2> DEFINE g == [h EXCEPT !.priority = Hosts!NextPriority(data, 0)]
             k == [h EXCEPT !.val = "new"]
  <2>3. g \in Hosts!Host /\ k \in Hosts!Host /\ k.id = h.id /\ k.priority = h.priority
    BY <1>0, <2>2, HostFields
  <2>4. CASE h.id = 0
    <3>1. Hosts!Send(Hosts!Request("create", <<g>>, {}))
      BY <2>1, <2>4
    <3> HIDE DEF g
    <3>2. Sends("create", <<g>>, {})
      BY <2>1, <2>3, <3>1, OneRow DEF Sends
    <3> QED
      BY <3>2
  <2>5. CASE h.id # 0
    <3>1. Hosts!Send(Hosts!Request("modify", <<k>>, {}))
      BY <2>1, <2>5
    <3> HIDE DEF k
    <3>2. Sends("modify", <<k>>, {})
      BY <2>1, <2>3, <3>1, OneRow DEF Sends
    <3> QED
      BY <3>2
  <2> QED
    BY <2>4, <2>5
<1>2. ASSUME NEW h \in Hosts!ToSet(hosts), Hosts!handleDuplicate(h)
      PROVE  \E op, rows, ids : Sends(op, rows, ids)
  <2> DEFINE g == [h EXCEPT !.priority = Hosts!NextPriority(hosts, 1)]
  <2>1. Hosts!Send(Hosts!Request("create", <<g>>, {})) /\ UNCHANGED <<hosts, dialog>>
    BY <1>2 DEF Hosts!handleDuplicate
  <2>2. g \in Hosts!Host
    BY <1>0, NextPriorityIs, HostFields
  <2> HIDE DEF g
  <2>3. Sends("create", <<g>>, {})
    BY <2>1, <2>2, OneRow DEF Sends
  <2> QED
    BY <2>3
<1>3. ASSUME NEW h \in Hosts!ToSet(hosts), Hosts!handleToggleStatus(h)
      PROVE  \E op, rows, ids : Sends(op, rows, ids)
  <2> DEFINE g == [h EXCEPT !.off = ~@]
  <2>1. Hosts!Send(Hosts!Request("modify", <<g>>, {})) /\ UNCHANGED <<hosts, dialog>>
    BY <1>3 DEF Hosts!handleToggleStatus
  <2>2. h \in Hosts!Host /\ (~h.off) \in BOOLEAN
    BY <1>0
  <2>3. g \in Hosts!Host /\ g.id = h.id /\ g.priority = h.priority
    BY <2>2 DEF Hosts!Host
  <2> HIDE DEF g
  <2>4. Sends("modify", <<g>>, {})
    BY <2>1, <2>3, OneRow DEF Sends
  <2> QED
    BY <2>4
<1>4. ASSUME NEW h \in Hosts!ToSet(hosts), Hosts!handleConfirmDelete(h)
      PROVE  \E op, rows, ids : Sends(op, rows, ids)
  <2>1. Hosts!Send(Hosts!Request("remove", <<>>, {h.id})) /\ UNCHANGED <<hosts, dialog>>
    BY <1>4 DEF Hosts!handleConfirmDelete
  <2>2. h.id \in Nat
    BY <1>0, KnownRows
  <2>3. Sends("remove", <<>>, {h.id})
    BY <1>e, <2>1, <2>2 DEF Sends
  <2> QED
    BY <2>3
<1>5. ASSUME NEW op \in {"remove", "disable", "enable"}, Hosts!handleBulk(op)
      PROVE  \E o, rows, ids : Sends(o, rows, ids)
  <2>1. PICK ids \in SUBSET (1 .. (nextId - 1)) :
          Hosts!Send(Hosts!Request(op, <<>>, ids)) /\ UNCHANGED <<hosts, dialog>>
    BY <1>5 DEF Hosts!handleBulk
  <2>2. ids \subseteq Nat
    BY <1>0
  <2>3. Sends(op, <<>>, ids)
    BY <1>5, <1>e, <2>1, <2>2 DEF Sends
  <2> QED
    BY <2>3
<1> QED
  BY <1>1, <1>2, <1>3, <1>4, <1>5

\* Sending keeps the types.
LEMMA SendsTyped ==
  ASSUME HostsTyped, NEW op, NEW rows, NEW ids, Sends(op, rows, ids)
  PROVE  HostsTyped'
<1>1. Hosts!Request(op, rows, ids) \in Requests(nextId)
  BY RequestMade DEF Sends
<1> QED
  BY <1>1, SendTyped DEF Sends

\* Another admin's change keeps the types.
LEMMA OtherAdminTyped ==
  ASSUME HostsTyped, Hosts!OtherAdmin
  PROVE  HostsTyped'
<1>1. /\ suspect' = TRUE /\ quiet' = FALSE
      /\ UNCHANGED <<nextId, data, hosts, listing, reqs, dialog>>
  BY DEF Hosts!OtherAdmin
<1>2. nextId \in Nat \ {0} /\ Table(stored, nextId)
  BY DEF HostsTyped, StoredTyped
<1>3. PICK h \in stored :
        stored' \in {Hosts!Overwrite(stored, [h EXCEPT !.val = "new"]),
                     stored \ {h},
                     Hosts!Overwrite(stored, [h EXCEPT !.priority =
                                        1 + Hosts!Max({g.priority : g \in stored})])}
  BY DEF Hosts!OtherAdmin
<1> DEFINE top == 1 + Hosts!Max({g.priority : g \in stored})
           v == [h EXCEPT !.val = "new"]
           p == [h EXCEPT !.priority = top]
<1>4. top \in Nat
  BY <1>2, PrioritiesFinite DEF Table
<1> HIDE DEF top
<1>5. h \in Hosts!Host /\ h.id > 0 /\ h.id < nextId
  BY <1>2 DEF Table
<1>6. v \in Hosts!Host /\ p \in Hosts!Host /\ v.id = h.id /\ p.id = h.id
  BY <1>4, <1>5, HostFields
<1> HIDE DEF v, p
<1>7. /\ Table(Hosts!Overwrite(stored, v), nextId)
      /\ Table(Hosts!Overwrite(stored, p), nextId)
      /\ Table(stored \ {h}, nextId)
  BY <1>2, <1>5, <1>6, TableOverwrites, TablePart
<1>8. Table(stored', nextId)
  BY <1>3, <1>7 DEF v, p, top
<1> QED
  BY <1>1, <1>2, <1>8 DEF HostsTyped, StoredTyped, ListsTyped, DialogTyped, ReqsTyped

\* The steps of a fetch keep the types.
LEMMA FetchTyped ==
  ASSUME HostsTyped, Hosts!FetchServed \/ Hosts!FetchArrives \/ Hosts!FetchFails
                       \/ Hosts!handleRefreshClick
  PROVE  HostsTyped'
<1>0. Known(<<>>, nextId) /\ <<>> \in Seq(Hosts!Host)
  BY EmptyKnown
<1>1. CASE Hosts!FetchServed
  <2>1. PICK list \in Hosts!get_hosts(stored) : listing' = Hosts!Got(list)
    BY <1>1 DEF Hosts!FetchServed
  <2>2. Known(list, nextId)
    BY <2>1, QueryIs DEF HostsTyped, StoredTyped
  <2>3. UNCHANGED <<stored, nextId, data, hosts, reqs, dialog, suspect, quiet>>
    BY <1>1 DEF Hosts!FetchServed, Hosts!hostGhosts
  <2>4. listing' = [at |-> "answer", list |-> list] /\ list \in Seq(Hosts!Host)
    BY <2>1, <2>2 DEF Hosts!Got, Known
  <2> QED
    BY <2>2, <2>3, <2>4 DEF HostsTyped, StoredTyped, ListsTyped, DialogTyped, ReqsTyped
<1>2. CASE Hosts!FetchArrives
  <2>1. /\ data' = listing.list /\ hosts' \in {hosts, listing.list}
        /\ listing' = [at |-> "none", list |-> <<>>]
        /\ suspect' = (suspect /\ ~(quiet /\ hosts' = listing.list))
        /\ UNCHANGED <<stored, nextId, reqs, dialog, quiet>>
    BY <1>2 DEF Hosts!FetchArrives, Hosts!NoFetch
  <2>2. suspect' \in BOOLEAN
    BY <2>1 DEF HostsTyped
  <2> QED
    BY <1>0, <2>1, <2>2 DEF HostsTyped, StoredTyped, ListsTyped, DialogTyped, ReqsTyped
<1>3. CASE Hosts!FetchFails
  <2>1. /\ listing' = [at |-> "none", list |-> <<>>] /\ suspect' = TRUE
        /\ UNCHANGED <<stored, nextId, data, hosts, reqs, dialog, quiet>>
    BY <1>3 DEF Hosts!FetchFails, Hosts!NoFetch
  <2> QED
    BY <1>0, <2>1 DEF HostsTyped, StoredTyped, ListsTyped, DialogTyped, ReqsTyped
<1>4. CASE Hosts!handleRefreshClick
  <2>1. /\ listing' = [at |-> "server", list |-> <<>>]
        /\ quiet' = (reqs = <<>>) /\ suspect' = (suspect \/ Hosts!Dragging)
        /\ UNCHANGED <<stored, nextId, data, hosts, reqs, dialog>>
    BY <1>4 DEF Hosts!handleRefreshClick, Hosts!Refetched, Hosts!Waiting
  <2>2. quiet' \in BOOLEAN /\ suspect' \in BOOLEAN
    BY <2>1 DEF HostsTyped, Hosts!Dragging
  <2> QED
    BY <1>0, <2>1, <2>2 DEF HostsTyped, StoredTyped, ListsTyped, DialogTyped, ReqsTyped
<1> QED
  BY <1>1, <1>2, <1>3, <1>4

\* The requests of a page that was left.
LEMMA Away ==
  ASSUME ReqsTyped
  PROVE  LET away == [i \in DOMAIN reqs |-> [reqs[i] EXCEPT !.here = FALSE]] IN
         /\ away \in Seq(Requests(nextId))
         /\ DOMAIN away = DOMAIN reqs
         /\ (away = <<>>) <=> (reqs = <<>>)
         /\ \A i \in DOMAIN reqs : /\ away[i].op = reqs[i].op
                                   /\ away[i].answer = reqs[i].answer
                                   /\ away[i].rows = reqs[i].rows
<1> DEFINE away == [i \in DOMAIN reqs |-> [reqs[i] EXCEPT !.here = FALSE]]
<1>1. DOMAIN reqs = 1 .. Len(reqs) /\ Len(reqs) \in Nat /\ reqs \in Seq(Requests(nextId))
  BY LenProperties DEF ReqsTyped
<1>2. ASSUME NEW i \in DOMAIN reqs
      PROVE  /\ away[i] \in Requests(nextId)
             /\ away[i].op = reqs[i].op /\ away[i].answer = reqs[i].answer
             /\ away[i].rows = reqs[i].rows
  <2> DEFINE r == reqs[i]
             s == [r EXCEPT !.here = FALSE]
  <2>1. r \in Requests(nextId)
    BY RequestAt
  <2> HIDE DEF r
  <2>2. s \in Requests(nextId) /\ s.answer = r.answer /\ s.op = r.op /\ s.rows = r.rows
    BY <2>1, RequestGoesOn
  <2>3. away[i] = s
    BY DEF r
  <2> HIDE DEF s, away
  <2> QED
    BY <2>2, <2>3 DEF r
<1>3. DOMAIN away = DOMAIN reqs /\ away \in [1 .. Len(reqs) -> Requests(nextId)]
  BY <1>1, <1>2
<1> HIDE DEF away
<1>4. away \in Seq(Requests(nextId)) /\ Len(away) = Len(reqs)
  BY <1>1, <1>3
<1>5. (away = <<>>) <=> (reqs = <<>>)
  BY <1>1, <1>4, EmptySeq
<1> QED
  BY <1>2, <1>3, <1>4, <1>5 DEF away

\* A new visit keeps the types.
LEMMA RemountTyped ==
  ASSUME HostsTyped, Hosts!Remount
  PROVE  HostsTyped'
<1>1. /\ hosts' = data /\ dialog' = {}
      /\ reqs' = [i \in DOMAIN reqs |-> [reqs[i] EXCEPT !.here = FALSE]]
      /\ suspect' = (suspect \/ Hosts!Dragging)
      /\ UNCHANGED <<stored, nextId, data>>
      /\ \/ listing' = [at |-> "server", list |-> <<>>] /\ quiet' = (reqs = <<>>)
         \/ UNCHANGED <<listing, quiet>>
  BY DEF Hosts!Remount, Hosts!Refetched, Hosts!Waiting
<1>2. quiet' \in BOOLEAN /\ suspect' \in BOOLEAN
  BY <1>1 DEF HostsTyped, Hosts!Dragging
<1>3. Known(<<>>, nextId) /\ <<>> \in Seq(Hosts!Host)
  BY EmptyKnown
<1>4. reqs' \in Seq(Requests(nextId))
  BY <1>1, Away DEF HostsTyped
<1>5. ListsTyped'
  <2>1. CASE listing' = [at |-> "server", list |-> <<>>]
    BY <1>1, <1>3, <2>1 DEF HostsTyped, ListsTyped
  <2>2. CASE listing' = listing
    BY <1>1, <2>2 DEF HostsTyped, ListsTyped
  <2> QED
    BY <1>1, <2>1, <2>2
<1> QED
  BY <1>1, <1>2, <1>4, <1>5 DEF HostsTyped, StoredTyped, DialogTyped, ReqsTyped

\* The steps of the form keep the types and touch nothing else.
LEMMA FormTyped ==
  ASSUME HostsTyped,
         \/ Hosts!handleCreateClick \/ Hosts!CloseDialog
         \/ \E h \in Hosts!ToSet(hosts) : Hosts!handleEdit(h)
  PROVE  /\ HostsTyped'
         /\ UNCHANGED <<stored, nextId, data, hosts, listing, reqs, suspect, quiet>>
         /\ \A h \in dialog' : h.id = 0 \/ h \in Hosts!ToSet(hosts)
<1> DEFINE new == [id |-> 0, val |-> "new", off |-> FALSE, priority |-> 0]
<1>0. new \in Hosts!Host /\ new.id = 0
  BY DEF Hosts!Host
<1>1. UNCHANGED <<stored, nextId, data, hosts, listing, reqs, suspect, quiet>>
  BY DEF Hosts!handleCreateClick, Hosts!CloseDialog, Hosts!handleEdit, Hosts!hostGhosts
<1>2. \/ dialog' = {} \/ dialog' = {new} \/ \E h \in Hosts!ToSet(hosts) : dialog' = {h}
  BY DEF Hosts!handleCreateClick, Hosts!CloseDialog, Hosts!handleEdit
<1> HIDE DEF new
<1>3. \A h \in Hosts!ToSet(hosts) : h \in Hosts!Host
  BY KnownRows DEF HostsTyped, ListsTyped
<1>4. DialogTyped'
  BY <1>0, <1>2, <1>3 DEF DialogTyped
<1>5. \A h \in dialog' : h.id = 0 \/ h \in Hosts!ToSet(hosts)
  BY <1>0, <1>2
<1> QED
  BY <1>1, <1>4, <1>5 DEF HostsTyped, StoredTyped, ListsTyped, ReqsTyped

\* A drag and what it sends.
LEMMA DragIs ==
  ASSUME HostsTyped, NEW from \in DOMAIN hosts, NEW to \in DOMAIN hosts,
         Hosts!handleDragEnd(from, to)
  PROVE  /\ dialog = {} /\ quiet' = FALSE
         /\ suspect' = (suspect \/ reqs # <<>> \/ listing # Hosts!NoFetch)
         /\ UNCHANGED <<stored, nextId, data, listing, dialog>>
         /\ Known(hosts', nextId) /\ SameHosts(hosts, hosts') /\ hosts' # <<>>
         /\ \E r \in Requests(nextId) :
              /\ reqs' = Append(reqs, r)
              /\ r.op = "reorder" /\ r.here /\ r.answer = "none"
              /\ r.prev = hosts /\ r.next = hosts' /\ r.rows = hosts'
<1>1. /\ dialog = {} /\ quiet' = FALSE
      /\ suspect' = (suspect \/ reqs # <<>> \/ listing # Hosts!NoFetch)
      /\ UNCHANGED <<stored, nextId, data, listing, dialog>>
      /\ hosts' = Hosts!Dragged(hosts, from, to)
      /\ reqs' = Append(reqs, [Hosts!Request("reorder", hosts', {})
                                 EXCEPT !.prev = hosts, !.next = hosts'])
  BY DEF Hosts!handleDragEnd
<1>2. Known(hosts, nextId)
  BY DEF HostsTyped, ListsTyped
<1>3. Known(hosts', nextId) /\ SameHosts(hosts, hosts') /\ hosts' # <<>>
  BY <1>1, <1>2, DraggedIs
<1> DEFINE r == [Hosts!Request("reorder", hosts', {}) EXCEPT !.prev = hosts, !.next = hosts']
<1>4. hosts' \in Seq(Hosts!Host) /\ hosts \in Seq(Hosts!Host)
  BY <1>2, <1>3 DEF Known
<1>5. /\ r \in Requests(nextId)
      /\ r.op = "reorder" /\ r.here /\ r.answer = "none"
      /\ r.prev = hosts /\ r.next = hosts' /\ r.rows = hosts'
  BY <1>2, <1>3, <1>4 DEF Hosts!Request, Requests
<1> HIDE DEF r
<1> QED
  BY <1>1, <1>3, <1>5 DEF r

\* A drag keeps the types.
LEMMA DragTyped ==
  ASSUME HostsTyped, NEW from \in DOMAIN hosts, NEW to \in DOMAIN hosts,
         Hosts!handleDragEnd(from, to)
  PROVE  HostsTyped'
<1>1. PICK r \in Requests(nextId) : reqs' = Append(reqs, r)
  BY DragIs
<1>2. reqs' \in Seq(Requests(nextId))
  BY <1>1, RequestAppended DEF HostsTyped
<1>3. suspect' \in BOOLEAN
  BY DragIs DEF HostsTyped
<1> QED
  BY <1>2, <1>3, DragIs DEF HostsTyped, StoredTyped, ListsTyped, DialogTyped, ReqsTyped

\* A failing request keeps the types.
LEMMA FailTyped ==
  ASSUME HostsTyped, NEW i \in DOMAIN reqs, Hosts!RequestFails(i)
  PROVE  HostsTyped'
<1>1. /\ reqs' = [reqs EXCEPT ![i].answer = "failed"]
      /\ suspect' = (suspect \/ reqs[i].answer = "ok"
                       \/ (reqs[i].op = "reorder" /\ reqs[i].rows # reqs[i].next))
      /\ UNCHANGED <<stored, nextId, data, hosts, listing, dialog, quiet>>
  BY DEF Hosts!RequestFails
<1>2. reqs' = WithAnswer(i, "failed") /\ suspect' \in BOOLEAN
  BY <1>1 DEF WithAnswer, HostsTyped
<1>3. reqs' \in Seq(Requests(nextId))
  BY <1>2, AnswerTyped DEF HostsTyped
<1> QED
  BY <1>1, <1>2, <1>3 DEF HostsTyped, StoredTyped, ListsTyped, DialogTyped, ReqsTyped

\* An answer keeps the types.
LEMMA AnsweredTyped ==
  ASSUME HostsTyped, NEW i \in DOMAIN reqs, Hosts!Answered(i)
  PROVE  HostsTyped'
<1> DEFINE r == reqs[i]
<1>1. reqs' = Hosts!RemoveAt(reqs, i) /\ UNCHANGED <<stored, nextId, data>>
  BY DEF Hosts!Answered
<1>2. reqs' \in Seq(Requests(nextId))
  BY <1>1, RequestRemoved DEF HostsTyped
<1>3. Known(r.prev, nextId) /\ Known(r.next, nextId)
  BY RequestAt, RequestIs DEF HostsTyped
<1>4. Known(<<>>, nextId) /\ <<>> \in Seq(Hosts!Host)
  BY EmptyKnown
<1>5. CASE r.op = "reorder"
  <2>1. /\ Hosts!DragAnswered(r) /\ UNCHANGED <<listing, dialog, quiet>>
        /\ suspect' = (suspect \/ (r.answer = "failed" /\ \E h \in dialog : h.id # 0))
    BY <1>5 DEF Hosts!Answered
  <2>2. hosts' \in {hosts, r.next, r.prev} /\ suspect' \in BOOLEAN
    BY <2>1 DEF Hosts!DragAnswered, HostsTyped
  <2> QED
    BY <1>1, <1>2, <1>3, <2>1, <2>2
       DEF HostsTyped, StoredTyped, ListsTyped, DialogTyped, ReqsTyped
<1>6. CASE r.op # "reorder"
  <2>1. /\ UNCHANGED <<hosts, suspect>> /\ dialog' \in {{}, dialog}
        /\ \/ listing' = [at |-> "server", list |-> <<>>] /\ quiet' = (reqs' = <<>>)
           \/ UNCHANGED <<listing, quiet>>
    BY <1>6 DEF Hosts!Answered, Hosts!Refetched, Hosts!Waiting
  <2>2. quiet' \in BOOLEAN
    BY <2>1 DEF HostsTyped
  <2>3. ListsTyped'
    <3>1. CASE listing' = [at |-> "server", list |-> <<>>]
      BY <1>1, <1>4, <2>1, <3>1 DEF HostsTyped, ListsTyped
    <3>2. CASE listing' = listing
      BY <1>1, <2>1, <3>2 DEF HostsTyped, ListsTyped
    <3> QED
      BY <2>1, <3>1, <3>2
  <2> QED
    BY <1>1, <1>2, <2>1, <2>2, <2>3
       DEF HostsTyped, StoredTyped, DialogTyped, ReqsTyped
<1> QED
  BY <1>5, <1>6

-----------------------------------------------------------------------------
(* The first state, and what a quiet fetch brings.                         *)

\* The page begins with what is stored.
LEMMA HostsBegin ==
  ASSUME Hosts!HostsInit
  PROVE  HostsInv
<1> DEFINE I == Hosts!Ids(FirstHosts)
           M == {0} \cup I
<1>1. /\ stored = FirstHosts /\ nextId = 1 + Hosts!Max(M)
      /\ data \in Hosts!get_hosts(FirstHosts) /\ hosts = data
      /\ listing = [at |-> "none", list |-> <<>>] /\ reqs = <<>> /\ dialog = {}
      /\ suspect = FALSE /\ quiet = FALSE
  BY DEF Hosts!HostsInit, Hosts!NoFetch
<1>2. /\ IsFiniteSet(FirstHosts) /\ FirstHosts \subseteq Hosts!Host
      /\ \A h \in FirstHosts : h.id \in Nat /\ h.id > 0
      /\ \A g, h \in FirstHosts : g.id = h.id => g = h
  BY HostsAssumption DEF Hosts!Host
<1>3. IsFiniteSet(I)
  <2> DEFINE f == [h \in FirstHosts |-> h.id]
  <2>1. /\ I = {f[h] : h \in DOMAIN f} /\ IsFiniteSet(DOMAIN f)
        /\ f = [h \in DOMAIN f |-> f[h]]
    BY <1>2 DEF Hosts!Ids
  <2> HIDE DEF f, I
  <2> QED
    BY <2>1, ImageFinite
<1>4. \A h \in FirstHosts : h.id \in M
  BY DEF Hosts!Ids
<1>5. M \in SUBSET Nat /\ M # {}
  BY <1>2 DEF Hosts!Ids
<1>6. IsFiniteSet(M)
  <2> HIDE DEF I
  <2>1. IsFiniteSet(I \cup {0})
    BY <1>3, FS_AddElement
  <2>2. I \cup {0} = {0} \cup I
    OBVIOUS
  <2> QED
    BY <2>1, <2>2
<1> HIDE DEF M
<1>7. Hosts!Max(M) \in M /\ \A n \in M : n <= Hosts!Max(M)
  BY <1>5, <1>6, MaxIs
<1>8. nextId \in Nat \ {0} /\ \A h \in FirstHosts : h.id < nextId
  <2> DEFINE m == Hosts!Max(M)
  <2>1. m \in Nat /\ nextId = 1 + m /\ \A n \in M : n <= m
    BY <1>1, <1>5, <1>7
  <2> HIDE DEF m
  <2>2. \A h \in FirstHosts : h.id \in Nat /\ h.id <= m
    BY <1>2, <1>4, <2>1
  <2> QED
    BY <2>1, <2>2
<1>9. Table(stored, nextId)
  BY <1>1, <1>2, <1>8 DEF Table
<1>10. Known(data, nextId) /\ Hosts!ToSet(data) = stored
  BY <1>1, <1>9, QueryIs
<1>11. Known(<<>>, nextId) /\ <<>> \in Seq(Hosts!Host) /\ <<>> \in Seq(Requests(nextId))
  BY EmptyKnown
<1>12. HostsTyped
  BY <1>1, <1>8, <1>9, <1>10, <1>11
     DEF HostsTyped, StoredTyped, ListsTyped, DialogTyped, ReqsTyped
<1>13. QuietInv
  BY <1>1 DEF QuietInv
<1>14. ~Hosts!Dragging /\ SameHosts(hosts, data)
  BY <1>1 DEF Hosts!Dragging, SameHosts, Same
<1>15. CalmInv
  BY <1>1, <1>10 DEF CalmInv
<1>16. TrustInv
  BY <1>14, <1>15 DEF TrustInv
<1> QED
  BY <1>12, <1>13, <1>16 DEF HostsInv

\* A step of the page, by the actions.
LEMMA HostsSteps ==
  ASSUME Hosts!HostsNext
  PROVE  \/ Hosts!OtherAdmin \/ Hosts!FetchServed \/ Hosts!FetchArrives \/ Hosts!FetchFails
         \/ Hosts!handleRefreshClick \/ Hosts!Remount
         \/ Hosts!handleCreateClick \/ Hosts!CloseDialog
         \/ \E h \in Hosts!ToSet(hosts) : Hosts!handleEdit(h)
         \/ \E i \in DOMAIN reqs : Hosts!Serve(i) \/ Hosts!RequestFails(i) \/ Hosts!Answered(i)
         \/ Hosts!handleSubmit
         \/ \E h \in Hosts!ToSet(hosts) : \/ Hosts!handleDuplicate(h)
                                          \/ Hosts!handleToggleStatus(h)
                                          \/ Hosts!handleConfirmDelete(h)
         \/ \E op \in {"remove", "disable", "enable"} : Hosts!handleBulk(op)
         \/ \E from, to \in DOMAIN hosts : Hosts!handleDragEnd(from, to)
BY DEF Hosts!HostsNext

\* Every step keeps the types.
LEMMA HostsStaysTyped ==
  ASSUME HostsTyped, Hosts!HostsNext
  PROVE  HostsTyped'
BY HostsSteps, OtherAdminTyped, FetchTyped, RemountTyped, FormTyped, ServeTyped, FailTyped,
   AnsweredTyped, OperationSends, SendsTyped, DragTyped

\* Nothing is under way exactly when no request is.
LEMMA EmptyReqs ==
  ASSUME ReqsTyped
  PROVE  /\ (reqs = <<>>) <=> (\A i \in DOMAIN reqs : FALSE)
         /\ (reqs = <<>>) <=> (Len(reqs) = 0)
<1>1. DOMAIN reqs = 1 .. Len(reqs) /\ reqs \in Seq(Requests(nextId)) /\ Len(reqs) \in Nat
  BY LenProperties DEF ReqsTyped
<1>2. (reqs = <<>>) <=> (Len(reqs) = 0)
  BY <1>1, EmptySeq
<1>3. (Len(reqs) = 0) <=> (\A i \in DOMAIN reqs : FALSE)
  <2>1. CASE Len(reqs) = 0
    BY <1>1, <2>1
  <2>2. CASE Len(reqs) # 0
    <3>1. 1 \in DOMAIN reqs
      BY <1>1, <2>2
    <3> QED
      BY <2>2, <3>1
  <2> QED
    BY <2>1, <2>2
<1> QED
  BY <1>2, <1>3

\* Every step keeps QuietInv: what makes the answer stale drops the mark.
LEMMA QuietHolds ==
  ASSUME HostsTyped, QuietInv, Hosts!HostsNext
  PROVE  QuietInv'
<1>0. ReqsTyped /\ listing.at \in {"none", "server", "answer"}
  BY DEF HostsTyped, ListsTyped
<1>1. ASSUME Hosts!OtherAdmin
      PROVE  QuietInv'
  <2>1. quiet' = FALSE
    BY <1>1 DEF Hosts!OtherAdmin
  <2> QED
    BY <2>1 DEF QuietInv
<1>2. ASSUME Hosts!FetchServed
      PROVE  QuietInv'
  <2>1. PICK list \in Hosts!get_hosts(stored) : listing' = Hosts!Got(list)
    BY <1>2 DEF Hosts!FetchServed
  <2>2. Hosts!ToSet(list) = stored
    BY <2>1, QueryIs DEF HostsTyped, StoredTyped
  <2>3. listing.at = "server" /\ UNCHANGED <<stored, reqs, quiet>> /\ listing'.list = list
    BY <1>2, <2>1 DEF Hosts!FetchServed, Hosts!hostGhosts, Hosts!Waiting, Hosts!Got
  <2> QED
    BY <2>2, <2>3 DEF QuietInv
<1>3. ASSUME Hosts!FetchArrives \/ Hosts!FetchFails
      PROVE  QuietInv'
  <2>1. listing'.at = "none"
    BY <1>3 DEF Hosts!FetchArrives, Hosts!FetchFails, Hosts!NoFetch
  <2> QED
    BY <2>1 DEF QuietInv
<1>4. ASSUME Hosts!handleRefreshClick
      PROVE  QuietInv'
  <2>1. listing'.at = "server" /\ quiet' = (reqs = <<>>) /\ reqs' = reqs
    BY <1>4 DEF Hosts!handleRefreshClick, Hosts!Refetched, Hosts!Waiting
  <2> QED
    BY <2>1 DEF QuietInv
<1>5. ASSUME Hosts!Remount
      PROVE  QuietInv'
  <2>1. /\ reqs' = [i \in DOMAIN reqs |-> [reqs[i] EXCEPT !.here = FALSE]]
        /\ stored' = stored
        /\ \/ listing'.at = "server" /\ quiet' = (reqs = <<>>)
           \/ UNCHANGED <<listing, quiet>>
    BY <1>5 DEF Hosts!Remount, Hosts!Refetched, Hosts!Waiting
  <2>2. (reqs' = <<>>) <=> (reqs = <<>>)
    BY <1>0, <2>1, Away
  <2> QED
    BY <2>1, <2>2 DEF QuietInv
<1>6. ASSUME \/ Hosts!handleCreateClick \/ Hosts!CloseDialog
             \/ \E h \in Hosts!ToSet(hosts) : Hosts!handleEdit(h)
      PROVE  QuietInv'
  BY <1>6, FormTyped DEF QuietInv
<1>7. ASSUME NEW i \in DOMAIN reqs, Hosts!Serve(i) \/ Hosts!RequestFails(i)
      PROVE  QuietInv'
  <2>1. quiet' = quiet /\ listing' = listing
    BY <1>7 DEF Hosts!Serve, Hosts!RequestFails, Hosts!hostGhosts
  <2>2. reqs # <<>>
    BY <1>0, EmptyReqs
  <2> QED
    BY <1>0, <2>1, <2>2 DEF QuietInv
<1>8. ASSUME NEW i \in DOMAIN reqs, Hosts!Answered(i)
      PROVE  QuietInv'
  <2>1. \/ listing'.at = "server" /\ quiet' = (reqs' = <<>>)
        \/ UNCHANGED <<listing, quiet>>
    BY <1>8 DEF Hosts!Answered, Hosts!Refetched, Hosts!Waiting
  <2>2. reqs # <<>>
    BY <1>0, EmptyReqs
  <2> QED
    BY <1>0, <2>1, <2>2 DEF QuietInv
<1>9. ASSUME NEW op, NEW rows, NEW ids, Sends(op, rows, ids)
      PROVE  QuietInv'
  BY <1>9 DEF Sends, Hosts!Send, QuietInv
<1>10. ASSUME NEW from \in DOMAIN hosts, NEW to \in DOMAIN hosts, Hosts!handleDragEnd(from, to)
       PROVE  QuietInv'
  BY <1>10 DEF Hosts!handleDragEnd, QuietInv
<1> QED
  BY <1>1, <1>2, <1>3, <1>4, <1>5, <1>6, <1>7, <1>8, <1>9, <1>10, HostsSteps, OperationSends

-----------------------------------------------------------------------------
(* The steps with no drag under way.                                       *)

\* No row that comes into the page's sight has an id and a priority of the query's data.
NothingBack ==
  \A g \in Rows' : \/ g.id = 0 \/ g.id = nextId
                   \/ \E h \in Rows : g.id = h.id /\ g.priority = h.priority

\* The ids of the query's data are given out, so the form's 0 is none of them.
LEMMA DataIds ==
  ASSUME HostsTyped
  PROVE  \A d \in Hosts!ToSet(data) : d.id # 0 /\ d.id # nextId
<1>1. Known(data, nextId) /\ nextId \in Nat
  BY DEF HostsTyped, ListsTyped, StoredTyped
<1>2. ASSUME NEW d \in Hosts!ToSet(data)
      PROVE  d.id # 0 /\ d.id # nextId
  <2>1. d.id \in Nat /\ d.id > 0 /\ d.id < nextId
    BY <1>1, KnownRows
  <2> QED
    BY <1>1, <2>1
<1> QED
  BY <1>2

\* The steps that leave the screen and the data alone, with no drag under way.
LEMMA StaysCalm ==
  ASSUME HostsTyped, CalmInv, UNCHANGED <<hosts, data>>, NothingBack,
         listing'.at = "none" /\ ~Dirty' =>
           listing.at = "none" /\ ~Dirty /\ stored' = stored,
         listing'.at = "answer" /\ ~Dirty' => Hosts!ToSet(listing'.list) = stored'
  PROVE  CalmInv'
<1>1. listing'.at = "none" /\ ~Dirty' => Hosts!ToSet(hosts') = stored'
  BY DEF CalmInv
<1>2. ASSUME Hosts!ToSet(hosts) # Hosts!ToSet(data)
      PROVE  \E d \in Hosts!ToSet(data) : Gone(d)'
  <2>1. PICK d \in Hosts!ToSet(data) : Gone(d)
    BY <1>2 DEF CalmInv
  <2>2. d.id # 0 /\ d.id # nextId
    BY <2>1, DataIds
  <2>3. Gone(d)'
    BY <2>1, <2>2 DEF NothingBack, Gone
  <2> QED
    BY <2>1, <2>3
<1> QED
  BY <1>1, <1>2 DEF CalmInv

\* A request that has gone on, with the other requests as they were.
LEMMA AnswersIs ==
  ASSUME ReqsTyped, NEW i \in DOMAIN reqs, NEW a \in {"ok", "failed"}, reqs' = WithAnswer(i, a)
  PROVE  /\ DOMAIN reqs' = DOMAIN reqs /\ Len(reqs') = Len(reqs)
         /\ \A k \in DOMAIN reqs : /\ reqs'[k].op = reqs[k].op
                                   /\ reqs'[k].rows = reqs[k].rows
                                   /\ reqs'[k].next = reqs[k].next
                                   /\ reqs'[k].prev = reqs[k].prev
                                   /\ reqs'[k].here = reqs[k].here
                                   /\ reqs'[k].answer = IF k = i THEN a ELSE reqs[k].answer
<1> DEFINE r == reqs[i]
           s == [r EXCEPT !.answer = a]
<1>1. r \in Requests(nextId)
  BY RequestAt
<1> HIDE DEF r
<1>2. /\ s \in Requests(nextId) /\ s.answer = a
      /\ s.op = r.op /\ s.rows = r.rows /\ s.next = r.next /\ s.prev = r.prev
      /\ s.here = r.here
  <2>1. \A c \in {"ok", "failed"} :
          LET t == [r EXCEPT !.answer = c]
          IN /\ t \in Requests(nextId) /\ t.answer = c
             /\ t.op = r.op /\ t.rows = r.rows /\ t.next = r.next /\ t.prev = r.prev
             /\ t.here = r.here
    BY <1>1, RequestGoesOn
  <2> QED
    BY <2>1
<1>3. reqs' = [reqs EXCEPT ![i] = s]
  BY DEF WithAnswer, r
<1> HIDE DEF s
<1>4. /\ DOMAIN reqs' = DOMAIN reqs /\ Len(reqs') = Len(reqs)
      /\ \A k \in DOMAIN reqs : reqs'[k] = IF k = i THEN s ELSE reqs[k]
  BY <1>2, <1>3, RequestReplaced
<1> QED
  BY <1>2, <1>4 DEF r

\* The first rows of the modifications under way.
ModRows == {reqs[i].rows[1] : i \in {k \in DOMAIN reqs : reqs[k].op = "modify"}}

\* Rows, by its parts.
LEMMA RowsAre ==
  Rows = stored \cup Hosts!ToSet(hosts) \cup Hosts!ToSet(listing.list) \cup dialog \cup ModRows
BY DEF Rows, ModRows

\* Enabling and disabling keep id and priority.
LEMMA TurnedKeeps ==
  ASSUME NEW g \in Hosts!Host, NEW ids, NEW b \in BOOLEAN
  PROVE  Turned(g, ids, b).id = g.id /\ Turned(g, ids, b).priority = g.priority
BY DEF Turned, Hosts!Host

\* The server's step for anything but a drag.
LEMMA ServeCalm ==
  ASSUME HostsTyped, NEW i \in DOMAIN reqs, Hosts!Serve(i), ~Hosts!Dragging, CalmInv
  PROVE  ~Hosts!Dragging' /\ CalmInv' /\ UNCHANGED <<hosts, data, suspect>>
<1> DEFINE r == reqs[i]
           h == r.rows[1]
<1>1. r.answer = "none" /\ UNCHANGED <<data, hosts, listing, dialog, suspect, quiet>>
  BY ServeIs
<1>2. r.op # "reorder"
  BY DEF Hosts!Dragging
<1>3. PICK a \in {"ok", "failed"} : reqs' = WithAnswer(i, a)
                                    /\ (a = "failed" => stored' = stored)
  BY <1>2, ServeIs
<1>4. /\ DOMAIN reqs' = DOMAIN reqs
      /\ \A k \in DOMAIN reqs : /\ reqs'[k].op = reqs[k].op
                                /\ reqs'[k].rows = reqs[k].rows
                                /\ reqs'[k].answer = IF k = i THEN a ELSE reqs[k].answer
  BY <1>3, AnswersIs DEF HostsTyped
<1>5. ~Hosts!Dragging'
  BY <1>4 DEF Hosts!Dragging
<1>6. ~Dirty' => ~Dirty /\ stored' = stored
  <2>1. CASE a = "ok"
    <3>1. reqs'[i].op # "reorder" /\ reqs'[i].answer = "ok" /\ i \in DOMAIN reqs'
      BY <1>2, <1>4, <2>1
    <3> QED
      BY <3>1 DEF Dirty
  <2>2. CASE a = "failed"
    BY <1>1, <1>3, <1>4, <2>2 DEF Dirty
  <2> QED
    BY <2>1, <2>2
<1>7. ModRows' = ModRows
  BY <1>4 DEF ModRows
<1>8. \A g \in stored' : \/ g.id = nextId
                         \/ \E x \in Rows : g.id = x.id /\ g.priority = x.priority
  <2>0. /\ r \in Requests(nextId) /\ stored \subseteq Rows /\ nextId \in Nat
        /\ \A g \in stored : g \in Hosts!Host
    BY RowsAre, RequestAt DEF HostsTyped, StoredTyped, Table
  <2>1. CASE r.op = "create" /\ stored' = stored \cup {[h EXCEPT !.id = nextId]}
    <3>1. h \in Hosts!Host
      BY <1>1, <2>0, <2>1, RequestIs
    <3>2. [h EXCEPT !.id = nextId].id = nextId
      BY <2>0, <3>1, HostFields
    <3> QED
      BY <2>0, <2>1, <3>2
  <2>2. CASE r.op = "modify" /\ stored' = Hosts!Overwrite(stored, h)
    <3>1. h \in Rows
      BY <2>2, RowsAre DEF ModRows
    <3> QED
      BY <2>0, <2>2, <3>1 DEF Hosts!Overwrite
  <2>3. CASE stored' \subseteq stored
    BY <2>0, <2>3
  <2>4. CASE stored' = {Turned(g, r.ids, r.op = "disable") : g \in stored}
    <3> DEFINE b == r.op = "disable"
               ids == r.ids
    <3>1. b \in BOOLEAN /\ stored' = {Turned(g, ids, b) : g \in stored}
      BY <2>4
    <3> HIDE DEF b, ids
    <3>2. \A g \in stored : Turned(g, ids, b).id = g.id /\ Turned(g, ids, b).priority = g.priority
      BY <2>0, <3>1, TurnedKeeps
    <3> QED
      BY <2>0, <3>1, <3>2
  <2> QED
    BY <1>2, <2>1, <2>2, <2>3, <2>4, ServeIs
<1>9. NothingBack
  <2>1. Rows' = stored' \cup Hosts!ToSet(hosts) \cup Hosts!ToSet(listing.list) \cup dialog
                  \cup ModRows
    BY <1>1, <1>7 DEF Rows, ModRows
  <2> QED
    BY <1>8, <2>1, RowsAre DEF NothingBack
<1>10. listing'.at = "answer" /\ ~Dirty' => Hosts!ToSet(listing'.list) = stored'
  BY <1>1, <1>6 DEF CalmInv
<1>11. CalmInv'
  BY <1>1, <1>6, <1>9, <1>10, StaysCalm
<1> QED
  BY <1>1, <1>5, <1>11

\* A trusted page with no drag under way.
Calm == ~Hosts!Dragging /\ CalmInv /\ SameHosts(hosts, data)

\* Sending, with no drag under way: a modification sends a host that is in sight.
LEMMA SendsCalm ==
  ASSUME HostsTyped, NEW op, NEW rows, NEW ids, Sends(op, rows, ids), Calm
  PROVE  Calm'
<1> DEFINE s == Hosts!Request(op, rows, ids)
<1>1. /\ op \in {"create", "modify", "remove", "disable", "enable"}
      /\ s \in Requests(nextId) /\ s.op = op /\ s.rows = rows /\ s.answer = "none"
  BY RequestMade DEF Sends
<1>2. /\ reqs' = Append(reqs, s) /\ UNCHANGED <<stored, nextId, data, listing, hosts, dialog>>
      /\ op = "modify" => \E h \in Hosts!ToSet(hosts) \cup dialog :
                            rows[1].id = h.id /\ rows[1].priority = h.priority
  BY DEF Sends, Hosts!Send
<1> HIDE DEF s
<1>3. /\ \A k \in DOMAIN reqs : k \in DOMAIN reqs' /\ reqs'[k] = reqs[k]
      /\ \A k \in DOMAIN reqs' : reqs'[k] = s \/ (k \in DOMAIN reqs /\ reqs'[k] = reqs[k])
  BY <1>1, <1>2, RequestAppended DEF HostsTyped
<1>4. ~Hosts!Dragging'
  BY <1>1, <1>3 DEF Calm, Hosts!Dragging
<1>5. ~Dirty' => ~Dirty
  BY <1>3 DEF Dirty
<1>6. \A g \in ModRows' : g \in ModRows \/ (op = "modify" /\ g = rows[1])
  BY <1>1, <1>3 DEF ModRows
<1>7. NothingBack
  <2>1. Rows' = stored \cup Hosts!ToSet(hosts) \cup Hosts!ToSet(listing.list) \cup dialog
                  \cup ModRows'
    BY <1>2 DEF Rows, ModRows
  <2> QED
    BY <1>2, <1>6, <2>1, RowsAre DEF NothingBack
<1>8. listing'.at = "answer" /\ ~Dirty' => Hosts!ToSet(listing'.list) = stored'
  BY <1>2, <1>5 DEF Calm, CalmInv
<1>9. CalmInv'
  BY <1>2, <1>5, <1>7, <1>8, StaysCalm DEF Calm
<1> QED
  BY <1>2, <1>4, <1>9 DEF Calm

\* The form, with no drag under way.
LEMMA FormCalm ==
  ASSUME HostsTyped, Calm,
         \/ Hosts!handleCreateClick \/ Hosts!CloseDialog
         \/ \E h \in Hosts!ToSet(hosts) : Hosts!handleEdit(h)
  PROVE  Calm'
<1>1. /\ UNCHANGED <<stored, nextId, data, hosts, listing, reqs>>
      /\ \A h \in dialog' : h.id = 0 \/ h \in Hosts!ToSet(hosts)
  BY FormTyped
<1>2. /\ Hosts!Dragging' = Hosts!Dragging /\ Dirty' = Dirty /\ ModRows' = ModRows
  BY <1>1 DEF Hosts!Dragging, Dirty, ModRows
<1>3. NothingBack
  <2>1. Rows' = stored \cup Hosts!ToSet(hosts) \cup Hosts!ToSet(listing.list) \cup dialog'
                  \cup ModRows
    BY <1>1, <1>2 DEF Rows, ModRows
  <2> QED
    BY <1>1, <2>1, RowsAre DEF NothingBack
<1>4. CalmInv'
  BY <1>1, <1>2, <1>3, StaysCalm DEF Calm, CalmInv
<1> QED
  BY <1>1, <1>2, <1>4 DEF Calm

\* A request fails that had not succeeded, with no drag under way.
LEMMA FailCalm ==
  ASSUME HostsTyped, NEW i \in DOMAIN reqs, Hosts!RequestFails(i), Calm, ~suspect'
  PROVE  Calm'
<1>1. /\ reqs' = [reqs EXCEPT ![i].answer = "failed"]
      /\ reqs[i].answer # "ok"
      /\ UNCHANGED <<stored, nextId, data, hosts, listing, dialog>>
  BY DEF Hosts!RequestFails
<1>2. reqs' = WithAnswer(i, "failed")
  BY <1>1 DEF WithAnswer
<1>3. /\ DOMAIN reqs' = DOMAIN reqs
      /\ \A k \in DOMAIN reqs : /\ reqs'[k].op = reqs[k].op
                                /\ reqs'[k].rows = reqs[k].rows
                                /\ reqs'[k].answer = IF k = i THEN "failed" ELSE reqs[k].answer
  BY <1>2, AnswersIs DEF HostsTyped
<1>4. ~Hosts!Dragging' /\ (~Dirty' => ~Dirty)
  BY <1>1, <1>3 DEF Hosts!Dragging, Dirty, Calm
<1>5. ModRows' = ModRows
  BY <1>3 DEF ModRows
<1>6. NothingBack
  <2>1. Rows' = Rows
    BY <1>1, <1>5 DEF Rows, ModRows
  <2> QED
    BY <2>1 DEF NothingBack
<1>7. CalmInv'
  BY <1>1, <1>4, <1>6, StaysCalm DEF Calm, CalmInv
<1> QED
  BY <1>1, <1>4, <1>7 DEF Calm

\* An answer to anything but a drag: success begins a fetch.
LEMMA AnsweredCalm ==
  ASSUME HostsTyped, NEW i \in DOMAIN reqs, Hosts!Answered(i), Calm
  PROVE  Calm'
<1> DEFINE r == reqs[i]
<1>0. r.op # "reorder" /\ ReqsTyped /\ r.answer \in {"none", "ok", "failed"}
  BY RequestAt, RequestIs DEF Calm, Hosts!Dragging, HostsTyped
<1>1. /\ reqs' = Hosts!RemoveAt(reqs, i) /\ UNCHANGED <<stored, nextId, data, hosts>>
      /\ dialog' \in {{}, dialog}
      /\ IF r.answer = "ok" THEN listing' = [at |-> "server", list |-> <<>>]
                            ELSE listing' = listing
  BY <1>0 DEF Hosts!Answered, Hosts!Refetched, Hosts!Waiting
<1>2. /\ \A k \in DOMAIN reqs' : \E j \in DOMAIN reqs \ {i} : reqs'[k] = reqs[j]
      /\ \A j \in DOMAIN reqs \ {i} : \E k \in DOMAIN reqs' : reqs'[k] = reqs[j]
  BY <1>0, <1>1, RequestRemoved
<1>3. ~Hosts!Dragging'
  BY <1>2 DEF Hosts!Dragging, Calm
<1>4. r.answer # "ok" /\ ~Dirty' => ~Dirty
  BY <1>2 DEF Dirty
<1>5. ModRows' \subseteq ModRows
  BY <1>2 DEF ModRows
<1>6. Hosts!ToSet(<<>>) = {}
  BY DEF Hosts!ToSet
<1>7. Hosts!ToSet(listing'.list) \subseteq Hosts!ToSet(listing.list)
  BY <1>1, <1>6
<1>8. NothingBack
  <2>1. Rows' = stored \cup Hosts!ToSet(hosts) \cup Hosts!ToSet(listing'.list) \cup dialog'
                  \cup ModRows'
    BY <1>1 DEF Rows, ModRows
  <2>2. Rows' \subseteq Rows
    BY <1>1, <1>5, <1>7, <2>1, RowsAre
  <2> QED
    BY <2>2 DEF NothingBack
<1>9. CalmInv'
  <2>1. CASE r.answer = "ok"
    <3>1. listing'.at = "server"
      BY <1>1, <2>1
    <3> QED
      BY <1>1, <1>8, <3>1, StaysCalm DEF Calm
  <2>2. CASE r.answer # "ok"
    <3>1. listing' = listing
      BY <1>1, <2>2
    <3>2. listing'.at = "answer" /\ ~Dirty' => Hosts!ToSet(listing'.list) = stored'
      BY <1>1, <1>4, <2>2, <3>1 DEF Calm, CalmInv
    <3> QED
      BY <1>1, <1>4, <1>8, <2>2, <3>1, <3>2, StaysCalm DEF Calm
  <2> QED
    BY <2>1, <2>2
<1> QED
  BY <1>1, <1>3, <1>9 DEF Calm

\* The server reads the list for a fetch.
LEMMA ServedCalm ==
  ASSUME HostsTyped, Hosts!FetchServed, Calm
  PROVE  Calm'
<1>1. PICK list \in Hosts!get_hosts(stored) : listing' = Hosts!Got(list)
  BY DEF Hosts!FetchServed
<1>2. UNCHANGED <<stored, nextId, data, hosts, reqs, dialog>>
  BY DEF Hosts!FetchServed
<1>3. Hosts!ToSet(list) = stored
  BY <1>1, QueryIs DEF HostsTyped, StoredTyped
<1>4. listing'.at = "answer" /\ listing'.list = list
  BY <1>1 DEF Hosts!Got
<1>5. Hosts!Dragging' = Hosts!Dragging /\ ModRows' = ModRows
  BY <1>2 DEF Hosts!Dragging, ModRows
<1>6. NothingBack
  <2>1. Rows' = stored \cup Hosts!ToSet(hosts) \cup Hosts!ToSet(listing'.list) \cup dialog
                  \cup ModRows
    BY <1>2, <1>5 DEF Rows, ModRows
  <2>2. Rows' \subseteq Rows
    BY <1>3, <1>4, <2>1, RowsAre
  <2> QED
    BY <2>2 DEF NothingBack
<1>7. CalmInv'
  BY <1>2, <1>3, <1>4, <1>6, StaysCalm DEF Calm
<1> QED
  BY <1>2, <1>5, <1>7 DEF Calm

\* The refresh button, with no drag under way.
LEMMA RefreshCalm ==
  ASSUME HostsTyped, Hosts!handleRefreshClick, Calm
  PROVE  Calm'
<1>1. /\ listing' = [at |-> "server", list |-> <<>>]
      /\ UNCHANGED <<stored, nextId, data, hosts, reqs, dialog>>
  BY DEF Hosts!handleRefreshClick, Hosts!Refetched, Hosts!Waiting
<1>2. Hosts!Dragging' = Hosts!Dragging /\ ModRows' = ModRows
  BY <1>1 DEF Hosts!Dragging, ModRows
<1>3. Hosts!ToSet(<<>>) = {}
  BY DEF Hosts!ToSet
<1>4. NothingBack
  <2>1. Rows' = stored \cup Hosts!ToSet(hosts) \cup Hosts!ToSet(listing'.list) \cup dialog
                  \cup ModRows
    BY <1>1, <1>2 DEF Rows, ModRows
  <2>2. Rows' \subseteq Rows
    BY <1>1, <1>3, <2>1, RowsAre
  <2> QED
    BY <2>2 DEF NothingBack
<1>5. CalmInv'
  BY <1>1, <1>4, StaysCalm DEF Calm
<1> QED
  BY <1>1, <1>2, <1>5 DEF Calm

\* A new visit, with no drag under way: the screen is the data and a fetch runs.
LEMMA RemountCalm ==
  ASSUME HostsTyped, Hosts!Remount, Calm
  PROVE  Calm'
<1>1. /\ hosts' = data /\ dialog' = {}
      /\ reqs' = [i \in DOMAIN reqs |-> [reqs[i] EXCEPT !.here = FALSE]]
      /\ UNCHANGED <<stored, nextId, data>>
      /\ IF listing = Hosts!NoFetch THEN listing' = [at |-> "server", list |-> <<>>]
                                    ELSE listing' = listing
  BY DEF Hosts!Remount, Hosts!Refetched, Hosts!Waiting
<1>2. /\ DOMAIN reqs' = DOMAIN reqs
      /\ \A i \in DOMAIN reqs : reqs'[i].op = reqs[i].op /\ reqs'[i].answer = reqs[i].answer
  BY <1>1, Away DEF HostsTyped
<1>3. ~Hosts!Dragging' /\ (~Dirty' => ~Dirty)
  BY <1>2 DEF Calm, Hosts!Dragging, Dirty
<1>4. listing'.at # "none"
  <2>1. listing.at = "none" => listing = Hosts!NoFetch
    BY DEF HostsTyped, ListsTyped, Hosts!NoFetch
  <2> QED
    BY <1>1, <2>1
<1>5. listing'.at = "answer" /\ ~Dirty' => Hosts!ToSet(listing'.list) = stored'
  BY <1>1, <1>3 DEF Calm, CalmInv
<1>6. CalmInv' /\ SameHosts(hosts', data')
  BY <1>1, <1>4, <1>5 DEF CalmInv, SameHosts, Same
<1> QED
  BY <1>1, <1>3, <1>6 DEF Calm

\* The answer to a fetch reaches the screen, also where it changes nothing.
LEMMA ArrivesCalm ==
  ASSUME HostsTyped, QuietInv, Hosts!FetchArrives, ~suspect', ~suspect => Calm
  PROVE  Calm'
<1>1. /\ listing.at = "answer" /\ data' = listing.list
      /\ hosts' = (IF listing.list = data THEN hosts ELSE listing.list)
      /\ listing'.at = "none"
      /\ suspect' = (suspect /\ ~(quiet /\ hosts' = listing.list))
      /\ UNCHANGED <<stored, reqs>>
  BY DEF Hosts!FetchArrives, Hosts!NoFetch
<1>2. Hosts!Dragging' = Hosts!Dragging /\ Dirty' = Dirty
  BY <1>1 DEF Hosts!Dragging, Dirty
<1>3. CASE suspect
  <2>1. hosts' = listing.list /\ reqs = <<>> /\ Hosts!ToSet(listing.list) = stored
    BY <1>1, <1>3 DEF QuietInv
  <2>2. ~Hosts!Dragging
    BY <2>1 DEF Hosts!Dragging
  <2>3. CalmInv' /\ SameHosts(hosts', data')
    BY <1>1, <2>1 DEF CalmInv, SameHosts, Same
  <2> QED
    BY <1>2, <2>2, <2>3 DEF Calm
<1>4. CASE ~suspect
  <2>1. Hosts!ToSet(hosts') = Hosts!ToSet(listing.list) /\ SameHosts(hosts', data')
    <3>1. CASE listing.list # data
      BY <1>1, <3>1 DEF SameHosts, Same
    <3>2. CASE listing.list = data
      <4>1. hosts' = hosts /\ data' = data /\ SameHosts(hosts, data)
        BY <1>1, <1>4, <3>2 DEF Calm
      <4>2. ~\E d \in Hosts!ToSet(data) : Gone(d)
        BY <3>2, RowsAre DEF Gone
      <4>3. Hosts!ToSet(hosts) = Hosts!ToSet(data)
        BY <1>4, <4>2 DEF Calm, CalmInv
      <4> QED
        BY <3>2, <4>1, <4>3
    <3> QED
      BY <3>1, <3>2
  <2>2. ~Dirty => Hosts!ToSet(listing.list) = stored
    BY <1>1, <1>4 DEF Calm, CalmInv
  <2>3. CalmInv'
    BY <1>1, <1>2, <2>1, <2>2 DEF CalmInv
  <2> QED
    BY <1>2, <1>4, <2>1, <2>3 DEF Calm
<1> QED
  BY <1>3, <1>4

-----------------------------------------------------------------------------
(* The steps of a drag, and the theorem.                                   *)

\* Having the same hosts goes both ways.
LEMMA SameHostsTurn ==
  ASSUME NEW p, NEW q, SameHosts(p, q)
  PROVE  SameHosts(q, p)
BY DEF SameHosts, Same

\* The same hosts have the same ids.
LEMMA SameIds ==
  ASSUME NEW p, NEW q, SameHosts(p, q)
  PROVE  \A x \in Hosts!ToSet(p) : \E y \in Hosts!ToSet(q) : y.id = x.id
BY DEF SameHosts, Same, Hosts!ToSet

\* A trusted page with a drag that began when nothing else was under way.
Drag == Hosts!Dragging /\ DragInv /\ SameHosts(hosts, data)

\* A drag that begins with nothing under way finds the screen as stored.
LEMMA DragBegins ==
  ASSUME HostsTyped, NEW from \in DOMAIN hosts, NEW to \in DOMAIN hosts,
         Hosts!handleDragEnd(from, to), ~suspect => Calm \/ Drag, ~suspect'
  PROVE  Drag'
<1>1. /\ dialog = {} /\ reqs = <<>> /\ listing = Hosts!NoFetch /\ ~suspect
      /\ UNCHANGED <<stored, nextId, data, listing, dialog>>
      /\ Known(hosts', nextId) /\ SameHosts(hosts, hosts') /\ Known(hosts, nextId)
  BY DragIs DEF HostsTyped, ListsTyped
<1>2. ~Hosts!Dragging /\ ~Dirty /\ listing.at = "none"
  BY <1>1 DEF Hosts!Dragging, Dirty, Hosts!NoFetch
<1>3. Hosts!ToSet(hosts) = stored /\ SameHosts(hosts, data)
  BY <1>1, <1>2 DEF Calm, Drag, CalmInv
<1>4. PICK r \in Requests(nextId) :
        /\ reqs' = Append(reqs, r)
        /\ r.op = "reorder" /\ r.here /\ r.answer = "none"
        /\ r.prev = hosts /\ r.next = hosts' /\ r.rows = hosts'
  BY DragIs
<1>5. reqs' = <<r>>
  BY <1>1, <1>4
<1>6. Len(reqs') = 1 /\ reqs'[1] = r /\ DOMAIN reqs' = {1}
  BY <1>5
<1>7. Hosts!Dragging'
  BY <1>4, <1>6 DEF Hosts!Dragging
<1>8. SameHosts(hosts', data')
  BY <1>1, <1>3, SameHostsJoin
<1> DEFINE ids == {h.id : h \in Hosts!ToSet(hosts')}
<1>9. \A g \in Hosts!ToSet(hosts) : g.id \in ids
  BY <1>1 DEF SameHosts, Same, Hosts!ToSet
<1>10. stored' = {h \in Hosts!ToSet(hosts') : h.id \notin ids}
                   \cup {g \in Hosts!ToSet(hosts) : g.id \in ids}
  BY <1>1, <1>3, <1>9
<1>11. DragInv'
  BY <1>1, <1>4, <1>6, <1>10 DEF DragInv
<1> QED
  BY <1>7, <1>8, <1>11 DEF Drag

\* The only request is the drag.
LEMMA TheDrag ==
  ASSUME HostsTyped, Drag
  PROVE  DOMAIN reqs = {1} /\ reqs[1] \in Requests(nextId) /\ ReqsTyped
<1>1. Len(reqs) = 1 /\ ReqsTyped
  BY DEF Drag, DragInv, HostsTyped
<1>2. DOMAIN reqs = 1 .. 1
  BY <1>1, LenProperties DEF ReqsTyped
<1> QED
  BY <1>1, <1>2, RequestAt

\* The server takes the drag's next row: one more host is as in the new order.
LEMMA DragServed ==
  ASSUME HostsTyped, NEW i \in DOMAIN reqs, Hosts!Serve(i), Drag
  PROVE  Drag'
<1> DEFINE r == reqs[1]
           h == r.rows[1]
           t == Tail(r.rows)
           s == Stepped(r)
           N == Hosts!ToSet(r.next)
           P == Hosts!ToSet(r.prev)
           W == {x.id : x \in Hosts!ToSet(r.rows)}
           V == {x.id : x \in Hosts!ToSet(t)}
<1>1. DOMAIN reqs = {1} /\ r \in Requests(nextId) /\ i = 1 /\ ReqsTyped /\ nextId \in Nat
  BY TheDrag DEF HostsTyped, StoredTyped
<1>2. /\ Len(reqs) = 1 /\ listing = Hosts!NoFetch /\ r.op = "reorder" /\ r.here
      /\ hosts = r.next /\ SameHosts(r.prev, r.next) /\ SameHosts(hosts, data)
      /\ Known(r.rows, nextId) /\ Hosts!ToSet(r.rows) \subseteq N
      /\ stored = {x \in N : x.id \notin W} \cup {g \in P : g.id \in W}
      /\ \A x \in dialog : x.id = 0 \/ x \in Hosts!ToSet(hosts)
  BY DEF Drag, DragInv
<1>3. /\ r.answer = "none" /\ UNCHANGED <<data, hosts, listing, dialog>>
      /\ Hosts!modify_hosts_row(h) /\ reqs' = [reqs EXCEPT ![1] = s]
  BY <1>1, <1>2, ServeIs
<1>4. /\ s \in Requests(nextId) /\ s.op = r.op /\ s.here = r.here
      /\ s.next = r.next /\ s.prev = r.prev /\ s.rows = t
      /\ s.answer = IF t = <<>> THEN "ok" ELSE "none"
  BY <1>1, <1>2, <1>3, RequestStepped
<1>5. r.rows \in Seq(Hosts!Host) /\ r.rows # <<>> /\ Known(r.next, nextId)
  BY <1>1, <1>2, <1>3, RequestIs
<1>6. /\ t \in Seq(Hosts!Host) /\ Len(t) = Len(r.rows) - 1 /\ Len(r.rows) \in Nat
      /\ \A k \in 1 .. Len(t) : t[k] = r.rows[k + 1]
      /\ Len(r.rows) > 0
  BY <1>5, HeadTailProperties, LenProperties, EmptySeq
<1>7. /\ DOMAIN r.rows = 1 .. Len(r.rows) /\ DOMAIN t = 1 .. Len(t)
  BY <1>5, <1>6, LenProperties
<1> HIDE DEF s, t
<1>8. Len(reqs') = 1 /\ DOMAIN reqs' = {1} /\ reqs'[1] = s
  BY <1>1, <1>2, <1>3, <1>4, RequestReplaced
<1>9. /\ h \in Hosts!ToSet(r.rows) /\ h \in N /\ h.id \in W
  <2>1. 1 \in DOMAIN r.rows
    BY <1>6, <1>7
  <2> QED
    BY <1>2, <2>1 DEF Hosts!ToSet
<1>10. /\ Hosts!ToSet(t) \subseteq Hosts!ToSet(r.rows)
       /\ \A x \in Hosts!ToSet(r.rows) : x = h \/ x \in Hosts!ToSet(t)
       /\ h.id \notin V
  <2>1. \A k \in DOMAIN t : k + 1 \in DOMAIN r.rows /\ k + 1 # 1
    BY <1>6, <1>7
  <2>2. \A k \in DOMAIN r.rows : k = 1 \/ (k - 1 \in DOMAIN t /\ (k - 1) + 1 = k)
    BY <1>6, <1>7
  <2>3. 1 \in DOMAIN r.rows
    BY <1>6, <1>7
  <2>4. \A k \in DOMAIN t : t[k] = r.rows[k + 1]
    BY <1>6, <1>7
  <2>5. \A k \in DOMAIN t : t[k].id # h.id
    BY <1>2, <2>1, <2>3, <2>4 DEF Known
  <2>6. Hosts!ToSet(t) \subseteq Hosts!ToSet(r.rows)
    BY <2>1, <2>4 DEF Hosts!ToSet
  <2>7. \A k \in DOMAIN r.rows : r.rows[k] = h \/ \E j \in DOMAIN t : r.rows[k] = t[j]
    BY <2>2, <2>4
  <2>8. \A x \in Hosts!ToSet(r.rows) : x = h \/ x \in Hosts!ToSet(t)
    BY <2>7 DEF Hosts!ToSet
  <2> QED
    BY <2>5, <2>6, <2>8 DEF Hosts!ToSet
<1>11. W = V \cup {h.id}
  BY <1>9, <1>10
<1>12. h.id \in Hosts!Ids(stored)
  <2>1. \E g \in P : g.id = h.id
    BY <1>2, <1>9 DEF SameHosts, Same, Hosts!ToSet
  <2> QED
    BY <1>2, <1>9, <2>1 DEF Hosts!Ids
<1>13. stored' = {g \in stored : g.id # h.id} \cup {h} /\ nextId' = nextId
  BY <1>3, <1>12 DEF Hosts!modify_hosts_row, Hosts!Overwrite
<1>14. \A x \in N : x.id = h.id => x = h
  BY <1>5, <1>9 DEF Known, Hosts!ToSet
<1>15. stored' = {x \in N : x.id \notin V} \cup {g \in P : g.id \in V}
  <2> HIDE DEF h, N, P, V, W
  <2>1. h.id \notin V
    BY <1>10
  <2> QED
    BY <1>2, <1>9, <1>11, <1>13, <1>14, <2>1
<1>16. Known(t, nextId)
  <2>1. \A k \in DOMAIN t : k + 1 \in DOMAIN r.rows /\ t[k] = r.rows[k + 1]
    BY <1>6, <1>7
  <2>2. \A k \in DOMAIN t : t[k].id > 0 /\ t[k].id < nextId
    BY <1>2, <2>1 DEF Known
  <2>3. ASSUME NEW j \in DOMAIN t, NEW k \in DOMAIN t, j # k
        PROVE  t[j].id # t[k].id
    <3>1. j + 1 # k + 1
      BY <1>7, <2>3
    <3> QED
      BY <1>2, <2>1, <3>1 DEF Known
  <2> QED
    BY <1>6, <2>2, <2>3 DEF Known
<1>17. DragInv'
  <2>1. t = <<>> \/ s.answer # "ok"
    BY <1>4
  <2>2. s.answer # "failed"
    BY <1>4
  <2>3. Hosts!ToSet(t) \subseteq N
    BY <1>2, <1>10
  <2> QED
    BY <1>2, <1>3, <1>4, <1>8, <1>13, <1>15, <1>16, <2>1, <2>2, <2>3 DEF DragInv
<1>18. Hosts!Dragging'
  BY <1>2, <1>4, <1>8 DEF Hosts!Dragging
<1> QED
  BY <1>2, <1>3, <1>17, <1>18 DEF Drag

\* The drag fails before the server took a row of it.
LEMMA DragFails ==
  ASSUME HostsTyped, NEW i \in DOMAIN reqs, Hosts!RequestFails(i), Drag, ~suspect'
  PROVE  Drag'
<1> DEFINE r == reqs[1]
<1>1. DOMAIN reqs = {1} /\ r \in Requests(nextId) /\ i = 1 /\ ReqsTyped
  BY TheDrag
<1>2. r.op = "reorder" /\ Len(reqs) = 1
  BY DEF Drag, DragInv
<1>3. /\ reqs' = [reqs EXCEPT ![1].answer = "failed"]
      /\ r.rows = r.next
      /\ UNCHANGED <<stored, nextId, data, hosts, listing, dialog>>
  BY <1>1, <1>2 DEF Hosts!RequestFails
<1>4. reqs' = WithAnswer(1, "failed")
  BY <1>3 DEF WithAnswer
<1>5. /\ DOMAIN reqs' = DOMAIN reqs /\ Len(reqs') = Len(reqs)
      /\ reqs'[1].op = r.op /\ reqs'[1].rows = r.rows /\ reqs'[1].next = r.next
      /\ reqs'[1].prev = r.prev /\ reqs'[1].here = r.here /\ reqs'[1].answer = "failed"
  BY <1>1, <1>4, AnswersIs
<1>6. DragInv'
  BY <1>3, <1>5 DEF Drag, DragInv
<1>7. Hosts!Dragging'
  BY <1>1, <1>2, <1>5 DEF Hosts!Dragging
<1> QED
  BY <1>3, <1>6, <1>7 DEF Drag

\* The form beside a drag: it takes its host from the new order.
LEMMA DragForm ==
  ASSUME HostsTyped, Drag,
         \/ Hosts!handleCreateClick \/ Hosts!CloseDialog
         \/ \E h \in Hosts!ToSet(hosts) : Hosts!handleEdit(h)
  PROVE  Drag'
<1>1. /\ UNCHANGED <<stored, nextId, data, hosts, listing, reqs>>
      /\ \A h \in dialog' : h.id = 0 \/ h \in Hosts!ToSet(hosts)
  BY FormTyped
<1>2. Hosts!Dragging' = Hosts!Dragging
  BY <1>1 DEF Hosts!Dragging
<1> QED
  BY <1>1, <1>2 DEF Drag, DragInv

\* The drag ends: the screen is as the server has it, whether it succeeded or not.
LEMMA DragEnds ==
  ASSUME HostsTyped, NEW i \in DOMAIN reqs, Hosts!Answered(i), Drag, ~suspect'
  PROVE  Calm'
<1> DEFINE r == reqs[1]
           N == Hosts!ToSet(r.next)
           P == Hosts!ToSet(r.prev)
           W == {x.id : x \in Hosts!ToSet(r.rows)}
<1>1. DOMAIN reqs = {1} /\ r \in Requests(nextId) /\ i = 1 /\ ReqsTyped
  BY TheDrag
<1>2. /\ Len(reqs) = 1 /\ listing = Hosts!NoFetch /\ r.op = "reorder" /\ r.here
      /\ hosts = r.next /\ SameHosts(r.prev, r.next) /\ SameHosts(hosts, data)
      /\ stored = {x \in N : x.id \notin W} \cup {g \in P : g.id \in W}
      /\ r.answer = "ok" => r.rows = <<>>
      /\ r.answer = "failed" => r.rows = r.next
      /\ \A x \in dialog : x.id = 0 \/ x \in Hosts!ToSet(hosts)
  BY DEF Drag, DragInv
<1>3. /\ reqs' = Hosts!RemoveAt(reqs, 1) /\ r.answer # "none"
      /\ hosts' = IF r.answer = "ok" THEN r.next ELSE r.prev
      /\ r.answer = "failed" => \A x \in dialog : x.id = 0
      /\ UNCHANGED <<stored, nextId, data, listing, dialog>>
  BY <1>1, <1>2 DEF Hosts!Answered, Hosts!DragAnswered
<1>4. r.answer \in {"ok", "failed"} /\ Known(r.prev, nextId) /\ Known(r.next, nextId)
  BY <1>1, <1>3, RequestIs
<1>5. reqs' = <<>>
  <2>1. reqs' \in Seq(Requests(nextId)) /\ Len(reqs') = Len(reqs) - 1
    BY <1>1, <1>3, RequestRemoved
  <2>2. Len(reqs') = 0
    BY <1>2, <2>1
  <2> QED
    BY <2>1, <2>2, EmptySeq
<1>6. ~Hosts!Dragging' /\ ModRows' = {} /\ ~Dirty'
  BY <1>5 DEF Hosts!Dragging, ModRows, Dirty
<1>7. /\ Hosts!ToSet(hosts') = stored /\ SameHosts(hosts', data) /\ Known(hosts', nextId)
      /\ \A x \in dialog : x.id = 0 \/ x \in Hosts!ToSet(hosts')
  <2>1. CASE r.answer = "ok"
    <3>1. W = {}
      BY <1>2, <2>1 DEF Hosts!ToSet
    <3>2. N = stored
      <4> HIDE DEF N, P, W
      <4> QED
        BY <1>2, <3>1
    <3> QED
      BY <1>2, <1>3, <1>4, <2>1, <3>2
  <2>2. CASE r.answer = "failed"
    <3>1. \A x \in N : x.id \in W
      BY <1>2, <2>2
    <3>2. \A x \in P : x.id \in W
      <4>1. \A x \in P : \E y \in N : y.id = x.id
        BY <1>2, SameIds
      <4> HIDE DEF N, P, W
      <4> QED
        BY <3>1, <4>1
    <3>3. P = stored
      <4> HIDE DEF N, P, W
      <4> QED
        BY <1>2, <3>1, <3>2
    <3>4. SameHosts(r.prev, data)
      <4>1. SameHosts(r.next, r.prev) /\ SameHosts(r.next, data)
        BY <1>2, SameHostsTurn
      <4> QED
        BY <4>1, SameHostsJoin
    <3> QED
      BY <1>3, <1>4, <2>2, <3>3, <3>4
  <2> QED
    BY <1>4, <2>1, <2>2
<1>8. ASSUME Hosts!ToSet(hosts') # Hosts!ToSet(data)
      PROVE  \E d \in Hosts!ToSet(data) : Gone(d)'
  <2>1. Known(data, nextId)
    BY DEF HostsTyped, ListsTyped
  <2>2. PICK d \in Hosts!ToSet(data) :
          \A g \in Hosts!ToSet(hosts') : ~(g.id = d.id /\ g.priority = d.priority)
    BY <1>7, <1>8, <2>1, Moved
  <2>3. d.id # 0
    BY <2>2, DataIds
  <2>4. Hosts!ToSet(listing.list) = {}
    BY <1>2 DEF Hosts!NoFetch, Hosts!ToSet
  <2>5. Rows' = stored \cup Hosts!ToSet(hosts') \cup dialog
    BY <1>3, <1>6, <2>4 DEF Rows, ModRows
  <2>6. Gone(d)'
    BY <1>7, <2>2, <2>3, <2>5 DEF Gone
  <2> QED
    BY <2>2, <2>6
<1>9. listing.at = "none"
  BY <1>2 DEF Hosts!NoFetch
<1>10. CalmInv'
  BY <1>3, <1>7, <1>8, <1>9 DEF CalmInv
<1> QED
  BY <1>3, <1>6, <1>7, <1>10 DEF Calm

\* Every step that leaves the page trusted keeps it calm or in such a drag.
LEMMA TrustHolds ==
  ASSUME HostsInv, Hosts!HostsNext, ~suspect'
  PROVE  (Calm \/ Drag)'
<1>0. HostsTyped /\ QuietInv /\ (~suspect => Calm \/ Drag)
  BY DEF HostsInv, TrustInv, Calm, Drag
<1>1. ~Hosts!OtherAdmin /\ ~Hosts!FetchFails
  BY DEF Hosts!OtherAdmin, Hosts!FetchFails
<1>2. ASSUME Hosts!FetchServed
      PROVE  Calm'
  <2>1. ~suspect /\ listing # Hosts!NoFetch
    BY <1>2 DEF Hosts!FetchServed, Hosts!hostGhosts, Hosts!Waiting, Hosts!NoFetch
  <2>2. ~Drag
    BY <2>1 DEF Drag, DragInv
  <2> QED
    BY <1>0, <1>2, <2>1, <2>2, ServedCalm
<1>3. ASSUME Hosts!FetchArrives
      PROVE  Calm'
  <2>1. listing # Hosts!NoFetch
    BY <1>3 DEF Hosts!FetchArrives, Hosts!NoFetch
  <2>2. ~Drag
    BY <2>1 DEF Drag, DragInv
  <2> QED
    BY <1>0, <1>3, <2>2, ArrivesCalm
<1>4. ASSUME Hosts!handleRefreshClick \/ Hosts!Remount
      PROVE  Calm'
  <2>1. ~suspect /\ ~Hosts!Dragging
    BY <1>4 DEF Hosts!handleRefreshClick, Hosts!Remount
  <2>2. Calm
    BY <1>0, <2>1 DEF Drag
  <2> QED
    BY <1>0, <1>4, <2>2, RefreshCalm, RemountCalm
<1>5. ASSUME \/ Hosts!handleCreateClick \/ Hosts!CloseDialog
             \/ \E h \in Hosts!ToSet(hosts) : Hosts!handleEdit(h)
      PROVE  (Calm \/ Drag)'
  <2>1. ~suspect
    BY <1>0, <1>5, FormTyped
  <2>2. Calm \/ Drag
    BY <1>0, <2>1
  <2> QED
    BY <1>0, <1>5, <2>2, FormCalm, DragForm
<1>6. ASSUME NEW i \in DOMAIN reqs, Hosts!Serve(i)
      PROVE  (Calm \/ Drag)'
  <2>1. ~suspect
    BY <1>0, <1>6, ServeIs
  <2>2. CASE Drag
    BY <1>0, <1>6, <2>2, DragServed
  <2>3. CASE Calm
    <3>1. ~Hosts!Dragging' /\ CalmInv' /\ UNCHANGED <<hosts, data>>
      BY <1>0, <1>6, <2>3, ServeCalm DEF Calm
    <3> QED
      BY <2>3, <3>1 DEF Calm
  <2> QED
    BY <1>0, <2>1, <2>2, <2>3
<1>7. ASSUME NEW i \in DOMAIN reqs, Hosts!RequestFails(i)
      PROVE  (Calm \/ Drag)'
  <2>1. ~suspect
    BY <1>7 DEF Hosts!RequestFails
  <2> QED
    BY <1>0, <1>7, <2>1, FailCalm, DragFails
<1>8. ASSUME NEW i \in DOMAIN reqs, Hosts!Answered(i)
      PROVE  Calm'
  <2>1. ~suspect
    BY <1>8 DEF Hosts!Answered
  <2> QED
    BY <1>0, <1>8, <2>1, AnsweredCalm, DragEnds
<1>9. ASSUME NEW op, NEW rows, NEW ids, Sends(op, rows, ids)
      PROVE  Calm'
  <2>1. ~suspect /\ ~Hosts!Dragging
    BY <1>9 DEF Sends, Hosts!Send
  <2>2. Calm
    BY <1>0, <2>1 DEF Drag
  <2> QED
    BY <1>0, <1>9, <2>2, SendsCalm
<1>10. ASSUME NEW from \in DOMAIN hosts, NEW to \in DOMAIN hosts, Hosts!handleDragEnd(from, to)
       PROVE  Drag'
  BY <1>0, <1>10, DragBegins
<1> QED
  BY <1>0, <1>1, <1>2, <1>3, <1>4, <1>5, <1>6, <1>7, <1>8, <1>9, <1>10, HostsSteps,
     OperationSends

\* Whatever the admin did and in whatever order requests and fetches were answered, the
\* page shows the hosts that are stored once nothing is under way, for any hosts and any
\* number of operations and upsets: handleDragEnd rewrites the page's copy before the
\* server, and an equal answer to a fetch leaves the copy alone.
THEOREM HostsAreShown == Spec => []HostsShowStored
<1>1. Init => HostsInv
  BY HostsBegin DEF Init
<1>2. HostsInv /\ [Next]_vars => HostsInv'
  <2> SUFFICES ASSUME HostsInv, [Next]_vars
               PROVE  HostsInv'
    OBVIOUS
  <2>1. CASE Hosts!HostsNext
    <3>1. HostsTyped' /\ QuietInv'
      BY <2>1, HostsStaysTyped, QuietHolds DEF HostsInv
    <3>2. suspect' \/ (Calm \/ Drag)'
      BY <2>1, TrustHolds
    <3>3. TrustInv'
      BY <3>2 DEF TrustInv, Calm, Drag
    <3> QED
      BY <3>1, <3>3 DEF HostsInv
  <2>2. CASE UNCHANGED hostVars
    BY <2>2 DEF hostVars, HostsInv, HostsTyped, StoredTyped, ListsTyped, DialogTyped,
                ReqsTyped, QuietInv, TrustInv, CalmInv, DragInv, Dirty, Gone, Rows,
                Hosts!Dragging
  <2> QED
    BY <2>1, <2>2 DEF Next, HostsStep, UsersStep, LogsStep, SessionStep, vars
<1>3. HostsInv => HostsShowStored
  <2> SUFFICES ASSUME HostsInv, reqs = <<>>, listing = Hosts!NoFetch, ~suspect
               PROVE  Hosts!ToSet(hosts) = stored
    BY DEF HostsShowStored, Hosts!HostsShowStored
  <2>1. ~Hosts!Dragging /\ ~Dirty /\ listing.at = "none"
    BY DEF Hosts!Dragging, Dirty, Hosts!NoFetch
  <2> QED
    BY <2>1 DEF HostsInv, TrustInv, CalmInv
<1> QED
  BY <1>1, <1>2, <1>3, PTL DEF Spec

-----------------------------------------------------------------------------
(* Sorting.  The table and the queries sort lists by linear orders: a      *)
(* finite set can be listed in one, and in one way.                        *)

\* A list in the order of a relation.
InOrder(q, R) == \A i, j \in DOMAIN q : i < j => <<q[i], q[j]>> \in R

\* A strict linear order of S.
Linear(R, S) ==
  /\ \A x \in S : <<x, x>> \notin R
  /\ \A x, y, z \in S : <<x, y>> \in R /\ <<y, z>> \in R => <<x, z>> \in R
  /\ \A x, y \in S : x # y => <<x, y>> \in R \/ <<y, x>> \in R

\* The elements of S, each once.
Lists(q, S) ==
  /\ q \in Seq(S)
  /\ \A i, j \in DOMAIN q : i # j => q[i] # q[j]
  /\ \A x \in S : \E i \in DOMAIN q : q[i] = x

\* The places of a list of n elements.
LEMMA PlacesAre ==
  ASSUME NEW n \in Nat
  PROVE  IsFiniteSet(1 .. n) /\ Cardinality(1 .. n) = n
<1>1. Cardinality(1 .. n) = IF 1 > n THEN 0 ELSE n - 1 + 1
  BY FS_Interval
<1> QED
  BY <1>1, FS_Interval

\* A list of a finite set is as long as the set, and one of those the library gives.
LEMMA ListsIs ==
  ASSUME NEW S, IsFiniteSet(S), NEW q, Lists(q, S)
  PROVE  q \in Hosts!SetToSeqs(S) /\ Len(q) = Cardinality(S) /\ Hosts!ToSet(q) = S
<1> DEFINE c == Cardinality(S)
           D == 1 .. Len(q)
<1>1. c \in Nat /\ Hosts!Cardinality(S) = c
  BY FS_CardinalityType DEF Hosts!Cardinality, Cardinality
<1>2. Len(q) \in Nat /\ DOMAIN q = D /\ q \in [D -> S]
  BY LenProperties DEF Lists
<1>3. IsFiniteSet(D) /\ Cardinality(D) = Len(q)
  BY <1>2, PlacesAre
<1> HIDE DEF c, D
<1>4. q \in Injection(D, S)
  BY <1>2, Fun_IsInj DEF Lists
<1>5. q \in Surjection(D, S)
  <2>1. \A x \in S : \E i \in D : q[i] = x
    BY <1>2 DEF Lists
  <2> QED
    BY <1>2, <2>1 DEF Surjection
<1>6. Len(q) = c
  <2>1. Cardinality(D) <= Cardinality(S)
    BY <1>3, <1>4, FS_Injection
  <2>2. Cardinality(S) <= Cardinality(D)
    BY <1>3, <1>5, FS_Surjection
  <2> QED
    BY <1>1, <1>2, <1>3, <2>1, <2>2 DEF c
<1>7. q \in [1 .. c -> S] /\ \A i, j \in 1 .. c : i # j => q[i] # q[j]
  BY <1>2, <1>6 DEF D, Lists
<1>8. q \in Hosts!SetToSeqs(S)
  BY <1>1, <1>7 DEF Hosts!SetToSeqs
<1>9. Hosts!ToSet(q) = S
  <2>1. \A i \in DOMAIN q : q[i] \in S
    BY <1>2
  <2>2. Hosts!ToSet(q) = {q[i] : i \in DOMAIN q}
    BY DEF Hosts!ToSet
  <2> QED
    BY <2>1, <2>2 DEF Lists
<1> QED
  BY <1>6, <1>8, <1>9 DEF c

\* What the library gives are such lists.
LEMMA ListIs ==
  ASSUME NEW S, IsFiniteSet(S), NEW q \in Hosts!SetToSeqs(S)
  PROVE  Lists(q, S)
<1> DEFINE c == Cardinality(S)
<1>1. c \in Nat /\ Hosts!Cardinality(S) = c
  BY FS_CardinalityType DEF Hosts!Cardinality, Cardinality
<1> HIDE DEF c
<1>4. q \in [1 .. c -> S] /\ \A i, j \in 1 .. c : i # j => q[i] # q[j]
  BY <1>1 DEF Hosts!SetToSeqs
<1>5. q \in Injection(1 .. c, S)
  BY <1>4, Fun_IsInj
<1>6. IsFiniteSet(1 .. c) /\ Cardinality(1 .. c) = c
  BY <1>1, PlacesAre
<1>7. q \in Surjection(1 .. c, S)
  <2> DEFINE D == 1 .. c
  <2>1. q \in Injection(D, S) /\ Cardinality(D) = Cardinality(S)
    BY <1>5, <1>6 DEF c
  <2> HIDE DEF D
  <2>2. q \in Surjection(D, S)
    BY <1>1, <2>1, FS_Injection
  <2> QED
    BY <2>2 DEF D
<1>8. q \in Seq(S) /\ DOMAIN q = 1 .. c
  BY <1>1, <1>4
<1>9. \A x \in S : \E i \in DOMAIN q : q[i] = x
  <2> DEFINE D == 1 .. c
  <2>0. q \in Surjection(D, S)
    BY <1>7
  <2> HIDE DEF D
  <2>1. \A t \in S : \E i \in D : q[i] = t
    BY <2>0, Fun_SurjectionProperties
  <2> USE DEF D
  <2> QED
    BY <1>8, <2>1
<1> QED
  BY <1>4, <1>8, <1>9 DEF Lists

\* There is one way to list a set in a linear order.
LEMMA SortedOnce ==
  ASSUME NEW S, NEW R, Linear(R, S), NEW q, NEW r,
         Lists(q, S), InOrder(q, R), Lists(r, S), InOrder(r, R), Len(q) = Len(r)
  PROVE  q = r
<1> DEFINE n == Len(q)
           Bad == {i \in 1 .. n : q[i] # r[i]}
<1>1. n \in Nat /\ DOMAIN q = 1 .. n /\ DOMAIN r = 1 .. n
  BY LenProperties DEF Lists
<1>2. /\ \A i \in 1 .. n : q[i] \in S /\ r[i] \in S
      /\ q = [i \in 1 .. n |-> q[i]] /\ r = [i \in 1 .. n |-> r[i]]
  <2>1. q \in [1 .. n -> S] /\ r \in [1 .. n -> S]
    BY <1>1, LenProperties DEF Lists
  <2> QED
    BY <2>1
<1> HIDE DEF n
<1>3. ASSUME Bad # {}
      PROVE  FALSE
  <2>1. PICK i \in Bad : \A j \in Bad : ~(j < i)
    <3> DEFINE L == OpToRel(<, Nat)
    <3>1. Bad \subseteq Nat
      BY <1>1
    <3> HIDE DEF L, Bad
    <3>2. PICK i \in Bad : \A j \in Bad : ~(<<j, i>> \in L)
      BY <1>3, <3>1, NatLessThanWellFounded, WFMin DEF L
    <3>3. \A j \in Bad : ~(j < i)
      BY <3>1, <3>2 DEF OpToRel, L
    <3> QED
      BY <3>2, <3>3
  <2>2. i \in 1 .. n /\ q[i] # r[i] /\ \A j \in 1 .. n : j < i => q[j] = r[j]
    BY <1>1, <2>1
  <2>3. PICK j \in 1 .. n : r[j] = q[i]
    BY <1>1, <1>2, <2>2 DEF Lists
  <2>4. PICK k \in 1 .. n : q[k] = r[i]
    BY <1>1, <1>2, <2>2 DEF Lists
  <2>5. j > i
    <3>1. j # i
      BY <2>2, <2>3
    <3>2. CASE j < i
      <4>1. q[j] = q[i] /\ j # i
        BY <2>2, <2>3, <3>2
      <4> QED
        BY <1>1, <2>2, <4>1 DEF Lists
    <3> QED
      BY <1>1, <2>2, <3>1, <3>2
  <2>6. k > i
    <3>1. k # i
      BY <2>2, <2>4
    <3>2. CASE k < i
      <4>1. r[k] = r[i] /\ k # i
        BY <2>2, <2>4, <3>2
      <4> QED
        BY <1>1, <2>2, <4>1 DEF Lists
    <3> QED
      BY <1>1, <2>2, <3>1, <3>2
  <2>7. <<r[i], q[i]>> \in R
    BY <1>1, <2>2, <2>3, <2>5 DEF InOrder
  <2>8. <<q[i], r[i]>> \in R
    BY <1>1, <2>2, <2>4, <2>6 DEF InOrder
  <2> QED
    BY <1>2, <2>2, <2>7, <2>8 DEF Linear
<1> QED
  BY <1>1, <1>2, <1>3

\* The greatest element goes to the end.
LEMMA LongerList ==
  ASSUME NEW T, NEW y \in T, NEW R, NEW q, Lists(q, T \ {y}), InOrder(q, R),
         \A x \in T \ {y} : <<x, y>> \in R
  PROVE  Lists(Append(q, y), T) /\ InOrder(Append(q, y), R)
<1> DEFINE n == Len(q)
           a == Append(q, y)
<1>1. n \in Nat /\ DOMAIN q = 1 .. n /\ \A i \in 1 .. n : q[i] \in T \ {y}
  BY LenProperties, ElementOfSeq DEF Lists
<1>2. q \in Seq(T)
  BY SeqMonotonic DEF Lists
<1>3. /\ a \in Seq(T) /\ Len(a) = n + 1
      /\ \A i \in 1 .. n : a[i] = q[i]
      /\ a[n + 1] = y
  BY <1>2, AppendProperties
<1> HIDE DEF a, n
<1>4. DOMAIN a = 1 .. n + 1
  BY <1>3, LenProperties
<1>5. ASSUME NEW i \in DOMAIN a, NEW j \in DOMAIN a, i < j
      PROVE  <<a[i], a[j]>> \in R /\ a[i] # a[j]
  <2>1. i \in 1 .. n
    BY <1>1, <1>4, <1>5
  <2>2. CASE j = n + 1
    BY <1>1, <1>3, <2>1, <2>2
  <2>3. CASE j \in 1 .. n
    BY <1>1, <1>3, <1>5, <2>1, <2>3 DEF InOrder, Lists
  <2> QED
    BY <1>1, <1>4, <2>2, <2>3
<1>6. \A i, j \in DOMAIN a : i # j => a[i] # a[j]
  <2>1. \A i, j \in DOMAIN a : i # j => i < j \/ j < i
    BY <1>1, <1>4
  <2> QED
    BY <1>5, <2>1
<1>7. \A x \in T : \E i \in DOMAIN a : a[i] = x
  <2>1. n + 1 \in DOMAIN a /\ \A i \in 1 .. n : i \in DOMAIN a
    BY <1>1, <1>4
  <2>2. \A x \in T \ {y} : \E i \in 1 .. n : q[i] = x
    BY <1>1 DEF Lists
  <2> QED
    BY <1>3, <2>1, <2>2
<1> QED
  BY <1>3, <1>5, <1>6, <1>7 DEF Lists, InOrder, a

\* A finite set can be listed in a linear order, by induction on its subsets.
LEMMA SortExists ==
  ASSUME NEW S, IsFiniteSet(S), NEW R, Linear(R, S)
  PROVE  \E q : Lists(q, S) /\ InOrder(q, R)
<1> DEFINE Good(T) == \E q : Lists(q, T) /\ InOrder(q, R)
           Bad == {T \in SUBSET S : ~Good(T)}
<1>1. CASE Bad = {}
  BY <1>1
<1>2. CASE Bad # {}
  <2>1. IsWellFoundedOn(StrictSubsetOrdering(S), SUBSET S)
    BY FS_StrictSubsetOrderingWellFounded, FS_FiniteSubsetsOfFinite
  <2>2. PICK T \in Bad : \A B \in Bad : ~(<<B, T>> \in StrictSubsetOrdering(S))
    BY <1>2, <2>1, WFMin
  <2>0. T \subseteq S /\ ~Good(T)
    BY <2>2
  <2>3. \A x \in T : Good(T \ {x})
    <3>1. ASSUME NEW x \in T PROVE Good(T \ {x})
      <4>1. <<T \ {x}, T>> \in StrictSubsetOrdering(S)
        BY <2>0, <3>1 DEF StrictSubsetOrdering
      <4>2. T \ {x} \in SUBSET S
        BY <2>0
      <4> QED
        BY <2>2, <4>1, <4>2
    <3> QED
      BY <3>1
  <2>4. CASE T = {}
    <3>1. Lists(<<>>, {}) /\ InOrder(<<>>, R)
      BY DEF Lists, InOrder
    <3> QED
      BY <2>0, <2>4, <3>1
  <2>5. CASE T # {}
    <3>1. PICK x \in T : TRUE
      BY <2>5
    <3>2. Good(T \ {x})
      BY <2>3
    <3>3. PICK q : Lists(q, T \ {x}) /\ InOrder(q, R)
      BY <3>2
    <3> DEFINE n == Len(q)
    <3>4. n \in Nat /\ DOMAIN q = 1 .. n /\ \A i \in 1 .. n : q[i] \in T \ {x}
      BY <3>3, LenProperties, ElementOfSeq DEF Lists
    <3> HIDE DEF n
    <3>5. PICK y \in T : \A z \in T \ {y} : <<z, y>> \in R
      <4>1. CASE n = 0
        <5>1. T \ {x} = {}
          BY <3>3, <3>4, <4>1 DEF Lists
        <5> QED
          BY <3>1, <5>1
      <4>2. CASE n > 0 /\ <<q[n], x>> \in R
        <5>1. ASSUME NEW z \in T \ {x} PROVE <<z, x>> \in R
          <6>1. PICK i \in 1 .. n : q[i] = z
            BY <3>3, <3>4, <5>1 DEF Lists
          <6>2. z = q[n] \/ <<z, q[n]>> \in R
            <7>1. i = n \/ i < n
              BY <3>4, <6>1
            <7>2. n \in 1 .. n
              BY <3>4, <4>2
            <7>3. CASE i < n
              <8>1. i \in DOMAIN q /\ n \in DOMAIN q
                BY <3>4, <6>1, <7>2
              <8>2. <<q[i], q[n]>> \in R
                BY <3>3, <7>3, <8>1 DEF InOrder
              <8> QED
                BY <6>1, <8>2
            <7> QED
              BY <6>1, <7>1, <7>3
          <6>3. q[n] \in S /\ z \in S /\ x \in S
            BY <2>0, <3>1, <3>4, <4>2, <5>1
          <6> QED
            BY <4>2, <6>2, <6>3 DEF Linear
        <5> QED
          BY <3>1, <5>1
      <4>3. CASE n > 0 /\ <<q[n], x>> \notin R
        <5>0. n \in 1 .. n
          BY <3>4, <4>3
        <5>1. q[n] \in T /\ q[n] # x /\ q[n] \in S /\ x \in S
          BY <2>0, <3>1, <3>4, <5>0
        <5>2. <<x, q[n]>> \in R
          BY <4>3, <5>1 DEF Linear
        <5>3. ASSUME NEW z \in T \ {q[n]} PROVE <<z, q[n]>> \in R
          <6>1. CASE z = x
            BY <5>2, <6>1
          <6>2. CASE z # x
            <7>1. PICK i \in 1 .. n : q[i] = z
              BY <3>3, <3>4, <5>3, <6>2 DEF Lists
            <7>2. i < n
              BY <3>4, <5>3, <7>1
            <7> QED
              BY <3>3, <3>4, <5>0, <7>1, <7>2 DEF InOrder
          <6> QED
            BY <6>1, <6>2
        <5> QED
          BY <5>1, <5>3
      <4> QED
        BY <3>4, <4>1, <4>2, <4>3
    <3>6. PICK r : Lists(r, T \ {y}) /\ InOrder(r, R)
      BY <2>3
    <3>7. Lists(Append(r, y), T) /\ InOrder(Append(r, y), R)
      BY <3>5, <3>6, LongerList
    <3> QED
      BY <2>0, <3>7
  <2> QED
    BY <2>4, <2>5
<1> QED
  BY <1>1, <1>2

-----------------------------------------------------------------------------
(* The drop.                                                               *)

\* A list as the query sorts it.
ByPriority(q) == \A i, j \in DOMAIN q : i < j => q[i].priority <= q[j].priority

\* Every list the page has, shows or may go back to is sorted.
OrderInv ==
  /\ ByPriority(data) /\ ByPriority(hosts) /\ ByPriority(listing.list)
  /\ \A i \in DOMAIN reqs : ByPriority(reqs[i].prev) /\ ByPriority(reqs[i].next)

\* The order of the table.
TableOrder(S) ==
  {p \in S \X S : \/ p[1].priority < p[2].priority
                  \/ p[1].priority = p[2].priority /\ p[1].id < p[2].id}

\* Priority and then id order the hosts of a list linearly.
LEMMA TableOrderIs ==
  ASSUME NEW n, NEW q, Known(q, n)
  PROVE  LET S == Hosts!ToSet(q) IN
         Linear(TableOrder(S), S) /\ Lists(q, S) /\ IsFiniteSet(S)
<1> DEFINE S == Hosts!ToSet(q)
<1>1. q \in Seq(Hosts!Host) /\ \A i \in DOMAIN q : q[i] \in Hosts!Host
  BY LenProperties, ElementOfSeq DEF Known
<1>2. S = {q[i] : i \in DOMAIN q}
  BY DEF Hosts!ToSet
<1>3. IsFiniteSet(S)
  BY <1>1, ListFinite
<1>4. q \in Seq(S)
  <2>1. q \in [1 .. Len(q) -> S] /\ Len(q) \in Nat
    BY <1>1, <1>2, LenProperties
  <2> QED
    BY <2>1
<1>5. Lists(q, S)
  BY <1>2, <1>4 DEF Lists, Known
<1>6. \A g, h \in S : g.id = h.id => g = h
  BY <1>2 DEF Known
<1>7. \A g \in S : g.id \in Nat /\ g.priority \in Nat
  BY <1>1, <1>2 DEF Hosts!Host
<1> HIDE DEF S
<1>8. Linear(TableOrder(S), S)
  <2>1. \A g, h \in S : <<g, h>> \in TableOrder(S) <=>
          (\/ g.priority < h.priority
           \/ g.priority = h.priority /\ g.id < h.id)
    BY DEF TableOrder
  <2>2. \A g \in S : <<g, g>> \notin TableOrder(S)
    BY <1>7, <2>1
  <2>3. \A g, h \in S : g # h => <<g, h>> \in TableOrder(S) \/ <<h, g>> \in TableOrder(S)
    <3> SUFFICES ASSUME NEW g \in S, NEW h \in S, g # h
                 PROVE  <<g, h>> \in TableOrder(S) \/ <<h, g>> \in TableOrder(S)
      OBVIOUS
    <3>1. g.id # h.id /\ g.id \in Nat /\ h.id \in Nat /\ g.priority \in Nat /\ h.priority \in Nat
      BY <1>6, <1>7
    <3>2. \/ g.priority < h.priority \/ h.priority < g.priority
          \/ g.priority = h.priority /\ (g.id < h.id \/ h.id < g.id)
      BY <3>1
    <3> QED
      BY <2>1, <3>2
  <2>4. ASSUME NEW f \in S, NEW g \in S, NEW h \in S,
               <<f, g>> \in TableOrder(S), <<g, h>> \in TableOrder(S)
        PROVE  <<f, h>> \in TableOrder(S)
    <3>1. f.priority < g.priority \/ (f.priority = g.priority /\ f.id < g.id)
      <4>1. <<f, g>> \in TableOrder(S) <=>
              (f.priority < g.priority \/ (f.priority = g.priority /\ f.id < g.id))
        BY <2>1
      <4> QED
        BY <2>4, <4>1
    <3>2. g.priority < h.priority \/ (g.priority = h.priority /\ g.id < h.id)
      <4>1. <<g, h>> \in TableOrder(S) <=>
              (g.priority < h.priority \/ (g.priority = h.priority /\ g.id < h.id))
        BY <2>1
      <4> QED
        BY <2>4, <4>1
    <3>0. /\ f.priority \in Nat /\ g.priority \in Nat /\ h.priority \in Nat
          /\ f.id \in Nat /\ g.id \in Nat /\ h.id \in Nat
      BY <1>7
    <3>3. f.priority < h.priority \/ (f.priority = h.priority /\ f.id < h.id)
      BY <3>0, <3>1, <3>2
    <3> QED
      BY <2>1, <3>3
  <2> QED
    BY <2>2, <2>3, <2>4 DEF Linear
<1> QED
  BY <1>3, <1>5, <1>8 DEF S

\* The table shows a list that is in strict order as it is.
LEMMA ShownAsIs ==
  ASSUME NEW n, NEW q, Known(q, n),
         \A i, j \in DOMAIN q : i < j => q[i].priority < q[j].priority
  PROVE  Hosts!sortedHosts(q) = q
<1> DEFINE S == Hosts!ToSet(q)
           Table1(r) == \A i, j \in DOMAIN r :
                          i < j => \/ r[i].priority < r[j].priority
                                   \/ r[i].priority = r[j].priority /\ r[i].id < r[j].id
           s == Hosts!sortedHosts(q)
<1>1. Linear(TableOrder(S), S) /\ Lists(q, S) /\ IsFiniteSet(S)
  BY TableOrderIs
<1> HIDE DEF S
<1>2. q \in Hosts!SetToSeqs(S) /\ Len(q) = Cardinality(S)
  BY <1>1, ListsIs
<1>3. Table1(q)
  OBVIOUS
<1>4. s = CHOOSE r \in Hosts!SetToSeqs(S) : Table1(r)
  BY DEF Hosts!sortedHosts, S
<1> HIDE DEF s, Table1
<1>5. s \in Hosts!SetToSeqs(S) /\ Table1(s)
  BY <1>2, <1>3, <1>4
<1>6. Lists(s, S) /\ Len(s) = Cardinality(S)
  BY <1>1, <1>5, ListIs, ListsIs
<1>7. ASSUME NEW r, Lists(r, S), Table1(r)
      PROVE  InOrder(r, TableOrder(S))
  <2>1. \A i \in DOMAIN r : r[i] \in S
    BY <1>7, ElementOfSeq, LenProperties DEF Lists
  <2> QED
    BY <1>7, <2>1 DEF InOrder, TableOrder, Table1
<1>8. s = q
  BY <1>1, <1>2, <1>3, <1>5, <1>6, <1>7, SortedOnce
<1> QED
  BY <1>8 DEF s

\* A sorted list with as many priorities as hosts is in strict order.
LEMMA PrioritiesDiffer ==
  ASSUME NEW n, NEW q, Known(q, n), ByPriority(q),
         Hosts!Cardinality({h.priority : h \in Hosts!ToSet(q)}) = Len(q)
  PROVE  \A i, j \in DOMAIN q : i < j => q[i].priority < q[j].priority
<1> DEFINE D == 1 .. Len(q)
           P == {q[i].priority : i \in D}
           f == [i \in D |-> q[i].priority]
<1>1. Len(q) \in Nat /\ DOMAIN q = D /\ \A i \in D : q[i] \in Hosts!Host
  BY LenProperties, ElementOfSeq DEF Known
<1>2. {h.priority : h \in Hosts!ToSet(q)} = P
  <2>1. Hosts!ToSet(q) = {q[i] : i \in D}
    BY <1>1 DEF Hosts!ToSet
  <2> QED
    BY <2>1
<1>3. Cardinality(P) = Len(q)
  <2>1. Hosts!Cardinality(P) = Len(q)
    BY <1>2
  <2> QED
    BY <2>1 DEF Hosts!Cardinality, Cardinality
<1>4. IsFiniteSet(D) /\ Cardinality(D) = Len(q)
  BY <1>1, PlacesAre
<1>5. f \in Surjection(D, P)
  <2>1. f \in [D -> P]
    OBVIOUS
  <2>2. \A p \in P : \E i \in D : f[i] = p
    OBVIOUS
  <2> QED
    BY <2>1, <2>2 DEF Surjection
<1>6. \A i \in D : f[i] = q[i].priority
  OBVIOUS
<1> HIDE DEF D, P, f
<1>7. f \in Injection(D, P)
  BY <1>3, <1>4, <1>5, FS_Surjection
<1>8. \A i, j \in D : i # j => f[i] # f[j]
  BY <1>7 DEF Injection, IsInjective
<1>9. \A i \in D : q[i].priority \in Nat /\ i \in Int
  BY <1>1 DEF Hosts!Host, D
<1> QED
  BY <1>1, <1>6, <1>8, <1>9 DEF ByPriority

\* A request after a step is one from before it, or new.
LEMMA RequestsCome ==
  ASSUME HostsTyped, Hosts!HostsNext
  PROVE  \A k \in DOMAIN reqs' :
           \/ \E j \in DOMAIN reqs :
                /\ reqs'[k].op = reqs[j].op /\ (reqs'[k].here => reqs[j].here)
                /\ reqs'[k].prev = reqs[j].prev /\ reqs'[k].next = reqs[j].next
           \/ /\ reqs'[k].op # "reorder"
              /\ reqs'[k].prev = <<>> /\ reqs'[k].next = <<>>
           \/ /\ \E from, to \in DOMAIN hosts : Hosts!handleDragEnd(from, to)
              /\ reqs'[k].prev = hosts /\ reqs'[k].next = hosts'
<1> DEFINE Old(k) == \E j \in DOMAIN reqs :
                       /\ reqs'[k].op = reqs[j].op /\ (reqs'[k].here => reqs[j].here)
                       /\ reqs'[k].prev = reqs[j].prev /\ reqs'[k].next = reqs[j].next
           Plain(k) == /\ reqs'[k].op # "reorder"
                       /\ reqs'[k].prev = <<>> /\ reqs'[k].next = <<>>
           Drag1(k) == /\ \E from, to \in DOMAIN hosts : Hosts!handleDragEnd(from, to)
                       /\ reqs'[k].prev = hosts /\ reqs'[k].next = hosts'
           Goal == \A k \in DOMAIN reqs' : Old(k) \/ Plain(k) \/ Drag1(k)
<1>0. ReqsTyped
  BY DEF HostsTyped
<1>1. ASSUME reqs' = reqs
      PROVE  Goal
  <2>1. \A k \in DOMAIN reqs' : Old(k)
    BY <1>1
  <2> QED
    BY <2>1
<1>2. ASSUME NEW i \in DOMAIN reqs, NEW a \in {"ok", "failed"}, reqs' = WithAnswer(i, a)
      PROVE  Goal
  <2>1. \A k \in DOMAIN reqs' : Old(k)
    BY <1>0, <1>2, AnswersIs
  <2> QED
    BY <2>1
<1>3. ASSUME NEW i \in DOMAIN reqs, Hosts!Serve(i)
      PROVE  Goal
  <2> DEFINE r == reqs[i]
  <2>1. r \in Requests(nextId)
    BY <1>0, RequestAt
  <2> HIDE DEF r
  <2>2. CASE \E a \in {"ok", "failed"} : reqs' = WithAnswer(i, a)
    BY <1>2, <2>2
  <2>3. CASE r.op = "reorder" /\ r.answer = "none" /\ reqs' = [reqs EXCEPT ![i] = Stepped(r)]
    <3> DEFINE s == Stepped(r)
    <3>1. s \in Requests(nextId) /\ s.op = r.op /\ s.here = r.here /\ s.next = r.next
             /\ s.prev = r.prev
      BY <2>1, <2>3, RequestStepped
    <3> HIDE DEF s
    <3>2. reqs' = [reqs EXCEPT ![i] = s]
      BY <2>3 DEF s
    <3>3. /\ DOMAIN reqs' = DOMAIN reqs
          /\ \A k \in DOMAIN reqs : reqs'[k] = IF k = i THEN s ELSE reqs[k]
      BY <1>0, <3>1, <3>2, RequestReplaced
    <3>4. \A k \in DOMAIN reqs' : Old(k)
      BY <3>1, <3>3 DEF r
    <3> QED
      BY <3>4
  <2> QED
    <3>1. \/ reqs' = WithAnswer(i, "ok") \/ reqs' = WithAnswer(i, "failed")
          \/ (r.op = "reorder" /\ r.answer = "none" /\ reqs' = [reqs EXCEPT ![i] = Stepped(r)])
      BY <1>3, ServeIs DEF r
    <3> QED
      BY <2>2, <2>3, <3>1
<1>4. ASSUME NEW i \in DOMAIN reqs, Hosts!RequestFails(i)
      PROVE  Goal
  <2>1. reqs' = WithAnswer(i, "failed")
    BY <1>4 DEF Hosts!RequestFails, WithAnswer
  <2> QED
    BY <1>2, <2>1
<1>5. ASSUME NEW i \in DOMAIN reqs, Hosts!Answered(i)
      PROVE  Goal
  <2>1. reqs' = Hosts!RemoveAt(reqs, i)
    BY <1>5 DEF Hosts!Answered
  <2>2. \A k \in DOMAIN reqs' : \E j \in DOMAIN reqs \ {i} : reqs'[k] = reqs[j]
    BY <1>0, <2>1, RequestRemoved
  <2>3. \A k \in DOMAIN reqs' : Old(k)
    BY <2>2
  <2> QED
    BY <2>3
<1>6. ASSUME Hosts!Remount
      PROVE  Goal
  <2>1. reqs' = [i \in DOMAIN reqs |-> [reqs[i] EXCEPT !.here = FALSE]]
    BY <1>6 DEF Hosts!Remount
  <2>2. ASSUME NEW k \in DOMAIN reqs'
        PROVE  Old(k)
    <3>1. k \in DOMAIN reqs /\ reqs'[k] = [reqs[k] EXCEPT !.here = FALSE]
      BY <2>1, <2>2
    <3>2. reqs[k] \in Requests(nextId)
      BY <1>0, <3>1, RequestAt
    <3> DEFINE r == reqs[k]
    <3>3. r \in [op : {"create", "modify", "remove", "disable", "enable", "reorder"},
                 rows : Seq(Hosts!Host), ids : SUBSET Nat, prev : Seq(Hosts!Host),
                 next : Seq(Hosts!Host), here : BOOLEAN, answer : {"none", "ok", "failed"}]
      BY <3>2 DEF Requests
    <3> HIDE DEF r
    <3>4. LET s == [r EXCEPT !.here = FALSE]
          IN s.op = r.op /\ s.here = FALSE /\ s.prev = r.prev /\ s.next = r.next
      BY <3>3
    <3> QED
      BY <3>1, <3>4 DEF r
  <2> QED
    BY <2>2
<1>7. ASSUME NEW op, NEW rows, NEW ids, Sends(op, rows, ids)
      PROVE  Goal
  <2> DEFINE r == Hosts!Request(op, rows, ids)
  <2>1. r \in Requests(nextId) /\ r.op = op
    BY <1>7, RequestMade DEF Sends
  <2>2. reqs' = Append(reqs, r) /\ op # "reorder"
    BY <1>7 DEF Sends, Hosts!Send
  <2>3. r.prev = <<>> /\ r.next = <<>>
    BY DEF Hosts!Request
  <2> HIDE DEF r
  <2>4. \A k \in DOMAIN reqs' : reqs'[k] = r \/ (k \in DOMAIN reqs /\ reqs'[k] = reqs[k])
    BY <1>0, <2>1, <2>2, RequestAppended
  <2>5. \A k \in DOMAIN reqs' : Old(k) \/ Plain(k)
    BY <2>1, <2>2, <2>3, <2>4
  <2> QED
    BY <2>5
<1>8. ASSUME NEW from \in DOMAIN hosts, NEW to \in DOMAIN hosts, Hosts!handleDragEnd(from, to)
      PROVE  Goal
  <2>1. PICK r \in Requests(nextId) :
          /\ reqs' = Append(reqs, r) /\ r.prev = hosts /\ r.next = hosts'
    BY <1>8, DragIs
  <2>2. \A k \in DOMAIN reqs' : reqs'[k] = r \/ (k \in DOMAIN reqs /\ reqs'[k] = reqs[k])
    BY <1>0, <2>1, RequestAppended
  <2>3. ASSUME NEW k \in DOMAIN reqs'
        PROVE  Old(k) \/ Drag1(k)
    BY <1>8, <2>1, <2>2
  <2> QED
    BY <2>3
<1>9. \/ Hosts!OtherAdmin \/ Hosts!FetchServed \/ Hosts!FetchArrives \/ Hosts!FetchFails
      \/ Hosts!handleRefreshClick
      \/ Hosts!handleCreateClick \/ Hosts!CloseDialog
      \/ (\E h \in Hosts!ToSet(hosts) : Hosts!handleEdit(h))
      => reqs' = reqs
  BY DEF Hosts!OtherAdmin, Hosts!FetchServed, Hosts!FetchArrives, Hosts!FetchFails,
         Hosts!handleRefreshClick, Hosts!handleCreateClick, Hosts!CloseDialog,
         Hosts!handleEdit
<1> HIDE DEF Goal
<1>10. Goal
  BY <1>1, <1>3, <1>4, <1>5, <1>6, <1>7, <1>8, <1>9, HostsSteps, OperationSends
<1> QED
  BY <1>10 DEF Goal

\* The list after a drag: renumbered from the top.
LEMMA DraggedOrder ==
  ASSUME NEW n, NEW q, Known(q, n), NEW from \in DOMAIN q, NEW to \in DOMAIN q
  PROVE  LET d == Hosts!Dragged(q, from, to) IN
         /\ \A i, j \in DOMAIN d : i < j => d[i].priority < d[j].priority
         /\ DOMAIN d = DOMAIN q
         /\ \A k \in DOMAIN q : d[k].id = Hosts!arrayMove(q, from, to)[k].id
<1> DEFINE m == Hosts!arrayMove(q, from, to)
           d == Hosts!Dragged(q, from, to)
           c == Len(q)
<1>1. q \in Seq(Hosts!Host) /\ c \in Nat /\ DOMAIN q = 1 .. c
  BY LenProperties DEF Known
<1>2. m \in Seq(Hosts!Host) /\ Len(m) = c
  BY <1>1, MoveIs
<1>3. d = [i \in DOMAIN m |-> [m[i] EXCEPT !.priority = i - 1]]
  BY DEF Hosts!Dragged, Hosts!Renumbered
<1> HIDE DEF m, d, c
<1>4. DOMAIN m = 1 .. c /\ \A i \in 1 .. c : m[i] \in Hosts!Host
  BY <1>2, LenProperties, ElementOfSeq
<1>5. DOMAIN d = 1 .. c
  BY <1>3, <1>4
<1>6. \A i \in 1 .. c : d[i].priority = i - 1 /\ d[i].id = m[i].id
  <2> SUFFICES ASSUME NEW i \in 1 .. c
               PROVE  d[i].priority = i - 1 /\ d[i].id = m[i].id
    OBVIOUS
  <2>1. d[i] = [m[i] EXCEPT !.priority = i - 1]
    BY <1>3, <1>4
  <2>2. m[i] \in Hosts!Host
    BY <1>4
  <2> QED
    BY <2>1, <2>2 DEF Hosts!Host
<1>7. \A i, j \in DOMAIN d : i < j => d[i].priority < d[j].priority
  <2> SUFFICES ASSUME NEW i \in 1 .. c, NEW j \in 1 .. c, i < j
               PROVE  d[i].priority < d[j].priority
    BY <1>5
  <2>1. i \in Int /\ j \in Int
    BY <1>1
  <2> QED
    BY <1>6, <2>1
<1> QED
  BY <1>1, <1>5, <1>6, <1>7 DEF m, d

\* A drag leaves the list in strict order of the priorities it gives out.
LEMMA DragIsSorted ==
  ASSUME HostsTyped, NEW from \in DOMAIN hosts, NEW to \in DOMAIN hosts,
         Hosts!handleDragEnd(from, to)
  PROVE  /\ hosts' = Hosts!Dragged(hosts, from, to)
         /\ \A i, j \in DOMAIN hosts' : i < j => hosts'[i].priority < hosts'[j].priority
         /\ ByPriority(hosts')
         /\ UNCHANGED <<data, listing>>
<1>1. Known(hosts, nextId)
  BY DEF HostsTyped, ListsTyped
<1>2. hosts' = Hosts!Dragged(hosts, from, to)
  BY DEF Hosts!handleDragEnd
<1>3. \A i, j \in DOMAIN hosts' : i < j => hosts'[i].priority < hosts'[j].priority
  BY <1>1, <1>2, DraggedOrder
<1>4. Known(hosts', nextId)
  BY DragIs
<1>5. \A i \in DOMAIN hosts' : hosts'[i].priority \in Nat
  <2>1. \A i \in DOMAIN hosts' : hosts'[i] \in Hosts!Host
    BY <1>4, LenProperties, ElementOfSeq DEF Known
  <2> QED
    BY <2>1 DEF Hosts!Host
<1>6. ByPriority(hosts')
  BY <1>3, <1>5 DEF ByPriority
<1>7. UNCHANGED <<data, listing>>
  BY DEF Hosts!handleDragEnd
<1> QED
  BY <1>2, <1>3, <1>6, <1>7

\* The lists stay sorted.
LEMMA OrderHolds ==
  ASSUME HostsTyped, OrderInv, Hosts!HostsNext
  PROVE  OrderInv'
<1>0. ByPriority(<<>>)
  BY DEF ByPriority
<1>1. ByPriority(hosts') /\ ByPriority(data') /\ ByPriority(listing'.list)
  <2>1. CASE UNCHANGED <<hosts, data, listing>>
    BY <2>1 DEF OrderInv
  <2>2. CASE Hosts!FetchServed
    <3>1. PICK list \in Hosts!get_hosts(stored) : listing' = Hosts!Got(list)
      BY <2>2 DEF Hosts!FetchServed
    <3>2. ByPriority(list)
      BY <3>1 DEF Hosts!get_hosts, ByPriority
    <3> QED
      BY <2>2, <3>1, <3>2 DEF OrderInv, Hosts!FetchServed, Hosts!Got
  <2>3. CASE Hosts!FetchArrives
    BY <1>0, <2>3 DEF OrderInv, Hosts!FetchArrives, Hosts!NoFetch
  <2>4. CASE Hosts!FetchFails
    BY <1>0, <2>4 DEF OrderInv, Hosts!FetchFails, Hosts!NoFetch
  <2>5. CASE Hosts!handleRefreshClick
    BY <1>0, <2>5 DEF OrderInv, Hosts!handleRefreshClick, Hosts!Refetched, Hosts!Waiting
  <2>6. CASE Hosts!Remount
    <3>1. hosts' = data /\ data' = data
      BY <2>6 DEF Hosts!Remount
    <3>2. listing' = Hosts!Waiting \/ listing' = listing
      BY <2>6 DEF Hosts!Remount, Hosts!Refetched
    <3> QED
      BY <1>0, <3>1, <3>2 DEF OrderInv, Hosts!Waiting
  <2>7. ASSUME NEW i \in DOMAIN reqs, Hosts!Answered(i)
        PROVE  ByPriority(hosts') /\ ByPriority(data') /\ ByPriority(listing'.list)
    <3>1. hosts' = hosts \/ hosts' = reqs[i].next \/ hosts' = reqs[i].prev
      BY <2>7 DEF Hosts!Answered, Hosts!DragAnswered
    <3>2. data' = data
      BY <2>7 DEF Hosts!Answered
    <3>3. listing' = Hosts!Waiting \/ listing' = listing
      BY <2>7 DEF Hosts!Answered, Hosts!Refetched
    <3> QED
      BY <1>0, <3>1, <3>2, <3>3 DEF OrderInv, Hosts!Waiting
  <2>8. ASSUME NEW from \in DOMAIN hosts, NEW to \in DOMAIN hosts,
               Hosts!handleDragEnd(from, to)
        PROVE  ByPriority(hosts') /\ ByPriority(data') /\ ByPriority(listing'.list)
    BY <2>8, DragIsSorted DEF OrderInv
  <2>9. \/ Hosts!OtherAdmin \/ Hosts!handleCreateClick \/ Hosts!CloseDialog
        \/ (\E h \in Hosts!ToSet(hosts) : Hosts!handleEdit(h))
        \/ (\E i \in DOMAIN reqs : Hosts!RequestFails(i))
        => UNCHANGED <<hosts, data, listing>>
    BY DEF Hosts!OtherAdmin, Hosts!handleCreateClick, Hosts!CloseDialog, Hosts!handleEdit,
           Hosts!RequestFails
  <2>10. (\E i \in DOMAIN reqs : Hosts!Serve(i)) => UNCHANGED <<hosts, data, listing>>
    BY ServeIs
  <2>11. (\E op, rows, ids : Sends(op, rows, ids)) => UNCHANGED <<hosts, data, listing>>
    BY DEF Sends, Hosts!Send
  <2> QED
    BY <2>1, <2>2, <2>3, <2>4, <2>5, <2>6, <2>7, <2>8, <2>9, <2>10, <2>11, HostsSteps,
       OperationSends
<1>2. ASSUME NEW k \in DOMAIN reqs'
      PROVE  ByPriority(reqs'[k].prev) /\ ByPriority(reqs'[k].next)
  <2>1. CASE \E j \in DOMAIN reqs :
               reqs'[k].prev = reqs[j].prev /\ reqs'[k].next = reqs[j].next
    BY <2>1 DEF OrderInv
  <2>2. CASE reqs'[k].prev = <<>> /\ reqs'[k].next = <<>>
    BY <1>0, <2>2
  <2>3. CASE reqs'[k].prev = hosts /\ reqs'[k].next = hosts'
    BY <1>1, <2>3 DEF OrderInv
  <2> QED
    BY <2>1, <2>2, <2>3, RequestsCome
<1> QED
  BY <1>1, <1>2 DEF OrderInv

\* The step that begins a drag is the drop.
LEMMA DragBeginsBusy ==
  ASSUME HostsTyped, Hosts!HostsNext, ~Hosts!busy, Hosts!busy'
  PROVE  \E from, to \in DOMAIN hosts : Hosts!handleDragEnd(from, to)
<1>1. PICK k \in DOMAIN reqs' : reqs'[k].op = "reorder" /\ reqs'[k].here
  BY DEF Hosts!busy
<1>2. ~\E j \in DOMAIN reqs : /\ reqs'[k].op = reqs[j].op
                              /\ (reqs'[k].here => reqs[j].here)
  BY <1>1 DEF Hosts!busy
<1> QED
  BY <1>1, <1>2, RequestsCome

\* The drop lands where it was shown.
LEMMA DropIsShown ==
  ASSUME HostsTyped, OrderInv, NEW from \in DOMAIN hosts, NEW to \in DOMAIN hosts,
         Hosts!handleDragEnd(from, to),
         Hosts!Cardinality({h.priority : h \in Hosts!ToSet(hosts)}) = Len(hosts)
  PROVE  LET IdsOf(s) == [i \in DOMAIN s |-> s[i].id]
             before   == IdsOf(Hosts!sortedHosts(hosts))
             after    == IdsOf(Hosts!sortedHosts(hosts'))
         IN \E i, j \in DOMAIN before : i # j /\ after = Hosts!arrayMove(before, i, j)
                                              /\ IdsOf(hosts') = after
<1> DEFINE b == [i \in DOMAIN hosts |-> hosts[i].id]
           a == [i \in DOMAIN hosts' |-> hosts'[i].id]
           m == Hosts!arrayMove(hosts, from, to)
           c == Len(hosts)
<1>1. Known(hosts, nextId) /\ Known(hosts', nextId) /\ from # to
  BY DragIs DEF HostsTyped, ListsTyped, Hosts!handleDragEnd
<1>2. Hosts!sortedHosts(hosts) = hosts
  <2>1. \A i, j \in DOMAIN hosts : i < j => hosts[i].priority < hosts[j].priority
    BY <1>1, PrioritiesDiffer DEF OrderInv
  <2> QED
    BY <1>1, <2>1, ShownAsIs
<1>3. Hosts!sortedHosts(hosts') = hosts'
  <2> DEFINE h == hosts'
  <2>1. Known(h, nextId) /\ \A i, j \in DOMAIN h : i < j => h[i].priority < h[j].priority
    BY <1>1, DragIsSorted
  <2> HIDE DEF h
  <2>2. Hosts!sortedHosts(h) = h
    BY <2>1, ShownAsIs
  <2> QED
    BY <2>2 DEF h
<1>4. /\ hosts \in Seq(Hosts!Host) /\ c \in Nat /\ DOMAIN hosts = 1 .. c
      /\ \A i \in 1 .. c : hosts[i].id \in Nat
  <2>1. hosts \in Seq(Hosts!Host) /\ c \in Nat /\ DOMAIN hosts = 1 .. c
    BY <1>1, LenProperties DEF Known
  <2>2. \A i \in 1 .. c : hosts[i] \in Hosts!Host
    BY <2>1, ElementOfSeq
  <2> QED
    BY <2>1, <2>2 DEF Hosts!Host
<1>5. DOMAIN hosts' = DOMAIN hosts /\ \A k \in DOMAIN hosts : hosts'[k].id = m[k].id
  <2> DEFINE d == Hosts!Dragged(hosts, from, to)
  <2>1. DOMAIN d = DOMAIN hosts /\ \A k \in DOMAIN hosts : d[k].id = m[k].id
    BY <1>1, DraggedOrder
  <2> HIDE DEF d, m
  <2>2. hosts' = d
    BY DragIsSorted DEF d
  <2> QED
    BY <2>1, <2>2
<1>6. \A k \in 1 .. c : m[k] = hosts[Place(from, to, k)]
  <2>1. from \in 1 .. Len(hosts) /\ to \in 1 .. Len(hosts) /\ hosts \in Seq(Hosts!Host)
    BY <1>4
  <2>2. \A k \in 1 .. Len(hosts) :
          Hosts!arrayMove(hosts, from, to)[k] = hosts[Place(from, to, k)]
    BY <2>1, MoveIs
  <2> QED
    BY <2>2
<1> HIDE DEF c, m
<1>7. b \in Seq(Nat) /\ Len(b) = c /\ DOMAIN b = 1 .. c /\ \A k \in 1 .. c : b[k] = hosts[k].id
  <2>1. b = [k \in 1 .. c |-> hosts[k].id]
    BY <1>4
  <2>2. b \in [1 .. c -> Nat] /\ \A k \in 1 .. c : b[k] = hosts[k].id
    BY <1>4, <2>1
  <2> HIDE DEF b
  <2> QED
    BY <1>4, <2>2
<1> HIDE DEF b
<1>8. /\ Hosts!arrayMove(b, from, to) \in Seq(Nat)
      /\ Len(Hosts!arrayMove(b, from, to)) = c
      /\ \A k \in 1 .. c : Hosts!arrayMove(b, from, to)[k] = b[Place(from, to, k)]
  <2>1. from \in 1 .. Len(b) /\ to \in 1 .. Len(b)
    BY <1>4, <1>7
  <2>2. /\ Hosts!arrayMove(b, from, to) \in Seq(Nat)
        /\ Len(Hosts!arrayMove(b, from, to)) = Len(b)
        /\ \A k \in 1 .. Len(b) : Hosts!arrayMove(b, from, to)[k] = b[Place(from, to, k)]
    BY <1>7, <2>1, MoveIs
  <2> QED
    BY <1>7, <2>2
<1>9. \A k \in 1 .. c : Place(from, to, k) \in 1 .. c
  <2>1. from \in 1 .. c /\ to \in 1 .. c
    BY <1>4
  <2>2. \A x, y \in 1 .. c : \A k \in 1 .. c : Place(x, y, k) \in 1 .. c
    BY <1>4, PlaceIs
  <2> QED
    BY <2>1, <2>2
<1>10. a = Hosts!arrayMove(b, from, to)
  <2> DEFINE v == Hosts!arrayMove(b, from, to)
  <2> HIDE DEF a
  <2>1. v = [k \in 1 .. c |-> v[k]]
    <3>1. v \in [1 .. c -> Nat]
      BY <1>8, LenProperties
    <3> QED
      BY <3>1
  <2>0. \A k \in 1 .. c : v[k] = b[Place(from, to, k)]
    BY <1>8
  <2> HIDE DEF v
  <2>2. ASSUME NEW k \in 1 .. c
        PROVE  v[k] = hosts'[k].id
    <3>1. Place(from, to, k) \in 1 .. c
      BY <1>9
    <3>2. v[k] = b[Place(from, to, k)] /\ m[k] = hosts[Place(from, to, k)]
      BY <1>6, <2>0
    <3>3. b[Place(from, to, k)] = hosts[Place(from, to, k)].id
      BY <1>7, <3>1
    <3>4. hosts'[k].id = m[k].id
      BY <1>4, <1>5
    <3> QED
      BY <3>2, <3>3, <3>4
  <2>3. a = [k \in 1 .. c |-> hosts'[k].id]
    <3>1. DOMAIN hosts' = 1 .. c
      BY <1>4, <1>5
    <3> QED
      BY <3>1 DEF a
  <2>4. v = [k \in 1 .. c |-> hosts'[k].id]
    BY <2>1, <2>2
  <2>5. a = v
    BY <2>3, <2>4
  <2> QED
    BY <2>5 DEF v
<1>11. from \in DOMAIN b /\ to \in DOMAIN b
  BY <1>4, <1>7
<1> QED
  BY <1>1, <1>2, <1>3, <1>10, <1>11 DEF b

\* The lists, the requests and the form are what they should be.
LEMMA HostsTypedHolds == Spec => []HostsTyped
<1>1. Init => HostsTyped
  BY HostsBegin DEF Init, HostsInv
<1>2. HostsTyped /\ [Next]_vars => HostsTyped'
  <2> SUFFICES ASSUME HostsTyped, [Next]_vars
               PROVE  HostsTyped'
    OBVIOUS
  <2>1. CASE Hosts!HostsNext
    BY <2>1, HostsStaysTyped
  <2>2. CASE UNCHANGED hostVars
    BY <2>2 DEF hostVars, HostsTyped, StoredTyped, ListsTyped, DialogTyped, ReqsTyped
  <2> QED
    BY <2>1, <2>2 DEF Next, HostsStep, UsersStep, LogsStep, SessionStep, vars
<1> QED
  BY <1>1, <1>2, PTL DEF Spec

\* A dropped host takes the place in the table of the one it was dropped on.
THEOREM DropsLand == Spec => DropLandsWhereShown
<1>1. Init => HostsTyped /\ OrderInv
  <2>1. Init => HostsTyped
    BY HostsBegin DEF Init, HostsInv
  <2>2. Init => OrderInv
    BY DEF Init, Hosts!HostsInit, Hosts!get_hosts, Hosts!NoFetch, OrderInv, ByPriority
  <2> QED
    BY <2>1, <2>2
<1>2. HostsTyped /\ OrderInv /\ [Next]_vars => (HostsTyped /\ OrderInv)'
  <2> SUFFICES ASSUME HostsTyped, OrderInv, [Next]_vars
               PROVE  (HostsTyped /\ OrderInv)'
    OBVIOUS
  <2>1. CASE Hosts!HostsNext
    BY <2>1, HostsStaysTyped, OrderHolds
  <2>2. CASE UNCHANGED hostVars
    BY <2>2 DEF hostVars, HostsTyped, StoredTyped, ListsTyped, DialogTyped, ReqsTyped, OrderInv
  <2> QED
    BY <2>1, <2>2 DEF Next, HostsStep, UsersStep, LogsStep, SessionStep, vars
<1>3. HostsTyped /\ OrderInv /\ [Next]_vars => [Hosts!DropsWhereShown]_hostVars
  <2> SUFFICES ASSUME HostsTyped, OrderInv, [Next]_vars, ~UNCHANGED hostVars
               PROVE  Hosts!DropsWhereShown
    OBVIOUS
  <2>1. Hosts!HostsNext
    BY DEF Next, HostsStep, UsersStep, LogsStep, SessionStep, vars
  <2>2. CASE ~Hosts!busy /\ Hosts!busy' /\
             Hosts!Cardinality({h.priority : h \in Hosts!ToSet(hosts)}) = Len(hosts)
    <3>1. PICK from, to \in DOMAIN hosts : Hosts!handleDragEnd(from, to)
      BY <2>1, <2>2, DragBeginsBusy
    <3> QED
      BY <2>2, <3>1, DropIsShown DEF Hosts!DropsWhereShown
  <2> QED
    BY <2>2 DEF Hosts!DropsWhereShown
<1> QED
  BY <1>1, <1>2, <1>3, PTL DEF Spec, DropLandsWhereShown
=============================================================================
