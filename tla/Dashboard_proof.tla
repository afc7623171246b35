--------------------------- MODULE Dashboard_proof ---------------------------
(***************************************************************************)
(* Proofs about the log page and the session: the lines on the screen are  *)
(* of the node that is selected and complete, and nobody is logged out of  *)
(* a session that is good or shown another's account.                      *)
(***************************************************************************)
EXTENDS Dashboard, SequenceTheorems, WellFoundedInduction, TLAPS

-----------------------------------------------------------------------------
(* The log page.                                                           *)

LinesOf(n) == [node : {n}, no : Nat]

\* The stream and the lines belong to the node the effects ran for last, not to
\* the one that is selected: between a render and its effects the two differ.
\* The rendered buffer counts too, since resuming shows it.
LogsInv ==
  /\ lineCount \in Nat
  /\ source \in {0, committed[1]}
  /\ committed[1] # 0 =>
       {rawLogs, messageBuffer, seenBuffer} \subseteq Seq(LinesOf(committed[1]))

\* The newest lines of a list: the end of it that fits on the screen.
LEMMA NewestIs ==
  ASSUME NEW S, NEW q \in Seq(S)
  PROVE  LET k == IF Len(q) > RAW_LOG_BUFFER_MAX THEN RAW_LOG_BUFFER_MAX ELSE Len(q)
         IN /\ Logs!Newest(q) \in Seq(S)
            /\ Len(q) \in Nat /\ k \in Nat /\ k <= RAW_LOG_BUFFER_MAX
            /\ Len(Logs!Newest(q)) = k
            /\ \A i \in 1 .. k : Logs!Newest(q)[i] = q[Len(q) - k + i]
<1> DEFINE m == IF Len(q) > RAW_LOG_BUFFER_MAX
                THEN Len(q) - RAW_LOG_BUFFER_MAX + 1 ELSE 1
<1>1. m \in Nat /\ m >= 1 /\ Len(q) \in Nat
  BY LenProperties, BufferAssumption
<1>2. \A i \in m .. Len(q) : q[i] \in S
  BY <1>1, ElementOfSeq
<1>3. /\ SubSeq(q, m, Len(q)) \in Seq(S)
      /\ Len(SubSeq(q, m, Len(q))) = (IF m <= Len(q) THEN Len(q) - m + 1 ELSE 0)
      /\ \A i \in 1 .. Len(q) - m + 1 : SubSeq(q, m, Len(q))[i] = q[m + i - 1]
  BY <1>1, <1>2, SubSeqProperties
<1>4. Logs!Newest(q) = SubSeq(q, m, Len(q))
  BY DEF Logs!Newest
<1> DEFINE s == SubSeq(q, m, Len(q))
           k == IF Len(q) > RAW_LOG_BUFFER_MAX THEN RAW_LOG_BUFFER_MAX ELSE Len(q)
<1> HIDE DEF s
<1>5. /\ k \in Nat /\ k <= RAW_LOG_BUFFER_MAX /\ k = Len(q) - m + 1
      /\ (IF m <= Len(q) THEN Len(q) - m + 1 ELSE 0) = k
  <2>1. CASE Len(q) > RAW_LOG_BUFFER_MAX
    <3>1. k = RAW_LOG_BUFFER_MAX /\ m = Len(q) - RAW_LOG_BUFFER_MAX + 1
      BY <2>1
    <3> HIDE DEF m, k
    <3> QED
      BY <1>1, <3>1, BufferAssumption
  <2>2. CASE ~(Len(q) > RAW_LOG_BUFFER_MAX)
    <3>1. k = Len(q) /\ m = 1
      BY <2>2
    <3> HIDE DEF m, k
    <3> QED
      BY <1>1, <2>2, <3>1, BufferAssumption
  <2> QED
    BY <2>1, <2>2
<1> HIDE DEF m, k
<1>6. s \in Seq(S) /\ Len(s) = k /\ \A i \in 1 .. k : s[i] = q[m + i - 1]
  BY <1>3, <1>5 DEF s
<1>7. \A i \in 1 .. k : m + i - 1 = Len(q) - k + i
  BY <1>1, <1>5
<1>8. \A i \in 1 .. k : s[i] = q[Len(q) - k + i]
  BY <1>6, <1>7
<1>9. Logs!Newest(q) = s
  BY <1>4 DEF s
<1> QED
  BY <1>1, <1>5, <1>6, <1>8, <1>9 DEF k

LEMMA LogsStepInv ==
  ASSUME LogsInv, Logs!LogsNext
  PROVE  LogsInv'
<1>1. CASE Logs!NodesChange
  BY <1>1 DEF Logs!NodesChange, LogsInv
<1>2. CASE Logs!Effects
  <2>0. committed'[1] = selectedNode /\ lineCount' = lineCount
    BY <1>2 DEF Logs!Effects
  <2>1. CASE committed[1] = selectedNode
    BY <1>2, <2>0, <2>1 DEF Logs!Effects, LogsInv
  <2>2. CASE committed[1] # selectedNode /\ selectedNode = 0
    BY <1>2, <2>0, <2>2 DEF Logs!Effects, LogsInv
  <2>3. CASE committed[1] # selectedNode /\ selectedNode # 0
    <3>1. rawLogs' = <<>> /\ messageBuffer' = <<>> /\ seenBuffer' = <<>>
          /\ source' = selectedNode
      BY <1>2, <2>3 DEF Logs!Effects, Logs!ClearedLogs
    <3>2. <<>> \in Seq(LinesOf(selectedNode))
      BY EmptySeq
    <3> QED
      BY <2>0, <3>1, <3>2 DEF LogsInv
  <2> QED
    BY <2>1, <2>2, <2>3
<1>3. ASSUME NEW n \in LogNodes, Logs!onmessage(n)
      PROVE  LogsInv'
  <2> DEFINE line == [node |-> n, no |-> lineCount]
  <2>1. UNCHANGED <<committed, source, seenBuffer>> /\ lineCount' \in Nat
    BY <1>3 DEF Logs!onmessage, LogsInv
  <2>2. n # 0
    BY <1>3 DEF Logs!onmessage
  <2>3. CASE n # source
    BY <1>3, <2>1, <2>3 DEF Logs!onmessage, LogsInv
  <2>4. CASE n = source
    <3>1. committed[1] = n
      BY <2>2, <2>4 DEF LogsInv
    <3>2. line \in LinesOf(n)
      BY DEF LinesOf, LogsInv
    <3>3. rawLogs \in Seq(LinesOf(n)) /\ messageBuffer \in Seq(LinesOf(n))
          /\ seenBuffer \in Seq(LinesOf(n))
      BY <2>2, <3>1 DEF LogsInv
    <3>4. /\ Append(messageBuffer, line) \in Seq(LinesOf(n))
          /\ Append(rawLogs, line) \in Seq(LinesOf(n))
      BY <3>2, <3>3, AppendProperties
    <3>5. Logs!Newest(Append(rawLogs, line)) \in Seq(LinesOf(n))
      BY <3>4, NewestIs
    <3>6. \/ messageBuffer' = Append(messageBuffer, line) /\ UNCHANGED rawLogs
          \/ rawLogs' = Logs!Newest(Append(rawLogs, line)) /\ UNCHANGED messageBuffer
      BY <1>3, <2>4 DEF Logs!onmessage
    <3> HIDE DEF line
    <3> QED
      BY <2>1, <3>1, <3>3, <3>4, <3>5, <3>6 DEF LogsInv
  <2> QED
    BY <2>3, <2>4
<1>4. CASE Logs!Render
  BY <1>4 DEF Logs!Render, LogsInv
<1>5. CASE Logs!handlePauseResume
  <2>1. UNCHANGED <<committed, source, lineCount>> /\ seenBuffer' = messageBuffer'
    BY <1>5 DEF Logs!handlePauseResume
  <2>2. CASE committed[1] = 0
    BY <2>1, <2>2 DEF LogsInv
  <2>3. CASE committed[1] # 0
    <3> DEFINE S == LinesOf(committed[1])
    <3>1. rawLogs \in Seq(S) /\ messageBuffer \in Seq(S) /\ seenBuffer \in Seq(S)
      BY <2>3 DEF LogsInv
    <3>2. rawLogs \o seenBuffer \in Seq(S)
      BY <3>1, ConcatProperties
    <3>3. Logs!Newest(rawLogs \o seenBuffer) \in Seq(S) /\ <<>> \in Seq(S)
      BY <3>2, NewestIs, EmptySeq
    <3>4. \/ rawLogs' = Logs!Newest(rawLogs \o seenBuffer) /\ messageBuffer' = <<>>
          \/ UNCHANGED <<rawLogs, messageBuffer>>
      BY <1>5 DEF Logs!handlePauseResume, Logs!Resumed
    <3> QED
      BY <2>1, <3>1, <3>3, <3>4 DEF LogsInv
  <2> QED
    BY <2>2, <2>3
<1>6. ASSUME NEW n \in connectedNodes, Logs!handleNodeChange(n)
      PROVE  LogsInv'
  <2>1. <<>> \in Seq(LinesOf(committed[1]))
    BY EmptySeq
  <2> QED
    BY <1>6, <2>1 DEF Logs!handleNodeChange, LogsInv
<1> QED
  BY <1>1, <1>2, <1>3, <1>4, <1>5, <1>6 DEF Logs!LogsNext

\* The lines on the log page and those put by are the selected node's once the
\* effects have run for it, however many nodes were selected before and whatever
\* their streams still bring.
THEOREM LogsAreOfTheSelectedNode == Spec => []OnlySelectedNode
<1>1. Init => LogsInv
  BY DEF Init, Logs!LogsInit, LogsInv
<1>2. LogsInv /\ [Next]_vars => LogsInv'
  <2> SUFFICES ASSUME LogsInv, [Next]_vars
               PROVE  LogsInv'
    OBVIOUS
  <2>1. CASE UNCHANGED logVars
    BY <2>1 DEF logVars, LogsInv
  <2>2. CASE LogsStep
    BY <2>2, LogsStepInv DEF LogsStep
  <2> QED
    BY <2>1, <2>2 DEF Next, HostsStep, UsersStep, SessionStep, vars
<1>3. LogsInv => OnlySelectedNode
  <2> SUFFICES ASSUME LogsInv, selectedNode # 0, committed[1] = selectedNode,
                      NEW q \in {rawLogs, messageBuffer}, NEW i \in DOMAIN q
               PROVE  q[i].node = selectedNode
    BY DEF OnlySelectedNode, Logs!OnlySelectedNode
  <2>1. q \in Seq(LinesOf(selectedNode))
    BY DEF LogsInv
  <2>2. q[i] \in LinesOf(selectedNode)
    BY <2>1, ElementOfSeq, LenProperties
  <2> QED
    BY <2>2 DEF LinesOf
<1> QED
  BY <1>1, <1>2, <1>3, PTL DEF Spec

-----------------------------------------------------------------------------
(* What the log page shows.                                                *)

Lines == [node : LogNodes, no : Nat]

\* Lines that scrolled off the screen do not matter to what comes after them.
LEMMA NewestOfNewest ==
  ASSUME NEW S, NEW p \in Seq(S), NEW q \in Seq(S)
  PROVE  Logs!Newest(Logs!Newest(p) \o q) = Logs!Newest(p \o q)
<1> DEFINE M == RAW_LOG_BUFFER_MAX
           a == Logs!Newest(p)
           k == IF Len(p) > M THEN M ELSE Len(p)
           l == a \o q
           r == p \o q
           n == IF Len(p) + Len(q) > M THEN M ELSE Len(p) + Len(q)
<1>1. /\ a \in Seq(S) /\ Len(p) \in Nat /\ k \in Nat /\ Len(a) = k
      /\ \A i \in 1 .. k : a[i] = p[Len(p) - k + i]
  BY NewestIs
<1>2. Len(q) \in Nat /\ M \in Nat
  BY LenProperties, BufferAssumption
<1> HIDE DEF a, M
<1>3. /\ l \in Seq(S) /\ Len(l) = Len(a) + Len(q)
      /\ \A i \in 1 .. Len(a) + Len(q) : l[i] = IF i <= Len(a) THEN a[i] ELSE q[i - Len(a)]
  BY <1>1, ConcatProperties, Zenon
<1>4. /\ r \in Seq(S) /\ Len(r) = Len(p) + Len(q)
      /\ \A i \in 1 .. Len(p) + Len(q) : r[i] = IF i <= Len(p) THEN p[i] ELSE q[i - Len(p)]
  BY ConcatProperties, Zenon
<1> HIDE DEF l, r
<1>5. n \in Nat /\ n = (IF Len(l) > M THEN M ELSE Len(l))
  <2>1. Len(l) = k + Len(q)
    BY <1>1, <1>3
  <2> QED
    BY <1>1, <1>2, <2>1
<1>6. n = (IF Len(r) > M THEN M ELSE Len(r))
  BY <1>4
<1>7. /\ Logs!Newest(l) \in Seq(S) /\ Len(Logs!Newest(l)) = n
      /\ \A i \in 1 .. n : Logs!Newest(l)[i] = l[Len(l) - n + i]
  <2> HIDE DEF n
  <2> QED
    BY <1>3, <1>5, NewestIs DEF M
<1>8. /\ Logs!Newest(r) \in Seq(S) /\ Len(Logs!Newest(r)) = n
      /\ \A i \in 1 .. n : Logs!Newest(r)[i] = r[Len(r) - n + i]
  <2> HIDE DEF n
  <2> QED
    BY <1>4, <1>6, NewestIs DEF M
<1>9. ASSUME NEW i \in 1 .. n
      PROVE  l[Len(l) - n + i] = r[Len(r) - n + i]
  <2> DEFINE j == Len(l) - n + i
  <2>1. /\ Len(l) = k + Len(q)
        /\ \A x \in 1 .. k + Len(q) : l[x] = IF x <= k THEN a[x] ELSE q[x - k]
    BY <1>1, <1>3
  <2>2. k = (IF Len(p) > M THEN M ELSE Len(p))
        /\ n = (IF Len(p) + Len(q) > M THEN M ELSE Len(p) + Len(q))
    OBVIOUS
  <2> HIDE DEF k, n
  <2>3. k <= Len(p) /\ n <= k + Len(q) /\ i \in Int /\ 1 <= i /\ i <= n
    BY <1>1, <1>2, <1>5, <2>2
  <2>4. /\ j \in 1 .. k + Len(q) /\ Len(r) - n + i = Len(p) - k + j
        /\ Len(p) - k + j \in 1 .. Len(p) + Len(q)
    <3>1. /\ k \in Nat /\ n \in Nat /\ Len(p) \in Nat /\ Len(q) \in Nat
          /\ Len(l) = k + Len(q) /\ Len(r) = Len(p) + Len(q)
      BY <1>1, <1>2, <1>4, <1>5, <2>1
    <3> QED
      BY <2>3, <3>1
  <2> HIDE DEF j
  <2>5. CASE j <= k
    <3>1. l[j] = a[j]
      BY <2>1, <2>4, <2>5
    <3>2. a[j] = p[Len(p) - k + j]
      <4>1. j \in 1 .. k
        BY <1>1, <1>2, <2>4, <2>5
      <4> QED
        BY <1>1, <4>1
    <3>3. r[Len(p) - k + j] = p[Len(p) - k + j]
      <4>1. Len(p) - k + j <= Len(p)
        BY <1>1, <1>2, <2>4, <2>5
      <4> QED
        BY <1>4, <2>4, <4>1
    <3> QED
      BY <2>4, <3>1, <3>2, <3>3 DEF j
  <2>6. CASE ~(j <= k)
    <3>1. l[j] = q[j - k]
      BY <2>1, <2>4, <2>6
    <3>2. r[Len(p) - k + j] = q[j - k]
      <4> DEFINE x == Len(p) - k + j
      <4>1. k \in Nat /\ Len(p) \in Nat /\ Len(q) \in Nat /\ j \in Int
        BY <1>1, <1>2, <2>4
      <4>2. x \in 1 .. Len(p) + Len(q) /\ ~(x <= Len(p)) /\ x - Len(p) = j - k
        BY <2>4, <2>6, <4>1
      <4> HIDE DEF x
      <4>3. r[x] = q[x - Len(p)]
        BY <1>4, <4>2
      <4> QED
        BY <4>2, <4>3 DEF x
    <3> QED
      BY <2>4, <3>1, <3>2 DEF j
  <2> QED
    BY <2>5, <2>6
<1>10. Logs!Newest(l) = Logs!Newest(r)
  <2> HIDE DEF n
  <2> QED
    BY <1>7, <1>8, <1>9, SeqEqual
<1> QED
  BY <1>10 DEF a, l, r

LEMMA NewestTwice ==
  ASSUME NEW S, NEW p \in Seq(S)
  PROVE  Logs!Newest(Logs!Newest(p)) = Logs!Newest(p)
<1>1. <<>> \in Seq(S) /\ p \o <<>> = p
  BY EmptySeq, ConcatEmptySeq
<1>2. Logs!Newest(p) \in Seq(S)
  BY NewestIs
<1>3. Logs!Newest(p) \o <<>> = Logs!Newest(p)
  BY <1>2, ConcatEmptySeq
<1> QED
  BY <1>1, <1>3, NewestOfNewest

\* Two lists that end alike end alike after the same line, too.
LEMMA NewestAppend ==
  ASSUME NEW S, NEW p \in Seq(S), NEW q \in Seq(S), NEW x \in S,
         Logs!Newest(p) = Logs!Newest(q)
  PROVE  Logs!Newest(Append(p, x)) = Logs!Newest(Append(q, x))
<1>1. <<x>> \in Seq(S) /\ Append(p, x) = p \o <<x>> /\ Append(q, x) = q \o <<x>>
  BY AppendIsConcat
<1> QED
  BY <1>1, NewestOfNewest

\* The lines on the screen and those put by end in what the stream brought; nothing
\* is put by while the page is not paused.
NothingMissing ==
  (source # 0 /\ ~hasty) =>
    /\ ~isPaused => messageBuffer = <<>>
    /\ Logs!Newest(rawLogs \o messageBuffer) = Logs!Newest(streamed)

LogsTyped ==
  /\ selectedNode \in LogNodes \cup {0} /\ source \in LogNodes \cup {0}
  /\ oldSources \subseteq LogNodes /\ connectedNodes \subseteq LogNodes
  /\ Len(rawLogs) <= RAW_LOG_BUFFER_MAX
  /\ isPaused \in BOOLEAN /\ hasty \in BOOLEAN /\ lineCount \in Nat
  /\ {rawLogs, messageBuffer, seenBuffer, streamed} \subseteq Seq(Lines)

LogsWhole == LogsTyped /\ NothingMissing

\* The first of the connected nodes exists.
LEMMA AutoSelectedType ==
  ASSUME connectedNodes \subseteq LogNodes, selectedNode \in LogNodes \cup {0}
  PROVE  Logs!AutoSelected \in LogNodes \cup {0}
<1>1. CASE selectedNode = 0 /\ connectedNodes # {}
  <2> DEFINE R == OpToRel(<, Nat)
             P(n) == \A m \in connectedNodes : n <= m
  <2>1. connectedNodes \subseteq Nat
    BY NodesAssumption
  <2>2. PICK n \in connectedNodes : \A m \in connectedNodes : ~(<<m, n>> \in R)
    BY <1>1, <2>1, NatLessThanWellFounded, WFMin
  <2>3. \A m \in connectedNodes : ~(m < n)
    BY <2>1, <2>2 DEF OpToRel
  <2>4. P(n)
    BY <2>1, <2>3
  <2>5. (CHOOSE x \in connectedNodes : P(x)) \in connectedNodes
    BY <2>4
  <2> QED
    BY <1>1, <2>5 DEF Logs!AutoSelected
<1>2. CASE ~(selectedNode = 0 /\ connectedNodes # {})
  BY <1>2 DEF Logs!AutoSelected
<1> QED
  BY <1>1, <1>2

LEMMA LogsStepWhole ==
  ASSUME LogsWhole, Logs!LogsNext
  PROVE  LogsWhole'
<1> USE DEF LogsWhole
<1>0. <<>> \in Seq(Lines) /\ Len(<<>>) = 0
  BY EmptySeq
<1>1. CASE Logs!NodesChange \/ Logs!Render
  BY <1>1 DEF Logs!NodesChange, Logs!Render, LogsTyped, NothingMissing
<1>2. CASE Logs!Effects
  <2>1. /\ selectedNode' \in LogNodes \cup {0}
        /\ seenBuffer' = messageBuffer' /\ UNCHANGED <<connectedNodes, lineCount>>
    BY <1>2, AutoSelectedType DEF Logs!Effects, LogsTyped
  <2>2. CASE committed[1] = selectedNode
    BY <1>2, <2>1, <2>2 DEF Logs!Effects, LogsTyped, NothingMissing
  <2>3. CASE committed[1] # selectedNode
    <3>1. oldSources' \subseteq LogNodes /\ source' = selectedNode
      BY <1>2, <2>3 DEF Logs!Effects, LogsTyped
    <3>2. CASE selectedNode = 0
      <4>1. UNCHANGED <<rawLogs, messageBuffer, isPaused, streamed, hasty>>
        BY <1>2, <2>3, <3>2 DEF Logs!Effects
      <4> QED
        BY <2>1, <3>1, <3>2, <4>1 DEF LogsTyped, NothingMissing
    <3>3. CASE selectedNode # 0
      <4>1. /\ rawLogs' = <<>> /\ messageBuffer' = <<>> /\ streamed' = <<>>
            /\ isPaused' = FALSE /\ hasty' = FALSE
        BY <1>2, <2>3, <3>3 DEF Logs!Effects, Logs!ClearedLogs
      <4>2. LogsTyped'
        <5>1. Len(rawLogs') <= RAW_LOG_BUFFER_MAX
          BY <1>0, <4>1, BufferAssumption
        <5>2. /\ rawLogs' \in Seq(Lines) /\ messageBuffer' \in Seq(Lines)
              /\ seenBuffer' \in Seq(Lines) /\ streamed' \in Seq(Lines)
          BY <1>0, <2>1, <4>1
        <5>3. isPaused' \in BOOLEAN /\ hasty' \in BOOLEAN
          BY <4>1
        <5> QED
          BY <2>1, <3>1, <5>1, <5>2, <5>3 DEF LogsTyped
      <4>3. rawLogs' \o messageBuffer' = streamed'
        BY <1>0, <4>1, ConcatEmptySeq
      <4>4. NothingMissing'
        BY <4>1, <4>3 DEF NothingMissing, Logs!Newest
      <4> QED
        BY <4>2, <4>4
    <3> QED
      BY <3>2, <3>3
  <2> QED
    BY <2>2, <2>3
<1>3. ASSUME NEW n \in LogNodes, Logs!onmessage(n)
      PROVE  LogsWhole'
  <2> DEFINE line == [node |-> n, no |-> lineCount]
  <2>1. /\ UNCHANGED <<connectedNodes, selectedNode, source, oldSources, seenBuffer,
                       isPaused, hasty>>
        /\ n # 0 /\ lineCount' \in Nat /\ line \in Lines
    BY <1>3 DEF Logs!onmessage, LogsTyped, Lines
  <2>2. CASE n # source
    <3>1. UNCHANGED <<rawLogs, messageBuffer, streamed>>
      BY <1>3, <2>2 DEF Logs!onmessage
    <3> QED
      BY <2>1, <3>1 DEF LogsTyped, NothingMissing
  <2>3. CASE n = source
    <3>1. /\ streamed' = Append(streamed, line)
          /\ IF isPaused
               THEN messageBuffer' = Append(messageBuffer, line) /\ UNCHANGED rawLogs
               ELSE rawLogs' = Logs!Newest(Append(rawLogs, line)) /\ UNCHANGED messageBuffer
      BY <1>3, <2>3 DEF Logs!onmessage
    <3> HIDE DEF line
    <3>2. /\ rawLogs \in Seq(Lines) /\ messageBuffer \in Seq(Lines) /\ seenBuffer \in Seq(Lines)
          /\ streamed \in Seq(Lines)
      BY DEF LogsTyped
    <3>3. /\ Append(streamed, line) \in Seq(Lines)
          /\ Append(messageBuffer, line) \in Seq(Lines)
          /\ Append(rawLogs, line) \in Seq(Lines)
      BY <2>1, <3>2, AppendProperties
    <3>4. CASE isPaused
      <4>1. LogsTyped'
        BY <2>1, <3>1, <3>2, <3>3, <3>4 DEF LogsTyped
      <4>2. rawLogs \o messageBuffer \in Seq(Lines)
        BY <3>2, ConcatProperties
      <4>3. rawLogs \o Append(messageBuffer, line) = Append(rawLogs \o messageBuffer, line)
        <5>1. /\ Append(messageBuffer, line) = messageBuffer \o <<line>>
              /\ Append(rawLogs \o messageBuffer, line) = (rawLogs \o messageBuffer) \o <<line>>
              /\ <<line>> \in Seq(Lines)
          BY <2>1, <3>2, <4>2, AppendIsConcat
        <5> QED
          BY <3>2, <5>1, ConcatAssociative
      <4>4. ASSUME ~hasty
            PROVE  Logs!Newest(rawLogs' \o messageBuffer') = Logs!Newest(streamed')
        <5>1. Logs!Newest(rawLogs \o messageBuffer) = Logs!Newest(streamed)
          BY <2>1, <2>3, <4>4 DEF NothingMissing
        <5>2. Logs!Newest(Append(rawLogs \o messageBuffer, line))
                = Logs!Newest(Append(streamed, line))
          BY <2>1, <3>2, <4>2, <5>1, NewestAppend
        <5> QED
          BY <3>1, <3>4, <4>3, <5>2
      <4>5. NothingMissing'
        BY <2>1, <3>4, <4>4 DEF NothingMissing, Logs!Newest
      <4> QED
        BY <4>1, <4>5
    <3>5. CASE ~isPaused
      <4>1. rawLogs' = Logs!Newest(Append(rawLogs, line)) /\ UNCHANGED messageBuffer
        BY <3>1, <3>5
      <4>2. rawLogs' \in Seq(Lines) /\ Len(rawLogs') <= RAW_LOG_BUFFER_MAX
        BY <3>3, <4>1, NewestIs
      <4>3. LogsTyped'
        BY <2>1, <3>1, <3>2, <3>3, <4>1, <4>2 DEF LogsTyped
      <4>4. ASSUME ~hasty
            PROVE  /\ messageBuffer' = <<>>
                   /\ Logs!Newest(rawLogs' \o messageBuffer') = Logs!Newest(streamed')
        <5>1. /\ messageBuffer = <<>>
              /\ Logs!Newest(rawLogs \o messageBuffer) = Logs!Newest(streamed)
          BY <2>1, <2>3, <3>5, <4>4 DEF NothingMissing
        <5>2. rawLogs \o messageBuffer = rawLogs /\ rawLogs' \o messageBuffer' = rawLogs'
          BY <3>2, <4>1, <4>2, <5>1, ConcatEmptySeq
        <5>3. Logs!Newest(Append(rawLogs, line)) = Logs!Newest(Append(streamed, line))
          BY <2>1, <3>2, <5>1, <5>2, NewestAppend
        <5>4. Logs!Newest(rawLogs') = Logs!Newest(Append(rawLogs, line))
          BY <3>3, <4>1, NewestTwice
        <5> QED
          BY <3>1, <4>1, <5>1, <5>2, <5>3, <5>4
      <4>5. NothingMissing'
        BY <2>1, <4>4 DEF NothingMissing, Logs!Newest
      <4> QED
        BY <4>3, <4>5
    <3> QED
      BY <3>4, <3>5
  <2> QED
    BY <2>2, <2>3
<1>4. CASE Logs!handlePauseResume
  <2>1. /\ UNCHANGED <<connectedNodes, selectedNode, source, oldSources, streamed, lineCount>>
        /\ isPaused' = ~isPaused /\ seenBuffer' = messageBuffer'
        /\ hasty' = (hasty \/ (isPaused /\ seenBuffer # messageBuffer))
    BY <1>4 DEF Logs!handlePauseResume
  <2>2. /\ rawLogs \in Seq(Lines) /\ messageBuffer \in Seq(Lines) /\ seenBuffer \in Seq(Lines)
        /\ streamed \in Seq(Lines)
    BY DEF LogsTyped
  <2>3. isPaused' \in BOOLEAN
    BY <2>1
  <2>4. hasty' \in BOOLEAN
    BY <2>1
  <2>5. CASE isPaused /\ seenBuffer # <<>>
    <3>1. rawLogs' = Logs!Newest(rawLogs \o seenBuffer) /\ messageBuffer' = <<>>
      BY <1>4, <2>5 DEF Logs!handlePauseResume, Logs!Resumed
    <3>2. rawLogs \o seenBuffer \in Seq(Lines)
      BY <2>2, ConcatProperties
    <3>3. rawLogs' \in Seq(Lines) /\ Len(rawLogs') <= RAW_LOG_BUFFER_MAX
      BY <3>1, <3>2, NewestIs
    <3>4. LogsTyped'
      BY <1>0, <2>1, <2>2, <2>3, <2>4, <3>1, <3>3 DEF LogsTyped
    <3>5. ASSUME source # 0, ~hasty'
          PROVE  Logs!Newest(rawLogs' \o messageBuffer') = Logs!Newest(streamed)
      <4>1. ~hasty /\ seenBuffer = messageBuffer
        BY <2>1, <2>5, <3>5
      <4>2. Logs!Newest(rawLogs \o messageBuffer) = Logs!Newest(streamed)
        BY <3>5, <4>1 DEF NothingMissing
      <4>3. rawLogs' \o messageBuffer' = rawLogs'
        BY <3>1, <3>3, ConcatEmptySeq
      <4>4. Logs!Newest(rawLogs') = Logs!Newest(rawLogs \o seenBuffer)
        BY <3>1, <3>2, NewestTwice
      <4> QED
        BY <4>1, <4>2, <4>3, <4>4
    <3>6. NothingMissing'
      BY <2>1, <3>1, <3>5 DEF NothingMissing, Logs!Newest
    <3> QED
      BY <3>4, <3>6
  <2>6. CASE ~(isPaused /\ seenBuffer # <<>>)
    <3>1. UNCHANGED <<rawLogs, messageBuffer>>
      BY <1>4, <2>6 DEF Logs!handlePauseResume
    <3>2. LogsTyped'
      BY <2>1, <2>2, <2>3, <2>4, <3>1 DEF LogsTyped
    <3>3. ASSUME source # 0, ~hasty'
          PROVE  /\ ~isPaused' => messageBuffer = <<>>
                 /\ Logs!Newest(rawLogs \o messageBuffer) = Logs!Newest(streamed)
      <4>1. ~hasty /\ (isPaused => seenBuffer = messageBuffer)
        BY <2>1, <3>3
      <4>2. isPaused => messageBuffer = <<>>
        BY <2>6, <4>1
      <4> QED
        BY <2>1, <3>3, <4>1, <4>2 DEF NothingMissing
    <3>4. NothingMissing'
      BY <2>1, <3>1, <3>3 DEF NothingMissing, Logs!Newest
    <3> QED
      BY <3>2, <3>4
  <2> QED
    BY <2>5, <2>6
<1>5. ASSUME NEW n \in connectedNodes, Logs!handleNodeChange(n)
      PROVE  LogsWhole'
  <2>1. /\ selectedNode' = n /\ source' = 0 /\ isPaused' = FALSE
        /\ rawLogs' = <<>> /\ messageBuffer' = <<>> /\ seenBuffer' = <<>> /\ streamed' = <<>>
        /\ oldSources' = oldSources \cup ({source} \ {0})
        /\ UNCHANGED <<connectedNodes, hasty, lineCount>>
    BY <1>5 DEF Logs!handleNodeChange
  <2>2. LogsTyped'
    <3>1. Len(rawLogs') <= RAW_LOG_BUFFER_MAX
      BY <1>0, <2>1, BufferAssumption
    <3>2. /\ rawLogs' \in Seq(Lines) /\ messageBuffer' \in Seq(Lines)
          /\ seenBuffer' \in Seq(Lines) /\ streamed' \in Seq(Lines)
      BY <1>0, <2>1
    <3>3. isPaused' \in BOOLEAN /\ hasty' \in BOOLEAN
      BY <2>1 DEF LogsTyped
    <3>4. /\ n \in LogNodes /\ connectedNodes' \subseteq LogNodes
          /\ oldSources' \subseteq LogNodes /\ source' \in LogNodes \cup {0}
      BY <1>5, <2>1 DEF LogsTyped
    <3> QED
      BY <2>1, <3>1, <3>2, <3>3, <3>4 DEF LogsTyped
  <2>3. NothingMissing'
    BY <2>1 DEF NothingMissing
  <2> QED
    BY <2>2, <2>3
<1> QED
  BY <1>1, <1>2, <1>3, <1>4, <1>5 DEF Logs!LogsNext

LEMMA LogsWholeHolds == Spec => []LogsWhole
<1>1. Init => LogsWhole
  <2> SUFFICES ASSUME Init PROVE LogsWhole
    OBVIOUS
  <2>1. <<>> \in Seq(Lines) /\ Len(<<>>) = 0
    BY EmptySeq
  <2>2. Logs!LogsInit
    BY DEF Init
  <2>3. /\ rawLogs = <<>> /\ messageBuffer = <<>> /\ seenBuffer = <<>> /\ streamed = <<>>
        /\ isPaused = FALSE /\ hasty = FALSE /\ source = 0
    BY <2>2 DEF Logs!LogsInit
  <2>4. Len(rawLogs) <= RAW_LOG_BUFFER_MAX
    BY <2>1, <2>3, BufferAssumption
  <2>5. LogsTyped
    BY <2>1, <2>2, <2>3, <2>4 DEF Logs!LogsInit, LogsTyped
  <2>6. NothingMissing
    BY <2>3 DEF NothingMissing
  <2> QED
    BY <2>5, <2>6 DEF LogsWhole
<1>2. LogsWhole /\ [Next]_vars => LogsWhole'
  <2> SUFFICES ASSUME LogsWhole, [Next]_vars
               PROVE  LogsWhole'
    OBVIOUS
  <2>1. CASE UNCHANGED logVars
    BY <2>1 DEF logVars, LogsWhole, LogsTyped, NothingMissing, Logs!Newest
  <2>2. CASE LogsStep
    BY <2>2, LogsStepWhole DEF LogsStep
  <2> QED
    BY <2>1, <2>2 DEF Next, HostsStep, UsersStep, SessionStep, vars
<1> QED
  BY <1>1, <1>2, PTL DEF Spec

\* However the page is paused and resumed, and whatever the size of the buffer, the
\* screen and the lines put by end in what the stream brought, unless a resume came
\* before the lines put by were rendered.
THEOREM PausingLosesNothing == Spec => []LogsComplete
<1>1. LogsWhole => LogsComplete
  BY DEF LogsWhole, NothingMissing, LogsComplete, Logs!LogsComplete
<1> QED
  BY <1>1, LogsWholeHolds, PTL

-----------------------------------------------------------------------------
(* The session.                                                            *)

\* A tab that was told its token is no good was told so of a token that is none
\* or revoked.  Revocations are for good, so this stays true however late the
\* answer is acted on.
DenialsAreTrue ==
  /\ check = [t \in Tabs |-> check[t]]
  /\ \A t \in Tabs :
       /\ check[t] = [with |-> check[t].with, answer |-> check[t].answer]
       /\ check[t].answer = "denied" => check[t].with \in revoked \cup {0}

\* A tab's check that is dropped or sent anew has no answer yet.
LEMMA DenialsAsk ==
  ASSUME DenialsAreTrue, NEW t \in Tabs, UNCHANGED revoked,
         NEW c, check' = [check EXCEPT ![t] = c],
         c = Account!NoCall \/ \E tok : c = Account!Call(tok)
  PROVE  DenialsAreTrue'
<1>1. /\ c = [with |-> c.with, answer |-> c.answer]
      /\ c.answer \in {"none", "sent"}
  BY DEF Account!NoCall, Account!Call
<1>2. check' = [u \in Tabs |-> IF u = t THEN c ELSE check[u]]
  BY DEF DenialsAreTrue
<1> QED
  BY <1>1, <1>2 DEF DenialsAreTrue

LEMMA DenialsFrame ==
  ASSUME DenialsAreTrue, UNCHANGED check, revoked \subseteq revoked'
  PROVE  DenialsAreTrue'
BY DEF DenialsAreTrue

LEMMA SessionStepInv ==
  ASSUME DenialsAreTrue, Account!SessionNext
  PROVE  DenialsAreTrue'
<1>1. ASSUME NEW tok \in DOMAIN tokens, Account!Revoke(tok)
      PROVE  DenialsAreTrue'
  BY <1>1, DenialsFrame DEF Account!Revoke
<1>2. ASSUME NEW t \in Tabs, Account!ToLogin(t), UNCHANGED revoked
      PROVE  DenialsAreTrue'
  BY <1>2, DenialsAsk DEF Account!ToLogin
<1>3. ASSUME NEW t \in Tabs, Account!ToApp(t), UNCHANGED revoked
      PROVE  DenialsAreTrue'
  BY <1>3, DenialsAsk DEF Account!ToApp
<1>4. ASSUME NEW t \in Tabs, Account!Serve(t)
      PROVE  DenialsAreTrue'
  <2>1. CASE UNCHANGED check
    BY <1>4, <2>1, DenialsFrame DEF Account!Serve
  <2>2. CASE \E c \in Account!Replies(check[t]) : check' = [check EXCEPT ![t] = c]
    <3>1. PICK c \in Account!Replies(check[t]) : check' = [check EXCEPT ![t] = c]
      BY <2>2
    <3>2. PICK a \in {IF Account!Accepted(check[t].with) THEN "ok" ELSE "denied", "lost"} :
            c = [check[t] EXCEPT !.answer = a]
      BY <3>1 DEF Account!Replies
    <3>3. c = [with |-> check[t].with, answer |-> a]
      BY <3>2 DEF DenialsAreTrue
    <3>4. a = "denied" => check[t].with \in revoked \cup {0}
      BY <3>2 DEF Account!Accepted
    <3>5. check' = [u \in Tabs |-> IF u = t THEN c ELSE check[u]]
      BY <3>1 DEF DenialsAreTrue
    <3>6. revoked' = revoked
      BY <1>4 DEF Account!Serve
    <3> QED
      BY <3>3, <3>4, <3>5, <3>6 DEF DenialsAreTrue
  <2> QED
    BY <1>4, <2>1, <2>2 DEF Account!Serve
<1>5. ASSUME NEW t \in Tabs,
             \/ Account!HandOut(t) \/ Account!LoginFails(t) \/ Account!Refetch(t)
             \/ \E a \in Admins : Account!handleLogin(t, a)
      PROVE  DenialsAreTrue'
  BY <1>5, DenialsFrame
     DEF Account!HandOut, Account!LoginFails, Account!Refetch, Account!handleLogin
<1>6. ASSUME NEW t \in Tabs, Account!LoginSucceeds(t) \/ Account!Reload(t)
      PROVE  DenialsAreTrue'
  BY <1>3, <1>6 DEF Account!LoginSucceeds, Account!Reload
<1>7. ASSUME NEW t \in Tabs, Account!fetchAdminLoader(t)
      PROVE  DenialsAreTrue'
  BY <1>2, <1>7, DenialsFrame DEF Account!fetchAdminLoader
<1>8. ASSUME NEW t \in Tabs, Account!CheckAnswered(t)
      PROVE  DenialsAreTrue'
  BY <1>3, <1>8, DenialsAsk DEF Account!CheckAnswered
<1>9. ASSUME NEW t \in Tabs, Account!QueryAnswered(t) \/ Account!handleLogout(t)
      PROVE  DenialsAreTrue'
  BY <1>2, <1>9, DenialsFrame DEF Account!QueryAnswered, Account!handleLogout
<1> QED
  BY <1>1, <1>4, <1>5, <1>6, <1>7, <1>8, <1>9 DEF Account!SessionNext

\* Every tab has a route throughout.
RoutesDefined == route = [t \in Tabs |-> route[t]]

LEMMA RoutesStep ==
  ASSUME RoutesDefined, Account!SessionNext
  PROVE  RoutesDefined'
<1>1. ASSUME UNCHANGED route
      PROVE  RoutesDefined'
  BY <1>1 DEF RoutesDefined
<1>2. ASSUME NEW t \in Tabs, NEW r, route' = [route EXCEPT ![t] = r]
      PROVE  RoutesDefined'
  BY <1>2 DEF RoutesDefined
<1>3. ASSUME NEW t \in Tabs, Account!ToLogin(t) \/ Account!ToApp(t)
      PROVE  RoutesDefined'
  BY <1>2, <1>3 DEF Account!ToLogin, Account!ToApp
<1>4. ASSUME NEW tok \in DOMAIN tokens, Account!Revoke(tok)
      PROVE  RoutesDefined'
  BY <1>1, <1>4 DEF Account!Revoke
<1>5. ASSUME NEW t \in Tabs,
             \/ Account!Serve(t) \/ Account!HandOut(t) \/ Account!LoginFails(t)
             \/ Account!Refetch(t) \/ \E a \in Admins : Account!handleLogin(t, a)
      PROVE  RoutesDefined'
  BY <1>1, <1>5 DEF Account!Serve, Account!HandOut, Account!LoginFails,
                    Account!Refetch, Account!handleLogin
<1>6. ASSUME NEW t \in Tabs,
             \/ Account!LoginSucceeds(t) \/ Account!Reload(t)
             \/ Account!handleLogout(t)
      PROVE  RoutesDefined'
  BY <1>3, <1>6 DEF Account!LoginSucceeds, Account!Reload, Account!handleLogout
<1>7. ASSUME NEW t \in Tabs,
             \/ Account!fetchAdminLoader(t) \/ Account!CheckAnswered(t)
             \/ Account!QueryAnswered(t)
      PROVE  RoutesDefined'
  BY <1>1, <1>2, <1>3, <1>7
     DEF Account!fetchAdminLoader, Account!CheckAnswered, Account!QueryAnswered
<1> QED
  BY <1>4, <1>5, <1>6, <1>7 DEF Account!SessionNext

\* Only three steps change the stored token: a login stores a token, a logout and
\* a denied check of that very token drop it.
LEMMA SessionStepKeeps ==
  ASSUME DenialsAreTrue, RoutesDefined, Account!SessionNext
  PROVE  Account!KeepsSession
<1>1. ASSUME UNCHANGED token
      PROVE  Account!KeepsSession
  BY <1>1 DEF Account!KeepsSession
<1>2. ASSUME NEW t \in Tabs, Account!LoginSucceeds(t)
      PROVE  Account!KeepsSession
  BY <1>2 DEF Account!LoginSucceeds, Account!KeepsSession
<1>3. ASSUME NEW t \in Tabs, Account!CheckAnswered(t)
      PROVE  Account!KeepsSession
  <2>1. CASE check[t].answer = "denied" /\ token = check[t].with
    BY <2>1 DEF DenialsAreTrue, Account!KeepsSession
  <2>2. CASE ~(check[t].answer = "denied" /\ token = check[t].with)
    BY <1>1, <1>3, <2>2 DEF Account!CheckAnswered, Account!StillChecked
  <2> QED
    BY <2>1, <2>2
<1>4. ASSUME NEW t \in Tabs, Account!handleLogout(t)
      PROVE  Account!KeepsSession
  BY <1>4 DEF Account!handleLogout, Account!ToLogin, Account!KeepsSession,
              RoutesDefined
<1>5. ASSUME NEW tok \in DOMAIN tokens, Account!Revoke(tok)
      PROVE  Account!KeepsSession
  BY <1>1, <1>5 DEF Account!Revoke
<1>6. ASSUME NEW t \in Tabs,
             \/ Account!Serve(t) \/ Account!HandOut(t) \/ Account!LoginFails(t)
             \/ Account!fetchAdminLoader(t) \/ Account!Refetch(t)
             \/ Account!QueryAnswered(t) \/ Account!Reload(t)
             \/ \E a \in Admins : Account!handleLogin(t, a)
      PROVE  Account!KeepsSession
  BY <1>1, <1>6
     DEF Account!Serve, Account!HandOut, Account!LoginFails,
         Account!fetchAdminLoader, Account!Refetch, Account!QueryAnswered,
         Account!Reload, Account!handleLogin
<1> QED
  BY <1>2, <1>3, <1>4, <1>5, <1>6 DEF Account!SessionNext

\* Nobody is logged out of a session that is good, however many tabs log in and
\* out and however late the answers of their checks arrive: apart from the logout
\* button, the stored token is dropped only when the server has denied it.
THEOREM GoodSessionsAreKept == Spec => SessionKept
<1> DEFINE Inv == DenialsAreTrue /\ RoutesDefined
<1>1. Init => Inv
  BY DEF Init, Account!SessionInit, Account!NoCall, DenialsAreTrue, RoutesDefined
<1>2. Inv /\ [Next]_vars => Inv' /\ [Account!KeepsSession]_sessionVars
  <2> SUFFICES ASSUME Inv, [Next]_vars
               PROVE  Inv' /\ [Account!KeepsSession]_sessionVars
    OBVIOUS
  <2>1. CASE UNCHANGED sessionVars
    BY <2>1 DEF sessionVars, DenialsAreTrue, RoutesDefined
  <2>2. CASE SessionStep
    BY <2>2, SessionStepInv, RoutesStep, SessionStepKeeps DEF SessionStep
  <2> QED
    BY <2>1, <2>2 DEF Next, HostsStep, UsersStep, LogsStep, vars
<1> QED
  BY <1>1, <1>2, PTL DEF Spec, SessionKept

-----------------------------------------------------------------------------
(* The account a tab shows.                                                *)

Toks   == 0 .. Len(tokens)
Calls  == [with : Toks, answer : {"none", "sent", "ok", "denied", "lost"}]
Logins == [admin : Admins \cup {NoAdmin}, got : Toks]

SessionTyped ==
  /\ tokens \in Seq(Admins) /\ token \in Toks /\ revoked \subseteq Toks
  /\ route \in [Tabs -> {"login", "loading", "app"}]
  /\ cached \in [Tabs -> Admins \cup {NoAdmin}]
  /\ kicked \in [Tabs -> BOOLEAN]
  /\ mine \in [Tabs -> Toks]
  /\ loader \in [Tabs -> Calls] /\ check \in [Tabs -> Calls] /\ query \in [Tabs -> Calls]
  /\ login \in [Tabs -> Logins]

\* A token that was handed out and not stored yet is known to nobody else: once
\* the stored token is replaced it never comes back.
TokensFresh ==
  \A t \in Tabs : login[t].got # 0 =>
    /\ login[t].got # token
    /\ \A u \in Tabs : /\ mine[u] # login[t].got /\ loader[u].with # login[t].got
                       /\ u # t => login[u].got # login[t].got

\* Only the server's word makes an answer good.
AnswersGood ==
  \A t \in Tabs : /\ loader[t].answer = "ok" => loader[t].with # 0
                  /\ query[t].answer = "ok" => query[t].with # 0

\* Where each request belongs.
LoadsOnly(t)  == loader[t] # Account!NoCall => route[t] = "loading"
ChecksOnly(t) == route[t] # "login" => check[t] = Account!NoCall

\* A tab that was not kicked out: outside the app it has no account and asks for
\* none, and a login is under way on the login page only.
Unkicked(t) ==
  ~kicked[t] =>
    /\ check[t] = Account!NoCall
    /\ route[t] # "login" => login[t] = Account!NoLogin
    /\ route[t] # "app" => cached[t] = NoAdmin /\ query[t] = Account!NoCall

\* In the app, as long as nobody stores another token, it has the token's account
\* and asks with that token.
Shows(t) ==
  (route[t] = "app" /\ ~kicked[t] /\ token = mine[t] /\ token # 0) =>
    /\ cached[t] = tokens[token]
    /\ query[t] # Account!NoCall => query[t].with = token

AppHasAccount(t) == route[t] = "app" => cached[t] # NoAdmin

TabInv(t) == /\ LoadsOnly(t) /\ ChecksOnly(t) /\ Unkicked(t)
             /\ Shows(t) /\ AppHasAccount(t)

SessionInv == SessionTyped /\ TokensFresh /\ AnswersGood /\ \A t \in Tabs : TabInv(t)

LEMMA LenIsNat == SessionTyped => Len(tokens) \in Nat /\ 0 \in Toks
BY LenProperties DEF SessionTyped, Toks

LEMMA NoCallType ==
  ASSUME SessionTyped
  PROVE  /\ Account!NoCall \in Calls
         /\ Account!NoCall.with = 0 /\ Account!NoCall.answer = "none"
         /\ Account!NoLogin \in Logins /\ Account!NoLogin.got = 0
BY LenIsNat DEF Account!NoCall, Account!NoLogin, Calls, Logins

LEMMA CallType ==
  ASSUME SessionTyped, NEW tok \in Toks
  PROVE  /\ Account!Call(tok) \in Calls /\ Account!Call(tok) # Account!NoCall
         /\ Account!Call(tok).with = tok /\ Account!Call(tok).answer = "sent"
<1>1. /\ Account!Call(tok) \in Calls
      /\ Account!Call(tok).with = tok /\ Account!Call(tok).answer = "sent"
  BY DEF Account!Call, Calls
<1> QED
  BY <1>1, NoCallType

\* An answer belongs to the token of its call, and is good only for some token.
LEMMA ReplyIs ==
  ASSUME SessionTyped, NEW c \in Calls, c.answer = "sent", NEW d \in Account!Replies(c)
  PROVE  /\ d \in Calls /\ d.with = c.with
         /\ c # Account!NoCall /\ d # Account!NoCall
         /\ d.answer = "ok" => d.with # 0
<1>1. PICK a \in {IF Account!Accepted(c.with) THEN "ok" ELSE "denied", "lost"} :
        d = [c EXCEPT !.answer = a]
  BY DEF Account!Replies
<1>2. a \in {"ok", "denied", "lost"} /\ (a = "ok" => c.with # 0)
  BY <1>1 DEF Account!Accepted
<1>3. d \in Calls /\ d.with = c.with /\ d.answer = a
  BY <1>1, <1>2 DEF Calls
<1> QED
  BY <1>2, <1>3, NoCallType

\* A tab that does nothing keeps its invariant, whatever happens to the token.
LEMMA OtherTab ==
  ASSUME NEW u \in Tabs, TabInv(u),
         route'[u] = route[u], loader'[u] = loader[u], check'[u] = check[u],
         query'[u] = query[u], login'[u] = login[u], cached'[u] = cached[u],
         mine'[u] = mine[u], kicked'[u] = kicked[u],
         \/ token' = 0 \/ token' # mine[u]
         \/ token' = token /\ (token # 0 => tokens'[token] = tokens[token])
  PROVE  TabInv(u)'
<1> USE DEF TabInv
<1>1. LoadsOnly(u)' /\ ChecksOnly(u)' /\ Unkicked(u)' /\ AppHasAccount(u)'
  BY DEF LoadsOnly, ChecksOnly, Unkicked, AppHasAccount, Account!NoCall, Account!NoLogin
<1>2. Shows(u)'
  BY DEF Shows, Account!NoCall
<1> QED
  BY <1>1, <1>2

LEMMA RevokeKeeps ==
  ASSUME SessionInv, NEW tok \in DOMAIN tokens, Account!Revoke(tok)
  PROVE  SessionInv'
<1>1. /\ revoked' = revoked \cup {tok}
      /\ UNCHANGED <<tokens, token, route, loader, check, query, login, cached, mine, kicked>>
  BY DEF Account!Revoke
<1>2. tok \in Toks
  BY LenProperties DEF SessionInv, SessionTyped, Toks
<1>3. SessionTyped'
  BY <1>1, <1>2 DEF SessionInv, SessionTyped, Toks, Calls, Logins
<1>4. TokensFresh' /\ AnswersGood'
  BY <1>1 DEF SessionInv, TokensFresh, AnswersGood
<1>5. ASSUME NEW u \in Tabs PROVE TabInv(u)'
  BY <1>1, OtherTab DEF SessionInv
<1> QED
  BY <1>3, <1>4, <1>5 DEF SessionInv

LEMMA ServeKeeps ==
  ASSUME SessionInv, NEW t \in Tabs, Account!Serve(t)
  PROVE  SessionInv'
<1>1. UNCHANGED <<tokens, revoked, token, route, login, cached, mine, kicked>>
  BY DEF Account!Serve
<1>2. ASSUME NEW u \in Tabs, u # t PROVE TabInv(u)'
  <2>1. loader'[u] = loader[u] /\ check'[u] = check[u] /\ query'[u] = query[u]
    BY <1>2 DEF Account!Serve, SessionInv, SessionTyped
  <2> QED
    BY <1>1, <2>1, OtherTab DEF SessionInv
<1>3. CASE /\ loader[t].answer = "sent" /\ UNCHANGED <<check, query>>
           /\ \E c \in Account!Replies(loader[t]) : loader' = [loader EXCEPT ![t] = c]
  <2>1. PICK c \in Account!Replies(loader[t]) : loader' = [loader EXCEPT ![t] = c]
    BY <1>3
  <2>2. /\ c \in Calls /\ c.with = loader[t].with /\ loader[t] # Account!NoCall
        /\ c.answer = "ok" => c.with # 0
    BY <1>3, ReplyIs DEF SessionInv, SessionTyped
  <2>3. SessionTyped'
    BY <1>1, <1>3, <2>1, <2>2 DEF SessionInv, SessionTyped, Toks, Calls, Logins
  <2>4. TokensFresh' /\ AnswersGood'
    BY <1>1, <1>3, <2>1, <2>2 DEF SessionInv, SessionTyped, TokensFresh, AnswersGood
  <2>5. TabInv(t)'
    BY <1>1, <1>3, <2>1, <2>2
       DEF SessionInv, TabInv, LoadsOnly, ChecksOnly, Unkicked, Shows, AppHasAccount,
           Account!NoCall, Account!NoLogin
  <2> QED
    BY <1>2, <2>3, <2>4, <2>5 DEF SessionInv
<1>4. CASE /\ check[t].answer = "sent" /\ UNCHANGED <<loader, query>>
           /\ \E c \in Account!Replies(check[t]) : check' = [check EXCEPT ![t] = c]
  <2>1. PICK c \in Account!Replies(check[t]) : check' = [check EXCEPT ![t] = c]
    BY <1>4
  <2>2. c \in Calls /\ check[t] # Account!NoCall
    BY <1>4, ReplyIs DEF SessionInv, SessionTyped
  <2>3. SessionTyped'
    BY <1>1, <1>4, <2>1, <2>2 DEF SessionInv, SessionTyped, Toks, Calls, Logins
  <2>4. TokensFresh' /\ AnswersGood'
    BY <1>1, <1>4 DEF SessionInv, TokensFresh, AnswersGood
  <2>5. TabInv(t)'
    BY <1>1, <1>4, <2>1, <2>2
       DEF SessionInv, TabInv, LoadsOnly, ChecksOnly, Unkicked, Shows, AppHasAccount,
           Account!NoCall, Account!NoLogin
  <2> QED
    BY <1>2, <2>3, <2>4, <2>5 DEF SessionInv
<1>5. CASE /\ query[t].answer = "sent" /\ UNCHANGED <<loader, check>>
           /\ \E c \in Account!Replies(query[t]) : query' = [query EXCEPT ![t] = c]
  <2>1. PICK c \in Account!Replies(query[t]) : query' = [query EXCEPT ![t] = c]
    BY <1>5
  <2>2. /\ c \in Calls /\ c.with = query[t].with /\ query[t] # Account!NoCall
        /\ c.answer = "ok" => c.with # 0
    BY <1>5, ReplyIs DEF SessionInv, SessionTyped
  <2>3. SessionTyped'
    BY <1>1, <1>5, <2>1, <2>2 DEF SessionInv, SessionTyped, Toks, Calls, Logins
  <2>4. TokensFresh' /\ AnswersGood'
    BY <1>1, <1>5, <2>1, <2>2 DEF SessionInv, SessionTyped, TokensFresh, AnswersGood
  <2>5. query'[t] = c
    BY <2>1 DEF SessionInv, SessionTyped
  <2>6. TabInv(t)'
    BY <1>1, <1>5, <2>2, <2>5
       DEF SessionInv, TabInv, LoadsOnly, ChecksOnly, Unkicked, Shows, AppHasAccount,
           Account!NoCall, Account!NoLogin
  <2> QED
    BY <1>2, <2>3, <2>4, <2>6 DEF SessionInv
<1> QED
  BY <1>3, <1>4, <1>5 DEF Account!Serve

LEMMA LoginIs ==
  ASSUME SessionTyped, NEW t \in Tabs, NEW x
  PROVE  /\ [login[t] EXCEPT !.got = x] = [admin |-> login[t].admin, got |-> x]
         /\ [login[t] EXCEPT !.admin = x] = [admin |-> x, got |-> login[t].got]
<1>1. login[t] \in Logins
  BY DEF SessionTyped
<1>2. login[t] = [admin |-> login[t].admin, got |-> login[t].got]
  BY <1>1 DEF Logins
<1> QED
  BY <1>2

\* The new token is one nobody has seen.
LEMMA HandOutKeeps ==
  ASSUME SessionInv, NEW t \in Tabs, Account!HandOut(t)
  PROVE  SessionInv'
<1> DEFINE n == Len(tokens) + 1
<1>1. /\ tokens' = Append(tokens, login[t].admin)
      /\ login' = [login EXCEPT ![t].got = Len(tokens')]
      /\ login[t].admin # NoAdmin
      /\ UNCHANGED <<revoked, token, route, loader, check, query, cached, mine, kicked>>
  BY DEF Account!HandOut
<1>2. login[t].admin \in Admins
  BY <1>1 DEF SessionInv, SessionTyped, Logins
<1>3. /\ tokens' \in Seq(Admins) /\ Len(tokens') = n /\ Len(tokens) \in Nat
      /\ \A i \in 1 .. Len(tokens) : tokens'[i] = tokens[i]
  BY <1>1, <1>2, AppendProperties, LenProperties DEF SessionInv, SessionTyped
<1>4. login' = [login EXCEPT ![t] = [admin |-> login[t].admin, got |-> n]]
  <2>1. login' = [login EXCEPT ![t] = [login[t] EXCEPT !.got = n]]
    BY <1>1, <1>3
  <2> HIDE DEF n
  <2> QED
    BY <2>1, LoginIs DEF SessionInv
<1>5. Toks \subseteq Toks' /\ n \in Toks' /\ n \notin Toks /\ n # 0
  BY <1>3 DEF Toks
<1> HIDE DEF n
<1>6. SessionTyped'
  <2>1. Calls \subseteq Calls' /\ Logins \subseteq Logins'
    BY <1>5 DEF Calls, Logins
  <2>2. [admin |-> login[t].admin, got |-> n] \in Logins'
    BY <1>2, <1>5 DEF Logins
  <2>3. login' \in [Tabs -> Logins']
    BY <1>4, <2>1, <2>2 DEF SessionInv, SessionTyped
  <2>4. /\ token' \in Toks' /\ revoked' \subseteq Toks' /\ mine' \in [Tabs -> Toks']
        /\ loader' \in [Tabs -> Calls'] /\ check' \in [Tabs -> Calls']
        /\ query' \in [Tabs -> Calls']
    BY <1>1, <1>5, <2>1 DEF SessionInv, SessionTyped
  <2>5. /\ route' \in [Tabs -> {"login", "loading", "app"}]
        /\ cached' \in [Tabs -> Admins \cup {NoAdmin}]
        /\ kicked' \in [Tabs -> BOOLEAN]
    BY <1>1 DEF SessionInv, SessionTyped
  <2> QED
    BY <1>3, <2>3, <2>4, <2>5 DEF SessionTyped
<1>7. TokensFresh'
  <2>1. \A u \in Tabs : mine[u] # n /\ loader[u].with # n /\ login[u].got # n /\ token # n
    BY <1>5 DEF SessionInv, SessionTyped, Calls, Logins
  <2> QED
    BY <1>1, <1>4, <2>1 DEF SessionInv, SessionTyped, TokensFresh
<1>8. AnswersGood'
  BY <1>1 DEF SessionInv, AnswersGood
<1>9. token # 0 => tokens'[token] = tokens[token]
  BY <1>3 DEF SessionInv, SessionTyped, Toks
<1>10. ASSUME NEW u \in Tabs, u # t PROVE TabInv(u)'
  <2>1. login'[u] = login[u]
    BY <1>4, <1>10 DEF SessionInv, SessionTyped
  <2> QED
    BY <1>1, <1>9, <2>1, OtherTab DEF SessionInv
<1>11. TabInv(t)'
  <2>1. login[t] # Account!NoLogin
    BY <1>1 DEF Account!NoLogin
  <2> QED
    BY <1>1, <1>9, <2>1
       DEF SessionInv, TabInv, LoadsOnly, ChecksOnly, Unkicked, Shows, AppHasAccount,
           Account!NoCall, Account!NoLogin
<1> QED
  BY <1>6, <1>7, <1>8, <1>10, <1>11 DEF SessionInv

LEMMA handleLoginKeeps ==
  ASSUME SessionInv, NEW t \in Tabs, NEW a \in Admins, Account!handleLogin(t, a)
  PROVE  SessionInv'
<1>1. /\ route[t] = "login"
      /\ login[t] = Account!NoLogin
      /\ login' = [login EXCEPT ![t].admin = a]
      /\ UNCHANGED <<tokens, revoked, token, route, loader, check, query, cached, mine, kicked>>
  BY DEF Account!handleLogin
<1>2. login' = [login EXCEPT ![t] = [admin |-> a, got |-> 0]]
  <2>1. login' = [login EXCEPT ![t] = [login[t] EXCEPT !.admin = a]]
    BY <1>1
  <2>2. [login[t] EXCEPT !.admin = a] = [admin |-> a, got |-> login[t].got]
    BY LoginIs DEF SessionInv
  <2>3. login[t].got = 0
    BY <1>1, NoCallType DEF SessionInv
  <2> QED
    BY <2>1, <2>2, <2>3
<1>3. SessionTyped'
  <2>1. UNCHANGED <<Toks, Calls, Logins>>
    BY <1>1 DEF Toks, Calls, Logins
  <2>2. [admin |-> a, got |-> 0] \in Logins
    BY LenIsNat DEF SessionInv, Logins
  <2>3. login' \in [Tabs -> Logins]
    BY <1>2, <2>2 DEF SessionInv, SessionTyped
  <2> QED
    BY <1>1, <2>1, <2>3 DEF SessionInv, SessionTyped
<1>4. TokensFresh' /\ AnswersGood'
  BY <1>1, <1>2 DEF SessionInv, SessionTyped, TokensFresh, AnswersGood
<1>5. ASSUME NEW u \in Tabs, u # t PROVE TabInv(u)'
  <2>1. login'[u] = login[u]
    BY <1>2, <1>5 DEF SessionInv, SessionTyped
  <2> QED
    BY <1>1, <2>1, OtherTab DEF SessionInv
<1>6. TabInv(t)'
  BY <1>1
     DEF SessionInv, TabInv, LoadsOnly, ChecksOnly, Unkicked, Shows, AppHasAccount,
         Account!NoCall, Account!NoLogin
<1> QED
  BY <1>3, <1>4, <1>5, <1>6 DEF SessionInv

LEMMA LoginFailsKeeps ==
  ASSUME SessionInv, NEW t \in Tabs, Account!LoginFails(t)
  PROVE  SessionInv'
<1>1. /\ login' = [login EXCEPT ![t] = Account!NoLogin]
      /\ UNCHANGED <<tokens, revoked, token, route, loader, check, query, cached, mine, kicked>>
  BY DEF Account!LoginFails
<1>2. SessionTyped'
  BY <1>1, NoCallType DEF SessionInv, SessionTyped, Toks, Calls, Logins, Account!NoLogin
<1>3. TokensFresh' /\ AnswersGood'
  BY <1>1, NoCallType DEF SessionInv, SessionTyped, TokensFresh, AnswersGood
<1>4. ASSUME NEW u \in Tabs, u # t PROVE TabInv(u)'
  <2>1. login'[u] = login[u]
    BY <1>1, <1>4 DEF SessionInv, SessionTyped
  <2> QED
    BY <1>1, <2>1, OtherTab DEF SessionInv
<1>5. login'[t] = Account!NoLogin
  BY <1>1 DEF SessionInv, SessionTyped
<1>6. TabInv(t)'
  BY <1>1, <1>5
     DEF SessionInv, TabInv, LoadsOnly, ChecksOnly, Unkicked, Shows, AppHasAccount,
         Account!NoCall, Account!NoLogin
<1> QED
  BY <1>2, <1>3, <1>4, <1>6 DEF SessionInv

\* Storing the new token overtakes what every other tab shows.
LEMMA LoginSucceedsKeeps ==
  ASSUME SessionInv, NEW t \in Tabs, Account!LoginSucceeds(t)
  PROVE  SessionInv'
<1> DEFINE tok == login[t].got
<1>1. /\ tok # 0 /\ token' = tok
      /\ login' = [login EXCEPT ![t] = Account!NoLogin]
      /\ route' = [route EXCEPT ![t] = "loading"]
      /\ loader' = [loader EXCEPT ![t] = Account!Call(tok)]
      /\ check' = [check EXCEPT ![t] = Account!NoCall]
      /\ UNCHANGED <<tokens, revoked, query, cached, mine, kicked>>
  BY DEF Account!LoginSucceeds, Account!ToApp
<1>2. tok \in Toks
  BY DEF SessionInv, SessionTyped, Logins
<1>3. \A u \in Tabs : mine[u] # tok /\ loader[u].with # tok /\ (u # t => login[u].got # tok)
  BY <1>1 DEF SessionInv, TokensFresh
<1>4. login[t] # Account!NoLogin
  BY <1>1, NoCallType DEF SessionInv
<1> HIDE DEF tok
<1>5. /\ Account!Call(tok) \in Calls /\ Account!Call(tok).with = tok
      /\ Account!Call(tok).answer = "sent"
  BY <1>2, CallType DEF SessionInv
<1>6. SessionTyped'
  BY <1>1, <1>2, <1>5, NoCallType
     DEF SessionInv, SessionTyped, Toks, Calls, Logins, Account!NoCall, Account!NoLogin
<1>7. TokensFresh'
  BY <1>1, <1>3, <1>5, NoCallType DEF SessionInv, SessionTyped, TokensFresh
<1>8. AnswersGood'
  BY <1>1, <1>5 DEF SessionInv, SessionTyped, AnswersGood
<1>9. ASSUME NEW u \in Tabs, u # t PROVE TabInv(u)'
  <2>1. /\ route'[u] = route[u] /\ loader'[u] = loader[u] /\ check'[u] = check[u]
        /\ login'[u] = login[u]
    BY <1>1, <1>9 DEF SessionInv, SessionTyped
  <2> QED
    BY <1>1, <1>3, <2>1, OtherTab DEF SessionInv
<1>10. TabInv(t)'
  <2>1. /\ route'[t] = "loading" /\ check'[t] = Account!NoCall
        /\ login'[t] = Account!NoLogin
    BY <1>1 DEF SessionInv, SessionTyped
  <2>2. ~kicked[t] => cached[t] = NoAdmin /\ query[t] = Account!NoCall
    BY <1>4 DEF SessionInv, TabInv, Unkicked
  <2> QED
    BY <1>1, <2>1, <2>2
       DEF TabInv, LoadsOnly, ChecksOnly, Unkicked, Shows, AppHasAccount,
           Account!NoCall, Account!NoLogin
<1> QED
  BY <1>6, <1>7, <1>8, <1>9, <1>10 DEF SessionInv

LEMMA fetchAdminLoaderKeeps ==
  ASSUME SessionInv, NEW t \in Tabs, Account!fetchAdminLoader(t)
  PROVE  SessionInv'
<1> DEFINE tok == loader[t].with
<1>1. /\ loader[t].answer \in {"ok", "denied", "lost"}
      /\ token' = token
      /\ loader' = [loader EXCEPT ![t] = Account!NoCall]
      /\ UNCHANGED <<tokens, revoked, query, login>>
  BY DEF Account!fetchAdminLoader
<1>2. route[t] = "loading" /\ tok \in Toks
  BY <1>1, NoCallType DEF SessionInv, SessionTyped, TabInv, LoadsOnly, Calls
<1>3. CASE loader[t].answer = "ok"
  <2> DEFINE a == IF cached[t] = NoAdmin THEN tokens[tok] ELSE cached[t]
  <2>1. /\ route' = [route EXCEPT ![t] = "app"]
        /\ mine' = [mine EXCEPT ![t] = tok]
        /\ cached' = [cached EXCEPT ![t] = a]
        /\ UNCHANGED <<check, kicked>>
    BY <1>3 DEF Account!fetchAdminLoader
  <2>2. tokens[tok] \in Admins
    BY <1>2, <1>3, ElementOfSeq, LenIsNat DEF SessionInv, SessionTyped, AnswersGood, Toks
  <2>3. a \in Admins /\ (cached[t] = NoAdmin => a = tokens[tok])
    BY <2>2 DEF SessionInv, SessionTyped
  <2> HIDE DEF a
  <2>4. SessionTyped'
    BY <1>1, <1>2, <2>1, <2>3, NoCallType
       DEF SessionInv, SessionTyped, Toks, Calls, Logins, Account!NoCall
  <2>5. TokensFresh' /\ AnswersGood'
    <3>1. TokensFresh'
      BY <1>1, <2>1, NoCallType DEF SessionInv, SessionTyped, TokensFresh
    <3>2. AnswersGood'
      BY <1>1, <2>1, NoCallType DEF SessionInv, SessionTyped, AnswersGood
    <3> QED
      BY <3>1, <3>2
  <2>6. ASSUME NEW u \in Tabs, u # t PROVE TabInv(u)'
    <3>1. /\ route'[u] = route[u] /\ loader'[u] = loader[u] /\ mine'[u] = mine[u]
          /\ cached'[u] = cached[u]
      BY <1>1, <2>1, <2>6 DEF SessionInv, SessionTyped
    <3> QED
      BY <1>1, <2>1, <3>1, OtherTab DEF SessionInv
  <2>7. TabInv(t)'
    <3>1. /\ route'[t] = "app" /\ loader'[t] = Account!NoCall /\ mine'[t] = tok
          /\ cached'[t] = a
      BY <1>1, <2>1 DEF SessionInv, SessionTyped
    <3>2. /\ check[t] = Account!NoCall
          /\ ~kicked[t] => /\ cached[t] = NoAdmin /\ query[t] = Account!NoCall
                           /\ login[t] = Account!NoLogin
      BY <1>2 DEF SessionInv, TabInv, ChecksOnly, Unkicked
    <3>3. a # NoAdmin
      BY <2>3, AdminsAssumption
    <3> QED
      BY <1>1, <2>1, <2>3, <3>1, <3>2, <3>3
         DEF TabInv, LoadsOnly, ChecksOnly, Unkicked, Shows, AppHasAccount,
             Account!NoCall, Account!NoLogin
  <2> QED
    BY <2>4, <2>5, <2>6, <2>7 DEF SessionInv
<1>4. CASE loader[t].answer # "ok"
  <2> DEFINE c == IF token' = 0 THEN Account!NoCall ELSE Account!Call(token')
  <2>1. /\ route' = [route EXCEPT ![t] = "login"]
        /\ check' = [check EXCEPT ![t] = c]
        /\ kicked' = [kicked EXCEPT ![t] = TRUE]
        /\ UNCHANGED <<mine, cached>>
    BY <1>4 DEF Account!fetchAdminLoader, Account!ToLogin
  <2>2. c \in Calls
    BY <1>1, NoCallType, CallType DEF SessionInv, SessionTyped
  <2> HIDE DEF c
  <2>3. SessionTyped'
    BY <1>1, <1>2, <2>1, <2>2, NoCallType
       DEF SessionInv, SessionTyped, Toks, Calls, Logins, Account!NoCall
  <2>4. TokensFresh' /\ AnswersGood'
    <3>1. TokensFresh'
      BY <1>1, <2>1, NoCallType DEF SessionInv, SessionTyped, TokensFresh
    <3>2. AnswersGood'
      BY <1>1, <2>1, NoCallType DEF SessionInv, SessionTyped, AnswersGood
    <3> QED
      BY <3>1, <3>2
  <2>5. ASSUME NEW u \in Tabs, u # t PROVE TabInv(u)'
    <3>1. /\ route'[u] = route[u] /\ loader'[u] = loader[u] /\ check'[u] = check[u]
          /\ kicked'[u] = kicked[u]
      BY <1>1, <2>1, <2>5 DEF SessionInv, SessionTyped
    <3> QED
      BY <1>1, <2>1, <3>1, OtherTab DEF SessionInv
  <2>6. TabInv(t)'
    <3>1. route'[t] = "login" /\ loader'[t] = Account!NoCall /\ kicked'[t] = TRUE
      BY <1>1, <2>1 DEF SessionInv, SessionTyped
    <3> QED
      BY <3>1 DEF TabInv, LoadsOnly, ChecksOnly, Unkicked, Shows, AppHasAccount,
                  Account!NoCall
  <2> QED
    BY <2>3, <2>4, <2>5, <2>6 DEF SessionInv
<1> QED
  BY <1>3, <1>4

\* A check is under way on the login page of a tab that was kicked out, only.
LEMMA CheckAnsweredKeeps ==
  ASSUME SessionInv, NEW t \in Tabs, Account!CheckAnswered(t)
  PROVE  SessionInv'
<1>1. /\ check[t].answer \in {"ok", "denied", "lost"}
      /\ check' = [check EXCEPT ![t] = Account!NoCall]
      /\ UNCHANGED <<tokens, revoked, login, mine>>
  BY DEF Account!CheckAnswered, Account!ToApp
<1>2. check[t] # Account!NoCall /\ route[t] = "login" /\ kicked[t]
      /\ token \in Toks /\ 0 \in Toks
  BY <1>1, NoCallType, LenIsNat DEF SessionInv, SessionTyped, TabInv, ChecksOnly, Unkicked
<1>3. CASE check[t].answer = "ok"
  <2>1. /\ token' = token
        /\ route' = [route EXCEPT ![t] = "loading"]
        /\ loader' = [loader EXCEPT ![t] = Account!Call(token)]
        /\ UNCHANGED <<query, cached, kicked>>
    BY <1>3 DEF Account!CheckAnswered, Account!ToApp
  <2>2. /\ Account!Call(token) \in Calls /\ Account!Call(token).with = token
        /\ Account!Call(token).answer = "sent"
    BY <1>2, CallType DEF SessionInv
  <2>3. SessionTyped'
    BY <1>1, <2>1, <2>2, NoCallType
       DEF SessionInv, SessionTyped, Toks, Calls, Logins, Account!NoCall
  <2>4. TokensFresh'
    BY <1>1, <2>1, <2>2 DEF SessionInv, SessionTyped, TokensFresh
  <2>5. AnswersGood'
    BY <1>1, <2>1, <2>2 DEF SessionInv, SessionTyped, AnswersGood
  <2>6. ASSUME NEW u \in Tabs, u # t PROVE TabInv(u)'
    <3>1. /\ route'[u] = route[u] /\ loader'[u] = loader[u] /\ check'[u] = check[u]
      BY <1>1, <2>1, <2>6 DEF SessionInv, SessionTyped
    <3> QED
      BY <1>1, <2>1, <3>1, OtherTab DEF SessionInv
  <2>7. TabInv(t)'
    <3>1. route'[t] = "loading" /\ check'[t] = Account!NoCall /\ kicked'[t] = kicked[t]
      BY <1>1, <2>1 DEF SessionInv, SessionTyped
    <3> QED
      BY <1>2, <3>1 DEF TabInv, LoadsOnly, ChecksOnly, Unkicked, Shows, AppHasAccount,
                        Account!NoCall
  <2> QED
    BY <2>3, <2>4, <2>5, <2>6, <2>7 DEF SessionInv
<1>4. CASE check[t].answer # "ok"
  <2>1. UNCHANGED <<route, loader>>
    BY <1>4 DEF Account!CheckAnswered
  <2>2. \/ UNCHANGED <<token, query, cached, kicked>>
        \/ /\ token' = 0
           /\ query' = [query EXCEPT ![t] = Account!NoCall]
           /\ cached' = [cached EXCEPT ![t] = NoAdmin]
           /\ kicked' = [kicked EXCEPT ![t] = FALSE]
    BY <1>4 DEF Account!CheckAnswered, Account!ClearCache
  <2>3. SessionTyped'
    <3>1. UNCHANGED <<Toks, Calls, Logins>>
      BY <1>1 DEF Toks, Calls, Logins
    <3>2. check' \in [Tabs -> Calls] /\ query' \in [Tabs -> Calls]
      BY <1>1, <2>2, NoCallType DEF SessionInv, SessionTyped
    <3>3. token' \in Toks /\ cached' \in [Tabs -> Admins \cup {NoAdmin}]
      BY <1>2, <2>2 DEF SessionInv, SessionTyped
    <3>4. kicked' \in [Tabs -> BOOLEAN]
      BY <2>2 DEF SessionInv, SessionTyped
    <3> QED
      BY <1>1, <2>1, <3>1, <3>2, <3>3, <3>4 DEF SessionInv, SessionTyped
  <2>4. TokensFresh'
    BY <1>1, <2>1, <2>2 DEF SessionInv, TokensFresh
  <2>5. AnswersGood'
    BY <1>1, <2>1, <2>2, NoCallType DEF SessionInv, SessionTyped, AnswersGood
  <2>6. ASSUME NEW u \in Tabs, u # t PROVE TabInv(u)'
    <3>1. /\ query'[u] = query[u] /\ cached'[u] = cached[u] /\ check'[u] = check[u]
          /\ kicked'[u] = kicked[u]
      BY <1>1, <2>2, <2>6 DEF SessionInv, SessionTyped
    <3>2. token' = 0 \/ (token' = token /\ tokens' = tokens)
      BY <1>1, <2>2
    <3> QED
      BY <1>1, <2>1, <3>1, <3>2, OtherTab DEF SessionInv
  <2>7. TabInv(t)'
    <3>1. /\ route'[t] = "login" /\ check'[t] = Account!NoCall /\ loader'[t] = loader[t]
          /\ loader[t] = Account!NoCall
      BY <1>1, <1>2, <2>1 DEF SessionInv, SessionTyped, TabInv, LoadsOnly
    <3>2. kicked'[t] \/ (cached'[t] = NoAdmin /\ query'[t] = Account!NoCall)
      BY <1>2, <2>2 DEF SessionInv, SessionTyped
    <3> QED
      BY <3>1, <3>2 DEF TabInv, LoadsOnly, ChecksOnly, Unkicked, Shows, AppHasAccount,
                        Account!NoCall
  <2> QED
    BY <2>3, <2>4, <2>5, <2>6, <2>7 DEF SessionInv
<1> QED
  BY <1>3, <1>4

LEMMA RefetchKeeps ==
  ASSUME SessionInv, NEW t \in Tabs, Account!Refetch(t)
  PROVE  SessionInv'
<1>1. /\ route[t] = "app"
      /\ query' = [query EXCEPT ![t] = Account!Call(token)]
      /\ UNCHANGED <<tokens, revoked, token, route, loader, check, login, cached, mine, kicked>>
  BY DEF Account!Refetch
<1>2. /\ Account!Call(token) \in Calls /\ Account!Call(token).with = token
      /\ Account!Call(token).answer = "sent"
  BY CallType DEF SessionInv, SessionTyped
<1>3. SessionTyped'
  BY <1>1, <1>2 DEF SessionInv, SessionTyped, Toks, Calls, Logins
<1>4. TokensFresh'
  BY <1>1 DEF SessionInv, TokensFresh
<1>5. AnswersGood'
  BY <1>1, <1>2 DEF SessionInv, SessionTyped, AnswersGood
<1>6. ASSUME NEW u \in Tabs, u # t PROVE TabInv(u)'
  <2>1. query'[u] = query[u]
    BY <1>1, <1>6 DEF SessionInv, SessionTyped
  <2> QED
    BY <1>1, <2>1, OtherTab DEF SessionInv
<1>7. TabInv(t)'
  <2>1. query'[t] = Account!Call(token)
    BY <1>1 DEF SessionInv, SessionTyped
  <2> QED
    BY <1>1, <1>2, <2>1
       DEF SessionInv, TabInv, LoadsOnly, ChecksOnly, Unkicked, Shows, AppHasAccount,
           Account!NoCall, Account!NoLogin
<1> QED
  BY <1>3, <1>4, <1>5, <1>6, <1>7 DEF SessionInv

LEMMA QueryAnsweredKeeps ==
  ASSUME SessionInv, NEW t \in Tabs, Account!QueryAnswered(t)
  PROVE  SessionInv'
<1> DEFINE tok == query[t].with
           a   == IF query[t].answer = "ok" THEN tokens[tok] ELSE cached[t]
           out == query[t].answer = "denied" /\ route[t] # "login"
           c   == IF token' = 0 THEN Account!NoCall ELSE Account!Call(token')
<1>1. /\ query[t].answer \in {"ok", "denied", "lost"}
      /\ token' = token
      /\ query' = [query EXCEPT ![t] = Account!NoCall]
      /\ cached' = [cached EXCEPT ![t] = a]
      /\ UNCHANGED <<tokens, revoked, login, mine>>
  BY DEF Account!QueryAnswered
<1>2. IF out THEN /\ route' = [route EXCEPT ![t] = "login"]
                  /\ check' = [check EXCEPT ![t] = c]
                  /\ loader' = [loader EXCEPT ![t] = Account!NoCall]
                  /\ kicked' = [kicked EXCEPT ![t] = TRUE]
             ELSE UNCHANGED <<route, loader, check, kicked>>
  BY DEF Account!QueryAnswered, Account!ToLogin
<1>3. query[t] # Account!NoCall
  BY <1>1, NoCallType DEF SessionInv
<1>4. c \in Calls
  BY <1>1, NoCallType, CallType DEF SessionInv, SessionTyped
<1>5. query[t].answer = "ok" => tokens[tok] \in Admins
  BY ElementOfSeq, LenIsNat DEF SessionInv, SessionTyped, AnswersGood, Toks, Calls
<1>6. /\ a \in Admins \cup {NoAdmin}
      /\ cached[t] # NoAdmin => a # NoAdmin
      /\ query[t].answer = "ok" => a = tokens[tok]
      /\ query[t].answer # "ok" => a = cached[t]
  BY <1>5, AdminsAssumption DEF SessionInv, SessionTyped
<1>7. query[t].answer = "denied" => query[t].answer # "ok"
  OBVIOUS
<1> HIDE DEF a, c
<1>8. /\ cached' \in [Tabs -> Admins \cup {NoAdmin}] /\ query' \in [Tabs -> Calls]
      /\ cached'[t] = a /\ query'[t] = Account!NoCall
      /\ \A u \in Tabs : u # t => cached'[u] = cached[u] /\ query'[u] = query[u]
  BY <1>1, <1>6, NoCallType DEF SessionInv, SessionTyped
<1>9. UNCHANGED <<Toks, Calls, Logins>>
  BY <1>1 DEF Toks, Calls, Logins
<1>10. CASE out
  <2>1. /\ route' \in [Tabs -> {"login", "loading", "app"}] /\ kicked' \in [Tabs -> BOOLEAN]
        /\ check' \in [Tabs -> Calls] /\ loader' \in [Tabs -> Calls]
    BY <1>2, <1>4, <1>10, NoCallType DEF SessionInv, SessionTyped
  <2>2. SessionTyped'
    BY <1>1, <1>8, <1>9, <2>1 DEF SessionInv, SessionTyped
  <2>3. TokensFresh'
    BY <1>1, <1>2, <1>10, NoCallType DEF SessionInv, SessionTyped, TokensFresh
  <2>4. AnswersGood'
    BY <1>1, <1>2, <1>10, NoCallType DEF SessionInv, SessionTyped, AnswersGood
  <2>5. ASSUME NEW u \in Tabs, u # t PROVE TabInv(u)'
    <3>1. /\ route'[u] = route[u] /\ loader'[u] = loader[u] /\ check'[u] = check[u]
          /\ kicked'[u] = kicked[u]
      BY <1>2, <1>10, <2>5 DEF SessionInv, SessionTyped
    <3> QED
      BY <1>1, <1>8, <2>5, <3>1, OtherTab DEF SessionInv
  <2>6. TabInv(t)'
    <3>1. route'[t] = "login" /\ loader'[t] = Account!NoCall /\ kicked'[t] = TRUE
      BY <1>2, <1>10 DEF SessionInv, SessionTyped
    <3> QED
      BY <3>1 DEF TabInv, LoadsOnly, ChecksOnly, Unkicked, Shows, AppHasAccount,
                  Account!NoCall
  <2> QED
    BY <2>2, <2>3, <2>4, <2>5, <2>6 DEF SessionInv
<1>11. CASE ~out
  <2>0. UNCHANGED <<route, loader, check, kicked>>
    BY <1>2, <1>11
  <2> HIDE DEF out
  <2>1. SessionTyped'
    BY <1>1, <1>8, <1>9, <2>0 DEF SessionInv, SessionTyped
  <2>2. TokensFresh'
    BY <1>1, <2>0 DEF SessionInv, TokensFresh
  <2>3. AnswersGood'
    BY <1>1, <2>0, NoCallType DEF SessionInv, SessionTyped, AnswersGood
  <2>4. ASSUME NEW u \in Tabs, u # t PROVE TabInv(u)'
    BY <1>1, <1>8, <2>0, <2>4, OtherTab DEF SessionInv
  <2>5. TabInv(t)'
    <3>1. LoadsOnly(t)' /\ ChecksOnly(t)'
      BY <2>0 DEF SessionInv, TabInv, LoadsOnly, ChecksOnly, Account!NoCall
    <3>2. Unkicked(t)'
      BY <1>1, <1>3, <1>8, <2>0
         DEF SessionInv, TabInv, Unkicked, Account!NoCall, Account!NoLogin
    <3>3. AppHasAccount(t)'
      BY <1>6, <1>8, <2>0 DEF SessionInv, TabInv, AppHasAccount
    <3>4. ASSUME route[t] = "app", ~kicked[t], token = mine[t], token # 0
          PROVE  cached'[t] = tokens[token]
      <4>1. cached[t] = tokens[token] /\ tok = token
        BY <1>3, <3>4 DEF SessionInv, TabInv, Shows
      <4> QED
        BY <1>6, <1>8, <4>1
    <3>5. Shows(t)'
      BY <1>1, <1>8, <2>0, <3>4 DEF Shows, Account!NoCall
    <3> QED
      BY <3>1, <3>2, <3>3, <3>5 DEF TabInv
  <2> QED
    BY <2>1, <2>2, <2>3, <2>4, <2>5 DEF SessionInv
<1> QED
  BY <1>10, <1>11

\* What the cache is emptied of, by the logout button and by opening a tab anew.
LEMMA ClearCacheIs ==
  ASSUME SessionInv, NEW t \in Tabs, Account!ClearCache(t), UNCHANGED tokens
  PROVE  /\ query' \in [Tabs -> Calls] /\ cached' \in [Tabs -> Admins \cup {NoAdmin}]
         /\ kicked' \in [Tabs -> BOOLEAN]
         /\ query'[t] = Account!NoCall /\ cached'[t] = NoAdmin
         /\ \A u \in Tabs : u # t => /\ query'[u] = query[u] /\ cached'[u] = cached[u]
                                     /\ kicked'[u] = kicked[u]
<1>1. /\ query' = [query EXCEPT ![t] = Account!NoCall]
      /\ cached' = [cached EXCEPT ![t] = NoAdmin]
      /\ kicked' = [kicked EXCEPT ![t] = FALSE]
  BY DEF Account!ClearCache
<1> QED
  BY <1>1, NoCallType DEF SessionInv, SessionTyped

LEMMA handleLogoutKeeps ==
  ASSUME SessionInv, NEW t \in Tabs, Account!handleLogout(t)
  PROVE  SessionInv'
<1>1. /\ route[t] = "app" /\ token' = 0
      /\ Account!ClearCache(t)
      /\ route' = [route EXCEPT ![t] = "login"]
      /\ check' = [check EXCEPT ![t] = Account!NoCall]
      /\ UNCHANGED <<tokens, revoked, loader, login, mine>>
  BY DEF Account!handleLogout, Account!Forgets, Account!ToLogin
<1>2. /\ query' \in [Tabs -> Calls] /\ cached' \in [Tabs -> Admins \cup {NoAdmin}]
      /\ kicked' \in [Tabs -> BOOLEAN]
      /\ query'[t] = Account!NoCall /\ cached'[t] = NoAdmin
      /\ \A u \in Tabs : u # t => /\ query'[u] = query[u] /\ cached'[u] = cached[u]
                                  /\ kicked'[u] = kicked[u]
  BY <1>1, ClearCacheIs
<1>3. /\ check' \in [Tabs -> Calls] /\ route' \in [Tabs -> {"login", "loading", "app"}]
      /\ check'[t] = Account!NoCall /\ route'[t] = "login"
      /\ \A u \in Tabs : u # t => check'[u] = check[u] /\ route'[u] = route[u]
  BY <1>1, NoCallType DEF SessionInv, SessionTyped
<1>4. UNCHANGED <<Toks, Calls, Logins>> /\ 0 \in Toks
  BY <1>1, LenIsNat DEF SessionInv, Toks, Calls, Logins
<1>5. SessionTyped'
  BY <1>1, <1>2, <1>3, <1>4 DEF SessionInv, SessionTyped
<1>6. TokensFresh'
  BY <1>1 DEF SessionInv, TokensFresh
<1>7. AnswersGood'
  BY <1>1, <1>2, NoCallType DEF SessionInv, AnswersGood
<1>8. ASSUME NEW u \in Tabs, u # t PROVE TabInv(u)'
  BY <1>1, <1>2, <1>3, <1>8, OtherTab DEF SessionInv
<1>9. TabInv(t)'
  <2>1. loader[t] = Account!NoCall
    BY <1>1 DEF SessionInv, TabInv, LoadsOnly
  <2> QED
    BY <1>1, <1>2, <1>3, <2>1
       DEF TabInv, LoadsOnly, ChecksOnly, Unkicked, Shows, AppHasAccount, Account!NoCall
<1> QED
  BY <1>5, <1>6, <1>7, <1>8, <1>9 DEF SessionInv

LEMMA ReloadKeeps ==
  ASSUME SessionInv, NEW t \in Tabs, Account!Reload(t)
  PROVE  SessionInv'
<1>1. /\ token' = token
      /\ Account!ClearCache(t)
      /\ route' = [route EXCEPT ![t] = "loading"]
      /\ loader' = [loader EXCEPT ![t] = Account!Call(token)]
      /\ check' = [check EXCEPT ![t] = Account!NoCall]
      /\ login' = [login EXCEPT ![t] = Account!NoLogin]
      /\ UNCHANGED <<tokens, revoked, mine>>
  BY DEF Account!Reload, Account!ToApp
<1>2. /\ query' \in [Tabs -> Calls] /\ cached' \in [Tabs -> Admins \cup {NoAdmin}]
      /\ kicked' \in [Tabs -> BOOLEAN]
      /\ query'[t] = Account!NoCall /\ cached'[t] = NoAdmin
      /\ \A u \in Tabs : u # t => /\ query'[u] = query[u] /\ cached'[u] = cached[u]
                                  /\ kicked'[u] = kicked[u]
  BY <1>1, ClearCacheIs
<1>3. /\ Account!Call(token) \in Calls /\ Account!Call(token).with = token
      /\ Account!Call(token).answer = "sent"
  BY CallType DEF SessionInv, SessionTyped
<1>4. /\ check' \in [Tabs -> Calls] /\ route' \in [Tabs -> {"login", "loading", "app"}]
      /\ loader' \in [Tabs -> Calls] /\ login' \in [Tabs -> Logins]
      /\ check'[t] = Account!NoCall /\ route'[t] = "loading"
      /\ login'[t] = Account!NoLogin /\ loader'[t] = Account!Call(token)
      /\ \A u \in Tabs : u # t => /\ check'[u] = check[u] /\ route'[u] = route[u]
                                  /\ loader'[u] = loader[u] /\ login'[u] = login[u]
  BY <1>1, <1>3, NoCallType DEF SessionInv, SessionTyped
<1>5. UNCHANGED <<Toks, Calls, Logins>>
  BY <1>1 DEF Toks, Calls, Logins
<1>6. SessionTyped'
  BY <1>1, <1>2, <1>4, <1>5 DEF SessionInv, SessionTyped
<1>7. TokensFresh'
  BY <1>1, <1>3, <1>4, NoCallType DEF SessionInv, TokensFresh
<1>8. AnswersGood'
  BY <1>2, <1>3, <1>4, NoCallType DEF SessionInv, AnswersGood
<1>9. ASSUME NEW u \in Tabs, u # t PROVE TabInv(u)'
  BY <1>1, <1>2, <1>4, <1>9, OtherTab DEF SessionInv
<1>10. TabInv(t)'
  BY <1>2, <1>4
     DEF TabInv, LoadsOnly, ChecksOnly, Unkicked, Shows, AppHasAccount, Account!NoCall,
         Account!NoLogin
<1> QED
  BY <1>6, <1>7, <1>8, <1>9, <1>10 DEF SessionInv

LEMMA SessionInvHolds == Spec => []SessionInv
<1>1. Init => SessionInv
  <2> SUFFICES ASSUME Init PROVE SessionInv
    OBVIOUS
  <2> DEFINE a == CHOOSE x \in Admins : TRUE
  <2>1. a \in Admins
    BY AdminsAssumption
  <2>2. tokens = <<a>> /\ revoked = {} /\ token = 1
    BY DEF Init, Account!SessionInit
  <2> HIDE DEF a
  <2>3. tokens \in Seq(Admins) /\ Len(tokens) = 1 /\ Toks = 0..1
    BY <2>1, <2>2 DEF Toks
  <2>4. /\ Account!NoCall \in Calls /\ Account!Call(1) \in Calls /\ Account!NoLogin \in Logins
        /\ Account!Call(1).with = 1 /\ Account!Call(1).answer = "sent"
        /\ Account!NoCall.with = 0 /\ Account!NoCall.answer = "none" /\ Account!NoLogin.got = 0
    BY <2>3 DEF Account!NoCall, Account!Call, Account!NoLogin, Calls, Logins
  <2>5. SessionTyped
    BY <2>2, <2>3, <2>4 DEF Init, Account!SessionInit, SessionTyped
  <2>6. TokensFresh /\ AnswersGood
    BY <2>2, <2>4 DEF Init, Account!SessionInit, TokensFresh, AnswersGood
  <2>7. \A t \in Tabs : TabInv(t)
    BY DEF Init, Account!SessionInit, TabInv, LoadsOnly, ChecksOnly, Unkicked, Shows,
           AppHasAccount
  <2> QED
    BY <2>5, <2>6, <2>7 DEF SessionInv
<1>2. SessionInv /\ [Next]_vars => SessionInv'
  <2> SUFFICES ASSUME SessionInv, [Next]_vars
               PROVE  SessionInv'
    OBVIOUS
  <2>1. CASE UNCHANGED sessionVars
    BY <2>1 DEF sessionVars, SessionInv, SessionTyped, TokensFresh, AnswersGood, TabInv,
                LoadsOnly, ChecksOnly, Unkicked, Shows, AppHasAccount, Toks, Calls, Logins,
                Account!NoCall, Account!NoLogin
  <2>2. CASE Account!SessionNext
    <3>1. CASE \E tok \in DOMAIN tokens : Account!Revoke(tok)
      BY <3>1, RevokeKeeps
    <3>2. CASE \E t \in Tabs : \E a \in Admins : Account!handleLogin(t, a)
      BY <3>2, handleLoginKeeps
    <3>3. CASE \E t \in Tabs : \/ Account!Serve(t) \/ Account!HandOut(t)
                               \/ Account!LoginSucceeds(t) \/ Account!LoginFails(t)
                               \/ Account!fetchAdminLoader(t)
      BY <3>3, ServeKeeps, HandOutKeeps, LoginSucceedsKeeps, LoginFailsKeeps,
         fetchAdminLoaderKeeps
    <3>4. CASE \E t \in Tabs : \/ Account!CheckAnswered(t) \/ Account!Refetch(t)
                               \/ Account!QueryAnswered(t) \/ Account!handleLogout(t)
                               \/ Account!Reload(t)
      BY <3>4, CheckAnsweredKeeps, RefetchKeeps, QueryAnsweredKeeps, handleLogoutKeeps,
         ReloadKeeps
    <3> QED
      BY <2>2, <3>1, <3>2, <3>3, <3>4 DEF Account!SessionNext
  <2> QED
    BY <2>1, <2>2 DEF Next, HostsStep, UsersStep, LogsStep, SessionStep, vars
<1> QED
  BY <1>1, <1>2, PTL DEF Spec

\* Whoever logs in and out, in whatever tabs and whenever the answers come, a tab
\* shows the account its requests are made for, unless another tab stored a token
\* since or the tab was sent to the login page with its cache full.
THEOREM TabsShowTheirAccount == Spec => []ShowsItsAccount
<1>1. SessionInv => ShowsItsAccount
  BY DEF SessionInv, TabInv, Shows, ShowsItsAccount, Account!ShowsItsAccount
<1> QED
  BY <1>1, SessionInvHolds, PTL
=============================================================================
