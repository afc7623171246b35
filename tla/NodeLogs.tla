------------------------------ MODULE NodeLogs ------------------------------
(***************************************************************************)
(* The live log page of the dashboard: the stream of the selected node is  *)
(* shown, or put by while the page is paused and shown on resume.          *)
(*                                                                         *)
(* What an event handler sets is queued and rendered a moment later, and   *)
(* the buttons see what was rendered last.  A click is rendered at once; a *)
(* line from the stream is not.  The stream is opened and closed by the    *)
(* effects that run after a render with another node.                      *)
(***************************************************************************)
EXTENDS Integers, Sequences, FiniteSets

CONSTANTS
  LogNodes,   \* ids of nodes, positive numbers
  RAW_LOG_BUFFER_MAX,   \* lines kept on the screen
  MaxLines,   \* bounds the lines of a visit
  MaxNodeChanges   \* bounds the changes of the nodes' states

VARIABLES
  connectedNodes, \* the nodes the query says are connected
  selectedNode,   \* the node selected, 0 for none
  committed,      \* the selection and the nodes the effects last ran for
  source,         \* the node of the open stream, 0 for none
  oldSources,     \* nodes whose streams were closed and may still have an event queued
  rawLogs,        \* the lines on the screen
  messageBuffer,  \* the lines put by
  seenBuffer,     \* the same, as rendered last
  isPaused,       \* is the page paused?  (isPausedRef has the same value)
  streamed,       \* history: the lines the open stream brought
  hasty,          \* history: see LogsComplete
  lineCount, nodeChanges

logVars == <<connectedNodes, selectedNode, committed, source, oldSources, rawLogs,
             messageBuffer, seenBuffer, isPaused, streamed, hasty, lineCount, nodeChanges>>

Newest(q) ==
  SubSeq(q, IF Len(q) > RAW_LOG_BUFFER_MAX THEN Len(q) - RAW_LOG_BUFFER_MAX + 1 ELSE 1, Len(q))

-----------------------------------------------------------------------------
\* The query brings other nodes.
NodesChange ==
  /\ nodeChanges < MaxNodeChanges
  /\ nodeChanges' = nodeChanges + 1
  /\ connectedNodes' \in SUBSET LogNodes
  /\ UNCHANGED <<selectedNode, committed, source, oldSources, rawLogs, messageBuffer, seenBuffer,
                 isPaused, streamed, hasty, lineCount>>

\* The first connected node is taken when none is selected, none when it went away.
AutoSelected ==
  CASE selectedNode = 0 /\ connectedNodes # {} ->
         CHOOSE n \in connectedNodes : \A m \in connectedNodes : n <= m
    [] selectedNode # 0 /\ selectedNode \notin connectedNodes -> 0
    [] OTHER -> selectedNode

\* A bug: the lines of the last node stay on the screen.
MUT_ClearedLogs(q) == q

ClearedLogs(q) == <<>>

\* The effects after a render: the selection is corrected; for another node the
\* old stream is closed and, if there is one now, its own is opened on an empty screen.
Effects ==
  /\ committed # <<selectedNode, connectedNodes>>
  /\ committed' = <<selectedNode, connectedNodes>>
  /\ selectedNode' = AutoSelected
  /\ IF committed[1] = selectedNode
       THEN UNCHANGED <<source, oldSources, rawLogs, messageBuffer, isPaused, streamed, hasty>>
       ELSE /\ oldSources' = oldSources \cup ({source} \ {0})
            /\ source' = selectedNode
            /\ IF selectedNode = 0
                 THEN UNCHANGED <<rawLogs, messageBuffer, isPaused, streamed, hasty>>
                 ELSE /\ rawLogs' = ClearedLogs(rawLogs)
                      /\ messageBuffer' = <<>>
                      /\ isPaused' = FALSE
                      /\ streamed' = <<>>
                      /\ hasty' = FALSE
  /\ seenBuffer' = messageBuffer'
  /\ UNCHANGED <<connectedNodes, lineCount, nodeChanges>>

\* A line arrives; one from a stream that was replaced is ignored.
onmessage(n) ==
  /\ n \in (oldSources \cup {source}) \ {0}
  /\ lineCount < MaxLines
  /\ lineCount' = lineCount + 1
  /\ LET line == [node |-> n, no |-> lineCount] IN
     IF n # source
       THEN UNCHANGED <<rawLogs, messageBuffer, streamed>>
       ELSE /\ streamed' = Append(streamed, line)
            /\ IF isPaused
                 THEN messageBuffer' = Append(messageBuffer, line) /\ UNCHANGED rawLogs
                 ELSE rawLogs' = Newest(Append(rawLogs, line)) /\ UNCHANGED messageBuffer
  /\ UNCHANGED <<connectedNodes, selectedNode, committed, source, oldSources, seenBuffer,
                 isPaused, hasty, nodeChanges>>

Render ==
  /\ seenBuffer # messageBuffer
  /\ seenBuffer' = messageBuffer
  /\ UNCHANGED <<connectedNodes, selectedNode, committed, source, oldSources, rawLogs,
                 messageBuffer, isPaused, streamed, hasty, lineCount, nodeChanges>>

\* A bug: the lines put by replace the ones on the screen.
MUT_Resumed(q, put) == Newest(put)

Resumed(q, put) == Newest(q \o put)

\* Resuming shows the lines put by, as far as they were rendered, and drops them all.
handlePauseResume ==
  /\ isPaused' = ~isPaused
  /\ IF isPaused /\ seenBuffer # <<>>
       THEN rawLogs' = Resumed(rawLogs, seenBuffer) /\ messageBuffer' = <<>>
       ELSE UNCHANGED <<rawLogs, messageBuffer>>
  /\ seenBuffer' = messageBuffer'
  /\ hasty' = (hasty \/ (isPaused /\ seenBuffer # messageBuffer))
  /\ UNCHANGED <<connectedNodes, selectedNode, committed, source, oldSources, streamed,
                 lineCount, nodeChanges>>

\* The stream is closed by the handler; the effects open the other one.
handleNodeChange(n) ==
  /\ n # selectedNode
  /\ selectedNode' = n
  /\ rawLogs' = <<>> /\ messageBuffer' = <<>> /\ seenBuffer' = <<>>
  /\ isPaused' = FALSE
  /\ oldSources' = oldSources \cup ({source} \ {0})
  /\ source' = 0
  /\ streamed' = <<>>
  /\ UNCHANGED <<connectedNodes, committed, hasty, lineCount, nodeChanges>>

-----------------------------------------------------------------------------
LogsInit ==
  /\ connectedNodes = LogNodes
  /\ selectedNode = 0 /\ committed = <<0, {}>> /\ source = 0 /\ oldSources = {}
  /\ rawLogs = <<>> /\ messageBuffer = <<>> /\ seenBuffer = <<>>
  /\ isPaused = FALSE
  /\ streamed = <<>> /\ hasty = FALSE
  /\ lineCount = 0 /\ nodeChanges = 0

LogsNext ==
  \/ NodesChange \/ Effects \/ Render \/ handlePauseResume
  \/ \E n \in LogNodes : onmessage(n)
  \/ \E n \in connectedNodes : handleNodeChange(n)

-----------------------------------------------------------------------------
LogsTypeOK ==
  /\ selectedNode \in LogNodes \cup {0} /\ source \in LogNodes \cup {0}
  /\ oldSources \subseteq LogNodes /\ connectedNodes \subseteq LogNodes
  /\ Len(rawLogs) <= RAW_LOG_BUFFER_MAX /\ isPaused \in BOOLEAN

\* Once the effects have run, the lines on the screen and those put by are the selected
\* node's, whatever lines of the nodes selected before were still on their way.
OnlySelectedNode ==
  (selectedNode # 0 /\ committed[1] = selectedNode) =>
    \A q \in {rawLogs, messageBuffer} : \A i \in DOMAIN q : q[i].node = selectedNode

\* Pausing and resuming neither loses, repeats nor reorders lines: the screen and the lines
\* put by, together, end in the newest lines the stream brought, as many as the
\* screen holds.  Excepted is a resume that came before the lines put by were all rendered: those
\* are dropped, or left behind until the next one (handlePauseResume reads the rendered buffer).
LogsComplete ==
  (source # 0 /\ ~hasty) => Newest(rawLogs \o messageBuffer) = Newest(streamed)
=============================================================================
