--------------------------- MODULE NodeReleaseProofs ---------------------------
(***************************************************************************)
(* Proofs about NodeRelease, for every set of nodes, contents and requests *)
(* and every bound: types, what the status of a node says about its        *)
(* snapshots, and that overlapping publishes hide nothing from readers.    *)
(***************************************************************************)
EXTENDS NodeRelease, FiniteSetTheorems, TLAPS

USE DEF ReleaseId

-------------------------------------------------------------------------------
(* Types.                                                                  *)

LEMMA BlankType == Blank \in Content /\ Nowhere \in Places
<1>1. \E x \in Content : TRUE
  <2>1. PICK b \in Bodies, s \in Summaries, p \in Places : TRUE
    BY NodeReleaseAssumption DEF NodeReleaseAssumption
  <2>2. [body |-> b, summary |-> s, place |-> p] \in Content
    BY DEF Content
  <2> QED
    BY <2>2
<1>2. \E p \in Places : TRUE
  BY NodeReleaseAssumption DEF NodeReleaseAssumption
<1> QED
  BY <1>1, <1>2 DEF Blank, Nowhere

\* What a request can become.
LEMMA AtType ==
  ASSUME NEW op \in CallOps, NEW t \in Nat, NEW items \in SUBSET ReleaseId
  PROVE  /\ At(op, t, items) \in Call
         /\ At(op, t, items).op = op /\ At(op, t, items).at = t
         /\ At(op, t, items).items = items
  BY BlankType DEF At, Call, Statuses

LEMMA NoCallType == NoCall \in Call /\ NoCall.op = "idle" /\ NoCall.at = 0
  BY AtType DEF NoCall, CallOps

LEMMA MovingType ==
  ASSUME NEW n \in Nodes, NEW p \in Places, NEW st \in Statuses
  PROVE  /\ Moving(n, p, st) \in Call
         /\ Moving(n, p, st).op = "move" /\ Moving(n, p, st).at = 0
         /\ Moving(n, p, st).node = n /\ Moving(n, p, st).read = st
  BY DEF Moving, Call, CallOps

LEMMA ContentType ==
  ASSUME NEW x \in Content
  PROVE  /\ \A p \in Places : Placed(x, p) \in Content /\ Placed(x, p).body = x.body
         /\ \A s \in Summaries : Summarised(x, s) \in Content
                                 /\ Summarised(x, s).body = x.body
  BY DEF Content, Placed, Summarised

LEMMA CountNodes ==
  ASSUME NEW S, S \subseteq Nodes  PROVE Cardinality(S) \in Nat
  BY NodeReleaseAssumption, FS_Subset, FS_CardinalityType DEF NodeReleaseAssumption

\* The new rows of a publish: above all earlier ones, each of a published node.
LEMMA NewRows ==
  ASSUME TypeOK, NEW c \in Callers, NEW S \in SUBSET Nodes, CreateNodeReleases(c, S)
  PROVE  \E new \in SUBSET ReleaseId, of \in [ReleaseId -> Nodes \cup {NoNode}] :
            /\ \A r \in new : r > lastRel /\ r <= lastRel' /\ of[r] \in S
            /\ \A r \in lastRel + 1 .. lastRel' : r \in new
            /\ \A n \in S : \E r \in new : of[r] = n
            /\ rows' = rows \cup new
            /\ relNode' = [r \in ReleaseId |-> IF r \in new THEN of[r] ELSE relNode[r]]
            /\ relContent' = [r \in ReleaseId |-> IF r \in new THEN draft[of[r]]
                                                  ELSE relContent[r]]
            /\ lastRel' \in Nat /\ lastRel <= lastRel' /\ lastRel' <= MaxReleases
<1> USE NodeReleaseAssumption DEF NodeReleaseAssumption
<1> DEFINE new == lastRel + 1 .. lastRel + Cardinality(S)
<1>1. lastRel \in Nat /\ Cardinality(S) \in Nat
  BY CountNodes DEF TypeOK, RowsType
<1>2. PICK g \in [new -> S] :
        /\ \A n \in S : \E r \in new : g[r] = n
        /\ rows' = rows \cup new
        /\ relNode' = [r \in ReleaseId |-> IF r \in new THEN g[r] ELSE relNode[r]]
        /\ relContent' = [r \in ReleaseId |-> IF r \in new THEN draft[g[r]]
                                              ELSE relContent[r]]
        /\ lastRel' = lastRel + Cardinality(S) /\ lastRel' <= MaxReleases
  BY DEF CreateNodeReleases, Number
<1>3. new \in SUBSET ReleaseId /\ \A r \in new : r > lastRel /\ r <= lastRel'
  BY <1>1, <1>2
<1>4. \A r \in lastRel + 1 .. lastRel' : r \in new
  BY <1>1, <1>2
<1> DEFINE of == [r \in ReleaseId |-> IF r \in new THEN g[r] ELSE NoNode]
<1> HIDE DEF new
<1>5. of \in [ReleaseId -> Nodes \cup {NoNode}] /\ \A r \in new : of[r] = g[r] /\ of[r] \in S
  BY <1>2, <1>3
<1>6. /\ relNode' = [r \in ReleaseId |-> IF r \in new THEN of[r] ELSE relNode[r]]
      /\ relContent' = [r \in ReleaseId |-> IF r \in new THEN draft[of[r]] ELSE relContent[r]]
      /\ \A n \in S : \E r \in new : of[r] = n
  <2> HIDE DEF of
  <2> QED
    BY <1>2, <1>5
<1>7. lastRel' \in Nat /\ lastRel <= lastRel' /\ lastRel' <= MaxReleases
  BY <1>1, <1>2
<1> HIDE DEF of
<1>8. new \in SUBSET ReleaseId
  BY <1>3
<1>9. of \in [ReleaseId -> Nodes \cup {NoNode}]
  BY <1>5
<1>10. rows' = rows \cup new /\ \A r \in new : r > lastRel /\ r <= lastRel' /\ of[r] \in S
  BY <1>2, <1>3, <1>5
<1> WITNESS new \in SUBSET ReleaseId, of \in [ReleaseId -> Nodes \cup {NoNode}]
<1> QED
  BY <1>4, <1>6, <1>7, <1>10

LEMMA LatestType == TypeOK => Latest \in SUBSET ReleaseId
<1>1. Latest \subseteq rows
  BY DEF Latest
<1>2. TypeOK => rows \subseteq ReleaseId
  BY NodeReleaseAssumption DEF NodeReleaseAssumption, TypeOK, RowsType
<1> QED
  BY <1>1, <1>2

LEMMA TypeFrame ==
  ASSUME TypeOK
  PROVE  /\ UNCHANGED nodeVars => NodesType'
         /\ UNCHANGED relVars => RowsType'
         /\ UNCHANGED kbVars => KBType'
         /\ UNCHANGED call => CallsType'
         /\ UNCHANGED workerVars => TaskType'
         /\ UNCHANGED countVars => CountType'
<1>1. UNCHANGED nodeVars => NodesType'
  BY DEF TypeOK, nodeVars, NodesType
<1>2. UNCHANGED relVars => RowsType'
  BY DEF TypeOK, relVars, RowsType
<1>3. UNCHANGED kbVars => KBType'
  BY DEF TypeOK, kbVars, KBType
<1>4. UNCHANGED call => CallsType'
  BY DEF TypeOK, CallsType
<1>5. UNCHANGED workerVars => TaskType'
  BY DEF TypeOK, workerVars, TaskType
<1>6. UNCHANGED countVars => CountType'
  BY DEF TypeOK, countVars, CountType
<1> QED
  BY <1>1, <1>2, <1>3, <1>4, <1>5, <1>6

LEMMA CallStep ==
  ASSUME CallsType, NEW c \in Callers, NEW x \in Call, Become(c, x)
  PROVE  CallsType'
  BY DEF CallsType, Become

\* A worker between two statements, and at rest.
LEMMA WorkerStep ==
  ASSUME summaryTasks' \subseteq Nodes,
         \/ Rested
         \/ \E n \in Nodes, st \in Statuses, where \in {"summary", "status"} :
               Worker(where, n, st)
  PROVE  TaskType'
  BY NodeReleaseAssumption DEF NodeReleaseAssumption, Rested, Worker, TaskType, Statuses

LEMMA TypeInit == Init => TypeOK
  BY BlankType, NoCallType, NodeReleaseAssumption
     DEF Init, NodeReleaseAssumption, TypeOK, NodesType, RowsType, KBType, CallsType,
         TaskType, CountType, Statuses

LEMMA TypeStep == TypeOK /\ [Next]_vars => TypeOK'
<1> SUFFICES ASSUME TypeOK, [Next]_vars PROVE TypeOK'
  OBVIOUS
<1>0. NodesType /\ RowsType /\ KBType /\ CallsType /\ TaskType /\ CountType
  BY DEF TypeOK
<1>1. CASE UNCHANGED vars
  BY <1>1, TypeFrame DEF vars, TypeOK
<1>2. ASSUME NEW n \in Nodes, NEW x \in Content, Create(n, x)  PROVE TypeOK'
  <2>1. NodesType'
    BY <1>0, <1>2 DEF Create, NodesType, Statuses
  <2> QED
    BY <1>2, <2>1, TypeFrame DEF Create, TypeOK
<1>3. ASSUME NEW n \in Nodes, NEW x \in Content, NEW moved \in BOOLEAN,
             UpdateNodeContent(n, x, moved)
      PROVE  TypeOK'
  <2>1. NodesType'
    BY <1>0, <1>3 DEF UpdateNodeContent, UpdateContent, NodesType, Statuses
  <2> QED
    BY <1>3, <2>1, TypeFrame DEF UpdateNodeContent, UpdateContent, TypeOK
<1>4. ASSUME NEW S \in SUBSET Nodes, NEW p \in Places, BatchMove(S, p)  PROVE TypeOK'
  <2>1. NodesType'
    BY <1>0, <1>4, ContentType DEF BatchMove, NodesType, Statuses
  <2> QED
    BY <1>4, <2>1, TypeFrame DEF BatchMove, TypeOK
<1>5. ASSUME NEW S \in SUBSET Nodes, Delete(S)  PROVE TypeOK'
  <2>1. NodesType' /\ RowsType'
    BY <1>0, <1>5 DEF Delete, NodesType, RowsType
  <2> QED
    BY <1>5, <2>1, TypeFrame DEF Delete, TypeOK
<1>6. ASSUME NEW S \in SUBSET Nodes, SummaryNode(S)  PROVE TypeOK'
  <2>1. TaskType'
    BY <1>0, <1>6 DEF SummaryNode, TaskType
  <2> QED
    BY <1>6, <2>1, TypeFrame DEF SummaryNode, TypeOK
<1>7. ASSUME NEW c \in Callers, NEW S \in SUBSET Nodes, CreateNodeReleases(c, S)
      PROVE  TypeOK'
  <2>1. PICK new \in SUBSET ReleaseId, of \in [ReleaseId -> Nodes \cup {NoNode}] :
            /\ \A r \in new : r > lastRel /\ r <= lastRel' /\ of[r] \in S
            /\ rows' = rows \cup new
            /\ relNode' = [r \in ReleaseId |-> IF r \in new THEN of[r] ELSE relNode[r]]
            /\ relContent' = [r \in ReleaseId |-> IF r \in new THEN draft[of[r]]
                                                  ELSE relContent[r]]
            /\ lastRel' \in Nat /\ lastRel <= lastRel' /\ lastRel' <= MaxReleases
    BY <1>7, NewRows
  <2>2. lastRel' \in 0..MaxReleases /\ rows' \subseteq 1..lastRel'
    BY <1>0, <2>1, NodeReleaseAssumption DEF NodeReleaseAssumption, RowsType
  <2>3. relNode' \in [ReleaseId -> Nodes \cup {NoNode}]
    BY <1>0, <2>1 DEF RowsType
  <2>4. relContent' \in [ReleaseId -> Content]
    BY <1>0, <2>1 DEF RowsType, NodesType
  <2>5. RowsType'
    BY <2>2, <2>3, <2>4 DEF RowsType
  <2>6. NodesType'
    BY <1>0, <1>7 DEF CreateNodeReleases, NodesType, Statuses
  <2>7. CallsType'
    BY <1>0, <1>7, CallStep, AtType DEF CreateNodeReleases, CallOps
  <2>8. CountType'
    BY <1>0, <1>7, NodeReleaseAssumption
       DEF NodeReleaseAssumption, CreateNodeReleases, CountType
  <2> QED
    BY <1>7, <2>5, <2>6, <2>7, <2>8, TypeFrame DEF CreateNodeReleases, TypeOK
<1>8. ASSUME NEW c \in Callers, NEW n \in Nodes, NEW p \in Places, MoveReads(c, n, p)
      PROVE  TypeOK'
  <2>1. CallsType'
    BY <1>0, <1>8, CallStep, MovingType DEF MoveReads, NodesType
  <2> QED
    BY <1>8, <2>1, TypeFrame DEF MoveReads, TypeOK
<1>9. ASSUME NEW c \in Callers, QueueUpserts(c)  PROVE TypeOK'
  <2>1. CallsType'
    BY <1>0, <1>9, CallStep, AtType DEF QueueUpserts, CallOps
  <2> QED
    BY <1>9, <2>1, TypeFrame DEF QueueUpserts, TypeOK
<1>10. ASSUME NEW c \in Callers, TakeStamp(c)  PROVE TypeOK'
  <2>1. lastStamp + 1 \in Nat /\ lastStamp' \in Nat
    BY <1>0, <1>10 DEF TakeStamp, KBType
  <2>2. CallsType'
    BY <1>0, <1>10, <2>1, CallStep, AtType DEF TakeStamp, CallOps
  <2>3. KBType'
    BY <1>0, <1>10, <2>1 DEF TakeStamp, KBType
  <2> QED
    BY <1>10, <2>2, <2>3, TypeFrame DEF TakeStamp, TypeOK
<1>11. ASSUME NEW c \in Callers, SelectLatest(c)  PROVE TypeOK'
  <2>1. Latest \in SUBSET ReleaseId
    BY LatestType
  <2>2. CallsType'
    BY <1>0, <1>11, <2>1, CallStep, AtType DEF SelectLatest, SelectItems, CallOps, CallsType, Call
  <2> QED
    BY <1>11, <2>2, TypeFrame DEF SelectLatest, SelectItems, TypeOK
<1>12. ASSUME NEW c \in Callers, CommitKBRelease(c)  PROVE TypeOK'
  <2>1. CallsType'
    BY <1>0, <1>12, CallStep, NoCallType DEF CommitKBRelease
  <2>2. KBType'
    BY <1>0, <1>12 DEF CommitKBRelease, KBType, KBRelease, CallsType, Call
  <2> QED
    BY <1>12, <2>1, <2>2, TypeFrame DEF CommitKBRelease, TypeOK
<1>13. ASSUME NEW c \in Callers, MoveWrites(c)  PROVE TypeOK'
  <2>1. CallsType'
    BY <1>0, <1>13, CallStep, NoCallType DEF MoveWrites
  <2>2. NodesType'
    <3>1. CASE call[c].node \notin live
      BY <1>0, <1>13, <3>1 DEF MoveWrites, NodesType
    <3>2. CASE call[c].node \in live
      <4> DEFINE n == call[c].node
                 x == Placed(draft[n], call[c].place)
      <4>1. n \in Nodes /\ call[c].place \in Places
        BY <1>0, <3>2 DEF NodesType, CallsType, Call
      <4>2. x \in Content
        BY <1>0, <4>1, ContentType DEF NodesType
      <4>3. /\ draft' = [draft EXCEPT ![n] = x]
            /\ status' = status \/ status' = [status EXCEPT ![n] = "draft"]
            /\ UNCHANGED <<live, unused>>
        BY <1>13, <3>2 DEF MoveWrites
      <4> HIDE DEF n, x
      <4> QED
        BY <1>0, <4>1, <4>2, <4>3 DEF NodesType, Statuses
    <3> QED
      BY <3>1, <3>2
  <2> QED
    BY <1>13, <2>1, <2>2, TypeFrame DEF MoveWrites, TypeOK
<1>14. ASSUME NEW n \in summaryTasks, SummaryReads(n)  PROVE TypeOK'
  <2>1. TaskType'
    BY <1>0, <1>14, WorkerStep DEF SummaryReads, TaskBegins, TaskType, NodesType
  <2> QED
    BY <1>14, <2>1, TypeFrame DEF SummaryReads, TaskBegins, TypeOK
<1>15. ASSUME NEW s \in Summaries, UpdateNodeSummary(s)  PROVE TypeOK'
  <2>1. NodesType'
    BY <1>0, <1>15, ContentType DEF UpdateNodeSummary, NodesType
  <2>2. node \in Nodes
    BY <1>0, <1>15 DEF UpdateNodeSummary, TaskType
  <2>3. TaskType'
    BY <1>0, <1>15, <2>2, WorkerStep DEF UpdateNodeSummary, TaskType
  <2> QED
    BY <1>15, <2>1, <2>3, TypeFrame DEF UpdateNodeSummary, TypeOK
<1>16. CASE UpdateNodeStatus
  <2>1. NodesType'
    BY <1>0, <1>16 DEF UpdateNodeStatus, NodesType, Statuses
  <2>2. TaskType'
    BY <1>0, <1>16, WorkerStep DEF UpdateNodeStatus, TaskType
  <2> QED
    BY <1>16, <2>1, <2>2, TypeFrame DEF UpdateNodeStatus, TypeOK
<1>17. CASE SummaryFails \/ ConsumerCrash
  <2>1. summaryTasks' \subseteq Nodes /\ Rested /\ CountType'
    BY <1>0, <1>17 DEF SummaryFails, ConsumerCrash, TaskType, CountType
  <2>2. TaskType'
    BY <2>1, WorkerStep
  <2> QED
    BY <1>17, <2>1, <2>2, TypeFrame DEF SummaryFails, ConsumerCrash, TypeOK
<1>18. ASSUME NEW c \in Callers, PublishFails(c)  PROVE TypeOK'
  <2>1. CallsType' /\ CountType'
    BY <1>0, <1>18, CallStep, NoCallType DEF PublishFails, CountType
  <2> QED
    BY <1>18, <2>1, TypeFrame DEF PublishFails, TypeOK
<1> QED
  BY <1>1, <1>2, <1>3, <1>4, <1>5, <1>6, <1>7, <1>8, <1>9, <1>10, <1>11, <1>12, <1>13,
     <1>14, <1>15, <1>16, <1>17, <1>18
     DEF Next, Edit, Consume, Fault, Request, Proceed

\* Every variable keeps its type, for any nodes, contents, requests and bounds.
THEOREM TypeCorrect == Spec => []TypeOK
<1> QED
  BY TypeInit, TypeStep, PTL DEF Spec

-------------------------------------------------------------------------------
(* The invariant.                                                          *)

LEMMA InvInit == Init => ReleaseInv
<1> SUFFICES ASSUME Init PROVE ReleaseInv
  OBVIOUS
<1>1. TypeOK
  BY TypeInit
<1>2. RowsOfLive
  BY DEF Init, RowsOfLive
<1>3. ReadersKnow
  BY NoCallType DEF Init, ReadersKnow
<1>4. StampsTaken
  BY NoCallType DEF Init, StampsTaken
<1>5. NewestComplete
  BY DEF Init, NewestComplete, Latest
<1>6. StatusTruthful /\ ReleasedBodyMatches
  BY DEF Init, StatusTruthful, ReleasedBodyMatches
<1> QED
  BY <1>1, <1>2, <1>3, <1>4, <1>5, <1>6 DEF ReleaseInv

\* What becomes of the snapshots of one node in a step.
LEMMA SnapshotsStep ==
  ASSUME TypeOK, RowsOfLive, [Next]_vars, NEW n \in Nodes
  PROVE  \/ ReleasesOf(n)' = ReleasesOf(n) /\ relContent' = relContent
         \/ n \notin live'
         \/ \E c \in Callers, S \in SUBSET Nodes : CreateNodeReleases(c, S)
<1>1. CASE UNCHANGED relVars
  BY <1>1 DEF relVars, ReleasesOf
<1>2. ASSUME NEW S \in SUBSET Nodes, Delete(S)
      PROVE  n \notin live' \/ (ReleasesOf(n)' = ReleasesOf(n) /\ relContent' = relContent)
  BY <1>2 DEF Delete, ReleasesOf
<1> QED
  BY <1>1, <1>2
     DEF Next, Edit, Consume, Fault, Request, Proceed, vars, Create, UpdateNodeContent,
         UpdateContent, BatchMove, SummaryNode, MoveReads, QueueUpserts, TakeStamp,
         SelectLatest, SelectItems, CommitKBRelease, MoveWrites, SummaryReads, TaskBegins,
         UpdateNodeSummary, UpdateNodeStatus, SummaryFails, ConsumerCrash, PublishFails

\* After a publish, the snapshots of a node are the earlier ones and, if it was
\* published, one that is above them and holds the draft.
LEMMA PublishStep ==
  ASSUME TypeOK, RowsOfLive, NEW c \in Callers, NEW S \in SUBSET Nodes,
         CreateNodeReleases(c, S), NEW n \in Nodes
  PROVE  /\ n \notin S => ReleasesOf(n)' = ReleasesOf(n)
         /\ n \notin S => \A r \in ReleasesOf(n) : relContent'[r] = relContent[r]
         /\ n \in S => ReleasesOf(n)' # {}
         /\ n \in S => \A r \in LatestOf(n)' : relContent'[r] = draft[n]
         /\ ReleasesOf(n) \subseteq ReleasesOf(n)'
<1>1. PICK new \in SUBSET ReleaseId, of \in [ReleaseId -> Nodes \cup {NoNode}] :
          /\ \A r \in new : r > lastRel /\ r <= lastRel' /\ of[r] \in S
          /\ \A m \in S : \E r \in new : of[r] = m
          /\ rows' = rows \cup new
          /\ relNode' = [r \in ReleaseId |-> IF r \in new THEN of[r] ELSE relNode[r]]
          /\ relContent' = [r \in ReleaseId |-> IF r \in new THEN draft[of[r]]
                                                ELSE relContent[r]]
  BY NewRows
<1>2. \A r \in rows : r \in ReleaseId /\ r <= lastRel /\ r \notin new
  <2>1. lastRel \in 0..MaxReleases /\ rows \subseteq 1..lastRel /\ MaxReleases \in Nat
    BY NodeReleaseAssumption DEF NodeReleaseAssumption, TypeOK, RowsType
  <2>2. \A r \in new : r \in Int /\ r > lastRel
    BY <1>1, <2>1
  <2> HIDE <1>1
  <2> QED
    BY <2>1, <2>2
<1>3. ReleasesOf(n)' = ReleasesOf(n) \cup {r \in new : of[r] = n}
  BY <1>1, <1>2 DEF ReleasesOf
<1>4. \A r \in ReleasesOf(n) : relContent'[r] = relContent[r]
  BY <1>1, <1>2 DEF ReleasesOf
<1>5. ASSUME n \in S, NEW r \in LatestOf(n)'  PROVE relContent'[r] = draft[n]
  <2>1. r \in ReleasesOf(n)' /\ \A x \in ReleasesOf(n)' : x <= r
    BY <1>5 DEF LatestOf
  <2>2. PICK x \in new : of[x] = n
    BY <1>1, <1>5
  <2>3. x > lastRel /\ x \in ReleasesOf(n)' /\ x <= r
    BY <1>1, <1>3, <2>1, <2>2
  <2>4. r \notin rows
    <3>1. lastRel \in Int /\ x \in Int
      BY NodeReleaseAssumption DEF NodeReleaseAssumption, TypeOK, RowsType
    <3>2. r \in rows => r \in Int /\ r <= lastRel
      BY <1>2, NodeReleaseAssumption DEF NodeReleaseAssumption
    <3> QED
      BY <2>3, <3>1, <3>2
  <2>5. r \in new /\ of[r] = n
    BY <1>3, <2>1, <2>4 DEF ReleasesOf
  <2> QED
    BY <1>1, <2>5
<1> QED
  BY <1>1, <1>3, <1>4, <1>5, ZenonT(40)

LEMMA RowsStep == TypeOK /\ RowsOfLive /\ [Next]_vars => RowsOfLive'
<1> SUFFICES ASSUME TypeOK, RowsOfLive, [Next]_vars PROVE RowsOfLive'
  OBVIOUS
<1>0. lastRel \in 0..MaxReleases /\ rows \subseteq 1..lastRel /\ live \subseteq Nodes
      /\ unused \subseteq Nodes \ live /\ relNode \in [ReleaseId -> Nodes \cup {NoNode}]
      /\ MaxReleases \in Nat
  BY NodeReleaseAssumption DEF NodeReleaseAssumption, TypeOK, RowsType, NodesType
<1>1. CASE UNCHANGED <<relVars, live, unused>>
  BY <1>1 DEF RowsOfLive, relVars
<1>2. ASSUME NEW n \in Nodes, NEW x \in Content, Create(n, x)  PROVE RowsOfLive'
  BY <1>0, <1>2 DEF Create, RowsOfLive, relVars
<1>3. ASSUME NEW S \in SUBSET Nodes, Delete(S)  PROVE RowsOfLive'
  BY <1>0, <1>3 DEF Delete, RowsOfLive
<1>4. ASSUME NEW c \in Callers, NEW S \in SUBSET Nodes, CreateNodeReleases(c, S)
      PROVE  RowsOfLive'
  <2>1. PICK new \in SUBSET ReleaseId, of \in [ReleaseId -> Nodes \cup {NoNode}] :
            /\ \A r \in new : r > lastRel /\ r <= lastRel' /\ of[r] \in S
            /\ \A r \in lastRel + 1 .. lastRel' : r \in new
            /\ rows' = rows \cup new
            /\ relNode' = [r \in ReleaseId |-> IF r \in new THEN of[r] ELSE relNode[r]]
            /\ lastRel' \in Nat /\ lastRel <= lastRel' /\ lastRel' <= MaxReleases
    BY <1>4, NewRows
  <2>2. S \subseteq live /\ live' = live /\ unused' = unused
    BY <1>4 DEF CreateNodeReleases
  <2>3. ASSUME NEW r \in 1..lastRel'
        PROVE  relNode'[r] \in Nodes \ unused' /\ (r \in rows' <=> relNode'[r] \in live')
    <3>1. CASE r \in new
      <4>1. relNode'[r] = of[r] /\ of[r] \in S /\ r \in rows'
        BY <2>1, <3>1
      <4> QED
        BY <1>0, <2>2, <4>1
    <3>2. CASE r \notin new
      <4>1. r \in 1..lastRel
        BY <1>0, <2>1, <3>2
      <4>2. r \in ReleaseId
        BY <1>0, <4>1
      <4>3. relNode'[r] = relNode[r] /\ (r \in rows' <=> r \in rows)
        BY <2>1, <3>2, <4>2
      <4> QED
        BY <2>2, <4>1, <4>3 DEF RowsOfLive
    <3> QED
      BY <3>1, <3>2
  <2> QED
    BY <2>3 DEF RowsOfLive
<1> QED
  BY <1>1, <1>2, <1>3, <1>4
     DEF Next, Edit, Consume, Fault, Request, Proceed, vars, nodeVars, UpdateNodeContent,
         UpdateContent, BatchMove, SummaryNode, MoveReads, QueueUpserts, TakeStamp,
         SelectLatest, SelectItems, CommitKBRelease, MoveWrites, SummaryReads, TaskBegins,
         UpdateNodeSummary, UpdateNodeStatus, SummaryFails, ConsumerCrash, PublishFails

\* Only Create makes a node live, and an id is used once.
LEMMA LiveStep ==
  ASSUME TypeOK, [Next]_vars
  PROVE  unused' \subseteq unused /\ live' \subseteq live \cup unused
  BY DEF Next, Edit, Consume, Fault, Request, Proceed, vars, nodeVars, Create,
         UpdateNodeContent, UpdateContent, BatchMove, Delete, SummaryNode,
         CreateNodeReleases, MoveReads, QueueUpserts, TakeStamp, SelectLatest, SelectItems,
         CommitKBRelease, MoveWrites, SummaryReads, TaskBegins, UpdateNodeSummary,
         UpdateNodeStatus, SummaryFails, ConsumerCrash, PublishFails

\* A node that stays live keeps having a snapshot.
LEMMA SnapshotsStay ==
  ASSUME TypeOK, RowsOfLive, [Next]_vars
  PROVE  \A n \in Nodes : n \in live' /\ ReleasesOf(n) # {} => \E r \in rows' : relNode'[r] = n
<1>1. ASSUME NEW n \in Nodes, n \in live', ReleasesOf(n) # {}  PROVE ReleasesOf(n)' # {}
  BY <1>1, SnapshotsStep, PublishStep
<1> QED
  BY <1>1 DEF ReleasesOf

\* Who may become what in a step: a request starts a move having read the status,
\* and the consumer starts a task having read it.
LEMMA MoveStep ==
  ASSUME TypeOK, [Next]_vars, NEW c \in Callers, call'[c].op = "move"
  PROVE  \/ call'[c] = call[c]
         \/ \E n \in Nodes, p \in Places : MoveReads(c, n, p)
<1>0. CallsType
  BY DEF TypeOK
<1>1. ASSUME NEW d \in Callers, NEW x \in Call, Become(d, x), x.op # "move"
      PROVE  call'[c] = call[c]
  <2>1. d # c
    BY <1>0, <1>1 DEF Become, CallsType
  <2> QED
    BY <1>0, <1>1, <2>1 DEF Become, CallsType
<1>2. CASE UNCHANGED call
  BY <1>2
<1>3. ASSUME NEW d \in Callers, NEW S \in SUBSET Nodes, CreateNodeReleases(d, S)
      PROVE  call'[c] = call[c]
  <2>1. At(IF S = {} THEN "stamp" ELSE "queue", 0, {}) \in Call
        /\ At(IF S = {} THEN "stamp" ELSE "queue", 0, {}).op # "move"
    BY AtType DEF CallOps
  <2> QED
    BY <1>1, <1>3, <2>1 DEF CreateNodeReleases
<1>4. ASSUME NEW d \in Callers, QueueUpserts(d)  PROVE call'[c] = call[c]
  BY <1>1, <1>4, AtType DEF QueueUpserts, CallOps
<1>5. ASSUME NEW d \in Callers, TakeStamp(d)  PROVE call'[c] = call[c]
  <2>1. lastStamp + 1 \in Nat
    BY DEF TypeOK, KBType
  <2> QED
    BY <1>1, <1>5, <2>1, AtType DEF TakeStamp, CallOps
<1>6. ASSUME NEW d \in Callers, SelectLatest(d)  PROVE call'[c] = call[c]
  <2>1. Latest \in SUBSET ReleaseId /\ call[d].at \in Nat
    BY <1>0, LatestType DEF CallsType, Call
  <2> QED
    BY <1>1, <1>6, <2>1, AtType DEF SelectLatest, SelectItems, CallOps
<1>7. ASSUME NEW d \in Callers, CommitKBRelease(d) \/ MoveWrites(d) \/ PublishFails(d)
      PROVE  call'[c] = call[c]
  BY <1>1, <1>7, NoCallType DEF CommitKBRelease, MoveWrites, PublishFails
<1>8. ASSUME NEW d \in Callers, NEW n \in Nodes, NEW p \in Places, MoveReads(d, n, p)
      PROVE  call'[c] = call[c] \/ MoveReads(c, n, p)
  BY <1>0, <1>8 DEF MoveReads, Become, CallsType
<1> QED
  BY <1>2, <1>3, <1>4, <1>5, <1>6, <1>7, <1>8
     DEF Next, Edit, Consume, Fault, Request, Proceed, vars, Create, UpdateNodeContent,
         UpdateContent, BatchMove, Delete, SummaryNode, SummaryReads, TaskBegins,
         UpdateNodeSummary, UpdateNodeStatus, SummaryFails, ConsumerCrash

LEMMA TaskStep ==
  ASSUME TypeOK, [Next]_vars
  PROVE  \/ UNCHANGED <<pc, node, nodeStatus>>
         \/ pc' = "idle"
         \/ \E n \in live : pc' = "summary" /\ node' = n /\ nodeStatus' = status[n]
                            /\ UNCHANGED <<nodeVars, relVars>>
         \/ /\ pc' = "status" /\ pc = "summary" /\ nodeStatus = "released"
            /\ node' = node /\ nodeStatus' = nodeStatus
  BY DEF Next, Edit, Consume, Fault, Request, Proceed, vars, workerVars, Create,
         UpdateNodeContent, UpdateContent, BatchMove, Delete, SummaryNode,
         CreateNodeReleases, MoveReads, QueueUpserts, TakeStamp, SelectLatest, SelectItems,
         CommitKBRelease, MoveWrites, SummaryReads, TaskBegins, UpdateNodeSummary,
         UpdateNodeStatus, SummaryFails, ConsumerCrash, PublishFails, Worker, Rested

LEMMA ReadersStep ==
  ASSUME TypeOK, RowsOfLive, ReadersKnow, StatusTruthful, [Next]_vars
  PROVE  ReadersKnow'
<1>0. CallsType /\ NodesType /\ TaskType /\ TypeOK'
  BY TypeStep DEF TypeOK
<1>1. ASSUME NEW c \in Callers, call'[c].op = "move"
      PROVE  /\ call'[c].node \notin unused'
             /\ call'[c].read = "released" /\ call'[c].node \in live'
                  => \E r \in rows' : relNode'[r] = call'[c].node
  <2>1. CASE call'[c] = call[c]
    <3>1. call[c].node \notin unused /\ call[c].node \notin unused'
      BY <1>1, <2>1, LiveStep DEF ReadersKnow
    <3>2. ASSUME call[c].read = "released", call[c].node \in live'
          PROVE  \E r \in rows' : relNode'[r] = call[c].node
      <4>1. call[c].node \in live /\ call[c].node \in Nodes
        BY <1>0, <3>1, <3>2, LiveStep DEF NodesType
      <4>2. ReleasesOf(call[c].node) # {}
        BY <1>1, <2>1, <3>2, <4>1 DEF ReadersKnow
      <4> QED
        BY <3>2, <4>1, <4>2, SnapshotsStay
    <3> QED
      BY <2>1, <3>1, <3>2
  <2>2. ASSUME NEW n \in Nodes, NEW p \in Places, MoveReads(c, n, p)
        PROVE  /\ call'[c].node \notin unused'
               /\ call'[c].read = "released" /\ call'[c].node \in live'
                    => \E r \in rows' : relNode'[r] = call'[c].node
    <3>1. n \in live /\ status[n] \in Statuses /\ UNCHANGED <<nodeVars, relVars>>
      BY <1>0, <2>2 DEF MoveReads, NodesType
    <3>2. call'[c].node = n /\ call'[c].read = status[n]
      BY <1>0, <2>2, <3>1, MovingType DEF MoveReads, Become, CallsType
    <3>3. status[n] = "released" => ReleasesOf(n) # {}
      BY <3>1 DEF StatusTruthful
    <3> QED
      BY <1>0, <3>1, <3>2, <3>3 DEF NodesType, nodeVars, relVars, ReleasesOf
  <2> QED
    BY <1>1, <2>1, <2>2, MoveStep
<1>2. ASSUME pc' # "idle"
      PROVE  /\ node' \notin unused'
             /\ nodeStatus' = "released" /\ node' \in live' => \E r \in rows' : relNode'[r] = node'
             /\ pc' = "status" => nodeStatus' = "released"
  <2>1. CASE pc # "idle" /\ node' = node /\ nodeStatus' = nodeStatus
             /\ (pc' = pc \/ (pc' = "status" /\ nodeStatus = "released"))
    <3>1. node \notin unused /\ node \notin unused'
      BY <2>1, LiveStep DEF ReadersKnow
    <3>2. ASSUME nodeStatus = "released", node \in live'
          PROVE  \E r \in rows' : relNode'[r] = node
      <4>1. node \in live /\ node \in Nodes
        BY <1>0, <3>1, <3>2, LiveStep DEF NodesType
      <4>2. ReleasesOf(node) # {}
        BY <2>1, <3>2, <4>1 DEF ReadersKnow
      <4> QED
        BY <3>2, <4>1, <4>2, SnapshotsStay
    <3> QED
      BY <2>1, <3>1, <3>2 DEF ReadersKnow
  <2>2. ASSUME NEW n \in live, pc' = "summary", node' = n, nodeStatus' = status[n],
               UNCHANGED <<nodeVars, relVars>>
        PROVE  /\ node' \notin unused'
               /\ nodeStatus' = "released" /\ node' \in live' => \E r \in rows' : relNode'[r] = node'
               /\ pc' = "status" => nodeStatus' = "released"
    BY <1>0, <2>2 DEF StatusTruthful, NodesType, nodeVars, relVars, ReleasesOf
  <2> QED
    BY <1>2, <2>1, <2>2, TaskStep
<1> QED
  BY <1>1, <1>2 DEF ReadersKnow, ReleasesOf

\* A node that shows as released after a step that is no publish did so before,
\* and its content was not edited.
LEMMA DraftStep ==
  ASSUME TypeOK, [Next]_vars, NEW n \in live', status'[n] = "released"
  PROVE  \/ n \in live /\ status[n] = "released" /\ draft'[n].body = draft[n].body
         \/ \E c \in Callers, S \in SUBSET Nodes : CreateNodeReleases(c, S)
<1>0. NodesType /\ CallsType /\ TaskType /\ n \in Nodes
  BY TypeStep DEF TypeOK, NodesType
<1>1. CASE UNCHANGED nodeVars
  BY <1>1 DEF nodeVars
<1>2. ASSUME NEW m \in Nodes, NEW x \in Content, Create(m, x)
      PROVE  n \in live /\ status[n] = "released" /\ draft'[n].body = draft[n].body
  BY <1>0, <1>2 DEF Create, NodesType
<1>3. ASSUME NEW m \in Nodes, NEW x \in Content, NEW moved \in BOOLEAN,
             UpdateNodeContent(m, x, moved)
      PROVE  n \in live /\ status[n] = "released" /\ draft'[n].body = draft[n].body
  BY <1>0, <1>3 DEF UpdateNodeContent, UpdateContent, NodesType
<1>4. ASSUME NEW S \in SUBSET Nodes, NEW p \in Places, BatchMove(S, p)
      PROVE  n \in live /\ status[n] = "released" /\ draft'[n].body = draft[n].body
  BY <1>0, <1>4, ContentType DEF BatchMove, NodesType
<1>5. ASSUME NEW S \in SUBSET Nodes, Delete(S)
      PROVE  n \in live /\ status[n] = "released" /\ draft'[n].body = draft[n].body
  BY <1>5 DEF Delete
<1>6. ASSUME NEW c \in Callers, MoveWrites(c)
      PROVE  n \in live /\ status[n] = "released" /\ draft'[n].body = draft[n].body
  <2>1. call[c].place \in Places /\ live' = live
    BY <1>0, <1>6 DEF MoveWrites, CallsType, Call
  <2> QED
    BY <1>0, <1>6, <2>1, ContentType DEF MoveWrites, NodesType
<1>7. ASSUME NEW s \in Summaries, UpdateNodeSummary(s)
      PROVE  n \in live /\ status[n] = "released" /\ draft'[n].body = draft[n].body
  BY <1>0, <1>7, ContentType DEF UpdateNodeSummary, NodesType
<1>8. CASE UpdateNodeStatus
  BY <1>0, <1>8 DEF UpdateNodeStatus, NodesType
<1> QED
  BY <1>1, <1>2, <1>3, <1>4, <1>5, <1>6, <1>7, <1>8
     DEF Next, Edit, Consume, Fault, Request, Proceed, vars, SummaryNode, MoveReads,
         QueueUpserts, TakeStamp, SelectLatest, SelectItems, CommitKBRelease, SummaryReads,
         TaskBegins, SummaryFails, ConsumerCrash, PublishFails

LEMMA BodyStep ==
  ASSUME TypeOK, RowsOfLive, ReleasedBodyMatches, [Next]_vars
  PROVE  ReleasedBodyMatches'
<1>0. NodesType /\ live' \subseteq Nodes
  BY TypeStep DEF TypeOK, NodesType
<1> SUFFICES ASSUME NEW n \in live', status'[n] = "released", NEW r \in LatestOf(n)'
             PROVE  relContent'[r].body = draft'[n].body
  BY DEF ReleasedBodyMatches
<1>1. CASE \E c \in Callers, S \in SUBSET Nodes : CreateNodeReleases(c, S)
  <2>1. PICK c \in Callers, S \in SUBSET Nodes : CreateNodeReleases(c, S)
    BY <1>1
  <2>2. live' = live /\ draft' = draft
        /\ status' = [m \in Nodes |-> IF m \in S THEN "released" ELSE status[m]]
    BY <2>1 DEF CreateNodeReleases
  <2>3. CASE n \in S
    BY <1>0, <2>1, <2>2, <2>3, PublishStep
  <2>4. CASE n \notin S
    <3>1. ReleasesOf(n)' = ReleasesOf(n)
          /\ \A x \in ReleasesOf(n) : relContent'[x] = relContent[x]
      BY <1>0, <2>1, <2>4, PublishStep
    <3>2. r \in LatestOf(n) /\ r \in ReleasesOf(n)
      BY <3>1 DEF LatestOf
    <3>3. status[n] = "released" /\ n \in live
      BY <1>0, <2>2, <2>4
    <3> QED
      BY <2>2, <3>1, <3>2, <3>3 DEF ReleasedBodyMatches
  <2> QED
    BY <2>3, <2>4
<1>2. CASE ~\E c \in Callers, S \in SUBSET Nodes : CreateNodeReleases(c, S)
  <2>1. n \in live /\ status[n] = "released" /\ draft'[n].body = draft[n].body
    BY <1>2, DraftStep
  <2>2. ReleasesOf(n)' = ReleasesOf(n) /\ relContent' = relContent
    BY <1>0, <1>2, SnapshotsStep
  <2>3. r \in LatestOf(n)
    BY <2>2 DEF LatestOf
  <2> QED
    BY <2>1, <2>2, <2>3 DEF ReleasedBodyMatches
<1> QED
  BY <1>1, <1>2

\* What becomes of the status of a node that stays: it leaves "unreleased" only by
\* a publish or by a writer that read "released", and never returns.
LEMMA StatusStep ==
  ASSUME TypeOK, RowsOfLive, ReadersKnow, StatusTruthful, [Next]_vars, NEW n \in live
  PROVE  \/ status'[n] = "unreleased" <=> status[n] = "unreleased"
         \/ ReleasesOf(n) # {} /\ status'[n] # "unreleased"
         \/ \E c \in Callers, S \in SUBSET Nodes : CreateNodeReleases(c, S)
<1>0. NodesType /\ CallsType /\ TaskType /\ n \in Nodes
  BY DEF TypeOK, NodesType
<1>1. CASE UNCHANGED nodeVars
  BY <1>1 DEF nodeVars
<1>2. ASSUME NEW m \in Nodes, NEW x \in Content, Create(m, x)
      PROVE  status'[n] = status[n]
  BY <1>0, <1>2 DEF Create, NodesType
<1>3. ASSUME NEW m \in Nodes, NEW x \in Content, NEW moved \in BOOLEAN,
             UpdateNodeContent(m, x, moved)
      PROVE  status'[n] = "unreleased" <=> status[n] = "unreleased"
  BY <1>0, <1>3 DEF UpdateNodeContent, UpdateContent, NodesType
<1>4. ASSUME NEW S \in SUBSET Nodes, NEW p \in Places, BatchMove(S, p)
      PROVE  status'[n] = "unreleased" <=> status[n] = "unreleased"
  BY <1>0, <1>4 DEF BatchMove
<1>5. ASSUME NEW S \in SUBSET Nodes, Delete(S)  PROVE status'[n] = status[n]
  BY <1>5 DEF Delete
<1>6. ASSUME NEW c \in Callers, MoveWrites(c)
      PROVE  \/ status'[n] = status[n]
             \/ ReleasesOf(n) # {} /\ status'[n] # "unreleased"
  <2>1. \/ status' = status
        \/ /\ call[c].node \in live /\ call[c].read = "released"
           /\ status' = [status EXCEPT ![call[c].node] = "draft"]
    BY <1>6 DEF MoveWrites
  <2>2. CASE status' = status
    BY <2>2
  <2>3. CASE /\ call[c].node \in live /\ call[c].read = "released"
             /\ status' = [status EXCEPT ![call[c].node] = "draft"]
    <3>1. ReleasesOf(call[c].node) # {}
      BY <1>6, <2>3 DEF MoveWrites, ReadersKnow
    <3> QED
      BY <1>0, <2>3, <3>1 DEF NodesType
  <2> QED
    BY <2>1, <2>2, <2>3
<1>7. ASSUME NEW s \in Summaries, UpdateNodeSummary(s)  PROVE status'[n] = status[n]
  BY <1>7 DEF UpdateNodeSummary
<1>8. ASSUME UpdateNodeStatus
      PROVE  \/ status'[n] = status[n]
             \/ ReleasesOf(n) # {} /\ status'[n] # "unreleased"
  <2>1. node \in live => ReleasesOf(node) # {}
    BY <1>8 DEF UpdateNodeStatus, ReadersKnow
  <2> QED
    BY <1>0, <1>8, <2>1 DEF UpdateNodeStatus, NodesType
<1> QED
  BY <1>1, <1>2, <1>3, <1>4, <1>5, <1>6, <1>7, <1>8
     DEF Next, Edit, Consume, Fault, Request, Proceed, vars, SummaryNode, MoveReads,
         QueueUpserts, TakeStamp, SelectLatest, SelectItems, CommitKBRelease, SummaryReads,
         TaskBegins, SummaryFails, ConsumerCrash, PublishFails

LEMMA TruthStep ==
  ASSUME TypeOK, RowsOfLive, ReadersKnow, StatusTruthful, [Next]_vars
  PROVE  StatusTruthful'
<1>0. NodesType /\ RowsType /\ live' \subseteq Nodes
  BY TypeStep DEF TypeOK, NodesType
<1> SUFFICES ASSUME NEW n \in live'
             PROVE  status'[n] = "unreleased" <=> ReleasesOf(n)' = {}
  BY DEF StatusTruthful
<1>1. CASE \E c \in Callers, S \in SUBSET Nodes : CreateNodeReleases(c, S)
  <2>1. PICK c \in Callers, S \in SUBSET Nodes : CreateNodeReleases(c, S)
    BY <1>1
  <2>2. n \in live /\ n \in Nodes
        /\ status' = [m \in Nodes |-> IF m \in S THEN "released" ELSE status[m]]
    BY <1>0, <2>1 DEF CreateNodeReleases
  <2>3. CASE n \in S
    BY <2>1, <2>2, <2>3, PublishStep
  <2>4. CASE n \notin S
    <3>1. ReleasesOf(n)' = ReleasesOf(n)
      BY <2>1, <2>2, <2>4, PublishStep
    <3> QED
      BY <2>2, <2>4, <3>1 DEF StatusTruthful
  <2> QED
    BY <2>3, <2>4
<1>2. CASE ~\E c \in Callers, S \in SUBSET Nodes : CreateNodeReleases(c, S)
  <2>1. ReleasesOf(n)' = ReleasesOf(n)
    BY <1>0, <1>2, SnapshotsStep
  <2>2. CASE n \in live
    BY <1>2, <2>1, <2>2, StatusStep DEF StatusTruthful
  <2>3. CASE n \notin live
    <3>1. n \in unused
      BY <2>3, LiveStep
    <3>2. ReleasesOf(n) = {}
      BY <1>0, <3>1 DEF RowsOfLive, RowsType, ReleasesOf
    <3>3. status'[n] = "unreleased"
      BY <1>0, <2>3
         DEF Next, Edit, Consume, Fault, Request, Proceed, vars, nodeVars, NodesType, Create,
             UpdateNodeContent, UpdateContent, BatchMove, Delete, SummaryNode,
             CreateNodeReleases, MoveReads, QueueUpserts, TakeStamp, SelectLatest,
             SelectItems, CommitKBRelease, MoveWrites, SummaryReads, TaskBegins,
             UpdateNodeSummary, UpdateNodeStatus, SummaryFails, ConsumerCrash, PublishFails
    <3> QED
      BY <2>1, <3>2, <3>3
  <2> QED
    BY <2>2, <2>3
<1> QED
  BY <1>1, <1>2

-------------------------------------------------------------------------------
(* Overlapping publishes.                                                  *)

LEMMA StampsStep ==
  ASSUME TypeOK, StampsTaken, [Next]_vars
  PROVE  StampsTaken'
<1>0. KBType /\ CallsType /\ lastStamp \in Nat
      /\ \A c \in Callers : call[c].at \in Nat /\ call[c].at <= lastStamp
      /\ \A k \in kbReleases : k.at \in Nat /\ k.at <= lastStamp
  BY DEF TypeOK, KBType, CallsType, Call, KBRelease, StampsTaken
<1>1. ASSUME NEW d \in Callers, NEW x \in Call, Become(d, x), x.at <= lastStamp',
             lastStamp <= lastStamp', lastStamp' \in Nat
      PROVE  \A c \in Callers : call'[c].at <= lastStamp'
  BY <1>0, <1>1 DEF Become, CallsType
<1>2. CASE UNCHANGED <<kbVars, call>>
  BY <1>2 DEF kbVars, StampsTaken
<1>3. ASSUME NEW d \in Callers, NEW S \in SUBSET Nodes, CreateNodeReleases(d, S)
      PROVE  StampsTaken'
  <2> DEFINE x == At(IF S = {} THEN "stamp" ELSE "queue", 0, {})
  <2>1. x \in Call /\ x.at = 0 /\ Become(d, x) /\ UNCHANGED kbVars
    BY <1>3, AtType DEF CreateNodeReleases, CallOps
  <2> HIDE DEF x
  <2> QED
    BY <1>0, <1>1, <2>1 DEF kbVars, StampsTaken
<1>4. ASSUME NEW d \in Callers, QueueUpserts(d)  PROVE StampsTaken'
  BY <1>0, <1>1, <1>4, AtType DEF QueueUpserts, CallOps, kbVars, StampsTaken
<1>5. ASSUME NEW d \in Callers, TakeStamp(d)  PROVE StampsTaken'
  <2>1. lastStamp' = lastStamp + 1 /\ lastStamp' \in Nat /\ kbReleases' = kbReleases
        /\ Become(d, At("select", lastStamp', {}))
    BY <1>0, <1>5 DEF TakeStamp
  <2>2. At("select", lastStamp', {}) \in Call /\ At("select", lastStamp', {}).at = lastStamp'
    BY <2>1, AtType DEF CallOps
  <2>3. \A c \in Callers : call'[c].at <= lastStamp'
    BY <1>0, <1>1, <2>1, <2>2
  <2>4. \A k \in kbReleases' : k.at <= lastStamp'
    BY <1>0, <2>1
  <2> QED
    BY <2>3, <2>4 DEF StampsTaken
<1>6. ASSUME NEW d \in Callers, SelectLatest(d)  PROVE StampsTaken'
  BY <1>0, <1>1, <1>6, AtType, LatestType
     DEF SelectLatest, SelectItems, CallOps, kbVars, StampsTaken
<1>7. ASSUME NEW d \in Callers, CommitKBRelease(d)  PROVE StampsTaken'
  <2>1. \A c \in Callers : call'[c].at <= lastStamp'
    BY <1>0, <1>1, <1>7, NoCallType DEF CommitKBRelease
  <2>2. \A k \in kbReleases' : k.at <= lastStamp'
    BY <1>0, <1>7 DEF CommitKBRelease
  <2> QED
    BY <2>1, <2>2 DEF StampsTaken
<1>8. ASSUME NEW d \in Callers, MoveWrites(d) \/ PublishFails(d)  PROVE StampsTaken'
  BY <1>0, <1>1, <1>8, NoCallType DEF MoveWrites, PublishFails, kbVars, StampsTaken
<1>9. ASSUME NEW d \in Callers, NEW n \in Nodes, NEW p \in Places, MoveReads(d, n, p)
      PROVE  StampsTaken'
  <2>1. status[n] \in Statuses
    BY DEF TypeOK, NodesType
  <2> QED
    BY <1>0, <1>1, <1>9, <2>1, MovingType DEF MoveReads, kbVars, StampsTaken
<1> QED
  BY <1>2, <1>3, <1>4, <1>5, <1>6, <1>7, <1>8, <1>9
     DEF Next, Edit, Consume, Fault, Request, Proceed, vars, Create, UpdateNodeContent,
         UpdateContent, BatchMove, Delete, SummaryNode, SummaryReads, TaskBegins,
         UpdateNodeSummary, UpdateNodeStatus, SummaryFails, ConsumerCrash

\* A step that leaves every publish where it was, and adds no snapshot.
LEMMA NewestFrame ==
  ASSUME NewestComplete, Latest' \subseteq Latest, UNCHANGED kbVars, faults' = faults,
         \A c \in Callers : Publishing(c) => call'[c] = call[c]
  PROVE  NewestComplete'
<1>1. CASE faults # 0
  BY <1>1 DEF NewestComplete
<1>2. CASE Latest = {}
  BY <1>2 DEF NewestComplete
<1>3. CASE \E c \in Callers : call[c].op \in {"queue", "stamp"}
  BY <1>3 DEF NewestComplete, Publishing
<1>4. CASE \E c \in Callers : call[c].op = "select" /\ call[c].at = lastStamp
  BY <1>4 DEF NewestComplete, Publishing, kbVars
<1>5. CASE \E c \in Callers : /\ call[c].op = "insert" /\ call[c].at = lastStamp
                              /\ Latest \subseteq call[c].items
  <2>1. PICK c \in Callers : /\ call[c].op = "insert" /\ call[c].at = lastStamp
                             /\ Latest \subseteq call[c].items
    BY <1>5
  <2>2. call'[c] = call[c] /\ lastStamp' = lastStamp
    BY <2>1 DEF Publishing, kbVars
  <2> QED
    BY <2>1, <2>2 DEF NewestComplete
<1>6. CASE \E k \in kbReleases : k.at = lastStamp /\ Latest \subseteq k.items
  BY <1>6 DEF NewestComplete, kbVars
<1> QED
  BY <1>1, <1>2, <1>3, <1>4, <1>5, <1>6 DEF NewestComplete

LEMMA NewestStep ==
  ASSUME TypeOK, NewestComplete, [Next]_vars
  PROVE  NewestComplete'
<1>0. CallsType /\ faults \in Nat /\ lastStamp \in Nat
  BY DEF TypeOK, CountType, KBType
<1>1. CASE UNCHANGED <<relVars, kbVars, call, faults>>
  BY <1>1, NewestFrame DEF relVars, Latest, ReleasesOf
<1>2. ASSUME NEW S \in SUBSET Nodes, Delete(S)  PROVE NewestComplete'
  <2>1. Latest' \subseteq Latest
    BY <1>2 DEF Delete, Latest, ReleasesOf
  <2> QED
    BY <1>2, <2>1, NewestFrame DEF Delete, countVars
<1>3. ASSUME NEW c \in Callers, NEW n \in Nodes, NEW p \in Places, MoveReads(c, n, p)
      PROVE  NewestComplete'
  <2>1. ~Publishing(c) /\ \A d \in Callers : d # c => call'[d] = call[d]
    BY <1>0, <1>3, NoCallType DEF MoveReads, Become, Publishing, CallsType
  <2> QED
    BY <1>3, <2>1, NewestFrame DEF MoveReads, relVars, countVars, Latest, ReleasesOf
<1>4. ASSUME NEW c \in Callers, MoveWrites(c)  PROVE NewestComplete'
  <2>1. ~Publishing(c) /\ \A d \in Callers : d # c => call'[d] = call[d]
    BY <1>0, <1>4 DEF MoveWrites, Become, Publishing, CallsType
  <2> QED
    BY <1>4, <2>1, NewestFrame DEF MoveWrites, relVars, countVars, Latest, ReleasesOf
<1>5. ASSUME NEW c \in Callers, NEW S \in SUBSET Nodes, CreateNodeReleases(c, S)
      PROVE  NewestComplete'
  <2> DEFINE x == At(IF S = {} THEN "stamp" ELSE "queue", 0, {})
  <2>1. x.op \in {"queue", "stamp"} /\ Become(c, x)
    BY <1>5, AtType DEF CreateNodeReleases, CallOps
  <2> HIDE DEF x
  <2>2. call'[c].op \in {"queue", "stamp"}
    BY <1>0, <2>1 DEF Become, CallsType
  <2> QED
    BY <2>2 DEF NewestComplete
<1>6. ASSUME NEW c \in Callers, QueueUpserts(c)  PROVE NewestComplete'
  <2>1. call'[c].op = "stamp"
    BY <1>0, <1>6, AtType DEF QueueUpserts, Become, CallsType, CallOps
  <2> QED
    BY <2>1 DEF NewestComplete
<1>7. ASSUME NEW c \in Callers, TakeStamp(c)  PROVE NewestComplete'
  <2>1. lastStamp' = lastStamp + 1 /\ lastStamp' \in Nat
        /\ Become(c, At("select", lastStamp', {}))
    BY <1>0, <1>7 DEF TakeStamp
  <2>2. At("select", lastStamp', {}).op = "select"
        /\ At("select", lastStamp', {}).at = lastStamp'
    BY <2>1, AtType DEF CallOps
  <2>3. call'[c].op = "select" /\ call'[c].at = lastStamp'
    BY <1>0, <2>1, <2>2 DEF Become, CallsType
  <2> QED
    BY <2>3 DEF NewestComplete
<1>8. ASSUME NEW c \in Callers, SelectLatest(c)  PROVE NewestComplete'
  <2>1. /\ call'[c].op = "insert" /\ call'[c].at = call[c].at /\ call'[c].items = Latest
        /\ \A d \in Callers : d # c => call'[d] = call[d]
    BY <1>0, <1>8, AtType, LatestType
       DEF SelectLatest, SelectItems, Become, CallsType, Call, CallOps
  <2>2. Latest' = Latest /\ UNCHANGED <<kbVars, faults>> /\ lastStamp' = lastStamp
    BY <1>8 DEF SelectLatest, SelectItems, relVars, kbVars, countVars, Latest, ReleasesOf
  <2>3. call[c].op = "select"
    BY <1>8 DEF SelectLatest, SelectItems
  <2>4. CASE call[c].at = lastStamp
    <3>1. /\ call'[c].op = "insert" /\ call'[c].at = lastStamp'
          /\ Latest' \subseteq call'[c].items
      BY <2>1, <2>2, <2>4
    <3> QED
      BY <3>1 DEF NewestComplete
  <2>5. CASE call[c].at # lastStamp
    BY <2>1, <2>2, <2>3, <2>5 DEF NewestComplete, kbVars
  <2> QED
    BY <2>4, <2>5
<1>9. ASSUME NEW c \in Callers, CommitKBRelease(c)  PROVE NewestComplete'
  <2>1. /\ kbReleases' = kbReleases \cup {[at |-> call[c].at, items |-> call[c].items]}
        /\ \A d \in Callers : d # c => call'[d] = call[d]
        /\ call[c].op = "insert" /\ faults' = faults /\ lastStamp' = lastStamp
        /\ Latest' = Latest
    BY <1>0, <1>9
       DEF CommitKBRelease, Become, CallsType, relVars, countVars, Latest, ReleasesOf
  <2>2. CASE call[c].at = lastStamp /\ Latest \subseteq call[c].items
    <3> DEFINE k == [at |-> call[c].at, items |-> call[c].items]
    <3>1. k \in kbReleases' /\ k.at = lastStamp' /\ Latest' \subseteq k.items
      BY <2>1, <2>2
    <3> QED
      BY <3>1 DEF NewestComplete
  <2>3. CASE ~(call[c].at = lastStamp /\ Latest \subseteq call[c].items)
    BY <2>1, <2>3 DEF NewestComplete
  <2> QED
    BY <2>2, <2>3
<1>10. CASE SummaryFails \/ \E c \in Callers : PublishFails(c)
  <2>1. faults' # 0
    BY <1>0, <1>10 DEF SummaryFails, PublishFails
  <2> QED
    BY <2>1 DEF NewestComplete
<1> QED
  BY <1>1, <1>2, <1>3, <1>4, <1>5, <1>6, <1>7, <1>8, <1>9, <1>10
     DEF Next, Edit, Consume, Fault, Request, Proceed, vars, countVars, Create,
         UpdateNodeContent, UpdateContent, BatchMove, SummaryNode, SummaryReads, TaskBegins,
         UpdateNodeSummary, UpdateNodeStatus, ConsumerCrash

-------------------------------------------------------------------------------
(* The theorems.                                                           *)

LEMMA InvStep == ReleaseInv /\ [Next]_vars => ReleaseInv'
  BY TypeStep, RowsStep, ReadersStep, TruthStep, BodyStep, StampsStep, NewestStep
     DEF ReleaseInv

LEMMA Invariant == Spec => []ReleaseInv
<1> QED
  BY InvInit, InvStep, PTL DEF Spec

\* The status a node shows never lies about whether it was ever published, although
\* MoveNode and the summary task write it from what they read earlier.
THEOREM StatusIsTruthful == Spec => []StatusTruthful
<1>1. ReleaseInv => StatusTruthful
  BY DEF ReleaseInv
<1> QED
  BY <1>1, Invariant, PTL

\* A node that shows as released has its name and content in its latest snapshot.
THEOREM ReleasedBodiesMatch == Spec => []ReleasedBodyMatches
<1>1. ReleaseInv => ReleasedBodyMatches
  BY DEF ReleaseInv
<1> QED
  BY <1>1, Invariant, PTL

\* However publishes overlap, readers see the latest snapshot of every node once
\* all of them have ended, if none failed.
THEOREM PublishedIsSeen == Spec => []PublishedIsVisible
<1>1. ASSUME ReleaseInv  PROVE PublishedIsVisible
  <2> SUFFICES ASSUME faults = 0, \A c \in Callers : ~Publishing(c), NEW r \in Latest
               PROVE  r \in Visible
    BY DEF PublishedIsVisible
  <2>1. PICK k \in kbReleases : k.at = lastStamp /\ Latest \subseteq k.items
    BY <1>1 DEF ReleaseInv, NewestComplete, Publishing
  <2>2. k \in Newest
    BY <1>1, <2>1 DEF ReleaseInv, StampsTaken, Newest
  <2>3. r \in 1..lastRel /\ r \in rows /\ r \in ReleaseId
    BY <1>1, LatestType DEF ReleaseInv, TypeOK, RowsType, Latest
  <2>4. relNode[r] \in live
    BY <1>1, <2>3 DEF ReleaseInv, RowsOfLive
  <2> QED
    BY <2>1, <2>2, <2>3, <2>4 DEF Visible
<1> QED
  BY <1>1, Invariant, PTL

=============================================================================
