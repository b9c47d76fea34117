--------------------------- MODULE VectorSyncProofs ---------------------------
(***************************************************************************)
(* Proofs about VectorSync, for every set of nodes, groups and requests    *)
(* and every bound: types, soundness of citations, and re-indexing without *)
(* a gap.                                                                  *)
(***************************************************************************)
EXTENDS VectorSync, FiniteSetTheorems, TLAPS

USE DEF NoDoc, NoRelease

-------------------------------------------------------------------------------
(* Types.                                                                  *)

\* Every step keeps the types, whichever requests and faults occur.
LEMMA NilType == Nil \in GroupIds /\ \A S \in SUBSET Groups : Only(S) \in GroupIds
  BY DEF Nil, Only, GroupIds

LEMMA DoingType ==
  ASSUME NEW op \in CallOps, NEW todo \in SUBSET Nat  PROVE Doing(op, todo) \in Call
  BY NilType DEF Doing, Call

LEMMA DoingOK ==
  ASSUME NEW op \in CallOps, NEW todo, todo \subseteq Todo(op)
  PROVE  Doing(op, todo) \in Call /\ Doing(op, todo).todo \subseteq Todo(Doing(op, todo).op)
<1>1. todo \in SUBSET Nat
  BY DEF Todo, ReleaseId, DocId
<1> QED
  BY <1>1, DoingType DEF Doing

LEMMA NoCallType == NoCall \in Call
  BY DoingType DEF NoCall, CallOps

LEMMA CountNodes ==
  ASSUME NEW S, S \subseteq Nodes  PROVE Cardinality(S) \in Nat
  BY VectorSyncAssumption, FS_Subset, FS_CardinalityType DEF VectorSyncAssumption

\* A message is not the consumer's idle value, and reads like one of its kind.
LEMMA MessageKinds ==
  ASSUME NEW m \in Message
  PROVE  /\ m # NoTask
         /\ m.kind \in {"upsert", "delete", "update_group_ids"}
         /\ m.seq \in Nat /\ m.again \in BOOLEAN /\ m.gids \in GroupIds
         /\ m.kind = "upsert" => m.rel \in ReleaseId /\ m.doc = NoDoc
         /\ m.kind # "upsert" => m.rel = NoRelease /\ m.doc \in DocId
  BY NilType DEF Message, Task, NoTask

\* A repeated delivery is a message, with the same contents.
LEMMA AgainType ==
  ASSUME NEW m \in Message
  PROVE  /\ [m EXCEPT !.again = TRUE] \in Message
         /\ [m EXCEPT !.again = TRUE].kind = m.kind
         /\ [m EXCEPT !.again = TRUE].rel = m.rel
         /\ [m EXCEPT !.again = TRUE].doc = m.doc
         /\ [m EXCEPT !.again = TRUE].gids = m.gids
  BY DEF Message, Task

\* Publishing adds a message to the stream.
LEMMA PublishType ==
  ASSUME NEW kind, NEW r, NEW d, NEW gs,
         \/ kind = "upsert" /\ r \in ReleaseId /\ d = NoDoc /\ gs = Nil
         \/ kind = "delete" /\ r = NoRelease /\ d \in DocId /\ gs = Nil
         \/ kind = "update_group_ids" /\ r = NoRelease /\ d \in DocId /\ gs \in GroupIds,
         lastMsg \in Nat, Publish(kind, r, d, gs)
  PROVE  /\ lastMsg' \in Nat
         /\ \E m \in Message : /\ stream' = stream \cup {m}
                               /\ m.kind = kind /\ m.rel = r /\ m.doc = d /\ m.gids = gs
<1> DEFINE m == [seq |-> lastMsg + 1, again |-> FALSE, kind |-> kind, rel |-> r, doc |-> d,
                 gids |-> gs]
<1>1. m \in Message /\ m.kind = kind /\ m.rel = r /\ m.doc = d /\ m.gids = gs
  BY DEF Message, Task
<1>2. stream' = stream \cup {m} /\ lastMsg' = lastMsg + 1
  BY DEF Publish
<1> HIDE DEF m
<1> QED
  BY <1>1, <1>2

LEMMA RestType ==
  ASSUME call \in [Callers -> Call], NEW c \in Callers, NEW x
  PROVE  /\ Rest(c, x) \in Call
         /\ \/ Rest(c, x) = NoCall
            \/ Rest(c, x).op = call[c].op /\ Rest(c, x).todo = call[c].todo \ {x}
  BY NoCallType, DoingType DEF Rest, Doing, Call

\* What a part of the state does not lose while it is left alone.
LEMMA TypeFrame ==
  ASSUME TypeOK
  PROVE  /\ UNCHANGED nodeVars => NodesType'
         /\ UNCHANGED relVars => ReleasesType'
         /\ UNCHANGED ragVars => RagType'
         /\ UNCHANGED mqVars => StreamType'
         /\ UNCHANGED workerVars => WorkerType'
         /\ UNCHANGED call => CallsType'
         /\ UNCHANGED countVars => CountsType'
<1>1. UNCHANGED nodeVars => NodesType'
  BY DEF TypeOK, nodeVars, NodesType
<1>2. UNCHANGED relVars => ReleasesType'
  BY DEF TypeOK, relVars, ReleasesType
<1>3. UNCHANGED ragVars => RagType'
  BY DEF TypeOK, ragVars, RagType
<1>4. UNCHANGED mqVars => StreamType'
  BY DEF TypeOK, mqVars, StreamType
<1>5. UNCHANGED workerVars => WorkerType'
  BY DEF TypeOK, workerVars, WorkerType
<1>6. UNCHANGED call => CallsType'
  BY DEF TypeOK, CallsType
<1>7. UNCHANGED countVars => CountsType'
  BY DEF TypeOK, countVars, CountsType
<1> QED
  BY <1>1, <1>2, <1>3, <1>4, <1>5, <1>6, <1>7

\* A request that moves on to a well-typed state keeps the types of all requests.
LEMMA CallStep ==
  ASSUME CallsType, NEW c \in Callers, NEW x \in Call, x.todo \subseteq Todo(x.op),
         call' = [call EXCEPT ![c] = x]
  PROVE  CallsType'
  BY DEF CallsType

LEMMA RestOK ==
  ASSUME CallsType, NEW c \in Callers, NEW x
  PROVE  Rest(c, x) \in Call /\ Rest(c, x).todo \subseteq Todo(Rest(c, x).op)
<1>1. NoCall.todo \subseteq Todo(NoCall.op)
  BY DEF NoCall, Doing, Todo
<1> QED
  BY <1>1, NoCallType, RestType DEF CallsType

LEMMA TypeInit == Init => TypeOK
  BY NilType, NoCallType, VectorSyncAssumption
     DEF Init, TypeOK, VectorSyncAssumption, Perms, WorkerPc, NoCall, Doing, Todo,
         NodesType, ReleasesType, RagType, StreamType, WorkerType, CallsType, CountsType

LEMMA TypeStep == TypeOK /\ [Next]_vars => TypeOK'
<1> SUFFICES ASSUME TypeOK, [Next]_vars PROVE TypeOK'
  OBVIOUS
<1> USE VectorSyncAssumption DEF VectorSyncAssumption
<1>0. /\ NodesType /\ ReleasesType /\ RagType /\ StreamType
      /\ WorkerType /\ CallsType /\ CountsType
  BY DEF TypeOK
<1>1. CASE UNCHANGED vars
  BY <1>1, TypeFrame DEF vars, TypeOK
<1>2. ASSUME NEW c \in Callers, NEW S \in SUBSET Nodes, CreateNodeReleases(c, S)
      PROVE  TypeOK'
  <2> DEFINE new == lastRel + 1 .. lastRel + Cardinality(S)
             x   == Doing("publish", new)
  <2>1. Cardinality(S) \in Nat /\ new \subseteq ReleaseId
    BY <1>0, <1>2, CountNodes DEF CreateNodeReleases, ReleasesType, ReleaseId
  <2>2. x \in Call /\ x.todo \subseteq Todo(x.op)
    <3> HIDE DEF new
    <3> QED
      BY <2>1, DoingOK DEF Todo, CallOps
  <2>3. CallsType'
    BY <1>0, <1>2, <2>2, CallStep DEF CreateNodeReleases
  <2>4. ReleasesType'
    <3>1. PICK of \in [new -> S] :
            /\ rows' = rows \cup new
            /\ relNode' = [r \in ReleaseId |-> IF r \in new THEN of[r] ELSE relNode[r]]
            /\ relDoc' = [r \in ReleaseId |-> IF r \in new THEN NoDoc ELSE relDoc[r]]
            /\ lastRel' = lastRel + Cardinality(S) /\ lastRel' <= MaxReleases
      BY <1>2 DEF CreateNodeReleases
    <3>2. lastRel' \in 0..MaxReleases /\ rows' \subseteq 1..lastRel'
      <4>1. lastRel \in Nat /\ lastRel' \in Nat /\ lastRel <= lastRel' /\ lastRel' <= MaxReleases
        BY <1>0, <2>1, <3>1 DEF ReleasesType
      <4>2. new = lastRel + 1 .. lastRel' /\ rows \subseteq 1..lastRel
        BY <1>0, <3>1 DEF ReleasesType
      <4>3. 1..lastRel \subseteq 1..lastRel' /\ lastRel + 1 .. lastRel' \subseteq 1..lastRel'
        BY <4>1
      <4>4. rows' \subseteq 1..lastRel'
        <5> HIDE DEF new
        <5> QED
          BY <3>1, <4>2, <4>3
      <4> QED
        BY <4>1, <4>4
    <3>3. of \in [new -> Nodes]
      BY <3>1
    <3> HIDE DEF new
    <3> QED
      BY <1>0, <3>1, <3>2, <3>3 DEF ReleasesType
  <2> QED
    BY <1>2, <2>3, <2>4, TypeFrame DEF CreateNodeReleases, TypeOK
<1>3. ASSUME NEW c \in Callers, NEW S \in SUBSET Nodes, NodeRestudy(c, S)
      PROVE  TypeOK'
  <2> DEFINE again == {r \in Latest(S) : Indexed(r)}
             x     == Doing("restudy", again)
  <2>1. again \subseteq ReleaseId
    <3>1. rows \subseteq ReleaseId
      BY <1>0 DEF ReleaseId, ReleasesType
    <3> QED
      BY <3>1 DEF Latest
  <2>2. x \in Call /\ x.todo \subseteq Todo(x.op)
    <3> HIDE DEF again
    <3> QED
      BY <2>1, DoingOK DEF Todo, CallOps
  <2>3. CallsType'
    BY <1>0, <1>3, <2>2, CallStep DEF NodeRestudy
  <2>4. CountsType'
    BY <1>0, <1>3 DEF NodeRestudy, CountsType
  <2> QED
    BY <1>3, <2>3, <2>4, TypeFrame DEF NodeRestudy, TypeOK
<1>4. ASSUME NEW c \in Callers, NEW S \in SUBSET Nodes, NodeDelete(c, S)
      PROVE  TypeOK'
  <2> DEFINE out == DocsOf(ReleasesOf(S))
             x   == IF out = {} THEN NoCall ELSE Doing("delete", out)
  <2>1. out \subseteq DocId
    BY <1>0 DEF DocsOf, ReleasesOf, ReleasesType, ReleaseId
  <2>2. x \in Call /\ x.todo \subseteq Todo(x.op)
    <3> HIDE DEF out
    <3> QED
      BY <2>1, DoingOK DEF NoCall, Todo, CallOps
  <2>3. CallsType'
    BY <1>0, <1>4, <2>2, CallStep DEF NodeDelete, DeleteThen
  <2>4. NodesType' /\ ReleasesType'
    BY <1>0, <1>4 DEF NodeDelete, DeleteThen, NodesType, ReleasesType
  <2> QED
    BY <1>4, <2>3, <2>4, TypeFrame DEF NodeDelete, DeleteThen, TypeOK
<1>5. ASSUME NEW c \in Callers, NEW n \in Nodes, NEW p \in Perms, NEW gs \in GroupIds,
             PermissionsEdit(c, n, p, gs)
      PROVE  TypeOK'
  <2> DEFINE x == [op |-> "latest", todo |-> {}, node |-> n, rows |-> gs,
                   gids |-> GroupIdsFor(p, gs.ids)]
  <2>1. GroupIdsFor(p, gs.ids) \in GroupIds
    BY NilType DEF GroupIdsFor, GroupIds
  <2>2. x \in Call /\ x.todo \subseteq Todo(x.op)
    BY <2>1 DEF Call, CallOps, Todo
  <2>3. CallsType'
    BY <1>0, <1>5, <2>2, CallStep DEF PermissionsEdit
  <2>4. NodesType' /\ CountsType'
    BY <1>0, <1>5 DEF PermissionsEdit, NodesType, CountsType
  <2> QED
    BY <1>5, <2>3, <2>4, TypeFrame DEF PermissionsEdit, TypeOK
<1>6. ASSUME NEW c \in Callers, NEW r \in call[c].todo, PublishUpsert(c, r)
      PROVE  TypeOK'
  <2>1. r \in ReleaseId
    BY <1>0, <1>6 DEF PublishUpsert, CallsType, Todo
  <2>2. StreamType'
    BY <1>0, <1>6, <2>1, PublishType DEF PublishUpsert, StreamType
  <2>3. CallsType'
    BY <1>0, <1>6, RestOK, CallStep DEF PublishUpsert
  <2> QED
    BY <1>6, <2>2, <2>3, TypeFrame DEF PublishUpsert, TypeOK
<1>7. ASSUME NEW c \in Callers, NEW d \in call[c].todo, PublishDelete(c, d)
      PROVE  TypeOK'
  <2>1. d \in DocId
    BY <1>0, <1>7 DEF PublishDelete, CallsType, Todo
  <2>2. StreamType'
    BY <1>0, <1>7, <2>1, PublishType DEF PublishDelete, StreamType
  <2>3. CallsType'
    BY <1>0, <1>7, RestOK, CallStep DEF PublishDelete
  <2> QED
    BY <1>7, <2>2, <2>3, TypeFrame DEF PublishDelete, TypeOK
<1>8. ASSUME NEW c \in Callers, EditReadsLatest(c) PROVE TypeOK'
  <2> DEFINE out == DocsOf(Latest({call[c].node}))
             x   == Editing(c, IF out = {} THEN "groups" ELSE "notify", out)
  <2>1. out \subseteq DocId
    BY <1>0 DEF DocsOf, Latest, ReleasesType, ReleaseId
  <2>2. x \in Call /\ x.todo \subseteq Todo(x.op)
    <3> HIDE DEF out
    <3>1. out \in SUBSET Nat
      BY <2>1 DEF DocId
    <3> QED
      BY <1>0, <2>1, <3>1 DEF CallsType, Editing, Call, CallOps, Todo
  <2>3. CallsType'
    BY <1>0, <1>8, <2>2, CallStep DEF EditReadsLatest
  <2> QED
    BY <1>8, <2>3, TypeFrame DEF EditReadsLatest, TypeOK
<1>9. ASSUME NEW c \in Callers, EditNotifies(c) PROVE TypeOK'
  <2> DEFINE x == Editing(c, "groups", {})
  <2>1. PICK d \in call[c].todo : Publish("update_group_ids", NoRelease, d, call[c].gids)
    BY <1>9 DEF EditNotifies
  <2>2. d \in DocId /\ call[c].gids \in GroupIds
    BY <1>0, <1>9 DEF EditNotifies, CallsType, Todo, Call
  <2>3. StreamType'
    BY <1>0, <2>1, <2>2, PublishType DEF StreamType
  <2>4. x \in Call /\ x.todo \subseteq Todo(x.op)
    BY <1>0 DEF Editing, CallsType, Call, CallOps
  <2>5. CallsType'
    BY <1>0, <1>9, <2>4, CallStep DEF EditNotifies
  <2> QED
    BY <1>9, <2>3, <2>5, TypeFrame DEF EditNotifies, TypeOK
<1>10. ASSUME NEW c \in Callers, EditWritesGroups(c) PROVE TypeOK'
  <2>1. CallsType'
    BY <1>0, <1>10, NoCallType, CallStep DEF EditWritesGroups, NoCall, Doing, Todo
  <2>2. call[c].rows.ids \in SUBSET Groups
    BY <1>0 DEF CallsType, Call, GroupIds
  <2>3. NodesType'
    BY <1>0, <1>10, <2>2 DEF EditWritesGroups, NodesType
  <2> QED
    BY <1>10, <2>1, <2>3, TypeFrame DEF EditWritesGroups, TypeOK, relVars
<1>11. ASSUME NEW c \in Callers, PublishFails(c) PROVE TypeOK'
  <2>1. CallsType'
    BY <1>0, <1>11, NoCallType, RestOK, CallStep DEF PublishFails, NoCall, Doing, Todo
  <2>2. CountsType'
    BY <1>0, <1>11 DEF PublishFails, CountsType
  <2> QED
    BY <1>11, <2>1, <2>2, TypeFrame DEF PublishFails, TypeOK
<1>12. ASSUME NEW m \in stream, Receive(m) PROVE TypeOK'
  <2>1. m \in Message
    BY <1>0 DEF StreamType
  <2>2. WorkerType'
    BY <1>0, <1>12, <2>1, NilType, MessageKinds DEF Receive, WorkerType, ReleasesType, WorkerPc
  <2>3. StreamType'
    BY <1>0, <1>12 DEF Receive, StreamType
  <2> QED
    BY <1>12, <2>2, <2>3, TypeFrame DEF Receive, TypeOK
<1>13. CASE ReadPermission
  <2>1. WorkerType'
    BY <1>0, <1>13, NilType DEF ReadPermission, PermissionRead, WorkerType, WorkerPc
  <2> QED
    BY <1>13, <2>1, TypeFrame DEF ReadPermission, PermissionRead, TypeOK
<1>14. CASE ReadGroups
  <2>1. Only(IF relNode[task.rel] \in live /\ perm[relNode[task.rel]] = "partial"
             THEN groups[relNode[task.rel]] ELSE {}) \in GroupIds
    BY <1>0, NilType DEF NodesType
  <2>2. WorkerType'
    BY <1>0, <1>14, <2>1 DEF ReadGroups, WorkerType, WorkerPc
  <2> QED
    BY <1>14, <2>2, TypeFrame DEF ReadGroups, TypeOK
<1>15. ASSUME NEW d \in DocId, Stored(d) PROVE RagType'
  <2>1. task.rel \in ReleaseId \cup {NoRelease} /\ gids \in GroupIds
    BY <1>0, MessageKinds DEF WorkerType, NoTask
  <2> QED
    BY <1>0, <1>15, <2>1 DEF Stored, StoredAs, RagType, DocId
<1>16. CASE UpsertRecords
  <2>1. RagType' /\ WorkerType'
    BY <1>0, <1>15, <1>16 DEF UpsertRecords, WorkerType, WorkerPc
  <2> QED
    BY <1>16, <2>1, TypeFrame DEF UpsertRecords, TypeOK
<1>17. ASSUME NEW where, Goto(where), where \in WorkerPc \ {"idle"}, pc # "idle"
       PROVE  WorkerType'
  BY <1>0, <1>17 DEF Goto, WorkerType
<1>18. CASE UpsertTimesOut
  <2>1. RagType' /\ WorkerType' /\ CountsType'
    BY <1>0, <1>15, <1>17, <1>18 DEF UpsertTimesOut, CountsType, WorkerPc
  <2> QED
    BY <1>18, <2>1, TypeFrame DEF UpsertTimesOut, TypeOK
<1>19. CASE UpdateNodeReleaseDocID
  <2>1. WorkerType'
    BY <1>17, <1>19 DEF UpdateNodeReleaseDocID, NamesDocument, WorkerPc
  <2>2. ReleasesType'
    BY <1>0, <1>19 DEF UpdateNodeReleaseDocID, NamesDocument, ReleasesType, WorkerType
  <2> QED
    BY <1>19, <2>1, <2>2, TypeFrame DEF UpdateNodeReleaseDocID, NamesDocument, TypeOK
<1>20. CASE GetOldNodeDocIDs
  <2>1. DocsOf(SameNode \ {task.rel}) \subseteq DocId
    BY <1>0 DEF DocsOf, SameNode, ReleasesOf, ReleasesType, ReleaseId
  <2>2. WorkerType'
    BY <1>0, <1>20, <2>1 DEF GetOldNodeDocIDs, OldDocsOf, WorkerType, WorkerPc
  <2>3. ReleasesType'
    BY <1>0, <1>20 DEF GetOldNodeDocIDs, OldDocsOf, ReleasesType
  <2> QED
    BY <1>20, <2>2, <2>3, TypeFrame DEF GetOldNodeDocIDs, OldDocsOf, TypeOK
<1>21. CASE DeleteRecords
  <2>1. RagType' /\ WorkerType'
    BY <1>0, <1>17, <1>21 DEF DeleteRecords, RagType, WorkerPc
  <2> QED
    BY <1>21, <2>1, TypeFrame DEF DeleteRecords, TypeOK
<1>22. CASE UpdateDocumentGroupIDs
  <2>1. task.gids \in GroupIds
    BY <1>0, NilType, MessageKinds DEF WorkerType, NoTask
  <2>2. RagType' /\ WorkerType'
    BY <1>0, <1>17, <1>22, <2>1 DEF UpdateDocumentGroupIDs, RagType, WorkerPc
  <2> QED
    BY <1>22, <2>2, TypeFrame DEF UpdateDocumentGroupIDs, TypeOK
<1>23. CASE StepFails
  <2>1. WorkerType' /\ CountsType'
    BY <1>0, <1>17, <1>23 DEF StepFails, CountsType, WorkerPc
  <2> QED
    BY <1>23, <2>1, TypeFrame DEF StepFails, TypeOK
<1>24. ASSUME Reset PROVE WorkerType'
  BY <1>24, NilType DEF Reset, WorkerType, WorkerPc
<1>25. CASE Ack
  BY <1>24, <1>25, TypeFrame DEF Ack, TypeOK
<1>26. ASSUME NEW m \in stream \cup {task}, AckWaitExpires(m) PROVE TypeOK'
  <2>1. StreamType' /\ CountsType'
    BY <1>0, <1>26, AgainType DEF AckWaitExpires, StreamType, WorkerType, CountsType
  <2> QED
    BY <1>26, <2>1, TypeFrame DEF AckWaitExpires, TypeOK
<1>27. CASE ConsumerCrash
  <2>1. StreamType' /\ CountsType'
    BY <1>0, <1>27, AgainType DEF ConsumerCrash, CrashLeaves, StreamType, WorkerType, CountsType
  <2> QED
    BY <1>24, <1>27, <2>1, TypeFrame DEF ConsumerCrash, CrashLeaves, TypeOK
<1> QED
  BY <1>1, <1>2, <1>3, <1>4, <1>5, <1>6, <1>7, <1>8, <1>9, <1>10, <1>11, <1>12, <1>13, <1>14,
     <1>16, <1>18, <1>19, <1>20, <1>21, <1>22, <1>23, <1>25, <1>26, <1>27, NilType
     DEF Next, Consume, Proceed, Request, Fault
\* Whatever the requests, the faults and the bounds, every variable keeps its type.
THEOREM TypeCorrect == Spec => []TypeOK
  BY TypeInit, TypeStep, PTL DEF Spec

-------------------------------------------------------------------------------
(* The index.  The argument turns on two facts about document ids: none is *)
(* handed out twice, and a document that a release names is not on its way *)
(* out.  Only NodeDelete and GetOldNodeDocIDs put documents on their way   *)
(* out, and both take the names away in the same transaction.              *)

\* Steps that leave the index alone and send no further document out.
LEMMA IndexFrame ==
  ASSUME IndexInv, UNCHANGED <<live, relVars, docs, docRel, lastDoc>>, doc' <= lastDoc,
         \A d \in DocId : Leaving(d)' => Leaving(d)
  PROVE  DocsBounded' /\ RowsOfLive' /\ OneName' /\ NamedStays' /\ CitationsSound'
<1> USE DEF relVars
<1>1. \A r \in rows : r \in ReleaseId /\ relDoc[r] \in DocId \cup {NoDoc}
  BY VectorSyncAssumption DEF IndexInv, TypeOK, ReleasesType, ReleaseId, VectorSyncAssumption
<1>2. DocsBounded'
  BY DEF IndexInv, DocsBounded
<1>3. RowsOfLive' /\ OneName' /\ CitationsSound'
  BY DEF IndexInv, RowsOfLive, OneName, CitationsSound, Indexed
<1>4. NamedStays'
  BY <1>1 DEF IndexInv, NamedStays, Indexed
<1> QED
  BY <1>2, <1>3, <1>4

\* What the consumer knows stays true while it waits.
LEMMA WorkerFrame ==
  ASSUME IndexInv, UNCHANGED <<pc, task, doc, relVars, docs, docRel>>,
         \A d \in DocId : Leaving(d)' => Leaving(d)
  PROVE  WorkerKnows'
<1>1. doc \in DocId \cup {NoDoc}
  BY DEF IndexInv, TypeOK, WorkerType
<1>2. pc = "docid" => doc \in DocId
  BY DEF IndexInv, TypeOK, RagType, WorkerKnows
<1> QED
  BY <1>1, <1>2 DEF IndexInv, WorkerKnows, relVars

\* Publishing adds one message; only a "delete" sends a document out.
LEMMA LeavingPublish ==
  ASSUME NEW m, stream' = stream \cup {m}, UNCHANGED <<old, task>>, NEW d,
         m.kind = "delete" => Leaving(m.doc),
         \A c \in Callers : call'[c].op = "delete" /\ d \in call'[c].todo =>
                              call[c].op = "delete" /\ d \in call[c].todo,
         Leaving(d)'
  PROVE  Leaving(d)
  BY DEF Leaving

LEMMA IndexInit == Init => IndexInv
<1> SUFFICES ASSUME Init PROVE IndexInv
  OBVIOUS
<1>1. TypeOK
  BY TypeInit
<1>2. \A d \in DocId : ~Leaving(d)
  BY DEF Init, Leaving, NoTask, NoCall, Doing
<1>3. DocsBounded /\ RowsOfLive /\ OneName /\ NamedStays /\ CitationsSound
  BY <1>2 DEF Init, DocsBounded, RowsOfLive, OneName, NamedStays, CitationsSound
<1>4. TasksKnown /\ WorkerKnows
  BY DEF Init, TasksKnown, WorkerKnows, Upserting, NoTask, NoCall, Doing
<1> QED
  BY <1>1, <1>3, <1>4 DEF IndexInv

\* Every step of a request keeps the invariant.
LEMMA RequestStep ==
  ASSUME IndexInv, TypeOK', NEW c \in Callers, Proceed(c) \/ Request(c) \/ PublishFails(c)
  PROVE  IndexInv'
<1> USE DEF nodeVars, relVars, ragVars, mqVars, workerVars
<1>0. /\ TypeOK /\ DocsBounded /\ RowsOfLive /\ TasksKnown
      /\ OneName /\ NamedStays /\ CitationsSound /\ WorkerKnows
  BY DEF IndexInv
<1>t. /\ doc <= lastDoc /\ lastRel \in Nat /\ rows \subseteq 1..lastRel
      /\ call \in [Callers -> Call]
  BY <1>0 DEF TypeOK, ReleasesType, CallsType, DocsBounded
<1>1. ASSUME UNCHANGED <<live, rows, relNode, relDoc, lastRel, docs, docRel, lastDoc, workerVars>>,
             TasksKnown', \A d \in DocId : Leaving(d)' => Leaving(d)
      PROVE  IndexInv'
  BY <1>0, <1>1, <1>t, IndexFrame, WorkerFrame DEF IndexInv
<1>2. ASSUME UNCHANGED <<live, rows, relNode, relDoc, lastRel, docs, docRel, lastDoc, workerVars>>,
             UNCHANGED stream, NEW x, call' = [call EXCEPT ![c] = x], x.op \notin {"delete"},
             x.op \in {"publish", "restudy"} => x.todo \subseteq 1..lastRel
      PROVE  IndexInv'
  <2>1. TasksKnown'
    BY <1>0, <1>2, <1>t DEF TasksKnown
  <2>2. \A d \in DocId : Leaving(d)' => Leaving(d)
    BY <1>2, <1>t DEF Leaving
  <2> QED
    BY <1>1, <1>2, <2>1, <2>2
<1>3. ASSUME NEW S \in SUBSET Nodes, NodeRestudy(c, S)  PROVE IndexInv'
  <2> DEFINE again == {r \in Latest(S) : Indexed(r)}
  <2>1. again \subseteq 1..lastRel
    BY <1>t DEF Latest
  <2>2. Doing("restudy", again).op = "restudy" /\ Doing("restudy", again).todo = again
    BY DEF Doing
  <2>3. call' = [call EXCEPT ![c] = Doing("restudy", again)]
    BY <1>3 DEF NodeRestudy
  <2> HIDE DEF again
  <2> QED
    BY <1>2, <1>3, <2>1, <2>2, <2>3 DEF NodeRestudy
<1>4. ASSUME NEW n \in Nodes, NEW p \in Perms, NEW gs, PermissionsEdit(c, n, p, gs)
      PROVE  IndexInv'
  <2> DEFINE x == [op |-> "latest", todo |-> {}, node |-> n, rows |-> gs,
                   gids |-> GroupIdsFor(p, gs.ids)]
  <2>1. x.op = "latest" /\ call' = [call EXCEPT ![c] = x]
    BY <1>4 DEF PermissionsEdit
  <2> HIDE DEF x
  <2> QED
    BY <1>2, <1>4, <2>1 DEF PermissionsEdit
<1>5. CASE EditReadsLatest(c)
  <2> DEFINE out == DocsOf(Latest({call[c].node}))
             x   == Editing(c, IF out = {} THEN "groups" ELSE "notify", out)
  <2>1. call' = [call EXCEPT ![c] = x]
    BY <1>5 DEF EditReadsLatest
  <2>2. x.op \in {"groups", "notify"}
    BY DEF Editing
  <2> HIDE DEF x
  <2> QED
    BY <1>2, <1>5, <2>1, <2>2 DEF EditReadsLatest
<1>6. CASE EditWritesGroups(c)
  BY <1>2, <1>6 DEF EditWritesGroups, NoCall, Doing
<1>7. \A x : \/ Rest(c, x) = NoCall /\ NoCall.op = "idle"
             \/ Rest(c, x).op = call[c].op /\ Rest(c, x).todo \subseteq call[c].todo
  BY DEF Rest, NoCall, Doing
<1>8. CASE PublishFails(c)
  <2>1. PICK x : /\ call' = [call EXCEPT ![c] = x]
                 /\ \/ x.op = "idle"
                    \/ x.op = "restudy" /\ call[c].op = "restudy" /\ x.todo \subseteq call[c].todo
    <3>1. CASE call[c].op = "restudy"
      <4>1. PICK r \in call[c].todo : call' = [call EXCEPT ![c] = Rest(c, r)]
        BY <1>8, <3>1 DEF PublishFails
      <4>2. \/ Rest(c, r).op = "idle"
            \/ Rest(c, r).op = "restudy" /\ Rest(c, r).todo \subseteq call[c].todo
        BY <1>7, <3>1
      <4> QED
        BY <3>1, <4>1, <4>2
    <3>2. CASE call[c].op # "restudy"
      <4>1. call' = [call EXCEPT ![c] = NoCall] /\ NoCall.op = "idle"
        BY <1>8, <3>2 DEF PublishFails, NoCall, Doing
      <4> QED
        BY <4>1
    <3> QED
      BY <3>1, <3>2
  <2> QED
    BY <1>0, <1>2, <1>8, <2>1 DEF PublishFails, TasksKnown
<1>9. ASSUME UNCHANGED <<live, rows, relNode, relDoc, lastRel, docs, docRel, lastDoc, workerVars>>,
             NEW m \in Message, stream' = stream \cup {m}, NEW x, call' = [call EXCEPT ![c] = x],
             m.kind = "upsert" => m.rel <= lastRel, m.kind = "delete" => Leaving(m.doc),
             \/ x.op \notin {"delete", "publish", "restudy"}
             \/ x.op = call[c].op /\ x.todo \subseteq call[c].todo
      PROVE  IndexInv'
  <2>1. TasksKnown'
    BY <1>0, <1>9, <1>t DEF TasksKnown
  <2>2. \A d \in DocId : Leaving(d)' => Leaving(d)
    BY <1>9, <1>t, LeavingPublish
  <2> QED
    BY <1>1, <1>9, <2>1, <2>2
<1>10. ASSUME NEW r \in call[c].todo, PublishUpsert(c, r)  PROVE IndexInv'
  <2>1. r \in ReleaseId /\ r <= lastRel /\ lastMsg \in Nat
    BY <1>0, <1>10, <1>t DEF PublishUpsert, TypeOK, CallsType, StreamType, TasksKnown, Todo
  <2>2. PICK m \in Message : stream' = stream \cup {m} /\ m.kind = "upsert" /\ m.rel = r
    BY <1>10, <2>1, PublishType DEF PublishUpsert
  <2> QED
    BY <1>7, <1>9, <1>10, <2>1, <2>2 DEF PublishUpsert
<1>11. ASSUME NEW d \in call[c].todo, PublishDelete(c, d)  PROVE IndexInv'
  <2>1. d \in DocId /\ Leaving(d) /\ lastMsg \in Nat
    BY <1>0, <1>11 DEF PublishDelete, TypeOK, CallsType, StreamType, Leaving, Todo
  <2>2. PICK m \in Message : stream' = stream \cup {m} /\ m.kind = "delete" /\ m.doc = d
    BY <1>11, <2>1, PublishType DEF PublishDelete
  <2> QED
    BY <1>7, <1>9, <1>11, <2>1, <2>2 DEF PublishDelete
<1>12. CASE EditNotifies(c)
  <2>1. PICK d \in call[c].todo : Publish("update_group_ids", NoRelease, d, call[c].gids)
    BY <1>12 DEF EditNotifies
  <2>2. d \in DocId /\ lastMsg \in Nat /\ call[c].gids \in GroupIds
    BY <1>0, <1>12 DEF EditNotifies, TypeOK, CallsType, StreamType, Todo, Call
  <2>3. PICK m \in Message : stream' = stream \cup {m} /\ m.kind = "update_group_ids"
    BY <2>1, <2>2, PublishType
  <2>4. Editing(c, "groups", {}).op = "groups"
    BY DEF Editing
  <2> QED
    BY <1>9, <1>12, <2>3, <2>4 DEF EditNotifies
<1>13. ASSUME NEW S \in SUBSET Nodes, CreateNodeReleases(c, S)  PROVE IndexInv'
  <2> DEFINE new == lastRel + 1 .. lastRel + Cardinality(S)
  <2>1. PICK of \in [new -> S] :
          /\ rows' = rows \cup new
          /\ relNode' = [r \in ReleaseId |-> IF r \in new THEN of[r] ELSE relNode[r]]
          /\ relDoc' = [r \in ReleaseId |-> IF r \in new THEN NoDoc ELSE relDoc[r]]
          /\ lastRel' = lastRel + Cardinality(S) /\ lastRel' <= MaxReleases
    BY <1>13 DEF CreateNodeReleases
  <2>2. /\ S \subseteq live /\ S \subseteq Nodes /\ Cardinality(S) \in Nat
        /\ call' = [call EXCEPT ![c] = Doing("publish", new)]
        /\ UNCHANGED <<live, docs, docRel, lastDoc, workerVars, stream>>
    BY <1>13, CountNodes DEF CreateNodeReleases
  <2>3. /\ lastRel' \in Nat /\ lastRel <= lastRel' /\ new = lastRel + 1 .. lastRel'
        /\ Doing("publish", new).op = "publish" /\ Doing("publish", new).todo = new
    BY <1>t, <2>1, <2>2 DEF Doing
  <2> HIDE DEF new
  <2>4. /\ new \cap 1..lastRel = {} /\ 1..lastRel' = 1..lastRel \cup new
        /\ new \subseteq ReleaseId /\ 1..lastRel \subseteq ReleaseId
    BY <1>t, <2>1, <2>3, VectorSyncAssumption DEF ReleaseId, VectorSyncAssumption
  <2>5. /\ \A r \in 1..lastRel : relDoc'[r] = relDoc[r] /\ relNode'[r] = relNode[r]
        /\ \A r \in new : relDoc'[r] = NoDoc /\ relNode'[r] \in live
        /\ \A r \in rows' : Indexed(r)' => r \in rows /\ Indexed(r) /\ relDoc'[r] = relDoc[r]
    BY <1>t, <2>1, <2>2, <2>4 DEF Indexed
  <2>6. \A d : Leaving(d)' => Leaving(d)
    BY <1>t, <2>2, <2>3 DEF Leaving
  <2>7. DocsBounded'
    <3>1. lastDoc \in Nat
      BY <1>0 DEF TypeOK, RagType
    <3>2. \A r \in rows' : relDoc'[r] <= lastDoc
      BY <1>0, <1>t, <2>1, <2>5, <3>1 DEF DocsBounded
    <3> QED
      BY <1>0, <2>2, <2>6, <3>2 DEF DocsBounded
  <2>8. RowsOfLive'
    BY <1>0, <1>t, <2>1, <2>2, <2>4, <2>5 DEF RowsOfLive
  <2>9. TasksKnown'
    <3>1. \A m \in stream \cup {task} : m.kind = "upsert" => m.rel \in Nat
      BY <1>0, MessageKinds DEF TypeOK, StreamType, WorkerType, NoTask, ReleaseId
    <3>2. \A m \in stream' \cup {task'} : m.kind = "upsert" => m.rel <= lastRel'
      BY <1>0, <1>t, <2>2, <2>3, <3>1 DEF TasksKnown
    <3>3. \A x \in Callers : call'[x].op \in {"publish", "restudy"} =>
                               call'[x].todo \subseteq 1..lastRel'
      BY <1>0, <1>t, <2>2, <2>3, <2>4 DEF TasksKnown
    <3> QED
      BY <3>2, <3>3 DEF TasksKnown
  <2>10. OneName' /\ NamedStays' /\ CitationsSound'
    BY <1>0, <2>2, <2>5, <2>6 DEF OneName, NamedStays, CitationsSound, Indexed
  <2>11. WorkerKnows'
    <3>1. pc \in Upserting /\ task.rel \in rows' => task.rel \in rows
      <4>1. pc \in Upserting => task.rel \in Int /\ task.rel <= lastRel
        BY <1>0, MessageKinds DEF TypeOK, WorkerType, WorkerKnows, TasksKnown, NoTask, ReleaseId
      <4> QED
        BY <1>t, <2>1, <2>3, <4>1
    <3>2. doc # NoDoc => \A r \in rows' : relDoc'[r] = doc => r \in rows /\ relDoc[r] = doc
      BY <2>5 DEF Indexed
    <3>3. \A r \in rows : relDoc'[r] = relDoc[r]
      BY <1>t, <2>5
    <3> QED
      BY <1>0, <2>2, <2>6, <3>1, <3>2, <3>3 DEF WorkerKnows, Upserting
  <2> QED
    BY <2>7, <2>8, <2>9, <2>10, <2>11 DEF IndexInv
<1>14. ASSUME NEW S \in SUBSET Nodes, NodeDelete(c, S)  PROVE IndexInv'
  <2> DEFINE out == DocsOf(ReleasesOf(S))
             x   == IF out = {} THEN NoCall ELSE Doing("delete", out)
  <2>1. /\ S \subseteq live /\ live' = live \ S
        /\ rows' = rows \ ReleasesOf(S)
        /\ call' = [call EXCEPT ![c] = x]
        /\ UNCHANGED <<relNode, relDoc, lastRel, docs, docRel, lastDoc, workerVars, stream>>
    BY <1>14 DEF NodeDelete, DeleteThen
  <2>2. x.op \in {"idle", "delete"} /\ (x.op = "delete" => x.todo = out)
    BY DEF NoCall, Doing
  <2>3. /\ \A r \in rows : relNode[r] \in S <=> r \notin rows'
        /\ \A d \in out : \E r \in rows \ rows' : Indexed(r) /\ relDoc[r] = d
    BY <2>1 DEF ReleasesOf, DocsOf, Indexed
  <2> HIDE DEF out, x
  <2>4. \A d : Leaving(d)' => Leaving(d) \/ d \in out
    BY <1>t, <2>1, <2>2 DEF Leaving
  <2>5. DocsBounded'
    BY <1>0, <1>t, <2>1, <2>3, <2>4 DEF DocsBounded
  <2>6. RowsOfLive'
    BY <1>0, <1>t, <2>1, <2>3 DEF RowsOfLive
  <2>7. TasksKnown'
    BY <1>0, <1>t, <2>1, <2>2 DEF TasksKnown
  <2>8. OneName' /\ CitationsSound'
    BY <1>0, <2>1 DEF OneName, CitationsSound, Indexed
  <2>9. NamedStays'
    BY <1>0, <2>1, <2>3, <2>4 DEF NamedStays, OneName, Indexed
  <2>10. pc = "docid" /\ task.rel \in rows' => ~Leaving(doc)'
    BY <1>0, <2>1, <2>3, <2>4 DEF WorkerKnows, Indexed, Upserting
  <2>11. WorkerKnows'
    BY <1>0, <2>1, <2>10 DEF WorkerKnows
  <2> QED
    BY <2>5, <2>6, <2>7, <2>8, <2>9, <2>11 DEF IndexInv
<1> QED
  BY <1>3, <1>4, <1>5, <1>6, <1>8, <1>10, <1>11, <1>12, <1>13, <1>14 DEF Proceed, Request
\* Every step of the consumer, and what can go wrong with it, keeps the invariant.
LEMMA ConsumerStep ==
  ASSUME IndexInv, TypeOK',
         \/ Consume \/ UpsertTimesOut \/ StepFails \/ ConsumerCrash
         \/ \E m \in stream \cup {task} : AckWaitExpires(m)
  PROVE  IndexInv'
<1> USE DEF nodeVars, relVars, ragVars, mqVars, workerVars
<1>0. /\ TypeOK /\ DocsBounded /\ RowsOfLive /\ TasksKnown
      /\ OneName /\ NamedStays /\ CitationsSound /\ WorkerKnows
  BY DEF IndexInv
<1>t. /\ doc <= lastDoc /\ lastDoc \in Nat /\ lastRel \in Nat /\ rows \subseteq 1..lastRel
      /\ stream \subseteq Message /\ task \in Message \cup {NoTask}
      /\ \A r \in rows : r \in ReleaseId /\ relDoc[r] \in DocId \cup {NoDoc}
      /\ relDoc \in [ReleaseId -> DocId \cup {NoDoc}] /\ doc \in DocId \cup {NoDoc}
      /\ docRel \in [DocId -> ReleaseId \cup {NoRelease}]
  BY <1>0, VectorSyncAssumption
     DEF TypeOK, ReleasesType, RagType, StreamType, WorkerType, DocsBounded, ReleaseId,
         VectorSyncAssumption
\* Steps that touch neither the releases nor the documents.
<1>1. ASSUME UNCHANGED <<live, rows, relNode, relDoc, lastRel, docs, docRel, lastDoc, call>>,
             doc' <= lastDoc, WorkerKnows',
             \A d \in DocId : Leaving(d)' => Leaving(d),
             \A m \in stream' \cup {task'} : m.kind = "upsert" => m.rel <= lastRel
      PROVE  IndexInv'
  <2>1. TasksKnown'
    BY <1>0, <1>1 DEF TasksKnown
  <2> QED
    BY <1>1, <2>1, IndexFrame DEF IndexInv
<1>2. ASSUME NEW where, where \notin Upserting, Goto(where),
             UNCHANGED <<live, rows, relNode, relDoc, lastRel, docs, docRel, lastDoc, call, stream>>
      PROVE  IndexInv'
  <2>1. WorkerKnows'
    BY <1>2 DEF Goto, WorkerKnows, Upserting
  <2>2. \A d \in DocId : Leaving(d)' => Leaving(d)
    BY <1>2 DEF Goto, Leaving
  <2> QED
    BY <1>0, <1>1, <1>2, <1>t, <2>1, <2>2 DEF Goto, TasksKnown
<1>3. ASSUME NEW m \in stream, Receive(m)  PROVE IndexInv'
  <2>1. /\ task' = m /\ stream' = stream \ {m} /\ m \in Message
        /\ UNCHANGED <<live, rows, relNode, relDoc, lastRel, docs, docRel, lastDoc, call>>
    BY <1>3, <1>t DEF Receive
  <2>2. \A d \in DocId : Leaving(d)' => Leaving(d)
    BY <1>3, <2>1 DEF Receive, Leaving
  <2>3. doc' <= lastDoc
    <3>1. doc' = NoDoc \/ (m.rel \in rows /\ doc' = relDoc[m.rel])
      BY <1>3 DEF Receive
    <3>2. 0 <= lastDoc /\ \A r \in rows : relDoc[r] <= lastDoc
      BY <1>0, <1>t DEF DocsBounded
    <3> QED
      BY <3>1, <3>2
  <2>4. WorkerKnows'
    BY <1>0, <1>3, <1>t, <2>1 DEF Receive, WorkerKnows, Upserting, OneName, Indexed
  <2> QED
    BY <1>0, <1>1, <2>1, <2>2, <2>3, <2>4 DEF TasksKnown
<1>4. CASE ReadPermission \/ ReadGroups
  <2>1. /\ UNCHANGED <<live, rows, relNode, relDoc, lastRel, docs, docRel, lastDoc, call, stream>>
        /\ UNCHANGED <<task, doc, old>>
        /\ pc \in {"perm", "groups"} /\ pc' \in {"ack", "upload", "groups"}
    BY <1>4 DEF ReadPermission, PermissionRead, ReadGroups
  <2>2. \A d \in DocId : Leaving(d)' => Leaving(d)
    BY <2>1 DEF Leaving
  <2>3. WorkerKnows'
    BY <1>0, <2>1 DEF WorkerKnows, Upserting
  <2> QED
    BY <1>0, <1>1, <1>t, <2>1, <2>2, <2>3 DEF TasksKnown
<1>5. ASSUME pc = "upload", NEW d \in DocId, Stored(d), UNCHANGED <<live, relVars, stream, task, old, call>>,
             \/ pc' = "docid" /\ doc' = d
             \/ pc' = "ack" /\ doc' = doc
      PROVE  IndexInv'
  <2>1. /\ docs' = docs \cup {d} /\ docRel' = [docRel EXCEPT ![d] = task.rel]
        /\ \/ doc = NoDoc /\ d = lastDoc + 1 /\ lastDoc' = d
           \/ doc # NoDoc /\ d = doc /\ lastDoc' = lastDoc
    BY <1>5 DEF Stored, StoredAs
  <2>2. lastDoc <= lastDoc' /\ d <= lastDoc' /\ doc <= lastDoc' /\ lastDoc' \in Nat
    BY <1>t, <2>1
  <2>3. \A x : Leaving(x)' <=> Leaving(x)
    BY <1>5 DEF Leaving
  <2>4. \A r \in rows : relDoc[r] = d => r = task.rel /\ doc = d
    BY <1>0, <1>5, <1>t, <2>1 DEF WorkerKnows, Upserting, DocsBounded, DocId
  <2>5. task.rel \in rows => ~Leaving(d)
    <3>1. CASE doc = NoDoc
      <4>1. d \in Int /\ ~(d <= lastDoc)
        BY <1>t, <2>1, <3>1
      <4> QED
        BY <1>0, <4>1 DEF DocsBounded
    <3>2. CASE doc # NoDoc
      BY <1>0, <1>5, <2>1, <3>2 DEF WorkerKnows, NamedStays, Indexed
    <3> QED
      BY <3>1, <3>2
  <2>6. DocsBounded'
    BY <1>0, <1>5, <1>t, <2>1, <2>2, <2>3 DEF DocsBounded, DocId
  <2>7. RowsOfLive' /\ TasksKnown' /\ OneName' /\ NamedStays'
    BY <1>0, <1>5, <1>t, <2>3 DEF RowsOfLive, TasksKnown, OneName, NamedStays, Indexed
  <2>8. CitationsSound'
    BY <1>0, <1>5, <1>t, <2>1, <2>4 DEF CitationsSound, Indexed
  <2>9. WorkerKnows'
    BY <1>0, <1>5, <1>t, <2>1, <2>3, <2>4, <2>5 DEF WorkerKnows, Upserting
  <2> QED
    BY <2>6, <2>7, <2>8, <2>9 DEF IndexInv
<1>6. CASE UpsertRecords
  BY <1>5, <1>6 DEF UpsertRecords
<1>7. CASE UpsertTimesOut
  BY <1>5, <1>7 DEF UpsertTimesOut, Goto
<1>8. CASE UpdateNodeReleaseDocID
  <2>1. /\ relDoc' = [r \in ReleaseId |-> IF r \in {task.rel} \cap rows THEN doc ELSE relDoc[r]]
        /\ pc = "docid" /\ pc' = "getold"
        /\ UNCHANGED <<live, rows, relNode, lastRel, docs, docRel, lastDoc, stream, task, doc, old, call>>
    BY <1>8 DEF UpdateNodeReleaseDocID, NamesDocument, Goto
  <2>2. /\ doc \in docs /\ docRel[doc] = task.rel /\ task.kind = "upsert" /\ doc # NoDoc
        /\ task.rel \in rows => ~Leaving(doc)
        /\ \A r \in rows : relDoc[r] = doc => r = task.rel
    BY <1>0, <2>1 DEF WorkerKnows, Upserting, TypeOK, RagType, DocId
  <2>3. \A x : Leaving(x)' <=> Leaving(x)
    BY <2>1 DEF Leaving
  <2>4. \A r \in rows : relDoc'[r] = IF r = task.rel THEN doc ELSE relDoc[r]
    BY <1>t, <2>1
  <2>5. DocsBounded' /\ RowsOfLive' /\ TasksKnown'
    BY <1>0, <1>t, <2>1, <2>3, <2>4 DEF DocsBounded, RowsOfLive, TasksKnown
  <2>6. OneName' /\ NamedStays' /\ CitationsSound'
    BY <1>0, <2>1, <2>2, <2>3, <2>4 DEF OneName, NamedStays, CitationsSound, Indexed
  <2>7. WorkerKnows'
    BY <2>1, <2>2, <2>4 DEF WorkerKnows, Upserting
  <2> QED
    BY <2>5, <2>6, <2>7 DEF IndexInv
<1>9. CASE GetOldNodeDocIDs
  <2> DEFINE others == SameNode \ {task.rel}
  <2>1. /\ relDoc' = [r \in ReleaseId |-> IF r \in others THEN NoDoc ELSE relDoc[r]]
        /\ old' = DocsOf(others) /\ pc' \in {"ack", "delete"}
        /\ UNCHANGED <<live, rows, relNode, lastRel, docs, docRel, lastDoc, stream, task, doc, call>>
    BY <1>9 DEF GetOldNodeDocIDs, OldDocsOf
  <2>2. \A d \in DocId : Leaving(d)' => Leaving(d) \/ d \in DocsOf(others)
    BY <2>1 DEF Leaving
  <2>3. others \subseteq rows /\ \A d \in DocsOf(others) : \E r \in others : Indexed(r) /\ relDoc[r] = d
    BY DEF SameNode, ReleasesOf, DocsOf, Indexed
  <2> HIDE DEF others
  <2>4. \A r \in rows : relDoc'[r] = IF r \in others THEN NoDoc ELSE relDoc[r]
    BY <1>t, <2>1
  <2>5. DocsBounded'
    BY <1>0, <1>t, <2>1, <2>2, <2>3, <2>4 DEF DocsBounded
  <2>6. RowsOfLive' /\ TasksKnown' /\ WorkerKnows'
    BY <1>0, <2>1 DEF RowsOfLive, TasksKnown, WorkerKnows, Upserting
  <2>7. OneName' /\ CitationsSound'
    BY <1>0, <2>1, <2>4 DEF OneName, CitationsSound, Indexed
  <2>8. NamedStays'
    BY <1>0, <1>t, <2>1, <2>2, <2>3, <2>4 DEF NamedStays, OneName, Indexed
  <2> QED
    BY <2>5, <2>6, <2>7, <2>8 DEF IndexInv
<1>10. CASE DeleteRecords
  <2>1. /\ docs' = docs \ old /\ pc' = "ack"
        /\ UNCHANGED <<live, rows, relNode, relDoc, lastRel, docRel, lastDoc, stream, task, doc, old, call>>
    BY <1>10 DEF DeleteRecords, Goto
  <2>2. \A x : Leaving(x)' <=> Leaving(x)
    BY <2>1 DEF Leaving
  <2>3. \A r \in rows : Indexed(r) => relDoc[r] \notin old
    BY <1>0 DEF NamedStays, Leaving
  <2>4. CitationsSound'
    BY <1>0, <2>1, <2>3 DEF CitationsSound, Indexed
  <2>5. DocsBounded' /\ RowsOfLive' /\ TasksKnown' /\ OneName' /\ NamedStays' /\ WorkerKnows'
    BY <1>0, <2>1, <2>2 DEF DocsBounded, RowsOfLive, TasksKnown, OneName, NamedStays, Indexed,
                            WorkerKnows, Upserting
  <2> QED
    BY <2>4, <2>5 DEF IndexInv
<1>11. CASE UpdateDocumentGroupIDs \/ StepFails
  BY <1>2, <1>11 DEF UpdateDocumentGroupIDs, StepFails, Upserting
<1>12. ASSUME NEW m \in Message \cup {NoTask}, m = task \/ m \in stream, m # NoTask,
              stream' = stream \cup {[m EXCEPT !.again = TRUE]},
              UNCHANGED <<live, rows, relNode, relDoc, lastRel, docs, docRel, lastDoc, call>>,
              Reset \/ UNCHANGED <<pc, task, doc, old>>
       PROVE  IndexInv'
  <2> DEFINE a == [m EXCEPT !.again = TRUE]
  <2>1. a.kind = m.kind /\ a.doc = m.doc /\ a.rel = m.rel
    BY <1>12, AgainType
  <2>2. NoTask.kind = "none"
    BY DEF NoTask
  <2> HIDE DEF a
  <2>3. \A d \in DocId : Leaving(d)' => Leaving(d)
    BY <1>12, <2>1, <2>2 DEF Leaving, Reset, a
  <2>4. WorkerKnows'
    BY <1>0, <1>12, <2>3, WorkerFrame DEF WorkerKnows, Reset, Upserting
  <2>5. \A x \in stream' \cup {task'} : x.kind = "upsert" => x.rel <= lastRel
    BY <1>0, <1>12, <2>1, <2>2 DEF TasksKnown, Reset, a
  <2>6. doc' <= lastDoc
    BY <1>12, <1>t DEF Reset
  <2> QED
    BY <1>1, <1>12, <2>3, <2>4, <2>5, <2>6
<1>13. CASE Ack
  <2>1. NoTask.kind = "none"
    BY DEF NoTask
  <2>2. \A d \in DocId : Leaving(d)' => Leaving(d)
    BY <1>13, <2>1 DEF Ack, Leaving, Reset
  <2>3. WorkerKnows'
    BY <1>13 DEF Ack, Reset, WorkerKnows, Upserting
  <2> QED
    BY <1>0, <1>1, <1>13, <1>t, <2>1, <2>2, <2>3 DEF Ack, Reset, TasksKnown
<1>14. ASSUME NEW m \in stream \cup {task}, AckWaitExpires(m)  PROVE IndexInv'
  BY <1>12, <1>14, <1>t DEF AckWaitExpires
<1>15. CASE ConsumerCrash
  BY <1>0, <1>12, <1>15, <1>t DEF ConsumerCrash, CrashLeaves, TypeOK, WorkerType
<1> QED
  BY <1>3, <1>4, <1>6, <1>7, <1>8, <1>9, <1>10, <1>11, <1>13, <1>14, <1>15 DEF Consume

LEMMA IndexStep == IndexInv /\ [Next]_vars => IndexInv'
<1> SUFFICES ASSUME IndexInv, [Next]_vars PROVE IndexInv'
  OBVIOUS
<1>1. TypeOK'
  BY TypeStep DEF IndexInv
<1>2. CASE UNCHANGED vars
  <2>1. /\ UNCHANGED <<live, relVars, docs, docRel, lastDoc, pc, task, doc>>
        /\ UNCHANGED <<old, stream, call>>
    BY <1>2 DEF vars, nodeVars, ragVars, mqVars, workerVars
  <2>2. \A d \in DocId : Leaving(d)' => Leaving(d)
    BY <2>1 DEF Leaving
  <2>3. TasksKnown' /\ doc' <= lastDoc
    BY <2>1 DEF IndexInv, TasksKnown, DocsBounded, relVars
  <2> QED
    BY <1>1, <2>1, <2>2, <2>3, IndexFrame, WorkerFrame DEF IndexInv
<1>3. CASE Next
  BY <1>1, <1>3, RequestStep, ConsumerStep DEF Next, Fault
<1> QED
  BY <1>2, <1>3

LEMMA IndexInvariant == Spec => []IndexInv
  BY IndexInit, IndexStep, PTL DEF Spec

\* The document a release names is in the service and holds that release's
\* content, so a citation built from a retrieved chunk is never of other content.
THEOREM CitationsAreSound == Spec => []CitationsSound
<1>1. IndexInv => CitationsSound
  BY DEF IndexInv
<1> QED
  BY <1>1, IndexInvariant, PTL

-------------------------------------------------------------------------------
(* The pipeline implements AnswerIndex.  Four actions move the index; all  *)
(* others leave nodes, releases and doc_ids alone and so stutter.          *)

IndexNext == Index!Publish \/ Index!Enter \/ Index!Supersede \/ Index!Remove

LEMMA IndexStutters ==
  ASSUME UNCHANGED <<live, rows, relNode, relDoc>>  PROVE UNCHANGED Index!indexVars
  BY DEF Index!indexVars, Indexed

LEMMA IndexMoves ==
  ASSUME IndexInv, [Next]_vars
  PROVE  \/ UNCHANGED <<live, rows, relNode, relDoc>>
         \/ UpdateNodeReleaseDocID \/ GetOldNodeDocIDs
         \/ \E c \in Callers, S \in SUBSET Nodes : CreateNodeReleases(c, S) \/ NodeDelete(c, S)
<1> USE DEF nodeVars, relVars
<1>1. UNCHANGED vars => UNCHANGED <<live, rows, relNode, relDoc>>
  BY DEF vars
<1>2. ASSUME Consume, ~UpdateNodeReleaseDocID, ~GetOldNodeDocIDs
      PROVE  UNCHANGED <<live, rows, relNode, relDoc>>
  BY <1>2 DEF Consume, Receive, ReadPermission, PermissionRead, ReadGroups, UpsertRecords,
              DeleteRecords, UpdateDocumentGroupIDs, Ack
<1>3. Fault => UNCHANGED <<live, rows, relNode, relDoc>>
  BY DEF Fault, PublishFails, UpsertTimesOut, StepFails, ConsumerCrash, CrashLeaves, AckWaitExpires
<1>4. ASSUME NEW c \in Callers, Proceed(c)  PROVE UNCHANGED <<live, rows, relNode, relDoc>>
  BY <1>4 DEF Proceed, PublishUpsert, PublishDelete, EditReadsLatest, EditNotifies, EditWritesGroups
<1>5. ASSUME NEW c \in Callers, Request(c)
      PROVE  \/ UNCHANGED <<live, rows, relNode, relDoc>>
             \/ \E S \in SUBSET Nodes : CreateNodeReleases(c, S) \/ NodeDelete(c, S)
  BY <1>5 DEF Request, NodeRestudy, PermissionsEdit
<1> QED
  BY <1>1, <1>2, <1>3, <1>4, <1>5 DEF Next

LEMMA IndexStepRefines ==
  ASSUME IndexInv, [Next]_vars  PROVE IndexNext \/ UNCHANGED Index!indexVars
<1>0. /\ ReleasesType /\ RowsOfLive /\ WorkerKnows /\ TasksKnown /\ WorkerType
      /\ rows \subseteq 1..lastRel /\ 1..lastRel \subseteq ReleaseId
      /\ relDoc \in [ReleaseId -> DocId \cup {NoDoc}]
  BY VectorSyncAssumption DEF IndexInv, TypeOK, ReleasesType, ReleaseId, VectorSyncAssumption
<1>1. ASSUME NEW c \in Callers, NEW S \in SUBSET Nodes, CreateNodeReleases(c, S)
      PROVE  Index!Publish
  <2> DEFINE new == lastRel + 1 .. lastRel + Cardinality(S)
  <2>1. PICK of \in [new -> S] :
          /\ rows' = rows \cup new
          /\ relNode' = [r \in ReleaseId |-> IF r \in new THEN of[r] ELSE relNode[r]]
          /\ relDoc' = [r \in ReleaseId |-> IF r \in new THEN NoDoc ELSE relDoc[r]]
          /\ lastRel + Cardinality(S) <= MaxReleases /\ S \subseteq live /\ UNCHANGED live
    BY <1>1 DEF CreateNodeReleases, nodeVars
  <2>2. new \subseteq ReleaseId /\ new \cap rows = {}
    <3>1. Cardinality(S) \in Nat /\ lastRel \in Nat
      BY <1>0, CountNodes DEF ReleasesType
    <3>2. new \subseteq ReleaseId /\ new \cap 1..lastRel = {}
      <4>1. \A k \in Nat : lastRel + k <= MaxReleases =>
              /\ lastRel + 1 .. lastRel + k \subseteq 1..MaxReleases
              /\ lastRel + 1 .. lastRel + k \cap 1..lastRel = {}
        BY <3>1, VectorSyncAssumption DEF VectorSyncAssumption
      <4> QED
        BY <2>1, <3>1, <4>1 DEF ReleaseId
    <3> HIDE DEF new
    <3> QED
      BY <1>0, <3>2
  <2> HIDE DEF new
  <2>3. /\ \A r \in rows : relNode'[r] = relNode[r] /\ relDoc'[r] = relDoc[r]
        /\ \A r \in new : relNode'[r] \in live /\ relDoc'[r] = NoDoc
    BY <1>0, <2>1, <2>2
  <2>4. {r \in rows' : Indexed(r)'} = {r \in rows : Indexed(r)}
    BY <2>1, <2>3 DEF Indexed
  <2> QED
    BY <2>1, <2>2, <2>3, <2>4 DEF Index!Publish
<1>2. ASSUME NEW c \in Callers, NEW S \in SUBSET Nodes, NodeDelete(c, S)
      PROVE  Index!Remove
  <2>1. /\ S \subseteq live /\ live' = live \ S /\ UNCHANGED <<relNode, relDoc>>
        /\ rows' = {r \in rows : relNode[r] \notin S}
    BY <1>2 DEF NodeDelete, DeleteThen, ReleasesOf
  <2>2. {r \in rows' : Indexed(r)'} = {r \in rows : Indexed(r)} \cap rows'
    BY <2>1 DEF Indexed
  <2> QED
    BY <2>1, <2>2 DEF Index!Remove
<1>3. CASE UpdateNodeReleaseDocID
  <2>1. /\ relDoc' = [r \in ReleaseId |-> IF r \in {task.rel} \cap rows THEN doc ELSE relDoc[r]]
        /\ pc = "docid" /\ UNCHANGED <<live, rows, relNode>>
    BY <1>3 DEF UpdateNodeReleaseDocID, NamesDocument, nodeVars
  <2>2. doc # NoDoc
    BY <1>0, <2>1 DEF WorkerKnows, IndexInv, TypeOK, RagType, DocId
  <2>3. \A r \in rows : relDoc'[r] = IF r = task.rel THEN doc ELSE relDoc[r]
    BY <1>0, <2>1
  <2>4. CASE task.rel \in rows
    <3>1. {r \in rows' : Indexed(r)'} = {r \in rows : Indexed(r)} \cup {task.rel}
      BY <2>1, <2>2, <2>3, <2>4 DEF Indexed
    <3> QED
      BY <2>1, <2>4, <3>1 DEF IndexNext, Index!Enter
  <2>5. CASE task.rel \notin rows
    <3>1. {r \in rows' : Indexed(r)'} = {r \in rows : Indexed(r)}
      BY <2>1, <2>3, <2>5 DEF Indexed
    <3> QED
      BY <2>1, <3>1 DEF Index!indexVars
  <2> QED
    BY <2>4, <2>5
<1>4. CASE GetOldNodeDocIDs
  <2> DEFINE others == SameNode \ {task.rel}
  <2>1. /\ relDoc' = [r \in ReleaseId |-> IF r \in others THEN NoDoc ELSE relDoc[r]]
        /\ pc = "getold" /\ UNCHANGED <<live, rows, relNode>>
    BY <1>4 DEF GetOldNodeDocIDs, OldDocsOf, nodeVars
  <2>2. \A r \in rows : relDoc'[r] = IF r \in others THEN NoDoc ELSE relDoc[r]
    BY <1>0, <2>1
  <2>3. \A r \in rows : r \in others <=> relNode[r] = relNode[task.rel] /\ r # task.rel
    BY DEF SameNode, ReleasesOf
  <2>4. task.rel \in 1..lastRel
    BY <1>0, <2>1, MessageKinds
       DEF WorkerKnows, Upserting, TasksKnown, WorkerType, NoTask, ReleaseId
  <2> HIDE DEF others
  <2>5. CASE task.rel \in rows
    <3>1. task.rel \in {r \in rows : Indexed(r)}
      BY <1>0, <2>1, <2>5 DEF WorkerKnows, Indexed
    <3>2. {r \in rows' : Indexed(r)'}
            = {x \in {r \in rows : Indexed(r)} : relNode[x] = relNode[task.rel] => x = task.rel}
      BY <2>1, <2>2, <2>3 DEF Indexed
    <3> QED
      BY <2>1, <3>1, <3>2 DEF IndexNext, Index!Supersede
  <2>6. CASE task.rel \notin rows
    <3>1. \A r \in rows : r \notin others
      BY <1>0, <2>3, <2>4, <2>6 DEF RowsOfLive
    <3>2. {r \in rows' : Indexed(r)'} = {r \in rows : Indexed(r)}
      BY <2>1, <2>2, <3>1 DEF Indexed
    <3> QED
      BY <2>1, <3>2 DEF Index!indexVars
  <2> QED
    BY <2>5, <2>6
<1> QED
  BY <1>1, <1>2, <1>3, <1>4, IndexMoves, IndexStutters DEF IndexNext

\* The pipeline, with its documents, messages, failures and crashes, shows chat
\* nothing but an AnswerIndex.
THEOREM PipelineImplementsIndex == Spec => ImplementsIndex
<1>1. Init => Index!IndexInit
  BY DEF Init, Index!IndexInit
<1>2. IndexInv /\ [Next]_vars => [IndexNext]_Index!indexVars
  BY IndexStepRefines
<1> QED
  BY <1>1, <1>2, IndexInvariant, PTL DEF Spec, ImplementsIndex, Index!IndexSpec, IndexNext

\* No step takes the last indexed snapshot away from a node that is still live.
LEMMA IndexKept ==
  ASSUME IndexInv, [Next]_vars, NEW n \in Nodes, HasIndexed(n), n \in live'
  PROVE  HasIndexed(n)'
  BY IndexStepRefines
     DEF IndexNext, Index!indexVars, Index!Publish, Index!Enter, Index!Supersede, Index!Remove,
         HasIndexed, Indexed

\* A node that chat can answer from stays answerable until it is deleted,
\* through re-indexing, failures, crashes and redeliveries.
THEOREM IndexIsNeverLost == Spec => IndexNeverLost
<1> DEFINE Kept == \A n \in Nodes : HasIndexed(n) /\ n \in live' => HasIndexed(n)'
<1>1. IndexInv /\ [Next]_vars => Kept
  BY IndexKept
<1> QED
  BY <1>1, IndexInvariant, PTL DEF Spec, IndexNeverLost

-------------------------------------------------------------------------------
(* The inductive invariants behind OneSnapshotIndexed, PublishedIsIndexed  *)
(* and LeaksOnlyOfDeletedNodes: what holds between the calls, not only     *)
(* when nothing is outstanding.                                            *)

\* An upsert of release r waits for the consumer, or has not yet run
\* GetOldNodeDocIDs in it.
Outstanding(r) ==
    \/ \E m \in stream : m.kind = "upsert" /\ m.rel = r
    \/ pc \in Upserting /\ task.rel = r

\* Of two indexed snapshots of one node, one still has the swap ahead of it.
SwapsAhead ==
    \A r, s \in rows :
      relNode[r] = relNode[s] /\ r # s /\ Indexed(r) /\ Indexed(s) =>
        Outstanding(r) \/ Outstanding(s)

\* A published node is indexed, or an upsert of one of its snapshots is on its
\* way or still to be published.
Queued(r) == Outstanding(r) \/ \E c \in Callers : call[c].op = "publish" /\ r \in call[c].todo
IndexOwed ==
    \A n \in live : (\E r \in rows : relNode[r] = n) =>
                     HasIndexed(n) \/ \E r \in rows : relNode[r] = n /\ Queued(r)

SettledInv == IndexInv /\ (faults = 0 => SwapsAhead /\ IndexOwed)

\* What the consumer holds of the documents that leave, and of the one it names.
HandsKnown ==
    /\ pc \notin {"delete", "ack"} => old = {}
    /\ pc = "docid" /\ task.rel \in rows => relDoc[task.rel] \in {NoDoc, doc}
    /\ task.kind = "delete" => pc \in {"delete", "ack"} /\ old = {task.doc}
    /\ \A d \in docs : docRel[d] \in 1..lastRel
    /\ faults = 0 /\ pc = "ack" => old \cap docs = {}

AccountInv == IndexInv /\ HandsKnown /\ LeaksOnlyOfDeletedNodes

-------------------------------------------------------------------------------
(* What is outstanding, as long as no call has failed.  An upsert leaves   *)
(* the pipeline only when the consumer is through with GetOldNodeDocIDs,   *)
(* or when its release is gone; a crash puts it back into the stream.      *)

LEMMA FaultCounts ==
  ASSUME TypeOK, faults' = 0, [Next]_vars
  PROVE  /\ faults = 0 /\ ~UpsertTimesOut /\ ~StepFails
         /\ \A c \in Callers : ~PublishFails(c)
<1>1. faults \in Nat
  BY DEF TypeOK, CountsType
<1>2. ~UpsertTimesOut /\ ~StepFails /\ \A c \in Callers : ~PublishFails(c)
  BY <1>1 DEF UpsertTimesOut, StepFails, PublishFails
<1>3. Consume => UNCHANGED faults
  BY DEF Consume, Receive, ReadPermission, PermissionRead, ReadGroups, UpsertRecords,
         UpdateNodeReleaseDocID, NamesDocument, GetOldNodeDocIDs, OldDocsOf, DeleteRecords,
         UpdateDocumentGroupIDs, Ack, countVars
<1>4. ASSUME NEW c \in Callers, Proceed(c)  PROVE UNCHANGED faults
  BY <1>4 DEF Proceed, PublishUpsert, PublishDelete, EditReadsLatest, EditNotifies,
              EditWritesGroups, countVars
<1>5. ASSUME NEW c \in Callers, Request(c)  PROVE UNCHANGED faults
  BY <1>5 DEF Request, CreateNodeReleases, NodeRestudy, NodeDelete, DeleteThen,
              PermissionsEdit, countVars
<1>6. ConsumerCrash \/ (\E m \in stream \cup {task} : AckWaitExpires(m)) => UNCHANGED faults
  BY DEF ConsumerCrash, CrashLeaves, AckWaitExpires
<1>7. UNCHANGED vars => UNCHANGED faults
  BY DEF vars, countVars
<1> QED
  BY <1>2, <1>3, <1>4, <1>5, <1>6, <1>7 DEF Next, Fault

\* A request adds to the stream and leaves the consumer alone.
LEMMA RequestAdds ==
  ASSUME NEW c \in Callers, Proceed(c) \/ Request(c)
  PROVE  stream \subseteq stream' /\ UNCHANGED <<pc, task, doc, old>>
<1> USE DEF mqVars, workerVars, Publish
<1>1. ASSUME Proceed(c)  PROVE stream \subseteq stream' /\ UNCHANGED <<pc, task, doc, old>>
  BY <1>1 DEF Proceed, PublishUpsert, PublishDelete, EditReadsLatest, EditNotifies,
              EditWritesGroups
<1>2. ASSUME Request(c)  PROVE stream \subseteq stream' /\ UNCHANGED <<pc, task, doc, old>>
  BY <1>2 DEF Request, CreateNodeReleases, NodeRestudy, NodeDelete, DeleteThen, PermissionsEdit
<1> QED
  BY <1>1, <1>2

\* Only the last call of an upsert that finds its release takes it off the list.
LEMMA OutstandingKept ==
  ASSUME IndexInv, [Next]_vars, faults' = 0, NEW r \in rows, Outstanding(r)
  PROVE  Outstanding(r)' \/ (GetOldNodeDocIDs /\ task.rel = r)
<1> USE DEF Outstanding, Upserting
<1>0. TypeOK /\ WorkerKnows /\ RowsOfLive /\ rows \subseteq 1..lastRel
      /\ stream \subseteq Message /\ task \in Message \cup {NoTask}
  BY DEF IndexInv, TypeOK, ReleasesType, StreamType, WorkerType
<1>1. CASE stream \subseteq stream' /\ UNCHANGED <<pc, task>>
  BY <1>1
<1>2. ASSUME NEW m \in stream, Receive(m)  PROVE Outstanding(r)'
  BY <1>2 DEF Receive
<1>3. CASE ReadPermission
  <2>1. UNCHANGED <<stream, task>> /\ pc = "perm"
    BY <1>3 DEF ReadPermission, PermissionRead, mqVars
  <2>2. ASSUME task.rel = r  PROVE pc' \in {"upload", "groups"}
    <3>1. relNode[r] \in live
      BY <1>0 DEF RowsOfLive
    <3> QED
      BY <1>3, <2>2, <3>1 DEF ReadPermission, PermissionRead
  <2> QED
    BY <2>1, <2>2
<1>4. CASE ReadGroups \/ UpsertRecords \/ UpdateNodeReleaseDocID
  BY <1>4 DEF ReadGroups, UpsertRecords, UpdateNodeReleaseDocID, NamesDocument, Goto, mqVars
<1>5. CASE GetOldNodeDocIDs
  BY <1>5 DEF GetOldNodeDocIDs, OldDocsOf, mqVars
<1>6. CASE DeleteRecords \/ UpdateDocumentGroupIDs \/ Ack
  BY <1>6 DEF DeleteRecords, UpdateDocumentGroupIDs, Ack, mqVars
<1>7. CASE ConsumerCrash
  <2>1. ASSUME pc \in Upserting, task.rel = r  PROVE Outstanding(r)'
    <3>1. task.kind = "upsert" /\ task \in Message
      BY <1>0, <2>1 DEF WorkerKnows, NoTask
    <3>2. [task EXCEPT !.again = TRUE] \in stream'
      BY <1>7 DEF ConsumerCrash, CrashLeaves
    <3> QED
      BY <2>1, <3>1, <3>2, AgainType
  <2>2. stream \subseteq stream'
    BY <1>7 DEF ConsumerCrash, CrashLeaves
  <2> QED
    BY <2>1, <2>2
<1>8. ASSUME NEW m \in stream \cup {task}, AckWaitExpires(m)  PROVE Outstanding(r)'
  BY <1>1, <1>8 DEF AckWaitExpires, workerVars
<1>9. UNCHANGED vars => Outstanding(r)'
  BY <1>1 DEF vars, mqVars, workerVars
<1> QED
  BY <1>0, <1>1, <1>2, <1>3, <1>4, <1>5, <1>6, <1>7, <1>8, <1>9, FaultCounts, RequestAdds
     DEF Next, Fault, Consume

\* A step that is not a request's own leaves the requests where they are.
LEMMA OnlyRequestsMove ==
  ASSUME [Next]_vars, faults' = 0, TypeOK
  PROVE  UNCHANGED call \/ \E c \in Callers : Proceed(c) \/ Request(c)
<1>1. Consume => UNCHANGED call
  BY DEF Consume, Receive, ReadPermission, PermissionRead, ReadGroups, UpsertRecords,
         UpdateNodeReleaseDocID, NamesDocument, GetOldNodeDocIDs, OldDocsOf, DeleteRecords,
         UpdateDocumentGroupIDs, Ack
<1>2. ConsumerCrash \/ (\E m \in stream \cup {task} : AckWaitExpires(m)) => UNCHANGED call
  BY DEF ConsumerCrash, CrashLeaves, AckWaitExpires
<1>3. UNCHANGED vars => UNCHANGED call
  BY DEF vars
<1> QED
  BY <1>1, <1>2, <1>3, FaultCounts DEF Next, Fault

\* A request that has an upsert to publish keeps it until the message is out.
LEMMA QueuedKept ==
  ASSUME IndexInv, [Next]_vars, faults' = 0, NEW r \in rows, Queued(r)
  PROVE  Queued(r)' \/ (GetOldNodeDocIDs /\ task.rel = r)
<1>1. CASE Outstanding(r)
  BY <1>1, OutstandingKept DEF Queued
<1>2. ASSUME NEW c \in Callers, call[c].op = "publish", r \in call[c].todo
      PROVE  Queued(r)'
  <2>0. call \in [Callers -> Call] /\ lastMsg \in Nat /\ r \in ReleaseId
    BY VectorSyncAssumption
       DEF IndexInv, TypeOK, CallsType, StreamType, ReleasesType, ReleaseId, VectorSyncAssumption
  <2>1. call[c] # NoCall
    BY <1>2 DEF NoCall, Doing
  <2>2. CASE UNCHANGED call
    BY <1>2, <2>2 DEF Queued
  <2>3. ASSUME NEW e \in Callers, e # c, Proceed(e) \/ Request(e)  PROVE Queued(r)'
    <3>1. call'[c] = call[c]
      BY <2>0, <2>3 DEF Proceed, Request, CreateNodeReleases, NodeRestudy, NodeDelete, DeleteThen,
                   PermissionsEdit, PublishUpsert, PublishDelete, EditReadsLatest, EditNotifies,
                   EditWritesGroups
    <3> QED
      BY <1>2, <3>1 DEF Queued
  <2>4. ASSUME Proceed(c) \/ Request(c)  PROVE \E x \in call[c].todo : PublishUpsert(c, x)
    BY <1>2, <2>1, <2>4
       DEF Proceed, Request, CreateNodeReleases, NodeRestudy, NodeDelete, DeleteThen,
           PermissionsEdit, PublishDelete, EditReadsLatest, EditNotifies, EditWritesGroups
  <2>5. ASSUME NEW x \in call[c].todo, PublishUpsert(c, x)  PROVE Queued(r)'
    <3>1. CASE x = r
      <4>1. PICK m \in Message : stream' = stream \cup {m} /\ m.kind = "upsert" /\ m.rel = r
        BY <2>0, <2>5, <3>1, PublishType DEF PublishUpsert
      <4> QED
        BY <4>1 DEF Queued, Outstanding
    <3>2. CASE x # r
      <4>1. call'[c] = Doing("publish", call[c].todo \ {x})
        BY <1>2, <2>0, <2>5, <3>2 DEF PublishUpsert, Rest
      <4> QED
        BY <1>2, <3>2, <4>1 DEF Queued, Doing
    <3> QED
      BY <3>1, <3>2
  <2> QED
    BY <2>2, <2>3, <2>4, <2>5, OnlyRequestsMove DEF IndexInv
<1> QED
  BY <1>1, <1>2 DEF Queued

\* What the step that creates snapshots does to the rows.
LEMMA CreateRows ==
  ASSUME IndexInv, NEW c \in Callers, NEW S \in SUBSET Nodes, CreateNodeReleases(c, S)
  PROVE  \E new \in SUBSET ReleaseId :
           /\ new \cap 1..lastRel = {} /\ new \cap rows = {}
           /\ rows' = rows \cup new /\ S \subseteq live
           /\ \A r \in ReleaseId \ new : relNode'[r] = relNode[r] /\ relDoc'[r] = relDoc[r]
           /\ \A r \in new : relNode'[r] \in S /\ relDoc'[r] = NoDoc
           /\ call' = [call EXCEPT ![c] = Doing("publish", new)]
           /\ lastRel' \in Nat /\ lastRel <= lastRel'
           /\ UNCHANGED <<live, docs, docRel, pc, task, doc, old, stream>>
<1> DEFINE new == lastRel + 1 .. lastRel + Cardinality(S)
<1>1. PICK of \in [new -> S] :
        /\ rows' = rows \cup new
        /\ relNode' = [r \in ReleaseId |-> IF r \in new THEN of[r] ELSE relNode[r]]
        /\ relDoc' = [r \in ReleaseId |-> IF r \in new THEN NoDoc ELSE relDoc[r]]
        /\ lastRel' = lastRel + Cardinality(S) /\ lastRel' <= MaxReleases
  BY DEF CreateNodeReleases
<1>2. /\ S \subseteq live /\ Cardinality(S) \in Nat
      /\ call' = [call EXCEPT ![c] = Doing("publish", new)]
      /\ UNCHANGED <<live, docs, docRel, pc, task, doc, old, stream>>
  BY CountNodes DEF CreateNodeReleases, nodeVars, ragVars, workerVars, mqVars
<1>3. lastRel \in Nat /\ rows \subseteq 1..lastRel /\ MaxReleases \in Nat
  BY VectorSyncAssumption DEF IndexInv, TypeOK, ReleasesType, VectorSyncAssumption
<1>4. /\ lastRel' \in Nat /\ lastRel <= lastRel' /\ new = lastRel + 1 .. lastRel'
      /\ new \subseteq ReleaseId /\ new \cap 1..lastRel = {}
  BY <1>1, <1>2, <1>3 DEF ReleaseId
<1> HIDE DEF new
<1>5. \A r \in ReleaseId \ new : relNode'[r] = relNode[r] /\ relDoc'[r] = relDoc[r]
  BY <1>1
<1>6. \A r \in new : relNode'[r] \in S /\ relDoc'[r] = NoDoc
  BY <1>1, <1>4
<1> QED
  BY <1>1, <1>2, <1>3, <1>4, <1>5, <1>6

\* What every step may do to the releases and their documents, seen from an
\* indexed one: which become indexed, and who blanks the others.
LEMMA SwapsStep ==
  ASSUME IndexInv, SwapsAhead, [Next]_vars, faults' = 0
  PROVE  SwapsAhead'
<1> SUFFICES ASSUME NEW r \in rows', NEW s \in rows', relNode'[r] = relNode'[s], r # s,
                    Indexed(r)', Indexed(s)'
             PROVE  Outstanding(r)' \/ Outstanding(s)'
  BY DEF SwapsAhead
<1>0. /\ rows \subseteq 1..lastRel /\ 1..lastRel \subseteq ReleaseId
      /\ relDoc \in [ReleaseId -> DocId \cup {NoDoc}] /\ WorkerKnows
  BY VectorSyncAssumption DEF IndexInv, TypeOK, ReleasesType, ReleaseId, VectorSyncAssumption
<1>1. ASSUME r \in rows, s \in rows, relNode[r] = relNode[s], Indexed(r), Indexed(s),
             ~GetOldNodeDocIDs
      PROVE  Outstanding(r)' \/ Outstanding(s)'
  BY <1>1, OutstandingKept DEF SwapsAhead
<1>2. CASE UNCHANGED <<live, rows, relNode, relDoc>> /\ ~GetOldNodeDocIDs
  BY <1>1, <1>2 DEF Indexed
<1>3. CASE UpdateNodeReleaseDocID
  <2>1. /\ relDoc' = [x \in ReleaseId |-> IF x \in {task.rel} \cap rows THEN doc ELSE relDoc[x]]
        /\ pc' = "getold" /\ UNCHANGED <<rows, relNode, task>> /\ pc = "docid"
    BY <1>3 DEF UpdateNodeReleaseDocID, NamesDocument, Goto
  <2>2. CASE task.rel \in {r, s}
    BY <2>1, <2>2 DEF Outstanding, Upserting
  <2>3. CASE task.rel \notin {r, s}
    <3>1. Indexed(r) /\ Indexed(s) /\ ~GetOldNodeDocIDs
      BY <1>0, <2>1, <2>3 DEF Indexed, GetOldNodeDocIDs, OldDocsOf
    <3> QED
      BY <1>1, <2>1, <3>1
  <2> QED
    BY <2>2, <2>3
<1>4. CASE GetOldNodeDocIDs
  <2>1. /\ relDoc' = [x \in ReleaseId |-> IF x \in SameNode \ {task.rel} THEN NoDoc ELSE relDoc[x]]
        /\ UNCHANGED <<rows, relNode>>
    BY <1>4 DEF GetOldNodeDocIDs, OldDocsOf
  <2>2. Indexed(r) /\ Indexed(s) /\ r \notin SameNode \ {task.rel} /\ s \notin SameNode \ {task.rel}
    BY <1>0, <2>1 DEF Indexed
  <2>3. task.rel \notin {r, s}
    BY <2>1, <2>2 DEF SameNode, ReleasesOf
  <2> QED
    BY <2>1, <2>2, <2>3, OutstandingKept DEF SwapsAhead
<1>5. ASSUME NEW c \in Callers, NEW S \in SUBSET Nodes, CreateNodeReleases(c, S)
      PROVE  Outstanding(r)' \/ Outstanding(s)'
  <2>1. PICK new \in SUBSET ReleaseId :
          /\ rows' = rows \cup new /\ new \cap rows = {}
          /\ \A x \in ReleaseId \ new : relNode'[x] = relNode[x] /\ relDoc'[x] = relDoc[x]
          /\ \A x \in new : relDoc'[x] = NoDoc
    BY <1>5, CreateRows
  <2>2. Indexed(r) /\ Indexed(s) /\ relNode[r] = relNode[s] /\ ~GetOldNodeDocIDs
    <3>1. r \in rows /\ s \in rows
      BY <2>1 DEF Indexed
    <3>2. ~GetOldNodeDocIDs
      <4>1. call'[c].op = "publish" /\ call[c].op = "idle"
        BY <1>5, <2>1 DEF IndexInv, TypeOK, CallsType, CreateNodeReleases, NoCall, Doing
      <4> QED
        BY <4>1 DEF GetOldNodeDocIDs, OldDocsOf
    <3> QED
      BY <1>0, <2>1, <3>1, <3>2 DEF Indexed
  <2> QED
    BY <1>1, <2>2 DEF Indexed
<1>6. ASSUME NEW c \in Callers, NEW S \in SUBSET Nodes, NodeDelete(c, S)
      PROVE  Outstanding(r)' \/ Outstanding(s)'
  <2>1. rows' \subseteq rows /\ UNCHANGED <<relNode, relDoc>> /\ live' # live
    BY <1>6 DEF NodeDelete, DeleteThen
  <2>2. ~GetOldNodeDocIDs
    BY <2>1 DEF GetOldNodeDocIDs, OldDocsOf, nodeVars
  <2> QED
    BY <1>1, <2>1, <2>2 DEF Indexed
<1> QED
  BY <1>2, <1>3, <1>4, <1>5, <1>6, IndexMoves

\* The rows of a live node stay, and a row that is new has its upsert queued.
LEMMA RowsKept ==
  ASSUME IndexInv, [Next]_vars
  PROVE  /\ live' \subseteq live
         /\ \A q \in rows : relNode[q] \in live' => q \in rows' /\ relNode'[q] = relNode[q]
         /\ \A r \in rows' : \/ r \in rows /\ relNode'[r] = relNode[r]
                             \/ r \notin 1..lastRel /\ Queued(r)'
<1>0. rows \subseteq 1..lastRel /\ 1..lastRel \subseteq ReleaseId /\ call \in [Callers -> Call]
  BY VectorSyncAssumption
     DEF IndexInv, TypeOK, ReleasesType, CallsType, ReleaseId, VectorSyncAssumption
<1> DEFINE Goal ==
      /\ live' \subseteq live
      /\ \A q \in rows : relNode[q] \in live' => q \in rows' /\ relNode'[q] = relNode[q]
      /\ \A r \in rows' : \/ r \in rows /\ relNode'[r] = relNode[r]
                          \/ r \notin 1..lastRel /\ Queued(r)'
<1>1. ASSUME NEW c \in Callers, NEW S \in SUBSET Nodes, CreateNodeReleases(c, S)
      PROVE  Goal
  <2>1. PICK new \in SUBSET ReleaseId :
          /\ new \cap 1..lastRel = {} /\ rows' = rows \cup new
          /\ \A x \in ReleaseId \ new : relNode'[x] = relNode[x]
          /\ call' = [call EXCEPT ![c] = Doing("publish", new)] /\ live' = live
    BY <1>1, CreateRows
  <2>2. \A r \in new : Queued(r)'
    BY <1>0, <2>1 DEF Queued, Doing
  <2> QED
    BY <1>0, <2>1, <2>2
<1>2. ASSUME NEW c \in Callers, NEW S \in SUBSET Nodes, NodeDelete(c, S)
      PROVE  Goal
  BY <1>2 DEF NodeDelete, DeleteThen, ReleasesOf
<1>3. CASE UpdateNodeReleaseDocID \/ GetOldNodeDocIDs
  BY <1>3 DEF UpdateNodeReleaseDocID, NamesDocument, GetOldNodeDocIDs, OldDocsOf, nodeVars
<1> QED
  BY <1>1, <1>2, <1>3, IndexMoves

LEMMA OwedStep ==
  ASSUME IndexInv, IndexOwed, [Next]_vars, faults' = 0
  PROVE  IndexOwed'
<1> SUFFICES ASSUME NEW n \in live', NEW r \in rows', relNode'[r] = n
             PROVE  HasIndexed(n)' \/ \E q \in rows' : relNode'[q] = n /\ Queued(q)'
  BY DEF IndexOwed
<1>0. /\ n \in live /\ n \in Nodes /\ WorkerKnows
      /\ rows \subseteq ReleaseId /\ relDoc \in [ReleaseId -> DocId \cup {NoDoc}]
  BY RowsKept, VectorSyncAssumption
     DEF IndexInv, TypeOK, NodesType, ReleasesType, ReleaseId, VectorSyncAssumption
<1>1. CASE Queued(r)'
  BY <1>1
<1>2. CASE r \in rows /\ relNode[r] = n
  <2>1. CASE HasIndexed(n)
    BY <1>0, <2>1, IndexKept
  <2>2. ASSUME NEW q \in rows, relNode[q] = n, Queued(q)
        PROVE  HasIndexed(n)' \/ \E x \in rows' : relNode'[x] = n /\ Queued(x)'
    <3>1. q \in rows' /\ relNode'[q] = n
      BY <2>2, RowsKept
    <3>2. CASE GetOldNodeDocIDs /\ task.rel = q
      <4>1. relDoc'[q] = relDoc[q] /\ relDoc[q] = doc /\ doc # NoDoc
        BY <1>0, <3>2 DEF GetOldNodeDocIDs, OldDocsOf, WorkerKnows
      <4> QED
        BY <3>1, <4>1 DEF HasIndexed, Indexed
    <3>3. CASE Queued(q)'
      BY <3>1, <3>3
    <3> QED
      BY <2>2, <3>2, <3>3, QueuedKept
  <2> QED
    BY <1>0, <1>2, <2>1, <2>2 DEF IndexOwed
<1> QED
  BY <1>1, <1>2, RowsKept

LEMMA SettledStep == SettledInv /\ [Next]_vars => SettledInv'
<1> SUFFICES ASSUME SettledInv, [Next]_vars PROVE SettledInv'
  OBVIOUS
<1>1. IndexInv /\ IndexInv'
  BY IndexStep DEF SettledInv
<1>2. ASSUME faults' = 0  PROVE SwapsAhead' /\ IndexOwed'
  BY <1>1, <1>2, FaultCounts, SwapsStep, OwedStep DEF SettledInv, IndexInv
<1> QED
  BY <1>1, <1>2 DEF SettledInv

LEMMA SettledInvariant == Spec => []SettledInv
<1>1. Init => SettledInv
  BY IndexInit DEF SettledInv, Init, SwapsAhead, IndexOwed
<1> QED
  BY <1>1, SettledStep, PTL DEF Spec

\* As long as no call fails, two snapshots of one node are in the index together
\* only while an upsert of one of them is queued or in the consumer: the swap of
\* old for new is always still ahead, through crashes and redeliveries.
THEOREM SnapshotsAreSwapped == Spec => []OneSnapshotIndexed
<1>1. SettledInv => OneSnapshotIndexed
  <2> SUFFICES ASSUME SettledInv, faults = 0, NEW r \in rows, NEW s \in rows,
                      relNode[r] = relNode[s], r # s, Indexed(r), Indexed(s)
               PROVE  \E m \in stream \cup {task} : m.kind = "upsert" /\ m.rel \in {r, s}
    BY DEF OneSnapshotIndexed
  <2>1. pc \in Upserting => task.kind = "upsert"
    BY DEF SettledInv, IndexInv, WorkerKnows
  <2> QED
    BY <2>1 DEF SettledInv, SwapsAhead, Outstanding
<1> QED
  BY <1>1, SettledInvariant, PTL

\* Once nothing is outstanding and no call has failed, every published node can
\* be answered from, whatever was delivered twice and wherever the consumer crashed.
THEOREM PublishedBecomesIndexed == Spec => []PublishedIsIndexed
<1>1. SettledInv => PublishedIsIndexed
  <2> SUFFICES ASSUME SettledInv, Quiet, faults = 0
               PROVE  \A r \in rows : ~Queued(r)
    BY DEF PublishedIsIndexed, SettledInv, IndexOwed
  <2> QED
    BY DEF Quiet, Queued, Outstanding, Upserting, NoCall, Doing
<1> QED
  BY <1>1, SettledInvariant, PTL

-------------------------------------------------------------------------------
(* Every document is accounted for.  The consumer has at most two documents *)
(* in its hands: the one it has uploaded and not yet named, and those it is *)
(* about to delete; a crash or a failed call makes it forget them.          *)

\* Steps of requests leave the consumer and the service alone, and rows that
\* exist keep their documents.
LEMMA RequestRows ==
  ASSUME IndexInv, NEW c \in Callers, Proceed(c) \/ Request(c) \/ PublishFails(c)
  PROVE  /\ UNCHANGED <<docs, docRel, pc, task, doc, old, crashes>>
         /\ lastRel' \in Nat /\ lastRel <= lastRel'
         /\ \A r \in 1..lastRel : r \in rows' => r \in rows /\ relDoc'[r] = relDoc[r]
         /\ \A r \in 1..lastRel : relNode'[r] = relNode[r]
         /\ live' \subseteq live
         /\ faults' = 0 => faults = 0
<1> USE DEF nodeVars, relVars, ragVars, workerVars, countVars
<1>0. /\ lastRel \in Nat /\ rows \subseteq 1..lastRel /\ 1..lastRel \subseteq ReleaseId
      /\ faults \in Nat
  BY VectorSyncAssumption
     DEF IndexInv, TypeOK, ReleasesType, CountsType, ReleaseId, VectorSyncAssumption
<1>1. CASE /\ UNCHANGED <<docs, docRel, pc, task, doc, old, crashes, relVars, live>>
           /\ faults' \in {faults, faults + 1}
  BY <1>0, <1>1
<1>2. CASE Proceed(c)
  BY <1>1, <1>2 DEF Proceed, PublishUpsert, PublishDelete, EditReadsLatest, EditNotifies,
                    EditWritesGroups
<1>3. CASE PublishFails(c)
  BY <1>1, <1>3 DEF PublishFails
<1>4. ASSUME NEW S \in SUBSET Nodes, NodeRestudy(c, S)
      PROVE  /\ UNCHANGED <<docs, docRel, pc, task, doc, old, crashes, relVars, live>>
             /\ faults' \in {faults, faults + 1}
  BY <1>4 DEF NodeRestudy
<1>5. ASSUME NEW n \in Nodes, NEW p \in Perms, NEW gs, PermissionsEdit(c, n, p, gs)
      PROVE  /\ UNCHANGED <<docs, docRel, pc, task, doc, old, crashes, relVars, live>>
             /\ faults' \in {faults, faults + 1}
  BY <1>5 DEF PermissionsEdit
<1>6. ASSUME NEW S \in SUBSET Nodes, NodeDelete(c, S)
      PROVE  /\ UNCHANGED <<docs, docRel, pc, task, doc, old, crashes, faults, relNode, relDoc, lastRel>>
             /\ rows' \subseteq rows /\ live' \subseteq live
  BY <1>6 DEF NodeDelete, DeleteThen
<1>7. ASSUME NEW S \in SUBSET Nodes, CreateNodeReleases(c, S)
      PROVE  /\ UNCHANGED <<docs, docRel, pc, task, doc, old, crashes, faults, live>>
             /\ lastRel' \in Nat /\ lastRel <= lastRel'
             /\ \A r \in 1..lastRel : r \in rows' => r \in rows /\ relDoc'[r] = relDoc[r]
             /\ \A r \in 1..lastRel : relNode'[r] = relNode[r]
  <2>1. UNCHANGED <<docs, docRel, pc, task, doc, old, crashes, faults>>
    BY <1>7 DEF CreateNodeReleases
  <2> QED
    BY <1>0, <1>7, <2>1, CreateRows
<1> QED
  BY <1>0, <1>1, <1>2, <1>3, <1>4, <1>5, <1>6, <1>7 DEF Request

\* The release of the upsert in the consumer has existed.
LEMMA TaskRelease ==
  ASSUME IndexInv, task.kind = "upsert"  PROVE task.rel \in 1..lastRel
  BY MessageKinds, VectorSyncAssumption
     DEF IndexInv, TypeOK, WorkerType, ReleasesType, TasksKnown, NoTask, ReleaseId,
         VectorSyncAssumption

LEMMA HandsStep ==
  ASSUME IndexInv, HandsKnown, [Next]_vars
  PROVE  HandsKnown'
<1> USE DEF nodeVars, relVars, ragVars, workerVars, mqVars, countVars
<1>0. /\ TypeOK /\ WorkerKnows /\ lastRel \in Nat /\ faults \in Nat
      /\ stream \subseteq Message /\ task \in Message \cup {NoTask}
      /\ pc = "idle" <=> task = NoTask
      /\ pc \in Upserting => task.kind = "upsert" /\ task.rel \in 1..lastRel
      /\ doc \in DocId \cup {NoDoc} /\ old \subseteq DocId
      /\ relDoc \in [ReleaseId -> DocId \cup {NoDoc}] /\ 1..lastRel \subseteq ReleaseId
      /\ docRel \in [DocId -> ReleaseId \cup {NoRelease}]
  BY TaskRelease, VectorSyncAssumption
     DEF IndexInv, TypeOK, ReleasesType, RagType, StreamType, WorkerType, CountsType, WorkerKnows,
         ReleaseId, VectorSyncAssumption
<1>1. ASSUME NEW c \in Callers, Proceed(c) \/ Request(c) \/ PublishFails(c)
      PROVE  HandsKnown'
  <2>1. /\ UNCHANGED <<docs, docRel, pc, task, doc, old, crashes>>
        /\ lastRel' \in Nat /\ lastRel <= lastRel'
        /\ \A r \in 1..lastRel : r \in rows' => r \in rows /\ relDoc'[r] = relDoc[r]
        /\ faults' = 0 => faults = 0
    BY <1>1, RequestRows
  <2>2. 1..lastRel \subseteq 1..lastRel'
    BY <1>0, <2>1
  <2> QED
    BY <1>0, <2>1, <2>2 DEF HandsKnown, Upserting
\* Steps that leave the service alone.
<1>2. ASSUME UNCHANGED <<docs, docRel, relVars>>,
             pc' \notin {"delete", "ack"} => old' = {},
             pc' \in Upserting => task'.kind = "upsert",
             pc' = "docid" => pc = "docid" /\ UNCHANGED <<task, doc>>,
             task'.kind = "delete" => pc' \in {"delete", "ack"} /\ old' = {task'.doc},
             faults' = 0 /\ pc' = "ack" => old' \cap docs = {}
      PROVE  HandsKnown'
  BY <1>0, <1>2 DEF HandsKnown, Upserting
<1>3. ASSUME NEW m \in stream, Receive(m)  PROVE HandsKnown'
  <2>1. m \in Message /\ task' = m
    BY <1>0, <1>3 DEF Receive
  <2> QED
    BY <1>2, <1>3, <2>1, MessageKinds DEF Receive, Upserting
<1>4. CASE ReadPermission \/ ReadGroups
  <2>1. /\ UNCHANGED <<docs, docRel, relVars, task, doc, old>>
        /\ pc \in {"perm", "groups"} /\ pc' \in {"ack", "upload", "groups"}
    BY <1>4 DEF ReadPermission, PermissionRead, ReadGroups
  <2> QED
    BY <1>0, <1>2, <2>1 DEF HandsKnown, Upserting
<1>5. ASSUME pc = "upload", NEW d \in DocId, Stored(d), UNCHANGED <<relVars, task, old>>,
             \/ pc' = "docid" /\ doc' = d
             \/ pc' = "ack" /\ doc' = doc /\ faults' = faults + 1
      PROVE  HandsKnown'
  <2>1. /\ docs' = docs \cup {d} /\ docRel' = [docRel EXCEPT ![d] = task.rel]
        /\ doc = NoDoc \/ d = doc
    BY <1>5 DEF Stored, StoredAs
  <2>2. task.rel \in rows => relDoc[task.rel] = doc
    BY <1>0, <1>5 DEF WorkerKnows
  <2>3. task.rel \in 1..lastRel /\ task.kind = "upsert" /\ old = {}
    BY <1>0, <1>5 DEF HandsKnown, Upserting
  <2>4. \A x \in docs' : docRel'[x] \in 1..lastRel
    BY <1>0, <2>1, <2>3 DEF HandsKnown
  <2> QED
    BY <1>0, <1>5, <2>1, <2>2, <2>3, <2>4 DEF HandsKnown, Upserting
<1>6. CASE UpsertRecords
  BY <1>5, <1>6 DEF UpsertRecords
<1>7. CASE UpsertTimesOut
  BY <1>5, <1>7 DEF UpsertTimesOut, Goto
<1>8. CASE UpdateNodeReleaseDocID
  <2>1. /\ pc = "docid" /\ pc' = "getold" /\ UNCHANGED <<lastRel, docs, docRel, task, doc, old>>
    BY <1>8 DEF UpdateNodeReleaseDocID, NamesDocument, Goto
  <2> QED
    BY <1>0, <2>1 DEF HandsKnown, Upserting
<1>9. CASE GetOldNodeDocIDs
  <2>1. /\ pc = "getold" /\ UNCHANGED <<lastRel, docs, docRel, task, doc>>
        /\ old' = DocsOf(SameNode \ {task.rel})
        /\ pc' \in {"ack", "delete"} /\ (pc' = "ack" => old' = {})
    BY <1>9 DEF GetOldNodeDocIDs, OldDocsOf
  <2> QED
    BY <1>0, <2>1 DEF HandsKnown, Upserting
<1>10. CASE DeleteRecords
  <2>1. /\ docs' = docs \ old /\ pc' = "ack"
        /\ UNCHANGED <<lastRel, docRel, task, doc, old>>
    BY <1>10 DEF DeleteRecords, Goto
  <2> QED
    BY <2>1 DEF HandsKnown, Upserting
<1>11. CASE UpdateDocumentGroupIDs
  <2>1. pc = "setgroups" /\ pc' = "ack" /\ UNCHANGED <<relVars, docs, docRel, task, doc, old>>
    BY <1>11 DEF UpdateDocumentGroupIDs, Goto
  <2> QED
    BY <1>0, <1>2, <2>1 DEF HandsKnown, Upserting
<1>12. CASE StepFails
  <2>1. pc' = "ack" /\ UNCHANGED <<relVars, docs, docRel, task, doc, old>> /\ faults' # 0
    BY <1>0, <1>12 DEF StepFails, Goto
  <2> QED
    BY <1>2, <2>1 DEF HandsKnown, Upserting
<1>13. ASSUME Reset, UNCHANGED <<relVars, docs, docRel>>  PROVE HandsKnown'
  BY <1>2, <1>13 DEF Reset, NoTask, Upserting
<1>14. CASE Ack \/ ConsumerCrash
  BY <1>13, <1>14 DEF Ack, ConsumerCrash, CrashLeaves
<1>15. CASE UNCHANGED <<relVars, docs, docRel, workerVars, faults>>
  BY <1>0, <1>2, <1>15 DEF HandsKnown
<1>16. ASSUME NEW m \in stream \cup {task}, AckWaitExpires(m)  PROVE HandsKnown'
  BY <1>15, <1>16 DEF AckWaitExpires
<1>17. CASE UNCHANGED vars
  BY <1>15, <1>17 DEF vars
<1> QED
  BY <1>1, <1>3, <1>4, <1>6, <1>7, <1>8, <1>9, <1>10, <1>11, <1>12, <1>14, <1>16, <1>17
     DEF Next, Fault, Consume

\* What is on its way out stays so until the consumer has deleted it.
LEMMA LeavingKept ==
  ASSUME IndexInv, HandsKnown, [Next]_vars, faults' = 0, crashes' = 0, NEW d \in docs', Leaving(d)
  PROVE  Leaving(d)'
<1> USE DEF nodeVars, relVars, ragVars, workerVars, mqVars, countVars, Leaving
<1>0. /\ TypeOK /\ WorkerKnows /\ crashes \in Nat
      /\ stream \subseteq Message /\ task \in Message \cup {NoTask}
      /\ pc = "idle" <=> task = NoTask
      /\ NoTask.kind = "none"
  BY DEF IndexInv, TypeOK, StreamType, WorkerType, CountsType, NoTask
<1>f. faults = 0 /\ ~UpsertTimesOut /\ ~StepFails /\ \A c \in Callers : ~PublishFails(c)
  BY <1>0, FaultCounts
<1>1. CASE stream \subseteq stream' /\ UNCHANGED <<task, old, call>>
  BY <1>1
<1>2. ASSUME NEW c \in Callers, Proceed(c) \/ Request(c)  PROVE Leaving(d)'
  <2>1. stream \subseteq stream' /\ UNCHANGED <<task, old>>
    BY <1>2, RequestAdds
  <2>2. ASSUME NEW e \in Callers, call[e].op = "delete", d \in call[e].todo
        PROVE  Leaving(d)'
    <3>0. call \in [Callers -> Call] /\ lastMsg \in Nat /\ d \in DocId /\ call[e] # NoCall
      BY <1>0, <2>2 DEF TypeOK, CallsType, StreamType, Todo, NoCall, Doing
    <3>1. CASE e # c
      <4>1. call'[e] = call[e]
        <5>1. CASE Proceed(c)
          BY <3>0, <3>1, <5>1 DEF Proceed, PublishUpsert, PublishDelete, EditReadsLatest,
             EditNotifies, EditWritesGroups
        <5>2. CASE Request(c)
          <6>1. \E x : call' = [call EXCEPT ![c] = x]
            <7>1. ASSUME NEW S \in SUBSET Nodes, CreateNodeReleases(c, S) \/ NodeRestudy(c, S)
                  PROVE  \E x : call' = [call EXCEPT ![c] = x]
              BY <7>1 DEF CreateNodeReleases, NodeRestudy
            <7>2. ASSUME NEW S \in SUBSET Nodes, NodeDelete(c, S)
                  PROVE  \E x : call' = [call EXCEPT ![c] = x]
              BY <7>2 DEF NodeDelete, DeleteThen
            <7>3. ASSUME NEW n, NEW p, NEW gs, PermissionsEdit(c, n, p, gs)
                  PROVE  \E x : call' = [call EXCEPT ![c] = x]
              BY <7>3 DEF PermissionsEdit
            <7> QED
              BY <5>2, <7>1, <7>2, <7>3 DEF Request
          <6> QED
            BY <3>0, <3>1, <6>1
        <5> QED
          BY <1>2, <5>1, <5>2
      <4> QED
        BY <2>2, <4>1
    <3>2. CASE e = c
      <4>1. PICK x \in call[c].todo : PublishDelete(c, x)
        BY <1>2, <2>2, <3>0, <3>2
           DEF Proceed, Request, CreateNodeReleases, NodeRestudy, NodeDelete, DeleteThen,
               PermissionsEdit, PublishUpsert, EditReadsLatest, EditNotifies, EditWritesGroups
      <4>2. CASE x = d
        <5>1. PICK m \in Message : stream' = stream \cup {m} /\ m.kind = "delete" /\ m.doc = d
          BY <3>0, <4>1, <4>2, PublishType DEF PublishDelete
        <5> QED
          BY <5>1
      <4>3. CASE x # d
        <5>1. call'[c] = Doing("delete", call[c].todo \ {x})
          BY <2>2, <3>0, <3>2, <4>1, <4>3 DEF PublishDelete, Rest
        <5> QED
          BY <2>2, <3>2, <4>3, <5>1 DEF Doing
      <4> QED
        BY <4>2, <4>3
    <3> QED
      BY <3>1, <3>2
  <2> QED
    BY <2>1, <2>2
<1>3. ASSUME NEW m \in stream, Receive(m)  PROVE Leaving(d)'
  <2>1. old = {} /\ task = NoTask /\ UNCHANGED call /\ task' = m /\ stream' = stream \ {m}
    BY <1>0, <1>3 DEF Receive, HandsKnown
  <2> QED
    BY <1>0, <2>1
<1>4. CASE ReadPermission \/ ReadGroups \/ UpsertRecords \/ UpdateNodeReleaseDocID
           \/ UpdateDocumentGroupIDs
  BY <1>1, <1>4 DEF ReadPermission, PermissionRead, ReadGroups, UpsertRecords,
               UpdateNodeReleaseDocID, NamesDocument, UpdateDocumentGroupIDs, Goto
<1>5. CASE GetOldNodeDocIDs
  <2>1. old = {} /\ UNCHANGED <<stream, task, call>>
    BY <1>5 DEF GetOldNodeDocIDs, OldDocsOf, HandsKnown
  <2> QED
    BY <2>1
<1>6. CASE DeleteRecords
  BY <1>1, <1>6 DEF DeleteRecords, Goto
<1>7. CASE Ack
  <2>1. pc = "ack" /\ docs' = docs /\ UNCHANGED <<stream, call>>
    BY <1>7 DEF Ack
  <2>2. d \notin old /\ (task.kind = "delete" => d # task.doc)
    BY <1>f, <2>1 DEF HandsKnown
  <2> QED
    BY <2>1, <2>2
<1>8. ~ConsumerCrash
  BY <1>0 DEF ConsumerCrash, CrashLeaves
<1>9. ASSUME NEW m \in stream \cup {task}, AckWaitExpires(m)  PROVE Leaving(d)'
  BY <1>1, <1>9 DEF AckWaitExpires
<1>10. UNCHANGED vars => Leaving(d)'
  BY <1>1 DEF vars
<1> QED
  BY <1>f, <1>2, <1>3, <1>4, <1>5, <1>6, <1>7, <1>8, <1>9, <1>10 DEF Next, Fault, Consume

LEMMA CrashCounts ==
  ASSUME TypeOK, crashes' = 0, [Next]_vars
  PROVE  crashes = 0 /\ ~ConsumerCrash
<1>1. crashes \in Nat
  BY DEF TypeOK, CountsType
<1>2. ~ConsumerCrash
  BY <1>1 DEF ConsumerCrash, CrashLeaves
<1>3. Consume => UNCHANGED crashes
  BY DEF Consume, Receive, ReadPermission, PermissionRead, ReadGroups, UpsertRecords,
         UpdateNodeReleaseDocID, NamesDocument, GetOldNodeDocIDs, OldDocsOf, DeleteRecords,
         UpdateDocumentGroupIDs, Ack, countVars
<1>4. ASSUME NEW c \in Callers, Proceed(c)  PROVE UNCHANGED crashes
  BY <1>4 DEF Proceed, PublishUpsert, PublishDelete, EditReadsLatest, EditNotifies,
              EditWritesGroups, countVars
<1>5. ASSUME NEW c \in Callers, Request(c)  PROVE UNCHANGED crashes
  BY <1>5 DEF Request, CreateNodeReleases, NodeRestudy, NodeDelete, DeleteThen,
              PermissionsEdit, countVars
<1>6. ASSUME Fault, ~ConsumerCrash  PROVE UNCHANGED crashes
  BY <1>6 DEF Fault, PublishFails, UpsertTimesOut, StepFails, AckWaitExpires
<1>7. UNCHANGED vars => UNCHANGED crashes
  BY DEF vars, countVars
<1> QED
  BY <1>2, <1>3, <1>4, <1>5, <1>6, <1>7 DEF Next

\* A document that a row names is named after the step, or on its way out.
LEMMA ReferencedKept ==
  ASSUME IndexInv, HandsKnown, [Next]_vars, faults' = 0, NEW d \in DocId, Referenced(d)
  PROVE  Referenced(d)' \/ Leaving(d)'
<1> USE DEF Referenced
<1>0. /\ rows \subseteq 1..lastRel /\ 1..lastRel \subseteq ReleaseId /\ d # NoDoc
      /\ relDoc \in [ReleaseId -> DocId \cup {NoDoc}] /\ call \in [Callers -> Call]
  BY VectorSyncAssumption
     DEF IndexInv, TypeOK, ReleasesType, CallsType, ReleaseId, DocId, VectorSyncAssumption
<1>1. PICK r \in rows : relDoc[r] = d
  OBVIOUS
<1>2. CASE UNCHANGED <<live, rows, relNode, relDoc>>
  BY <1>1, <1>2
<1>3. CASE UpdateNodeReleaseDocID
  <2>1. /\ relDoc' = [x \in ReleaseId |-> IF x \in {task.rel} \cap rows THEN doc ELSE relDoc[x]]
        /\ pc = "docid" /\ rows' = rows
    BY <1>3 DEF UpdateNodeReleaseDocID, NamesDocument
  <2>2. r = task.rel => doc = d
    BY <1>0, <1>1, <2>1 DEF HandsKnown
  <2> QED
    BY <1>0, <1>1, <2>1, <2>2
<1>4. CASE GetOldNodeDocIDs
  <2>1. /\ relDoc' = [x \in ReleaseId |-> IF x \in SameNode \ {task.rel} THEN NoDoc ELSE relDoc[x]]
        /\ old' = DocsOf(SameNode \ {task.rel}) /\ rows' = rows
    BY <1>4 DEF GetOldNodeDocIDs, OldDocsOf
  <2>2. CASE r \in SameNode \ {task.rel}
    BY <1>0, <1>1, <2>1, <2>2 DEF Leaving, DocsOf
  <2>3. CASE r \notin SameNode \ {task.rel}
    BY <1>0, <1>1, <2>1, <2>3
  <2> QED
    BY <2>2, <2>3
<1>5. ASSUME NEW c \in Callers, NEW S \in SUBSET Nodes, CreateNodeReleases(c, S)
      PROVE  Referenced(d)'
  <2>1. PICK new \in SUBSET ReleaseId :
          /\ rows' = rows \cup new /\ new \cap rows = {}
          /\ \A x \in ReleaseId \ new : relDoc'[x] = relDoc[x]
    BY <1>5, CreateRows
  <2> QED
    BY <1>0, <1>1, <2>1
<1>6. ASSUME NEW c \in Callers, NEW S \in SUBSET Nodes, NodeDelete(c, S)
      PROVE  Referenced(d)' \/ Leaving(d)'
  <2> DEFINE out == DocsOf(ReleasesOf(S))
  <2>1. /\ rows' = rows \ ReleasesOf(S) /\ relDoc' = relDoc
        /\ call' = [call EXCEPT ![c] = IF out = {} THEN NoCall ELSE Doing("delete", out)]
    BY <1>6 DEF NodeDelete, DeleteThen
  <2>2. CASE r \in ReleasesOf(S)
    <3>1. d \in out
      BY <1>0, <1>1, <2>2 DEF DocsOf
    <3>2. call'[c].op = "delete" /\ d \in call'[c].todo
      BY <1>0, <2>1, <3>1 DEF Doing
    <3> QED
      BY <3>2 DEF Leaving
  <2>3. CASE r \notin ReleasesOf(S)
    BY <1>1, <2>1, <2>3
  <2> QED
    BY <2>2, <2>3
<1> QED
  BY <1>2, <1>3, <1>4, <1>5, <1>6, IndexMoves

\* The consumer names the document it has uploaded, unless the row is gone.
LEMMA UploadedKept ==
  ASSUME IndexInv, [Next]_vars, faults' = 0, crashes' = 0, pc = "docid"
  PROVE  \/ UNCHANGED <<pc, doc>>
         \/ \E r \in rows' : relDoc'[r] = doc
         \/ relNode[docRel[doc]] \notin live /\ UNCHANGED <<docRel, relNode, live>>
<1> USE DEF nodeVars, relVars, ragVars, workerVars, mqVars
<1>0. /\ TypeOK /\ WorkerKnows /\ RowsOfLive /\ task.kind = "upsert" /\ task.rel \in 1..lastRel
      /\ 1..lastRel \subseteq ReleaseId
  BY TaskRelease, VectorSyncAssumption
     DEF IndexInv, WorkerKnows, Upserting, TypeOK, ReleasesType, ReleaseId, VectorSyncAssumption
<1>1. CASE UpdateNodeReleaseDocID
  <2>1. /\ relDoc' = [x \in ReleaseId |-> IF x \in {task.rel} \cap rows THEN doc ELSE relDoc[x]]
        /\ UNCHANGED <<rows, doc, docRel, relNode, live>>
    BY <1>1 DEF UpdateNodeReleaseDocID, NamesDocument, Goto
  <2>2. docRel[doc] = task.rel
    BY <1>0 DEF WorkerKnows
  <2>3. CASE task.rel \in rows
    BY <1>0, <2>1, <2>3
  <2>4. CASE task.rel \notin rows
    BY <1>0, <2>1, <2>2, <2>4 DEF RowsOfLive
  <2> QED
    BY <2>3, <2>4
<1>2. ASSUME Consume, ~UpdateNodeReleaseDocID  PROVE FALSE
  BY <1>2 DEF Consume, Receive, ReadPermission, PermissionRead, ReadGroups, UpsertRecords,
              GetOldNodeDocIDs, OldDocsOf, DeleteRecords, UpdateDocumentGroupIDs, Ack
<1>3. ASSUME NEW m \in stream \cup {task}, AckWaitExpires(m)  PROVE UNCHANGED <<pc, doc>>
  BY <1>3 DEF AckWaitExpires
<1>4. UNCHANGED vars => UNCHANGED <<pc, doc>>
  BY DEF vars
<1> QED
  BY <1>0, <1>1, <1>2, <1>3, <1>4, FaultCounts, CrashCounts, RequestAdds DEF Next, Fault

LEMMA LeaksStep ==
  ASSUME IndexInv, HandsKnown, LeaksOnlyOfDeletedNodes, [Next]_vars, faults' = 0, crashes' = 0,
         NEW d \in docs'
  PROVE  \/ Referenced(d)' \/ Leaving(d)'
         \/ pc' = "docid" /\ doc' = d
         \/ relNode'[docRel'[d]] \notin live'
<1> USE DEF nodeVars, relVars, ragVars, workerVars, mqVars
<1>0. /\ TypeOK /\ faults = 0 /\ crashes = 0 /\ lastRel \in Nat
      /\ docs \subseteq DocId /\ 1..lastRel \subseteq ReleaseId
      /\ docRel \in [DocId -> ReleaseId \cup {NoRelease}]
  BY FaultCounts, CrashCounts, VectorSyncAssumption
     DEF IndexInv, TypeOK, ReleasesType, RagType, ReleaseId, VectorSyncAssumption
<1>1. CASE UpsertRecords /\ d \notin docs
  BY <1>1 DEF UpsertRecords, Stored, StoredAs
<1>2. CASE UpsertRecords /\ d \in docs /\ docRel'[d] # docRel[d]
  BY <1>0, <1>2 DEF UpsertRecords, Stored, StoredAs
<1>3. ASSUME ~UpsertRecords
      PROVE  docs' \subseteq docs /\ UNCHANGED docRel
  <2>1. ASSUME Consume  PROVE docs' \subseteq docs /\ UNCHANGED docRel
    BY <1>3, <2>1 DEF Consume, Receive, ReadPermission, PermissionRead, ReadGroups,
         UpdateNodeReleaseDocID, NamesDocument, GetOldNodeDocIDs, OldDocsOf, DeleteRecords,
         UpdateDocumentGroupIDs, Ack
  <2>2. ASSUME NEW m \in stream \cup {task}, AckWaitExpires(m)
        PROVE  docs' \subseteq docs /\ UNCHANGED docRel
    BY <2>2 DEF AckWaitExpires
  <2>3. UNCHANGED vars => docs' \subseteq docs /\ UNCHANGED docRel
    BY DEF vars
  <2> QED
    BY <1>0, <2>1, <2>2, <2>3, FaultCounts, CrashCounts, RequestRows DEF Next, Fault
<1>4. ASSUME d \in docs, docRel'[d] = docRel[d]
      PROVE  \/ Referenced(d)' \/ Leaving(d)'
             \/ pc' = "docid" /\ doc' = d
             \/ relNode'[docRel'[d]] \notin live'
  <2>1. CASE Referenced(d) \/ Leaving(d)
    BY <1>0, <1>4, <2>1, ReferencedKept, LeavingKept
  <2>2. CASE pc = "docid" /\ doc = d
    <3>1. \/ pc' = pc /\ doc' = doc
          \/ \E r \in rows' : relDoc'[r] = doc
          \/ relNode[docRel[doc]] \notin live /\ docRel' = docRel /\ relNode' = relNode /\ live' = live
      BY <2>2, UploadedKept
    <3> QED
      BY <2>2, <3>1 DEF Referenced
  <2>3. CASE relNode[docRel[d]] \notin live
    <3>1. docRel[d] \in 1..lastRel
      BY <1>4 DEF HandsKnown
    <3>2. relNode'[docRel[d]] = relNode[docRel[d]]
      <4>1. ASSUME NEW c \in Callers, NEW S \in SUBSET Nodes, CreateNodeReleases(c, S)
            PROVE  relNode'[docRel[d]] = relNode[docRel[d]]
        <5>1. PICK new \in SUBSET ReleaseId :
                /\ new \cap 1..lastRel = {}
                /\ \A x \in ReleaseId \ new : relNode'[x] = relNode[x]
          BY <4>1, CreateRows
        <5> QED
          BY <1>0, <3>1, <5>1
      <4>2. UpdateNodeReleaseDocID \/ GetOldNodeDocIDs => relNode' = relNode
        BY DEF UpdateNodeReleaseDocID, NamesDocument, GetOldNodeDocIDs, OldDocsOf
      <4>3. ASSUME NEW c \in Callers, NEW S \in SUBSET Nodes, NodeDelete(c, S)
            PROVE  relNode' = relNode
        BY <4>3 DEF NodeDelete, DeleteThen
      <4> QED
        BY <4>1, <4>2, <4>3, IndexMoves
    <3>3. live' \subseteq live
      BY RowsKept
    <3> QED
      BY <1>4, <2>3, <3>2, <3>3
  <2> QED
    BY <1>0, <1>4, <2>1, <2>2, <2>3 DEF LeaksOnlyOfDeletedNodes
<1> QED
  BY <1>1, <1>2, <1>3, <1>4

\* As long as no call fails and no consumer crashes, the service holds no
\* document that the releases have forgotten, except of nodes that are deleted.
THEOREM OnlyDeletedNodesLeak == Spec => []LeaksOnlyOfDeletedNodes
<1>1. Init => AccountInv
  BY IndexInit DEF AccountInv, HandsKnown, LeaksOnlyOfDeletedNodes, Init, NoTask
<1>2. AccountInv /\ [Next]_vars => AccountInv'
  <2> SUFFICES ASSUME AccountInv, [Next]_vars PROVE AccountInv'
    OBVIOUS
  <2>1. IndexInv' /\ HandsKnown'
    BY IndexStep, HandsStep DEF AccountInv
  <2>2. LeaksOnlyOfDeletedNodes'
    BY LeaksStep DEF AccountInv, LeaksOnlyOfDeletedNodes
  <2> QED
    BY <2>1, <2>2 DEF AccountInv
<1>3. AccountInv => LeaksOnlyOfDeletedNodes
  BY DEF AccountInv
<1> QED
  BY <1>1, <1>2, <1>3, PTL DEF Spec

-------------------------------------------------------------------------------
(* The inductive invariant behind GroupsInForce, for requests that wait    *)
(* for each other.  The work of upserts and the work of permission edits   *)
(* never overlap, so each reads what the other has left.                   *)

Upserts == {"publish", "restudy"}
Edits   == {"latest", "notify", "groups"}

UpsertWork == \/ \E m \in stream \cup {task} : m.kind = "upsert"
              \/ \E c \in Callers : call[c].op \in Upserts
EditWork   == \/ \E m \in stream \cup {task} : m.kind = "update_group_ids"
              \/ \E c \in Callers : call[c].op \in Edits
OneAtATime == /\ \A c, d \in Callers : call[c] # NoCall /\ call[d] # NoCall => c = d
              /\ ~(UpsertWork /\ EditWork)

\* Only the newest release of a node is ever about to be indexed, and while an
\* older one is still indexed the newest has its upsert ahead.
AboutToIndex(r) ==
    \/ \E m \in stream \cup {task} : m.kind = "upsert" /\ m.rel = r
    \/ \E c \in Callers : call[c].op \in Upserts /\ r \in call[c].todo
NewestOnly ==
    \A r, s \in rows : relNode[r] = relNode[s] /\ r < s =>
      ~AboutToIndex(r) /\ (Indexed(r) => Queued(s))

\* The groups a node's documents are to have: those of the edit that is under
\* way, or else those in the database.
EditOf(c, n)  == call[c].op \in Edits /\ call[c].node = n
Wanted(n, gs) == \/ \E c \in Callers : EditOf(c, n) /\ gs = call[c].gids
                 \/ (\A c \in Callers : ~EditOf(c, n)) /\ gs = Effective(n)

\* What an edit, its message and an upsert carry is what is wanted.
EditCarries(c) ==
    LET p == perm[call[c].node]
    IN /\ call[c].node \in Nodes /\ call[c].gids = GroupIdsFor(p, call[c].rows.ids)
       /\ p = "partial" => call[c].rows # Nil
       /\ call[c].op = "notify" =>
            \A r \in rows : relDoc[r] \in call[c].todo => relNode[r] = call[c].node
MessageCarries(m) ==
    \A r \in rows : m.kind = "update_group_ids" /\ relDoc[r] = m.doc => Wanted(relNode[r], m.gids)
UpsertCarries ==
    /\ pc = "groups" => perm[relNode[task.rel]] = "partial"
    /\ pc = "upload" => gids = Effective(relNode[task.rel])
    /\ pc = "docid"  => docGroups[doc] = Effective(relNode[task.rel])
EditsKnown ==
    /\ \A c \in Callers : call[c].op \in Edits => EditCarries(c)
    /\ \A m \in stream \cup {task} : MessageCarries(m)
    /\ task.rel \in rows => UpsertCarries
    /\ pc = "setgroups" => task.kind = "update_group_ids"

\* A document has the wanted groups, or is about to get them.
GroupsAhead(r) ==
    \/ \E c \in Callers : /\ EditOf(c, relNode[r])
                          /\ \/ call[c].op = "latest"
                             \/ call[c].op = "notify" /\ call[c].todo = {relDoc[r]}
    \/ \E m \in stream : m.kind = "update_group_ids" /\ m.doc = relDoc[r]
    \/ pc = "setgroups" /\ task.doc = relDoc[r]
GroupsKept ==
    \A r \in rows : Indexed(r) => Wanted(relNode[r], docGroups[relDoc[r]]) \/ GroupsAhead(r)

GroupsInv == IndexInv /\ OneAtATime /\ (faults = 0 => NewestOnly /\ EditsKnown /\ GroupsKept)

-------------------------------------------------------------------------------
(* Groups, for requests that wait for each other.  A step either starts a  *)
(* request, and then nothing is outstanding, or it goes on with work that  *)
(* is already there.                                                       *)

Starts(c) == call[c] = NoCall /\ call'[c] # NoCall

\* What a request does when it starts.
LEMMA StartMoves ==
  ASSUME IndexInv, [Next /\ Serial]_vars, NEW c \in Callers, Starts(c)
  PROVE  /\ stream = {} /\ pc = "idle" /\ task = NoTask /\ \A e \in Callers : call[e] = NoCall
         /\ stream' = {} /\ pc' = "idle" /\ task' = NoTask
         /\ \A e \in Callers : e # c => call'[e] = NoCall
         /\ UNCHANGED <<docs, docGroups, groups>>
         /\ \/ \E S \in SUBSET Nodes :
                 CreateNodeReleases(c, S) \/ NodeRestudy(c, S) \/ NodeDelete(c, S)
            \/ \E n \in Nodes, p \in Perms, gs \in GroupIds : PermissionsEdit(c, n, p, gs)
<1> USE DEF nodeVars, relVars, ragVars, workerVars, mqVars
<1>0. /\ call \in [Callers -> Call] /\ task \in Message \cup {NoTask}
      /\ pc = "idle" => task = NoTask
      /\ NoCall.op = "idle"
  BY DEF IndexInv, TypeOK, CallsType, WorkerType, NoCall, Doing
<1>1. stream = {} /\ pc = "idle" /\ task = NoTask /\ (\A e \in Callers : call[e] = NoCall) /\ Next
  <2>1. call' # call
    BY DEF Starts
  <2>2. Next /\ Serial
    BY <2>1 DEF vars
  <2> QED
    BY <1>0, <2>2 DEF Serial, Quiet, Starts
<1>2. ASSUME NEW e \in Callers, call' = [call EXCEPT ![e] = call'[e]]
      PROVE  e = c
  BY <1>0, <1>2 DEF Starts
<1>3. ~Consume /\ ~Fault
  <2>1. UNCHANGED call => FALSE
    BY DEF Starts
  <2>2. ~Consume
    BY <2>1 DEF Consume, Receive, ReadPermission, PermissionRead, ReadGroups, UpsertRecords,
           UpdateNodeReleaseDocID, NamesDocument, GetOldNodeDocIDs, OldDocsOf, DeleteRecords,
           UpdateDocumentGroupIDs, Ack
  <2>3. ASSUME NEW e \in Callers  PROVE ~PublishFails(e)
    BY <1>0, <1>1 DEF PublishFails
  <2> QED
    BY <2>1, <2>2, <2>3 DEF Fault, UpsertTimesOut, StepFails, ConsumerCrash, CrashLeaves, AckWaitExpires
<1>4. ASSUME NEW e \in Callers  PROVE ~Proceed(e)
  BY <1>0, <1>1 DEF Proceed, PublishUpsert, PublishDelete, EditReadsLatest, EditNotifies, EditWritesGroups
<1>5. PICK e \in Callers : Request(e)
  BY <1>1, <1>3, <1>4 DEF Next
<1>6. /\ \E x : call' = [call EXCEPT ![e] = x]
      /\ UNCHANGED <<stream, pc, task, docs, docGroups, groups>>
  BY <1>5 DEF Request, CreateNodeReleases, NodeRestudy, NodeDelete, DeleteThen, PermissionsEdit
<1>7. e = c
  BY <1>0, <1>2, <1>6
<1> QED
  BY <1>0, <1>1, <1>5, <1>6, <1>7, NilType DEF Request

\* What goes on with the work that is there adds none: the requests keep what
\* they carry, and a message is one that was there or one a request had to send.
LEMMA GoesOn ==
  ASSUME IndexInv, [Next]_vars, \A c \in Callers : ~Starts(c)
  PROVE  /\ \A c \in Callers : call'[c] # NoCall => call[c] # NoCall
         /\ \A c \in Callers : call'[c].op \in Upserts =>
              call[c].op \in Upserts /\ call'[c].todo \subseteq call[c].todo
         /\ \A c \in Callers : call'[c].op \in Edits =>
              /\ call[c].op \in Edits
              /\ call'[c].node = call[c].node /\ call'[c].gids = call[c].gids
              /\ call'[c].rows = call[c].rows
         /\ \A m \in stream' \cup {task'} :
              \/ m = NoTask \/ m.kind = "delete"
              \/ \E x \in stream \cup {task} : /\ m.kind = x.kind /\ m.rel = x.rel
                                               /\ m.doc = x.doc /\ m.gids = x.gids
              \/ m.kind = "upsert" /\ \E c \in Callers : call[c].op \in Upserts /\ m.rel \in call[c].todo
              \/ /\ m.kind = "update_group_ids"
                 /\ \E c \in Callers : /\ call[c].op = "notify" /\ m.doc \in call[c].todo
                                       /\ m.gids = call[c].gids
<1> USE DEF nodeVars, relVars, ragVars, workerVars, mqVars, Upserts, Edits
<1> DEFINE Goes(c) ==
             /\ call'[c] # NoCall => call[c] # NoCall
             /\ call'[c].op \in Upserts => call[c].op \in Upserts /\ call'[c].todo \subseteq call[c].todo
             /\ call'[c].op \in Edits =>
                  /\ call[c].op \in Edits
                  /\ call'[c].node = call[c].node /\ call'[c].gids = call[c].gids
                  /\ call'[c].rows = call[c].rows
           Was(m) == \E x \in stream \cup {task} : /\ m.kind = x.kind /\ m.rel = x.rel
                                                   /\ m.doc = x.doc /\ m.gids = x.gids
           Sent(m) ==
              \/ m = NoTask \/ m.kind = "delete" \/ Was(m)
              \/ m.kind = "upsert" /\ \E c \in Callers : call[c].op \in Upserts /\ m.rel \in call[c].todo
              \/ /\ m.kind = "update_group_ids"
                 /\ \E c \in Callers : /\ call[c].op = "notify" /\ m.doc \in call[c].todo
                                       /\ m.gids = call[c].gids
           Goal == (\A c \in Callers : Goes(c)) /\ (\A m \in stream' \cup {task'} : Sent(m))
<1> SUFFICES Goal
  OBVIOUS
<1>0. /\ call \in [Callers -> Call] /\ task \in Message \cup {NoTask} /\ stream \subseteq Message
      /\ NoCall.op = "idle" /\ lastMsg \in Nat
      /\ \A c \in Callers : call[c].todo \subseteq Todo(call[c].op)
      /\ pc # "idle" => task \in Message
  BY DEF IndexInv, TypeOK, CallsType, WorkerType, StreamType, NoCall, Doing
<1>1. \A m \in stream \cup {task} : Sent(m)
  OBVIOUS
<1>2. ASSUME NEW m, m \in stream \cup {task}, m \in Message  PROVE Sent([m EXCEPT !.again = TRUE])
  BY <1>2, AgainType
<1>3. UNCHANGED call => \A c \in Callers : Goes(c)
  OBVIOUS
<1>4. CASE Consume
  <2>1. UNCHANGED call
    BY <1>4 DEF Consume, Receive, ReadPermission, PermissionRead, ReadGroups, UpsertRecords,
           UpdateNodeReleaseDocID, NamesDocument, GetOldNodeDocIDs, OldDocsOf, DeleteRecords,
           UpdateDocumentGroupIDs, Ack
  <2>2. stream' \subseteq stream /\ task' \in stream \cup {task, NoTask}
    BY <1>4 DEF Consume, Receive, ReadPermission, PermissionRead, ReadGroups, UpsertRecords,
           UpdateNodeReleaseDocID, NamesDocument, GetOldNodeDocIDs, OldDocsOf, DeleteRecords,
           UpdateDocumentGroupIDs, Ack, Reset, Goto
  <2> QED
    BY <1>1, <1>3, <2>1, <2>2
<1>5. ASSUME NEW c \in Callers, PublishFails(c)  PROVE Goal
  <2>1. UNCHANGED <<stream, task>>
    BY <1>5 DEF PublishFails
  <2>2. PICK x : /\ call' = [call EXCEPT ![c] = x]
                 /\ x = NoCall \/ (x.op = "restudy" /\ call[c].op = "restudy"
                                   /\ x.todo \subseteq call[c].todo /\ call[c] # NoCall)
    <3>1. CASE call[c].op = "restudy"
      <4>1. PICK r \in call[c].todo : call' = [call EXCEPT ![c] = Rest(c, r)]
        BY <1>5, <3>1 DEF PublishFails
      <4>2. \/ Rest(c, r) = NoCall
            \/ Rest(c, r).op = "restudy" /\ Rest(c, r).todo \subseteq call[c].todo
        BY <3>1 DEF Rest, Doing
      <4> QED
        BY <1>0, <3>1, <4>1, <4>2
    <3>2. CASE call[c].op # "restudy"
      BY <1>5, <3>2 DEF PublishFails
    <3> QED
      BY <3>1, <3>2
  <2>3. \A e \in Callers : Goes(e)
    BY <1>0, <2>2
  <2> QED
    BY <1>1, <2>1, <2>3
<1>6. CASE UpsertTimesOut \/ StepFails
  <2>1. UNCHANGED <<stream, task, call>>
    BY <1>6 DEF UpsertTimesOut, StepFails, Goto
  <2> QED
    BY <1>1, <1>3, <2>1
<1>7. CASE ConsumerCrash
  <2>1. /\ stream' = stream \cup {[task EXCEPT !.again = TRUE]} /\ task' = NoTask
        /\ UNCHANGED call /\ task \in Message
    BY <1>0, <1>7 DEF ConsumerCrash, CrashLeaves, Reset
  <2>2. Sent([task EXCEPT !.again = TRUE]) /\ Sent(NoTask)
    BY <1>2, <2>1
  <2> HIDE DEF Sent, Goes
  <2> QED
    BY <1>1, <1>3, <2>1, <2>2
<1>8. ASSUME NEW m \in stream \cup {task}, AckWaitExpires(m)  PROVE Goal
  <2>1. /\ stream' = stream \cup {[m EXCEPT !.again = TRUE]} /\ UNCHANGED <<call, task>>
        /\ m \in Message
    BY <1>0, <1>8 DEF AckWaitExpires
  <2>2. Sent([m EXCEPT !.again = TRUE])
    BY <1>2, <2>1
  <2> HIDE DEF Sent, Goes
  <2> QED
    BY <1>1, <1>3, <2>1, <2>2
<1>9. ASSUME NEW c \in Callers, Request(c)  PROVE Goal
  <2>1. call[c] = NoCall /\ UNCHANGED <<stream, task>> /\ \E x : call' = [call EXCEPT ![c] = x]
    BY <1>9 DEF Request, CreateNodeReleases, NodeRestudy, NodeDelete, DeleteThen, PermissionsEdit
  <2>2. call'[c] = NoCall
    BY <2>1 DEF Starts
  <2> QED
    BY <1>0, <1>1, <2>1, <2>2
<1>10. ASSUME NEW c \in Callers, NEW x, call' = [call EXCEPT ![c] = Rest(c, x)], x \in call[c].todo,
              call[c].op \notin Edits
       PROVE  \A e \in Callers : Goes(e)
  <2>1. call[c] # NoCall
    BY <1>0, <1>10 DEF Todo
  <2>2. \/ Rest(c, x) = NoCall
        \/ Rest(c, x).op = call[c].op /\ Rest(c, x).todo \subseteq call[c].todo
    BY DEF Rest, Doing
  <2> QED
    BY <1>0, <1>10, <2>1, <2>2
<1>11. ASSUME NEW c \in Callers, NEW r \in call[c].todo, PublishUpsert(c, r)  PROVE Goal
  <2>1. r \in ReleaseId /\ call[c].op \in Upserts
    BY <1>0, <1>11 DEF PublishUpsert, Todo
  <2>2. PICK m \in Message : stream' = stream \cup {m} /\ m.kind = "upsert" /\ m.rel = r
    BY <1>0, <1>11, <2>1, PublishType DEF PublishUpsert
  <2>3. Sent(m) /\ UNCHANGED task
    BY <1>11, <2>1, <2>2 DEF PublishUpsert
  <2>4. \A e \in Callers : Goes(e)
    BY <1>10, <1>11, <2>1 DEF PublishUpsert
  <2> HIDE DEF Sent, Goes
  <2> QED
    BY <1>1, <2>2, <2>3, <2>4
<1>12. ASSUME NEW c \in Callers, NEW d \in call[c].todo, PublishDelete(c, d)  PROVE Goal
  <2>1. d \in DocId /\ call[c].op = "delete"
    BY <1>0, <1>12 DEF PublishDelete, Todo
  <2>2. PICK m \in Message : stream' = stream \cup {m} /\ m.kind = "delete"
    BY <1>0, <1>12, <2>1, PublishType DEF PublishDelete
  <2>3. Sent(m) /\ UNCHANGED task
    BY <1>12, <2>2 DEF PublishDelete
  <2>4. \A e \in Callers : Goes(e)
    BY <1>10, <1>12, <2>1 DEF PublishDelete
  <2> HIDE DEF Sent, Goes
  <2> QED
    BY <1>1, <2>2, <2>3, <2>4
<1>13. ASSUME NEW c \in Callers, EditReadsLatest(c)  PROVE Goal
  <2>1. /\ UNCHANGED <<stream, task>> /\ call[c].op = "latest" /\ call[c] # NoCall
        /\ \E op, todo : call' = [call EXCEPT ![c] = Editing(c, op, todo)] /\ op \in {"groups", "notify"}
    BY <1>0, <1>13 DEF EditReadsLatest
  <2>2. \A e \in Callers : Goes(e)
    BY <1>0, <2>1 DEF Editing
  <2> HIDE DEF Sent, Goes
  <2> QED
    BY <1>1, <2>1, <2>2
<1>14. ASSUME NEW c \in Callers, EditNotifies(c)  PROVE Goal
  <2>1. /\ UNCHANGED task /\ call[c].op = "notify" /\ call[c] # NoCall
        /\ call' = [call EXCEPT ![c] = Editing(c, "groups", {})]
    BY <1>0, <1>14 DEF EditNotifies
  <2>2. PICK d \in call[c].todo : Publish("update_group_ids", NoRelease, d, call[c].gids)
    BY <1>14 DEF EditNotifies
  <2>3. d \in DocId /\ call[c].gids \in GroupIds
    BY <1>0, <2>1 DEF Todo, Call
  <2>4. PICK m \in Message : /\ stream' = stream \cup {m} /\ m.kind = "update_group_ids"
                             /\ m.doc = d /\ m.gids = call[c].gids
    BY <1>0, <2>2, <2>3, PublishType
  <2>5. Sent(m)
    BY <2>1, <2>4
  <2>6. \A e \in Callers : Goes(e)
    BY <1>0, <2>1 DEF Editing
  <2> HIDE DEF Sent, Goes
  <2> QED
    BY <1>1, <2>1, <2>4, <2>5, <2>6
<1>15. ASSUME NEW c \in Callers, EditWritesGroups(c)  PROVE Goal
  <2>1. UNCHANGED <<stream, task>> /\ call' = [call EXCEPT ![c] = NoCall]
    BY <1>15 DEF EditWritesGroups
  <2>2. \A e \in Callers : Goes(e)
    BY <1>0, <2>1
  <2> HIDE DEF Sent, Goes
  <2> QED
    BY <1>1, <2>1, <2>2
<1>16. CASE UNCHANGED vars
  <2>1. UNCHANGED <<stream, task, call>>
    BY <1>16 DEF vars
  <2> QED
    BY <1>1, <1>3, <2>1
<1> HIDE DEF Goal
<1> QED
  BY <1>4, <1>5, <1>6, <1>7, <1>8, <1>9, <1>11, <1>12, <1>13, <1>14, <1>15, <1>16
     DEF Next, Fault, Proceed

LEMMA WorkKept ==
  ASSUME IndexInv, [Next]_vars, \A c \in Callers : ~Starts(c)
  PROVE  /\ UpsertWork' => UpsertWork
         /\ EditWork' => EditWork
         /\ \A r : AboutToIndex(r)' => AboutToIndex(r)
<1>1. NoTask.kind = "none"
  BY DEF NoTask
<1>2. UpsertWork' => UpsertWork
  BY <1>1, GoesOn DEF UpsertWork
<1>3. EditWork' => EditWork
  BY <1>1, GoesOn DEF EditWork, Edits
<1>4. ASSUME NEW r, AboutToIndex(r)'  PROVE AboutToIndex(r)
  BY <1>1, <1>4, GoesOn DEF AboutToIndex
<1> QED
  BY <1>2, <1>3, <1>4

\* After a start there is the work of that request alone.
LEMMA StartWork ==
  ASSUME IndexInv, [Next /\ Serial]_vars, NEW c \in Callers, Starts(c)
  PROVE  /\ UpsertWork' => call'[c].op \in Upserts
         /\ EditWork' => call'[c].op \in Edits
         /\ \A r : AboutToIndex(r)' => call'[c].op \in Upserts /\ r \in call'[c].todo
<1>1. /\ stream' = {} /\ task' = NoTask /\ NoTask.kind = "none" /\ NoCall.op = "idle"
      /\ \A e \in Callers : e # c => call'[e] = NoCall
  BY StartMoves DEF NoTask, NoCall, Doing
<1> QED
  BY <1>1 DEF UpsertWork, EditWork, AboutToIndex, Upserts, Edits

LEMMA OneAtATimeStep ==
  ASSUME IndexInv, OneAtATime, [Next /\ Serial]_vars  PROVE OneAtATime'
<1>1. CASE \A c \in Callers : ~Starts(c)
  <2>1. [Next]_vars
    OBVIOUS
  <2> QED
    BY <1>1, <2>1, GoesOn, WorkKept DEF OneAtATime
<1>2. ASSUME NEW c \in Callers, Starts(c)  PROVE OneAtATime'
  BY <1>2, StartMoves, StartWork DEF OneAtATime, Upserts, Edits
<1> QED
  BY <1>1, <1>2

\* A publish request makes one snapshot of each node it is for.
LEMMA OneEach ==
  ASSUME IndexInv, NEW c \in Callers, NEW S \in SUBSET Nodes, CreateNodeReleases(c, S)
  PROVE  \A r, s \in rows' \ 1..lastRel : relNode'[r] = relNode'[s] => r = s
<1> DEFINE new == lastRel + 1 .. lastRel + Cardinality(S)
<1>1. PICK of \in [new -> S] :
        /\ \A n \in S : \E r \in new : of[r] = n
        /\ rows' = rows \cup new
        /\ relNode' = [r \in ReleaseId |-> IF r \in new THEN of[r] ELSE relNode[r]]
        /\ lastRel + Cardinality(S) <= MaxReleases
  BY DEF CreateNodeReleases
<1>2. Cardinality(S) \in Nat /\ lastRel \in Nat /\ rows \subseteq 1..lastRel
  BY CountNodes DEF IndexInv, TypeOK, ReleasesType
<1>3. new \subseteq ReleaseId
  BY <1>1, <1>2, VectorSyncAssumption DEF ReleaseId, VectorSyncAssumption
<1>4. IsFiniteSet(new) /\ Cardinality(new) = Cardinality(S)
  BY <1>2, FS_Interval
<1> HIDE DEF new
<1>5. of \in Surjection(new, S)
  BY <1>1 DEF Surjection
<1>6. of \in Injection(new, S)
  BY <1>4, <1>5, FS_Surjection
<1>7. \A r, s \in new : of[r] = of[s] => r = s
  BY <1>6 DEF Injection, IsInjective
<1> QED
  BY <1>1, <1>2, <1>3, <1>7

\* Which rows a request may start to index: new ones, or the latest of their nodes.
LEMMA StartsWithNewest ==
  ASSUME IndexInv, [Next /\ Serial]_vars, NEW c \in Callers, Starts(c),
         NEW r \in rows', NEW s \in rows', relNode'[r] = relNode'[s], r < s, AboutToIndex(r)'
  PROVE  FALSE
<1>0. lastRel \in Nat /\ rows \subseteq 1..lastRel /\ call \in [Callers -> Call]
  BY DEF IndexInv, TypeOK, ReleasesType, CallsType
<1>1. call'[c].op \in Upserts /\ r \in call'[c].todo
  BY StartWork
<1>2. ASSUME NEW S \in SUBSET Nodes, CreateNodeReleases(c, S)  PROVE FALSE
  <2>1. PICK new \in SUBSET ReleaseId :
          /\ new \cap 1..lastRel = {} /\ rows' = rows \cup new
          /\ call' = [call EXCEPT ![c] = Doing("publish", new)]
    BY <1>2, CreateRows
  <2>2. r \in new
    BY <1>0, <1>1, <2>1 DEF Doing
  <2>3. s \in new
    BY <1>0, <2>1, <2>2 DEF ReleaseId
  <2> QED
    BY <1>2, <2>1, <2>2, <2>3, OneEach DEF ReleaseId
<1>3. ASSUME NEW S \in SUBSET Nodes, NodeRestudy(c, S)  PROVE FALSE
  <2>1. /\ UNCHANGED <<rows, relNode>>
        /\ call' = [call EXCEPT ![c] = Doing("restudy", {x \in Latest(S) : Indexed(x)})]
    BY <1>3 DEF NodeRestudy, relVars
  <2>2. r \in Latest(S)
    BY <1>0, <1>1, <2>1 DEF Doing
  <2> QED
    BY <1>0, <2>1, <2>2 DEF Latest
<1>4. ASSUME NEW S \in SUBSET Nodes, NodeDelete(c, S)  PROVE FALSE
  <2>1. \/ call'[c] = NoCall
        \/ call'[c] = Doing("delete", DocsOf(ReleasesOf(S)))
    BY <1>0, <1>4 DEF NodeDelete, DeleteThen
  <2> QED
    BY <1>1, <2>1 DEF NoCall, Doing, Upserts
<1>5. ASSUME NEW n \in Nodes, NEW p \in Perms, NEW gs, PermissionsEdit(c, n, p, gs)  PROVE FALSE
  BY <1>0, <1>1, <1>5 DEF PermissionsEdit, Upserts
<1> QED
  BY <1>2, <1>3, <1>4, <1>5, StartMoves

LEMMA NewestStep ==
  ASSUME IndexInv, NewestOnly, [Next /\ Serial]_vars, faults' = 0
  PROVE  NewestOnly'
<1> SUFFICES ASSUME NEW r \in rows', NEW s \in rows', relNode'[r] = relNode'[s], r < s
             PROVE  ~AboutToIndex(r)' /\ (Indexed(r)' => Queued(s)')
  BY DEF NewestOnly
<1>0. /\ lastRel \in Nat /\ rows \subseteq 1..lastRel /\ 1..lastRel \subseteq ReleaseId
      /\ relDoc \in [ReleaseId -> DocId \cup {NoDoc}] /\ WorkerKnows /\ [Next]_vars
      /\ rows' \subseteq ReleaseId
  <2>1. TypeOK'
    BY TypeStep DEF IndexInv
  <2> QED
    BY <2>1, VectorSyncAssumption DEF IndexInv, TypeOK, ReleasesType, ReleaseId, VectorSyncAssumption
<1>1. CASE s \notin 1..lastRel
  <2>1. Queued(s)'
    BY <1>0, <1>1, RowsKept
  <2>2. ~AboutToIndex(r)'
    <3>1. ASSUME NEW c \in Callers, Starts(c)  PROVE ~AboutToIndex(r)'
      BY <3>1, StartsWithNewest
    <3>2. ASSUME \A c \in Callers : ~Starts(c), AboutToIndex(r)'  PROVE FALSE
      <4>1. ASSUME NEW c \in Callers, NEW S \in SUBSET Nodes, CreateNodeReleases(c, S)
            PROVE  FALSE
        <5>1. call[c] = NoCall /\ NoCall.op = "idle" /\ call \in [Callers -> Call]
          BY <4>1 DEF IndexInv, TypeOK, CallsType, CreateNodeReleases, NoCall, Doing
        <5>2. call'[c].op = "publish"
          BY <4>1, <5>1 DEF CreateNodeReleases, Doing
        <5> QED
          BY <3>2, <5>1, <5>2 DEF Starts
      <4>2. ASSUME NEW c \in Callers, NEW S \in SUBSET Nodes, NodeDelete(c, S)
            PROVE  rows' \subseteq rows
        BY <4>2 DEF NodeDelete, DeleteThen
      <4>3. UpdateNodeReleaseDocID \/ GetOldNodeDocIDs => rows' = rows
        BY DEF UpdateNodeReleaseDocID, NamesDocument, GetOldNodeDocIDs, OldDocsOf
      <4> QED
        BY <1>0, <1>1, <4>1, <4>2, <4>3, IndexMoves
    <3> QED
      BY <3>1, <3>2
  <2> QED
    BY <2>1, <2>2
<1>2. CASE s \in 1..lastRel
  <2>1. /\ r \in rows /\ s \in rows /\ relNode[r] = relNode[s]
    BY <1>0, <1>2, RowsKept DEF ReleaseId
  <2>2. ~AboutToIndex(r) /\ (Indexed(r) => Queued(s))
    BY <2>1 DEF NewestOnly
  <2>3. ~AboutToIndex(r)'
    BY <1>0, <2>2, WorkKept, StartsWithNewest
  <2>4. ASSUME Indexed(r)'  PROVE Queued(s)'
    <3>1. CASE Indexed(r)
      <4>1. ~(GetOldNodeDocIDs /\ task.rel = s)
        <5>1. ASSUME GetOldNodeDocIDs, task.rel = s  PROVE ~Indexed(r)'
          BY <1>0, <2>1, <5>1 DEF GetOldNodeDocIDs, OldDocsOf, SameNode, ReleasesOf, Indexed, ReleaseId
        <5> QED
          BY <2>4, <5>1
      <4> QED
        BY <1>0, <2>1, <2>2, <3>1, <4>1, QueuedKept
    <3>2. CASE ~Indexed(r)
      <4>1. relDoc[r] = NoDoc /\ relDoc'[r] # NoDoc
        BY <2>1, <2>4, <3>2 DEF Indexed
      <4>2. UpdateNodeReleaseDocID
        <5>1. ASSUME NEW c \in Callers, NEW S \in SUBSET Nodes, CreateNodeReleases(c, S)
              PROVE  FALSE
          BY <1>0, <2>1, <4>1, <5>1, CreateRows
        <5>2. ASSUME NEW c \in Callers, NEW S \in SUBSET Nodes, NodeDelete(c, S)
              PROVE  FALSE
          BY <4>1, <5>2 DEF NodeDelete, DeleteThen
        <5>3. ~GetOldNodeDocIDs
          BY <1>0, <2>1, <4>1 DEF GetOldNodeDocIDs, OldDocsOf
        <5> QED
          BY <1>0, <4>1, <5>1, <5>2, <5>3, IndexMoves
      <4>3. task.rel = r /\ pc = "docid"
        BY <1>0, <2>1, <4>1, <4>2 DEF UpdateNodeReleaseDocID, NamesDocument
      <4> QED
        BY <1>0, <2>2, <4>3 DEF WorkerKnows, Upserting, AboutToIndex
    <3> QED
      BY <3>1, <3>2
  <2> QED
    BY <2>3, <2>4
<1> QED
  BY <1>1, <1>2

\* A request that publishes new rows, edits, learns again or deletes with work
\* left is a start.
LEMMA CreateStarts ==
  ASSUME IndexInv, NEW c \in Callers, NEW S \in SUBSET Nodes, CreateNodeReleases(c, S)
  PROVE  Starts(c)
<1>1. call[c] = NoCall /\ NoCall.op = "idle" /\ call \in [Callers -> Call]
  BY DEF IndexInv, TypeOK, CallsType, CreateNodeReleases, NoCall, Doing
<1>2. call'[c].op = "publish"
  BY <1>1 DEF CreateNodeReleases, Doing
<1> QED
  BY <1>1, <1>2 DEF Starts

\* Between two starts, permissions stay and groups change by an edit alone.
LEMMA GroupsMove ==
  ASSUME IndexInv, [Next]_vars, \A c \in Callers : ~Starts(c)
  PROVE  UNCHANGED perm /\ (UNCHANGED groups \/ \E c \in Callers : EditWritesGroups(c))
<1> USE DEF nodeVars
<1>1. Consume => UNCHANGED <<perm, groups>>
  BY DEF Consume, Receive, ReadPermission, PermissionRead, ReadGroups, UpsertRecords,
         UpdateNodeReleaseDocID, NamesDocument, GetOldNodeDocIDs, OldDocsOf, DeleteRecords,
         UpdateDocumentGroupIDs, Ack
<1>2. Fault => UNCHANGED <<perm, groups>>
  BY DEF Fault, PublishFails, UpsertTimesOut, StepFails, ConsumerCrash, CrashLeaves, AckWaitExpires
<1>3. ASSUME NEW c \in Callers, Request(c)  PROVE UNCHANGED <<perm, groups>>
  <2>1. ASSUME NEW n \in Nodes, NEW p \in Perms, NEW gs, PermissionsEdit(c, n, p, gs)
        PROVE  Starts(c)
    <3>1. call[c] = NoCall /\ NoCall.op = "idle" /\ call \in [Callers -> Call]
      BY <2>1 DEF IndexInv, TypeOK, CallsType, PermissionsEdit, NoCall, Doing
    <3>2. call'[c].op = "latest"
      BY <2>1, <3>1 DEF PermissionsEdit
    <3> QED
      BY <3>1, <3>2 DEF Starts
  <2> QED
    BY <1>3, <2>1 DEF Request, CreateNodeReleases, NodeRestudy, NodeDelete, DeleteThen
<1>4. ASSUME NEW c \in Callers, Proceed(c), ~EditWritesGroups(c)  PROVE UNCHANGED <<perm, groups>>
  BY <1>4 DEF Proceed, PublishUpsert, PublishDelete, EditReadsLatest, EditNotifies
<1>5. \A c \in Callers : EditWritesGroups(c) => UNCHANGED perm
  BY DEF EditWritesGroups
<1>6. UNCHANGED vars => UNCHANGED <<perm, groups>>
  BY DEF vars
<1> QED
  BY <1>1, <1>2, <1>3, <1>4, <1>5, <1>6 DEF Next

\* An edit goes its three steps, unless a call fails.
LEMMA EditMoves ==
  ASSUME IndexInv, [Next]_vars, faults' = 0, NEW c \in Callers, call[c].op \in Edits
  PROVE  call'[c] = call[c] \/ EditReadsLatest(c) \/ EditNotifies(c) \/ EditWritesGroups(c)
<1>0. call \in [Callers -> Call] /\ call[c] # NoCall
  BY DEF IndexInv, TypeOK, CallsType, NoCall, Doing, Edits
<1>1. ASSUME NEW e \in Callers, e # c, Proceed(e) \/ Request(e)  PROVE call'[c] = call[c]
  BY <1>0, <1>1 DEF Proceed, Request, CreateNodeReleases, NodeRestudy, NodeDelete, DeleteThen,
       PermissionsEdit, PublishUpsert, PublishDelete, EditReadsLatest, EditNotifies,
       EditWritesGroups
<1>2. ASSUME Proceed(c) \/ Request(c)
      PROVE  EditReadsLatest(c) \/ EditNotifies(c) \/ EditWritesGroups(c)
  BY <1>0, <1>2 DEF Proceed, Request, CreateNodeReleases, NodeRestudy, NodeDelete, DeleteThen,
       PermissionsEdit, PublishUpsert, PublishDelete, Edits
<1> QED
  BY <1>1, <1>2, OnlyRequestsMove DEF IndexInv

\* While upserts are at work nothing changes what a node's groups are to be, and
\* while an edit is at work no release gets, changes or loses its document.
LEMMA UpsertsAlone ==
  ASSUME IndexInv, OneAtATime, [Next]_vars, \A c \in Callers : ~Starts(c), UpsertWork
  PROVE  /\ UNCHANGED <<perm, groups>>
         /\ \A c \in Callers : call[c].op \notin Edits /\ call'[c].op \notin Edits
<1>1. \A c \in Callers : call[c].op \notin Edits
  BY DEF OneAtATime, EditWork
<1>2. \A c \in Callers : ~EditWritesGroups(c)
  BY <1>1 DEF EditWritesGroups, Edits
<1> QED
  BY <1>1, <1>2, GroupsMove, GoesOn

LEMMA EditsAlone ==
  ASSUME IndexInv, OneAtATime, [Next]_vars, \A c \in Callers : ~Starts(c), EditWork
  PROVE  ~UpsertWork /\ rows' \subseteq rows /\ UNCHANGED <<relNode, relDoc>>
<1>1. ~UpsertWork
  BY DEF OneAtATime
<1>2. ~UpdateNodeReleaseDocID /\ ~GetOldNodeDocIDs
  BY <1>1 DEF UpdateNodeReleaseDocID, NamesDocument, GetOldNodeDocIDs, OldDocsOf, UpsertWork,
              IndexInv, WorkerKnows, Upserting
<1>3. \A c \in Callers, S \in SUBSET Nodes : ~CreateNodeReleases(c, S)
  BY CreateStarts
<1>4. ASSUME NEW c \in Callers, NEW S \in SUBSET Nodes, NodeDelete(c, S)
      PROVE  rows' \subseteq rows /\ UNCHANGED <<relNode, relDoc>>
  BY <1>4 DEF NodeDelete, DeleteThen
<1> QED
  BY <1>1, <1>2, <1>3, <1>4, IndexMoves

\* What is wanted of a node stays so until the next request: the last step of an
\* edit writes what the edit has announced.
LEMMA WantedKept ==
  ASSUME IndexInv, OneAtATime, EditsKnown, [Next]_vars, faults' = 0,
         \A c \in Callers : ~Starts(c), NEW n \in Nodes, NEW gs, Wanted(n, gs)
  PROVE  Wanted(n, gs)'
<1>0. call \in [Callers -> Call] /\ groups \in [Nodes -> SUBSET Groups] /\ NoCall.op \notin Edits
  BY DEF IndexInv, TypeOK, CallsType, NodesType, NoCall, Doing, Edits
<1>1. ASSUME NEW c \in Callers, EditWritesGroups(c)  PROVE Wanted(n, gs)'
  <2>1. /\ call[c].op = "groups" /\ call[c].op \in Edits /\ call' = [call EXCEPT ![c] = NoCall]
        /\ groups' = IF call[c].rows = Nil THEN groups
                     ELSE [groups EXCEPT ![call[c].node] = call[c].rows.ids]
        /\ perm' = perm
    BY <1>1 DEF EditWritesGroups, Edits
  <2>2. EditCarries(c) /\ \A e \in Callers : e # c => call[e] = NoCall
    BY <1>0, <2>1 DEF EditsKnown, OneAtATime, NoCall, Doing
  <2>3. \A e \in Callers : ~EditOf(e, n)'
    BY <1>0, <2>1, <2>2 DEF EditOf
  <2>4. gs = Effective(n)'
    <3>1. CASE call[c].node = n
      <4>1. gs = GroupIdsFor(perm[n], call[c].rows.ids)
        BY <1>0, <2>1, <2>2, <3>1 DEF Wanted, EditOf, EditCarries
      <4>2. CASE call[c].rows = Nil
        BY <2>1, <2>2, <3>1, <4>1, <4>2 DEF EditCarries, Effective, GroupIdsFor
      <4>3. CASE call[c].rows # Nil
        BY <1>0, <2>1, <3>1, <4>1, <4>3 DEF Effective
      <4> QED
        BY <4>2, <4>3
    <3>2. CASE call[c].node # n
      <4>1. gs = Effective(n)
        BY <1>0, <2>2, <3>2 DEF Wanted, EditOf
      <4>2. groups'[n] = groups[n]
        BY <1>0, <2>1, <3>2
      <4> QED
        BY <2>1, <4>1, <4>2 DEF Effective
    <3> QED
      BY <3>1, <3>2
  <2> QED
    BY <2>3, <2>4 DEF Wanted
<1>2. ASSUME \A c \in Callers : ~EditWritesGroups(c)  PROVE Wanted(n, gs)'
  <2>1. UNCHANGED <<perm, groups>>
    BY <1>2, GroupsMove
  <2>2. ASSUME NEW c \in Callers  PROVE EditOf(c, n)' <=> EditOf(c, n)
    <3>1. EditOf(c, n)' => EditOf(c, n)
      BY GoesOn DEF EditOf
    <3>2. ASSUME EditOf(c, n)  PROVE EditOf(c, n)'
      <4>1. call'[c] = call[c] \/ EditReadsLatest(c) \/ EditNotifies(c)
        BY <1>2, <3>2, EditMoves DEF EditOf
      <4>2. EditReadsLatest(c) =>
              call'[c].op \in {"groups", "notify"} /\ call'[c].node = call[c].node
        BY <1>0 DEF EditReadsLatest, Editing
      <4>3. EditNotifies(c) => call'[c].op = "groups" /\ call'[c].node = call[c].node
        BY <1>0 DEF EditNotifies, Editing
      <4> QED
        BY <3>2, <4>1, <4>2, <4>3 DEF EditOf, Edits
    <3> QED
      BY <3>1, <3>2
  <2>3. \A c \in Callers : EditOf(c, n)' => call'[c].gids = call[c].gids
    BY GoesOn DEF EditOf
  <2> QED
    BY <2>1, <2>2, <2>3 DEF Wanted, Effective
<1> QED
  BY <1>1, <1>2

\* What the edits carry after a step that goes on ...
LEMMA EditCarriesStep ==
  ASSUME IndexInv, OneAtATime, EditsKnown, [Next]_vars, faults' = 0,
         \A c \in Callers : ~Starts(c), NEW c \in Callers, call'[c].op \in Edits
  PROVE  EditCarries(c)'
<1>1. /\ call[c].op \in Edits
      /\ call'[c].node = call[c].node /\ call'[c].gids = call[c].gids /\ call'[c].rows = call[c].rows
      /\ UNCHANGED perm
  BY GoesOn, GroupsMove
<1>2. rows' \subseteq rows /\ UNCHANGED <<relNode, relDoc>>
  BY <1>1, EditsAlone DEF EditWork
<1>3. EditCarries(c) /\ call \in [Callers -> Call]
  BY <1>1 DEF EditsKnown, IndexInv, TypeOK, CallsType
<1>4. ASSUME call'[c].op = "notify", NEW r \in rows', relDoc'[r] \in call'[c].todo
      PROVE  relNode'[r] = call'[c].node
  <2>1. CASE call'[c] = call[c]
    BY <1>2, <1>3, <1>4, <2>1 DEF EditCarries
  <2>2. CASE EditReadsLatest(c)
    <3>1. call'[c].todo = DocsOf(Latest({call[c].node}))
      BY <1>3, <2>2 DEF EditReadsLatest, Editing
    <3>2. PICK q \in Latest({call[c].node}) : relDoc[q] = relDoc[r] /\ relDoc[q] # NoDoc
      BY <1>2, <1>4, <3>1 DEF DocsOf
    <3>3. q \in rows /\ relNode[q] = call[c].node
      BY DEF Latest
    <3>4. q = r
      BY <1>2, <3>2, <3>3 DEF IndexInv, OneName, Indexed
    <3> QED
      BY <1>1, <1>2, <3>3, <3>4
  <2>3. EditNotifies(c) => call'[c].op = "groups"
    BY <1>3 DEF EditNotifies, Editing
  <2>4. EditWritesGroups(c) => call'[c].op = "idle"
    BY <1>3 DEF EditWritesGroups, NoCall, Doing
  <2> QED
    BY <1>1, <1>4, <2>1, <2>2, <2>3, <2>4, EditMoves
<1> QED
  BY <1>1, <1>3, <1>4 DEF EditCarries

\* ... what their messages carry ...
LEMMA MessageCarriesStep ==
  ASSUME IndexInv, OneAtATime, EditsKnown, [Next]_vars, faults' = 0,
         \A c \in Callers : ~Starts(c), NEW m \in stream' \cup {task'}
  PROVE  MessageCarries(m)'
<1> SUFFICES ASSUME NEW r \in rows', m.kind = "update_group_ids", relDoc'[r] = m.doc
             PROVE  Wanted(relNode[r], m.gids)'
  BY DEF MessageCarries
<1>1. EditWork'
  BY DEF EditWork
<1>2. rows' \subseteq rows /\ UNCHANGED <<relNode, relDoc>>
  BY <1>1, WorkKept, EditsAlone
<1>3. r \in rows /\ relDoc[r] = m.doc /\ relNode[r] \in Nodes /\ NoTask.kind = "none"
  BY <1>2 DEF IndexInv, RowsOfLive, TypeOK, ReleasesType, NoTask
<1>4. Wanted(relNode[r], m.gids)
  <2>1. ASSUME NEW x \in stream \cup {task}, m.kind = x.kind, m.doc = x.doc, m.gids = x.gids
        PROVE  Wanted(relNode[r], m.gids)
    BY <1>3, <2>1 DEF EditsKnown, MessageCarries
  <2>2. ASSUME NEW c \in Callers, call[c].op = "notify", m.doc \in call[c].todo,
               m.gids = call[c].gids
        PROVE  Wanted(relNode[r], m.gids)
    <3>1. relNode[r] = call[c].node
      BY <1>3, <2>2 DEF EditsKnown, EditCarries, Edits
    <3> QED
      BY <2>2, <3>1 DEF Wanted, EditOf, Edits
  <2> QED
    BY <1>3, <2>1, <2>2, GoesOn
<1>5. PICK n \in Nodes : n = relNode[r]
  BY <1>3
<1>6. Wanted(n, m.gids)'
  BY <1>4, <1>5, WantedKept
<1> QED
  BY <1>2, <1>5, <1>6 DEF Wanted, Effective

\* ... and what an upsert has read of a node's groups.
LEMMA UpsertCarriesStep ==
  ASSUME IndexInv, OneAtATime, EditsKnown, [Next]_vars, faults' = 0,
         \A c \in Callers : ~Starts(c), task'.rel \in rows'
  PROVE  UpsertCarries'
<1> USE DEF nodeVars, relVars, ragVars, workerVars, mqVars
<1>0. /\ WorkerKnows /\ WorkerKnows' /\ RowsOfLive /\ rows \subseteq 1..lastRel
      /\ perm \in [Nodes -> Perms] /\ groups \in [Nodes -> SUBSET Groups]
      /\ docGroups \in [DocId -> GroupIds] /\ doc \in DocId \cup {NoDoc}
  <2>1. IndexInv'
    BY IndexStep
  <2> QED
    BY <2>1 DEF IndexInv, TypeOK, NodesType, ReleasesType, RagType, WorkerType
<1>1. CASE pc' \notin {"groups", "upload", "docid"}
  BY <1>1 DEF UpsertCarries
<1>2. CASE pc' \in {"groups", "upload", "docid"}
  <2>1. pc' \in Upserting /\ task'.kind = "upsert" /\ UpsertWork'
    BY <1>0, <1>2 DEF WorkerKnows, Upserting, UpsertWork
  <2>2. UNCHANGED <<perm, groups>>
    BY <2>1, WorkKept, UpsertsAlone
  <2>3. CASE UNCHANGED <<rows, relNode, pc, task, gids, doc, docGroups>>
    BY <2>2, <2>3 DEF EditsKnown, UpsertCarries, Effective
  <2>4. ASSUME NEW c \in Callers, Proceed(c) \/ Request(c)  PROVE UpsertCarries'
    <3>1. UNCHANGED <<pc, task, gids, doc, docGroups>>
      BY <2>4 DEF Proceed, Request, CreateNodeReleases, NodeRestudy, NodeDelete, DeleteThen,
              PermissionsEdit, PublishUpsert, PublishDelete, EditReadsLatest, EditNotifies,
              EditWritesGroups
    <3>2. task.rel \in 1..lastRel
      BY <1>0, <2>1, <3>1, TaskRelease
    <3>3. task.rel \in rows /\ relNode'[task.rel] = relNode[task.rel]
      BY <3>1, <3>2, RowsKept
    <3> QED
      BY <2>2, <3>1, <3>3 DEF EditsKnown, UpsertCarries, Effective
  <2>5. ASSUME NEW m \in stream, Receive(m)  PROVE UpsertCarries'
    BY <2>5 DEF Receive, UpsertCarries
  <2>6. CASE ReadPermission
    <3>1. task.rel \in rows /\ relNode[task.rel] \in live
      BY <1>0, <2>6 DEF ReadPermission, PermissionRead, RowsOfLive
    <3>2. /\ pc' = "groups" => perm[relNode[task.rel]] = "partial"
          /\ pc' = "upload" => gids' = Effective(relNode[task.rel])
          /\ UNCHANGED <<perm, groups, relNode, task>> /\ pc' # "docid"
      BY <2>6, <3>1 DEF ReadPermission, PermissionRead, Effective, GroupIdsFor
    <3> QED
      BY <3>2 DEF UpsertCarries, Effective
  <2>7. CASE ReadGroups
    <3>1. task.rel \in rows /\ relNode[task.rel] \in live /\ perm[relNode[task.rel]] = "partial"
      BY <1>0, <2>7 DEF ReadGroups, RowsOfLive, EditsKnown, UpsertCarries
    <3>2. /\ gids' = Effective(relNode[task.rel]) /\ pc' = "upload"
          /\ UNCHANGED <<perm, groups, relNode, task>>
      BY <2>7, <3>1 DEF ReadGroups, Effective, GroupIdsFor
    <3> QED
      BY <3>2 DEF UpsertCarries, Effective
  <2>8. CASE UpsertRecords
    <3>1. PICK d \in DocId : Stored(d) /\ doc' = d
      BY <2>8 DEF UpsertRecords
    <3>2. /\ docGroups'[d] = gids /\ pc' = "docid" /\ UNCHANGED <<perm, groups, relNode, task, rows>>
          /\ pc = "upload"
      BY <1>0, <2>8, <3>1 DEF UpsertRecords, Stored, StoredAs
    <3>3. gids = Effective(relNode[task.rel])
      BY <3>2 DEF EditsKnown, UpsertCarries
    <3> QED
      BY <3>1, <3>2, <3>3 DEF UpsertCarries, Effective
  <2>9. UpdateNodeReleaseDocID \/ GetOldNodeDocIDs \/ DeleteRecords \/ UpdateDocumentGroupIDs
          \/ Ack \/ ConsumerCrash => FALSE
    BY <1>2 DEF UpdateNodeReleaseDocID, NamesDocument, GetOldNodeDocIDs, OldDocsOf, DeleteRecords,
           UpdateDocumentGroupIDs, Ack, ConsumerCrash, CrashLeaves, Goto, Reset
  <2>10. ASSUME NEW m \in stream \cup {task}, AckWaitExpires(m)  PROVE UpsertCarries'
    BY <2>3, <2>10 DEF AckWaitExpires
  <2>11. UNCHANGED vars => UpsertCarries'
    BY <2>3 DEF vars
  <2> QED
    BY <2>4, <2>5, <2>6, <2>7, <2>8, <2>9, <2>10, <2>11, FaultCounts DEF Next, Fault, Consume, IndexInv
<1> QED
  BY <1>1, <1>2

LEMMA EditsKnownStep ==
  ASSUME IndexInv, OneAtATime, EditsKnown, [Next /\ Serial]_vars, faults' = 0
  PROVE  EditsKnown'
<1>0. [Next]_vars /\ call \in [Callers -> Call] /\ NoTask.kind = "none" /\ NoTask.rel = NoRelease
  BY DEF IndexInv, TypeOK, CallsType, NoTask
<1>1. CASE \A c \in Callers : ~Starts(c)
  <2>1. pc' = "setgroups" => task'.kind = "update_group_ids"
    <3>1. ASSUME Consume, pc' = "setgroups"  PROVE \E m \in stream : Receive(m)
      BY <3>1 DEF Consume, ReadPermission, PermissionRead, ReadGroups, UpsertRecords,
           UpdateNodeReleaseDocID, NamesDocument, GetOldNodeDocIDs, OldDocsOf, DeleteRecords,
           UpdateDocumentGroupIDs, Ack, Goto, Reset
    <3>2. ASSUME NEW m \in stream, Receive(m)
          PROVE  pc' = "setgroups" => task'.kind = "update_group_ids"
      BY <3>2 DEF Receive
    <3>3. CASE UNCHANGED <<pc, task>>
      BY <3>3 DEF EditsKnown
    <3>4. ConsumerCrash => pc' = "idle"
      BY DEF ConsumerCrash, CrashLeaves, Reset
    <3>5. ASSUME NEW m \in stream \cup {task}, AckWaitExpires(m)  PROVE UNCHANGED <<pc, task>>
      BY <3>5 DEF AckWaitExpires, workerVars
    <3>6. UNCHANGED vars => UNCHANGED <<pc, task>>
      BY DEF vars, workerVars
    <3> QED
      BY <1>0, <3>1, <3>2, <3>3, <3>4, <3>5, <3>6, FaultCounts, RequestAdds DEF Next, Fault, IndexInv
  <2> QED
    BY <1>0, <1>1, <2>1, EditCarriesStep, MessageCarriesStep, UpsertCarriesStep DEF EditsKnown
<1>2. ASSUME NEW c \in Callers, Starts(c)  PROVE EditsKnown'
  <2>1. /\ stream' = {} /\ task' = NoTask /\ pc' = "idle"
        /\ \A e \in Callers : e # c => call'[e] = NoCall
    BY <1>2, StartMoves
  <2>2. ASSUME call'[c].op \in Edits  PROVE EditCarries(c)'
    <3>1. PICK n \in Nodes, p \in Perms, gs \in GroupIds : PermissionsEdit(c, n, p, gs)
      <4>1. ASSUME NEW S \in SUBSET Nodes, CreateNodeReleases(c, S)  PROVE FALSE
        BY <1>0, <2>2, <4>1 DEF CreateNodeReleases, Doing, Edits
      <4>2. ASSUME NEW S \in SUBSET Nodes, NodeRestudy(c, S)  PROVE FALSE
        BY <1>0, <2>2, <4>2 DEF NodeRestudy, Doing, Edits
      <4>3. ASSUME NEW S \in SUBSET Nodes, NodeDelete(c, S)  PROVE FALSE
        BY <1>0, <2>2, <4>3 DEF NodeDelete, DeleteThen, NoCall, Doing, Edits
      <4> QED
        BY <1>2, <4>1, <4>2, <4>3, StartMoves
    <3>2. /\ call'[c] = [op |-> "latest", todo |-> {}, node |-> n, rows |-> gs,
                         gids |-> GroupIdsFor(p, gs.ids)]
          /\ perm' = [perm EXCEPT ![n] = p] /\ (p = "partial" => gs # Nil)
      BY <1>0, <3>1 DEF PermissionsEdit
    <3>3. perm'[n] = p
      BY <3>2 DEF IndexInv, TypeOK, NodesType
    <3>4. /\ call'[c].op = "latest" /\ call'[c].node = n /\ call'[c].rows = gs
          /\ call'[c].gids = GroupIdsFor(p, gs.ids)
      BY <3>2
    <3>5. Nil' = Nil
      BY DEF Nil
    <3> QED
      BY <3>2, <3>3, <3>4, <3>5 DEF EditCarries, GroupIdsFor, Nil, Only
  <2>3. NoCall.op = "idle"
    BY DEF NoCall, Doing
  <2>4. MessageCarries(NoTask)'
    BY <1>0 DEF MessageCarries, NoTask
  <2> QED
    BY <1>0, <2>1, <2>2, <2>3, <2>4 DEF EditsKnown, Edits, UpsertCarries
<1> QED
  BY <1>1, <1>2

\* A document whose groups are still to be set gets them: the edit reads the one
\* document its node is answered from, sends it a message, and the consumer
\* applies the message.
LEMMA AheadStep ==
  ASSUME IndexInv, OneAtATime, NewestOnly, EditsKnown, [Next]_vars, faults' = 0,
         \A c \in Callers : ~Starts(c), NEW r \in rows, Indexed(r), GroupsAhead(r)
  PROVE  /\ EditWork /\ UNCHANGED <<relNode, relDoc>>
         /\ \/ GroupsAhead(r)'
            \/ Wanted(relNode[r], docGroups'[relDoc[r]])
<1> USE DEF workerVars, mqVars
<1>0. /\ call \in [Callers -> Call] /\ lastMsg \in Nat /\ WorkerType /\ stream \subseteq Message
      /\ relDoc[r] \in DocId /\ relDoc[r] \in docs /\ docGroups \in [DocId -> GroupIds]
      /\ NoTask.kind = "none"
      /\ \A c \in Callers : call[c].todo \subseteq Todo(call[c].op)
  BY DEF IndexInv, TypeOK, CallsType, StreamType, RagType, CitationsSound, NoTask
<1>1. EditWork
  BY DEF GroupsAhead, EditsKnown, EditOf, EditWork
<1>2. ~UpsertWork /\ rows' \subseteq rows /\ UNCHANGED <<relNode, relDoc>>
  BY <1>1, EditsAlone
<1> DEFINE Goal == GroupsAhead(r)' \/ Wanted(relNode[r], docGroups'[relDoc[r]])
<1>3. ASSUME NEW c \in Callers, EditOf(c, relNode[r]),
             \/ call[c].op = "latest"
             \/ call[c].op = "notify" /\ call[c].todo = {relDoc[r]}
      PROVE  Goal
  <2>1. CASE call'[c] = call[c]
    BY <1>2, <1>3, <2>1 DEF GroupsAhead, EditOf
  <2>2. CASE EditReadsLatest(c)
    <3>1. Latest({relNode[r]}) = {r}
      <4>1. ASSUME NEW s \in rows, relNode[s] = relNode[r]  PROVE s <= r
        <5>1. ~Queued(s)
          BY <1>2, <4>1 DEF Queued, Outstanding, UpsertWork, Upserts, IndexInv, WorkerKnows
        <5>2. ~(r < s)
          BY <4>1, <5>1 DEF NewestOnly
        <5>3. r \in Int /\ s \in Int
          BY DEF IndexInv, TypeOK, ReleasesType
        <5> QED
          BY <5>2, <5>3
      <4>2. \A s \in rows : s \in Int
        BY DEF IndexInv, TypeOK, ReleasesType
      <4> QED
        BY <4>1, <4>2 DEF Latest
    <3>2. DocsOf(Latest({relNode[r]})) = {relDoc[r]}
      <4>1. {relDoc[q] : q \in {r}} = {relDoc[r]}
        OBVIOUS
      <4> QED
        BY <3>1, <4>1 DEF DocsOf, Indexed
    <3>3. call'[c] = Editing(c, "notify", {relDoc[r]})
      BY <1>0, <1>3, <2>2, <3>2 DEF EditReadsLatest, EditOf
    <3> QED
      BY <1>2, <1>3, <3>3 DEF GroupsAhead, EditOf, Editing, Edits
  <2>3. CASE EditNotifies(c)
    <3>1. PICK d \in call[c].todo : Publish("update_group_ids", NoRelease, d, call[c].gids)
      BY <2>3 DEF EditNotifies
    <3>2. call[c].op = "notify" /\ d = relDoc[r]
      BY <1>3, <2>3, <3>1 DEF EditNotifies
    <3>3. call[c].gids \in GroupIds
      BY <1>0 DEF Call
    <3>4. PICK m \in Message : stream' = stream \cup {m} /\ m.kind = "update_group_ids" /\ m.doc = d
      BY <1>0, <3>1, <3>2, <3>3, PublishType
    <3> QED
      BY <1>2, <3>2, <3>4 DEF GroupsAhead
  <2>4. ~EditWritesGroups(c)
    BY <1>3 DEF EditWritesGroups
  <2> QED
    BY <1>3, <2>1, <2>2, <2>3, <2>4, EditMoves DEF EditOf
<1>4. ASSUME NEW m \in stream, m.kind = "update_group_ids", m.doc = relDoc[r]  PROVE Goal
  <2>1. CASE m \in stream'
    BY <1>2, <1>4, <2>1 DEF GroupsAhead
  <2>2. CASE m \notin stream'
    <3>1. Receive(m)
      <4>1. ASSUME Consume  PROVE Receive(m)
        <5>1. ASSUME NEW x \in stream, Receive(x)  PROVE x = m
          BY <2>2, <5>1 DEF Receive
        <5> QED
          BY <2>2, <4>1, <5>1
             DEF Consume, ReadPermission, PermissionRead, ReadGroups, UpsertRecords,
                 UpdateNodeReleaseDocID, NamesDocument, GetOldNodeDocIDs, OldDocsOf, DeleteRecords,
                 UpdateDocumentGroupIDs, Ack
      <4>2. ConsumerCrash => stream \subseteq stream'
        BY DEF ConsumerCrash, CrashLeaves
      <4>3. ASSUME NEW x \in stream \cup {task}, AckWaitExpires(x)  PROVE stream \subseteq stream'
        BY <4>3 DEF AckWaitExpires
      <4>4. UNCHANGED vars => stream' = stream
        BY DEF vars
      <4> QED
        BY <2>2, <4>1, <4>2, <4>3, <4>4, FaultCounts, RequestAdds DEF Next, Fault, IndexInv
    <3>2. pc' = "setgroups" /\ task' = m
      BY <1>4, <3>1 DEF Receive
    <3> QED
      BY <1>2, <1>4, <3>2 DEF GroupsAhead
  <2> QED
    BY <2>1, <2>2
<1>5. ASSUME pc = "setgroups", task.doc = relDoc[r]  PROVE Goal
  <2>1. task.kind = "update_group_ids" /\ task \in Message
    BY <1>0, <1>5 DEF EditsKnown, WorkerType
  <2>2. CASE UNCHANGED <<pc, task>>
    BY <1>2, <1>5, <2>2 DEF GroupsAhead
  <2>3. CASE UpdateDocumentGroupIDs
    <3>1. docGroups'[relDoc[r]] = task.gids
      BY <1>0, <1>5, <2>3 DEF UpdateDocumentGroupIDs
    <3>2. Wanted(relNode[r], task.gids)
      BY <1>5, <2>1 DEF EditsKnown, MessageCarries
    <3> QED
      BY <3>1, <3>2
  <2>4. CASE ConsumerCrash
    <3>1. [task EXCEPT !.again = TRUE] \in stream'
      BY <2>4 DEF ConsumerCrash, CrashLeaves
    <3> QED
      BY <1>2, <1>5, <2>1, <3>1, AgainType DEF GroupsAhead
  <2>5. ASSUME Consume, ~UpdateDocumentGroupIDs  PROVE FALSE
    BY <1>5, <2>5 DEF Consume, Receive, ReadPermission, PermissionRead, ReadGroups, UpsertRecords,
           UpdateNodeReleaseDocID, NamesDocument, GetOldNodeDocIDs, OldDocsOf, DeleteRecords, Ack
  <2>6. ASSUME NEW m \in stream \cup {task}, AckWaitExpires(m)  PROVE UNCHANGED <<pc, task>>
    BY <2>6 DEF AckWaitExpires
  <2>7. UNCHANGED vars => UNCHANGED <<pc, task>>
    BY DEF vars
  <2> HIDE DEF Goal
  <2> QED
    BY <2>2, <2>3, <2>4, <2>5, <2>6, <2>7, FaultCounts, RequestAdds DEF Next, Fault, IndexInv
<1> HIDE DEF Goal
<1>6. Goal
  BY <1>3, <1>4, <1>5 DEF GroupsAhead
<1> QED
  BY <1>1, <1>2, <1>6 DEF Goal

\* The groups of a document that a release names change by an upsert of that
\* release, or by a message.
LEMMA DocGroupsMove ==
  ASSUME IndexInv, [Next]_vars, faults' = 0, NEW r \in rows, Indexed(r),
         docGroups'[relDoc[r]] # docGroups[relDoc[r]]
  PROVE  \/ UpsertRecords /\ task.rel = r /\ docGroups'[relDoc[r]] = gids
         \/ /\ UpdateDocumentGroupIDs /\ task.doc = relDoc[r]
            /\ docGroups'[relDoc[r]] = task.gids
<1> USE DEF ragVars
<1>0. /\ docGroups \in [DocId -> GroupIds] /\ relDoc[r] \in DocId /\ lastDoc \in Nat
      /\ relDoc[r] <= lastDoc /\ WorkerKnows
  BY DEF IndexInv, TypeOK, RagType, CitationsSound, DocsBounded
<1>1. CASE UpsertRecords
  <2>1. PICK d \in DocId : Stored(d)
    BY <1>1 DEF UpsertRecords
  <2>2. /\ docGroups' = [docGroups EXCEPT ![d] = gids] /\ pc = "upload"
        /\ \/ doc = NoDoc /\ d = lastDoc + 1
           \/ doc # NoDoc /\ d = doc
    BY <1>1, <2>1 DEF UpsertRecords, Stored, StoredAs
  <2>3. d = relDoc[r]
    BY <1>0, <2>2
  <2>4. doc = relDoc[r] /\ doc # NoDoc
    BY <1>0, <2>2, <2>3 DEF DocId
  <2> QED
    BY <1>0, <1>1, <2>2, <2>3, <2>4 DEF WorkerKnows, Upserting
<1>2. CASE UpdateDocumentGroupIDs
  BY <1>0, <1>2 DEF UpdateDocumentGroupIDs
<1>3. ASSUME Consume, ~UpsertRecords, ~UpdateDocumentGroupIDs  PROVE UNCHANGED docGroups
  BY <1>3 DEF Consume, Receive, ReadPermission, PermissionRead, ReadGroups,
         UpdateNodeReleaseDocID, NamesDocument, GetOldNodeDocIDs, OldDocsOf, DeleteRecords, Ack
<1>4. ASSUME NEW c \in Callers, Proceed(c) \/ Request(c)  PROVE UNCHANGED docGroups
  BY <1>4 DEF Proceed, Request, CreateNodeReleases, NodeRestudy, NodeDelete, DeleteThen,
       PermissionsEdit, PublishUpsert, PublishDelete, EditReadsLatest, EditNotifies, EditWritesGroups
<1>5. ConsumerCrash \/ (\E m \in stream \cup {task} : AckWaitExpires(m)) => UNCHANGED docGroups
  BY DEF ConsumerCrash, CrashLeaves, AckWaitExpires
<1>6. UNCHANGED vars => UNCHANGED docGroups
  BY DEF vars
<1> QED
  BY <1>1, <1>2, <1>3, <1>4, <1>5, <1>6, FaultCounts DEF Next, Fault, IndexInv

\* What is wanted of a node that no edit is about is what the database says.
LEMMA WantedEffective ==
  ASSUME NEW n, NEW gs, \A c \in Callers : call[c].op \notin Edits
  PROVE  Wanted(n, gs) <=> gs = Effective(n)
BY DEF Wanted, EditOf

\* A row that is indexed after a step was so before, with the same document, or
\* is the one the consumer has just named a document for.
LEMMA IndexedBefore ==
  ASSUME IndexInv, [Next]_vars, NEW r \in rows', Indexed(r)'
  PROVE  /\ r \in rows /\ relNode'[r] = relNode[r]
         /\ \/ Indexed(r) /\ relDoc'[r] = relDoc[r]
            \/ UpdateNodeReleaseDocID /\ task.rel = r /\ relDoc'[r] = doc
<1>0. /\ rows \subseteq 1..lastRel /\ 1..lastRel \subseteq ReleaseId
      /\ relDoc \in [ReleaseId -> DocId \cup {NoDoc}] /\ relDoc'[r] # NoDoc
  BY VectorSyncAssumption
     DEF IndexInv, TypeOK, ReleasesType, ReleaseId, VectorSyncAssumption, Indexed
<1>1. CASE UNCHANGED <<live, rows, relNode, relDoc>>
  BY <1>0, <1>1 DEF Indexed
<1>2. CASE UpdateNodeReleaseDocID
  BY <1>0, <1>2 DEF UpdateNodeReleaseDocID, NamesDocument, Indexed
<1>3. CASE GetOldNodeDocIDs
  BY <1>0, <1>3 DEF GetOldNodeDocIDs, OldDocsOf, Indexed
<1>4. ASSUME NEW c \in Callers, NEW S \in SUBSET Nodes, CreateNodeReleases(c, S)
      PROVE  r \in rows /\ relNode'[r] = relNode[r] /\ Indexed(r) /\ relDoc'[r] = relDoc[r]
  BY <1>0, <1>4, CreateRows DEF Indexed
<1>5. ASSUME NEW c \in Callers, NEW S \in SUBSET Nodes, NodeDelete(c, S)
      PROVE  r \in rows /\ relNode'[r] = relNode[r] /\ Indexed(r) /\ relDoc'[r] = relDoc[r]
  BY <1>0, <1>5 DEF NodeDelete, DeleteThen, Indexed
<1> QED
  BY <1>1, <1>2, <1>3, <1>4, <1>5, IndexMoves

\* The groups of an indexed document stay the wanted ones, while work goes on ...
LEMMA GroupsGoOn ==
  ASSUME IndexInv, OneAtATime, NewestOnly, EditsKnown, GroupsKept, [Next]_vars, faults' = 0,
         \A c \in Callers : ~Starts(c), NEW r \in rows', Indexed(r)'
  PROVE  Wanted(relNode[r], docGroups[relDoc[r]])' \/ GroupsAhead(r)'
<1>0. r \in rows /\ relNode'[r] = relNode[r] /\ WorkerKnows
  BY IndexedBefore DEF IndexInv
<1>1. PICK n \in Nodes : n = relNode[r]
  BY <1>0 DEF IndexInv, TypeOK, ReleasesType, RowsOfLive
<1>2. ASSUME NEW gs, Wanted(n, gs), gs = docGroups'[relDoc'[r]]
      PROVE  Wanted(relNode[r], docGroups[relDoc[r]])'
  <2>1. Wanted(n, gs)'
    BY <1>2, WantedKept
  <2> QED
    BY <1>0, <1>1, <1>2, <2>1 DEF Wanted, EditOf, Effective
<1>3. ASSUME UpsertWork, NEW gs, gs = Effective(n)  PROVE Wanted(n, gs)
  <2>1. \A c \in Callers : call[c].op \notin Edits
    BY <1>3, UpsertsAlone
  <2> QED
    BY <1>3, <2>1, WantedEffective
<1>4. CASE Indexed(r) /\ relDoc'[r] = relDoc[r]
  <2>1. CASE GroupsAhead(r)
    <3>1. GroupsAhead(r)' \/ Wanted(relNode[r], docGroups'[relDoc[r]])
      BY <1>0, <1>4, <2>1, AheadStep
    <3> QED
      BY <1>1, <1>2, <1>4, <3>1
  <2>2. CASE Wanted(relNode[r], docGroups[relDoc[r]])
    <3>1. Wanted(n, docGroups'[relDoc[r]])
      <4>1. CASE docGroups'[relDoc[r]] = docGroups[relDoc[r]]
        BY <1>1, <2>2, <4>1
      <4>2. CASE UpsertRecords /\ task.rel = r /\ docGroups'[relDoc[r]] = gids
        <5>1. pc = "upload" /\ task.kind = "upsert"
          BY <1>0, <4>2 DEF UpsertRecords, WorkerKnows, Upserting
        <5>2. UpsertWork
          BY <5>1 DEF UpsertWork
        <5>3. gids = Effective(n)
          BY <1>0, <1>1, <4>2, <5>1 DEF EditsKnown, UpsertCarries
        <5> QED
          BY <1>3, <4>2, <5>2, <5>3
      <4>3. CASE /\ UpdateDocumentGroupIDs /\ task.doc = relDoc[r]
                 /\ docGroups'[relDoc[r]] = task.gids
        <5>1. task.kind = "update_group_ids"
          BY <4>3 DEF UpdateDocumentGroupIDs, EditsKnown
        <5> QED
          BY <1>0, <1>1, <4>3, <5>1 DEF EditsKnown, MessageCarries
      <4> QED
        BY <1>0, <1>4, <4>1, <4>2, <4>3, DocGroupsMove
    <3> QED
      BY <1>2, <1>4, <3>1
  <2> QED
    BY <1>0, <1>4, <2>1, <2>2 DEF GroupsKept
<1>5. CASE UpdateNodeReleaseDocID /\ task.rel = r /\ relDoc'[r] = doc
  <2>1. pc = "docid" /\ task.kind = "upsert" /\ UNCHANGED docGroups
    BY <1>0, <1>5 DEF UpdateNodeReleaseDocID, NamesDocument, WorkerKnows, Upserting, ragVars
  <2>2. UpsertWork
    BY <2>1 DEF UpsertWork
  <2>3. docGroups[doc] = Effective(n)
    BY <1>0, <1>1, <1>5, <2>1 DEF EditsKnown, UpsertCarries
  <2>4. Wanted(n, docGroups'[doc])
    BY <1>3, <2>1, <2>2, <2>3
  <2> QED
    BY <1>2, <1>5, <2>4
<1> QED
  BY <1>4, <1>5, IndexedBefore

\* ... and when a request starts.
LEMMA GroupsStart ==
  ASSUME IndexInv, GroupsKept, [Next /\ Serial]_vars,
         NEW c \in Callers, Starts(c), NEW r \in rows', Indexed(r)'
  PROVE  Wanted(relNode[r], docGroups[relDoc[r]])' \/ GroupsAhead(r)'
<1>0. /\ stream = {} /\ pc = "idle" /\ (\A e \in Callers : call[e] = NoCall)
      /\ \A e \in Callers : e # c => call'[e] = NoCall
      /\ UNCHANGED <<docGroups, groups>>
      /\ \/ \E S \in SUBSET Nodes :
              CreateNodeReleases(c, S) \/ NodeRestudy(c, S) \/ NodeDelete(c, S)
         \/ \E n \in Nodes, p \in Perms, gs \in GroupIds : PermissionsEdit(c, n, p, gs)
  BY StartMoves
<1>1. NoCall.op = "idle" /\ NoCall.op \notin Edits /\ call \in [Callers -> Call]
  BY DEF NoCall, Doing, Edits, IndexInv, TypeOK, CallsType
<1>2. /\ r \in rows /\ relNode'[r] = relNode[r] /\ Indexed(r) /\ relDoc'[r] = relDoc[r]
  BY <1>0, IndexedBefore DEF UpdateNodeReleaseDocID, NamesDocument
<1>3. docGroups[relDoc[r]] = Effective(relNode[r])
  <2>1. ~GroupsAhead(r)
    BY <1>0, <1>1 DEF GroupsAhead, EditOf
  <2>2. Wanted(relNode[r], docGroups[relDoc[r]])
    BY <1>2, <2>1 DEF GroupsKept
  <2> QED
    BY <1>0, <1>1, <2>2, WantedEffective
<1>4. CASE call'[c].op \notin Edits /\ UNCHANGED perm
  <2>1. \A e \in Callers : ~EditOf(e, relNode[r])'
    BY <1>0, <1>1, <1>4 DEF EditOf
  <2> QED
    BY <1>0, <1>2, <1>3, <1>4, <2>1 DEF Wanted, Effective, EditOf
<1>5. ASSUME NEW S \in SUBSET Nodes,
             CreateNodeReleases(c, S) \/ NodeRestudy(c, S) \/ NodeDelete(c, S)
      PROVE  call'[c].op \notin Edits /\ UNCHANGED perm
  BY <1>1, <1>5 DEF CreateNodeReleases, NodeRestudy, NodeDelete, DeleteThen, Doing, Edits, nodeVars
<1>6. ASSUME NEW n \in Nodes, NEW p \in Perms, NEW gs \in GroupIds, PermissionsEdit(c, n, p, gs)
      PROVE  Wanted(relNode[r], docGroups[relDoc[r]])' \/ GroupsAhead(r)'
  <2>1. /\ call'[c].op = "latest" /\ call'[c].node = n /\ perm' = [perm EXCEPT ![n] = p]
    BY <1>1, <1>6 DEF PermissionsEdit
  <2>2. CASE relNode[r] = n
    BY <1>2, <2>1, <2>2 DEF GroupsAhead, EditOf, Edits
  <2>3. CASE relNode[r] # n
    <3>1. \A e \in Callers : ~(call'[e].op \in Edits /\ call'[e].node = relNode[r])
      BY <1>0, <1>1, <2>1, <2>3
    <3>2. perm'[relNode[r]] = perm[relNode[r]]
      BY <2>1, <2>3 DEF IndexInv, TypeOK, NodesType
    <3> QED
      BY <1>0, <1>2, <1>3, <3>1, <3>2 DEF Wanted, EditOf, Effective
  <2> QED
    BY <2>2, <2>3
<1> QED
  BY <1>0, <1>4, <1>5, <1>6

LEMMA GroupsKeptStep ==
  ASSUME IndexInv, OneAtATime, NewestOnly, EditsKnown, GroupsKept, [Next /\ Serial]_vars,
         faults' = 0
  PROVE  GroupsKept'
<1>1. ASSUME NEW r \in rows', Indexed(r)'
      PROVE  Wanted(relNode[r], docGroups[relDoc[r]])' \/ GroupsAhead(r)'
  <2>1. CASE \A c \in Callers : ~Starts(c)
    BY <1>1, <2>1, GroupsGoOn
  <2>2. ASSUME NEW c \in Callers, Starts(c)
        PROVE  Wanted(relNode[r], docGroups[relDoc[r]])' \/ GroupsAhead(r)'
    BY <1>1, <2>2, GroupsStart
  <2> QED
    BY <2>1, <2>2
<1> QED
  BY <1>1 DEF GroupsKept

LEMMA GroupsInvStep == GroupsInv /\ [Next /\ Serial]_vars => GroupsInv'
<1> SUFFICES ASSUME GroupsInv, [Next /\ Serial]_vars  PROVE GroupsInv'
  OBVIOUS
<1>1. IndexInv /\ OneAtATime /\ [Next]_vars
  BY DEF GroupsInv
<1>2. IndexInv' /\ OneAtATime'
  BY <1>1, IndexStep, OneAtATimeStep
<1>3. ASSUME faults' = 0  PROVE NewestOnly' /\ EditsKnown' /\ GroupsKept'
  <2>1. faults = 0
    BY <1>1, <1>3, FaultCounts DEF IndexInv
  <2>2. NewestOnly /\ EditsKnown /\ GroupsKept
    BY <2>1 DEF GroupsInv
  <2> QED
    BY <1>1, <1>3, <2>2, NewestStep, EditsKnownStep, GroupsKeptStep
<1> QED
  BY <1>2, <1>3 DEF GroupsInv

LEMMA GroupsInvariant == SerialSpec => []GroupsInv
<1>1. Init => GroupsInv
  <2> SUFFICES ASSUME Init  PROVE GroupsInv
    OBVIOUS
  <2>1. IndexInv
    BY IndexInit
  <2>2. /\ rows = {} /\ stream = {} /\ pc = "idle" /\ task = NoTask /\ NoTask.kind = "none"
        /\ NoTask.rel = NoRelease
        /\ \A c \in Callers : call[c] = NoCall
        /\ NoCall.op = "idle"
    BY DEF Init, NoTask, NoCall, Doing
  <2>3. OneAtATime
    BY <2>2 DEF OneAtATime, UpsertWork, Upserts
  <2>4. NewestOnly /\ GroupsKept
    BY <2>2 DEF NewestOnly, GroupsKept
  <2>5. EditsKnown
    BY <2>2 DEF EditsKnown, Edits, MessageCarries
  <2> QED
    BY <2>1, <2>3, <2>4, <2>5 DEF GroupsInv
<1>2. GroupsInv /\ [Next /\ Serial]_vars => GroupsInv'
  BY GroupsInvStep
<1> QED
  BY <1>1, <1>2, PTL DEF SerialSpec

\* With requests that wait for each other, and as long as no call failed, an
\* indexed document is filtered by the groups in the database once nothing is
\* outstanding: what NodePermissionsEdit, its message and the upserts of the
\* consumer carry is always what the database is to say.
THEOREM GroupsAreInForce == SerialSpec => []GroupsInForce
<1>1. GroupsInv => GroupsInForce
  <2> SUFFICES ASSUME GroupsInv, Quiet, faults = 0, NEW r \in rows, Indexed(r)
               PROVE  docGroups[relDoc[r]] = Effective(relNode[r])
    BY DEF GroupsInForce
  <2>1. stream = {} /\ pc = "idle" /\ \A c \in Callers : call[c].op \notin Edits
    BY DEF Quiet, NoCall, Doing, Edits
  <2>2. Wanted(relNode[r], docGroups[relDoc[r]])
    BY <2>1 DEF GroupsInv, GroupsKept, GroupsAhead, EditOf
  <2> QED
    BY <2>1, <2>2, WantedEffective
<1> QED
  BY <1>1, GroupsInvariant, PTL

=============================================================================
