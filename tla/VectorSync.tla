------------------------------ MODULE VectorSync ------------------------------
(***************************************************************************)
(* The vector index pipeline: how published snapshots of documents reach   *)
(* the RAG service, and how they leave it.                                 *)
(*                                                                         *)
(* API requests (usecase/knowledge_base.go, usecase/node.go) commit to     *)
(* PostgreSQL and then publish vector tasks on a JetStream topic.  One     *)
(* consumer (handler/mq/rag.go) takes a task, talks to PostgreSQL and to   *)
(* the RAG service in several calls, and acknowledges it.  Every database  *)
(* transaction, every RAG call and every publish is a step of its own, so  *)
(* requests and the consumer interleave between them.                      *)
(*                                                                         *)
(* Only document nodes are modelled: the consumer drops the upsert of a    *)
(* folder right after loading it.  Summary tasks, which never touch the    *)
(* index, are in NodeRelease.                                              *)
(***************************************************************************)
EXTENDS Integers, FiniteSets

CONSTANTS Nodes,        \* document nodes of one knowledge base
          NoNode,       \* not a node
          Groups,       \* user groups a node can be answerable for
          Callers,      \* API requests that may run at the same time
          MaxReleases,  \* bound on the rows ever inserted in node_releases
          MaxDocs,      \* bound on the documents the RAG service ever creates
          MaxRestudies, \* bound on the requests to learn nodes again
          MaxEdits,     \* bound on the permission edits
          MaxFaults,    \* bound on failing calls and publishes
          MaxRedeliver, \* bound on ack waits that run out
          MaxCrashes    \* bound on crashes of the consumer process

ASSUME VectorSyncAssumption ==
    /\ NoNode \notin Nodes /\ IsFiniteSet(Nodes)
    /\ MaxReleases \in Nat /\ MaxDocs \in Nat /\ MaxRestudies \in Nat
    /\ MaxEdits \in Nat /\ MaxFaults \in Nat
    /\ MaxRedeliver \in Nat /\ MaxCrashes \in Nat

ReleaseId == 1..MaxReleases     \* in the order of node_releases.updated_at
DocId     == 1..MaxDocs
NoDoc     == 0                  \* the empty doc_id
NoRelease == 0

VARIABLES
    live,       \* nodes with a row in nodes
    perm,       \* nodes.permissions->>'answerable'
    groups,     \* node_auth_groups rows of the "answerable" permission
    rows,       \* release ids with a row in node_releases
    relNode,    \* node_releases.node_id
    relDoc,     \* node_releases.doc_id
    lastRel,    \* the last release id handed out
    docs,       \* documents the RAG service holds
    docRel,     \* the release whose content a document holds
    docGroups,  \* the group_ids metadata of a document
    lastDoc,    \* the last document id handed out
    stream,     \* deliveries of vector tasks that wait for the consumer
    lastMsg,    \* the last stream sequence number
    pc,         \* the consumer: the next call of the handler
    task,       \* the consumer: the message it handles
    doc,        \* the consumer: nodeRelease.DocID, then the uploaded docID
    gids,       \* the consumer: groupIds
    old,        \* the consumer: documents it is about to delete
    call,       \* the API requests: where they are, and their locals
    restudies, edits, faults, redeliveries, crashes  \* counters that bound the instance

nodeVars   == <<live, perm, groups>>
relVars    == <<rows, relNode, relDoc, lastRel>>
ragVars    == <<docs, docRel, docGroups, lastDoc>>
mqVars     == <<stream, lastMsg>>
workerVars == <<pc, task, doc, gids, old>>
countVars  == <<restudies, edits, faults, redeliveries, crashes>>
vars == <<nodeVars, relVars, ragVars, mqVars, workerVars, call, countVars>>

-------------------------------------------------------------------------------
\* The group_ids a request carries: nil (no restriction) or a list of groups.
GroupIds == [limited : BOOLEAN, ids : SUBSET Groups]
Nil      == [limited |-> FALSE, ids |-> {}]
Only(S)  == [limited |-> TRUE, ids |-> S]

Perms == {"open", "partial", "closed"}

\* The group_ids that answerable permission p and groups S ask for.
GroupIdsFor(p, S) == IF p = "open" THEN Nil ELSE IF p = "partial" THEN Only(S) ELSE Only({})

Task(kind, Rels, Docs, Gids) ==
    [seq : Nat, again : BOOLEAN, kind : {kind}, rel : Rels, doc : Docs, gids : Gids]
Message == Task("upsert", ReleaseId, {NoDoc}, {Nil})
           \cup Task("delete", {NoRelease}, DocId, {Nil})
           \cup Task("update_group_ids", {NoRelease}, DocId, GroupIds)
NoTask  == [seq |-> 0, again |-> FALSE, kind |-> "none",
            rel |-> NoRelease, doc |-> NoDoc, gids |-> Nil]

Publish(kind, r, d, gs) ==
    /\ lastMsg' = lastMsg + 1
    /\ stream' = stream \cup {[seq |-> lastMsg + 1, again |-> FALSE, kind |-> kind,
                               rel |-> r, doc |-> d, gids |-> gs]}

\* First deliveries come in stream order; a redelivery comes whenever the ack
\* wait of its message has run out.
Deliverable(m) ==
    m.again \/ \A x \in stream : ~x.again => m.seq <= x.seq

\* GetLatestNodeReleaseByNodeIDs: of each node, the row updated last.
Latest(S) == {r \in rows : /\ relNode[r] \in S
                           /\ \A x \in rows : relNode[x] = relNode[r] => x <= r}

Indexed(r) == r \in rows /\ relDoc[r] # NoDoc

CallOps == {"idle", "publish", "restudy", "delete", "latest", "notify", "groups"}
Doing(op, todo) == [op |-> op, todo |-> todo, node |-> NoNode, gids |-> Nil, rows |-> Nil]
NoCall  == Doing("idle", {})
Todo(op) == IF op \in {"publish", "restudy"} THEN ReleaseId
            ELSE IF op \in {"delete", "notify"} THEN DocId ELSE {}
Call    == [op : CallOps, todo : SUBSET Nat, node : Nodes \cup {NoNode},
            gids : GroupIds, rows : GroupIds]

WorkerPc == {"idle", "perm", "groups", "upload", "docid", "getold", "delete",
             "setgroups", "ack"}

Init ==
    /\ live = Nodes
    /\ perm = [n \in Nodes |-> "open"]
    /\ groups = [n \in Nodes |-> {}]
    /\ rows = {}
    /\ relNode = [r \in ReleaseId |-> NoNode]
    /\ relDoc = [r \in ReleaseId |-> NoDoc]
    /\ lastRel = 0
    /\ docs = {}
    /\ docRel = [d \in DocId |-> NoRelease]
    /\ docGroups = [d \in DocId |-> Nil]
    /\ lastDoc = 0
    /\ stream = {}
    /\ lastMsg = 0
    /\ pc = "idle" /\ task = NoTask /\ doc = NoDoc /\ gids = Nil /\ old = {}
    /\ call = [c \in Callers |-> NoCall]
    /\ restudies = 0 /\ edits = 0 /\ faults = 0 /\ redeliveries = 0 /\ crashes = 0

-------------------------------------------------------------------------------
(* API requests.                                                           *)

\* A request of several publishes goes on with the rest, or is finished.
Rest(c, x) ==
    IF call[c].todo = {x} THEN NoCall ELSE Doing(call[c].op, call[c].todo \ {x})

\* CreateKBRelease, first transaction: one new release per selected node.
\* NewId numbers the new rows; the order within one call means nothing, as
\* they belong to different nodes.
CreateNodeReleases(c, S) ==
    /\ call[c] = NoCall
    /\ S # {} /\ S \subseteq live
    /\ lastRel + Cardinality(S) <= MaxReleases
    /\ LET new == lastRel + 1 .. lastRel + Cardinality(S)
       IN \E of \in [new -> S] :
            /\ \A n \in S : \E r \in new : of[r] = n
            /\ rows' = rows \cup new
            /\ relNode' = [r \in ReleaseId |-> IF r \in new THEN of[r] ELSE relNode[r]]
            /\ relDoc' = [r \in ReleaseId |-> IF r \in new THEN NoDoc ELSE relDoc[r]]
            /\ lastRel' = lastRel + Cardinality(S)
            /\ call' = [call EXCEPT ![c] = Doing("publish", new)]
    /\ UNCHANGED <<nodeVars, ragVars, mqVars, workerVars, countVars>>

\* AsyncUpdateNodeReleaseVector publishes one upsert after the other.
PublishUpsert(c, r) ==
    /\ call[c].op \in {"publish", "restudy"}
    /\ r \in call[c].todo
    /\ Publish("upsert", r, NoDoc, Nil)
    /\ call' = [call EXCEPT ![c] = Rest(c, r)]
    /\ UNCHANGED <<nodeVars, relVars, ragVars, workerVars, countVars>>

\* NodeRestudy: the latest releases that were indexed are queued again.
NodeRestudy(c, S) ==
    /\ call[c] = NoCall
    /\ S \subseteq live
    /\ restudies < MaxRestudies
    /\ restudies' = restudies + 1
    /\ LET again == {r \in Latest(S) : Indexed(r)}
       IN /\ again # {}
          /\ call' = [call EXCEPT ![c] = Doing("restudy", again)]
    /\ UNCHANGED <<nodeVars, relVars, ragVars, mqVars, workerVars, edits, faults,
                   redeliveries, crashes>>

\* NodeAction "delete": one transaction removes the nodes and all their
\* releases and returns the documents that were indexed for them.
ReleasesOf(S) == {r \in rows : relNode[r] \in S}
DocsOf(R)     == {relDoc[r] : r \in R} \ {NoDoc}

DeleteThen(c, S, out) ==
    /\ call[c] = NoCall
    /\ S # {} /\ S \subseteq live
    /\ live' = live \ S
    /\ rows' = rows \ ReleasesOf(S)
    /\ call' = [call EXCEPT ![c] = IF out = {} THEN NoCall ELSE Doing("delete", out)]
    /\ UNCHANGED <<perm, groups, relNode, relDoc, lastRel, ragVars, mqVars,
                   workerVars, countVars>>

\* Mutant: the empty doc_id of a release that is not indexed is not left out.
NodeDeleteOfEmpty(c, S) == DeleteThen(c, S, {relDoc[r] : r \in ReleasesOf(S)})

NodeDelete(c, S) == DeleteThen(c, S, DocsOf(ReleasesOf(S)))

PublishDelete(c, d) ==
    /\ call[c].op = "delete"
    /\ d \in call[c].todo
    /\ Publish("delete", NoRelease, d, Nil)
    /\ call' = [call EXCEPT ![c] = Rest(c, d)]
    /\ UNCHANGED <<nodeVars, relVars, ragVars, workerVars, countVars>>

\* NodePermissionsEdit of one node.  newRows is req.AnswerableGroups: Nil when
\* the request leaves the groups alone, never Nil for a partial permission.
\* What the message will carry is fixed by the request, not by the database.
PermissionsEdit(c, n, p, newRows) ==
    /\ call[c] = NoCall
    /\ n \in live
    /\ edits < MaxEdits
    /\ p = "partial" => newRows # Nil
    /\ edits' = edits + 1
    /\ perm' = [perm EXCEPT ![n] = p]
    /\ call' = [call EXCEPT ![c] =
                  [op |-> "latest", todo |-> {}, node |-> n, rows |-> newRows,
                   gids |-> GroupIdsFor(p, newRows.ids)]]
    /\ UNCHANGED <<live, groups, relVars, ragVars, mqVars, workerVars, restudies, faults,
                   redeliveries, crashes>>

Editing(c, op, todo) == [op |-> op, todo |-> todo, node |-> call[c].node,
                         gids |-> call[c].gids, rows |-> call[c].rows]

\* The document of the latest release gets a message, if there is one.
EditReadsLatest(c) ==
    /\ call[c].op = "latest"
    /\ LET out == DocsOf(Latest({call[c].node}))
       IN call' = [call EXCEPT ![c] = Editing(c, IF out = {} THEN "groups" ELSE "notify", out)]
    /\ UNCHANGED <<nodeVars, relVars, ragVars, mqVars, workerVars, countVars>>

EditNotifies(c) ==
    /\ call[c].op = "notify"
    /\ \E d \in call[c].todo : Publish("update_group_ids", NoRelease, d, call[c].gids)
    /\ call' = [call EXCEPT ![c] = Editing(c, "groups", {})]
    /\ UNCHANGED <<nodeVars, relVars, ragVars, workerVars, countVars>>

\* Last, UpdateNodeGroupByKbIDAndNodeIds replaces the group rows.
EditWritesGroups(c) ==
    /\ call[c].op = "groups"
    /\ groups' = IF call[c].rows = Nil THEN groups
                 ELSE [groups EXCEPT ![call[c].node] = call[c].rows.ids]
    /\ call' = [call EXCEPT ![c] = NoCall]
    /\ UNCHANGED <<live, perm, relVars, ragVars, mqVars, workerVars, countVars>>

\* A publish fails.  NodeRestudy goes on with the next node; the others return
\* the error at once and leave the rest of their work undone.
PublishFails(c) ==
    /\ call[c].op \in {"publish", "restudy", "delete", "notify"}
    /\ faults < MaxFaults
    /\ faults' = faults + 1
    /\ IF call[c].op = "restudy"
         THEN \E r \in call[c].todo : call' = [call EXCEPT ![c] = Rest(c, r)]
         ELSE call' = [call EXCEPT ![c] = NoCall]
    /\ UNCHANGED <<nodeVars, relVars, ragVars, mqVars, workerVars, restudies, edits,
                   redeliveries, crashes>>

-------------------------------------------------------------------------------
(* The consumer: HandleNodeContentVectorRequest.                           *)

Goto(where) == pc' = where /\ UNCHANGED <<task, doc, gids, old>>

\* The next delivery.  An upsert loads its release; when the row is gone the
\* task is dropped.
Receive(m) ==
    /\ pc = "idle"
    /\ m \in stream /\ Deliverable(m)
    /\ stream' = stream \ {m}
    /\ task' = m
    /\ gids' = Nil
    /\ \/ m.kind = "upsert" /\ m.rel \in rows
          /\ pc' = "perm" /\ doc' = relDoc[m.rel] /\ old' = {}
       \/ m.kind = "upsert" /\ m.rel \notin rows
          /\ pc' = "ack" /\ doc' = NoDoc /\ old' = {}
       \/ m.kind = "delete"
          /\ pc' = "delete" /\ doc' = NoDoc /\ old' = {m.doc}
       \/ m.kind = "update_group_ids"
          /\ pc' = "setgroups" /\ doc' = NoDoc /\ old' = {}
    /\ UNCHANGED <<nodeVars, relVars, ragVars, lastMsg, call, countVars>>

\* GetNodeAuthGroupIdsByNodeId reads the node ...
PermissionRead(closedGoes, closedGids) ==
    /\ pc = "perm"
    /\ LET n == relNode[task.rel] IN
         \/ n \notin live /\ pc' = "ack" /\ UNCHANGED gids
         \/ n \in live /\ perm[n] = "open"    /\ pc' = "upload" /\ gids' = Nil
         \/ n \in live /\ perm[n] = "partial" /\ pc' = "groups" /\ UNCHANGED gids
         \/ n \in live /\ perm[n] = "closed"  /\ pc' = closedGoes /\ gids' = closedGids
    /\ UNCHANGED <<nodeVars, relVars, ragVars, mqVars, task, doc, old, call, countVars>>

\* Mutant: a closed node has no groups, so no limit.
ReadPermissionNil == PermissionRead("upload", Nil)

ReadPermission == PermissionRead("upload", Only({}))

\* ... and then the group rows, joined with the node's permission of that time.
ReadGroups ==
    /\ pc = "groups"
    /\ LET n == relNode[task.rel]
       IN gids' = Only(IF n \in live /\ perm[n] = "partial" THEN groups[n] ELSE {})
    /\ pc' = "upload"
    /\ UNCHANGED <<nodeVars, relVars, ragVars, mqVars, task, doc, old, call, countVars>>

\* What the RAG service does with an upload: a new document when the request
\* has no document id, the named document otherwise.
StoredAs(named, d) ==
    /\ IF named = NoDoc THEN lastDoc < MaxDocs /\ d = lastDoc + 1 /\ lastDoc' = d
                        ELSE d = named /\ UNCHANGED lastDoc
    /\ docs' = docs \cup {d}
    /\ docRel' = [docRel EXCEPT ![d] = task.rel]
    /\ docGroups' = [docGroups EXCEPT ![d] = gids]

\* Mutant: the upload does not name the document the release already has.
StoredAnew(d) == StoredAs(NoDoc, d)

Stored(d) == StoredAs(doc, d)

UpsertRecords ==
    /\ pc = "upload"
    /\ \E d \in DocId : Stored(d) /\ doc' = d
    /\ pc' = "docid"
    /\ UNCHANGED <<nodeVars, relVars, mqVars, task, gids, old, call, countVars>>

\* The service stored the document, but the call came back with an error.
UpsertTimesOut ==
    /\ pc = "upload"
    /\ faults < MaxFaults
    /\ faults' = faults + 1
    /\ \E d \in DocId : Stored(d)
    /\ Goto("ack")
    /\ UNCHANGED <<nodeVars, relVars, mqVars, call, restudies, edits,
                   redeliveries, crashes>>

\* An UPDATE by id: without a row it changes nothing and is no error.
NamesDocument(R) ==
    /\ pc = "docid"
    /\ relDoc' = [r \in ReleaseId |-> IF r \in R \cap rows THEN doc ELSE relDoc[r]]
    /\ Goto("getold")
    /\ UNCHANGED <<nodeVars, rows, relNode, lastRel, ragVars, mqVars, call, countVars>>

\* Mutant: the update finds no row.
UpdateDocIDNowhere == NamesDocument({})

UpdateNodeReleaseDocID == NamesDocument({task.rel})

\* One transaction collects and blanks the documents of all other releases of
\* the node, the older ones and the newer ones.
OldDocsOf(others, blanked) ==
    /\ pc = "getold"
    /\ old' = DocsOf(others)
    /\ relDoc' = [x \in ReleaseId |-> IF x \in blanked THEN NoDoc ELSE relDoc[x]]
    /\ pc' = IF DocsOf(others) = {} THEN "ack" ELSE "delete"
    /\ UNCHANGED <<nodeVars, rows, relNode, lastRel, ragVars, mqVars, task, doc, gids,
                   call, countVars>>

SameNode == ReleasesOf({relNode[task.rel]})

\* Mutants: other nodes are not left out; only earlier releases are collected; the doc_ids are not blanked.
GetOldDocsOfKB    == OldDocsOf(rows \ {task.rel}, rows \ {task.rel})
GetOldDocsEarlier == LET R == {r \in SameNode : r < task.rel} IN OldDocsOf(R, R)
GetOldDocsKept    == OldDocsOf(SameNode \ {task.rel}, {})

GetOldNodeDocIDs == OldDocsOf(SameNode \ {task.rel}, SameNode \ {task.rel})

DeleteRecords ==
    /\ pc = "delete"
    /\ docs' = docs \ old
    /\ Goto("ack")
    /\ UNCHANGED <<nodeVars, relVars, docRel, docGroups, lastDoc, mqVars, call, countVars>>

\* An update of a document the service does not hold is an error, and dropped.
UpdateDocumentGroupIDs ==
    /\ pc = "setgroups"
    /\ docGroups' = IF task.doc \in docs THEN [docGroups EXCEPT ![task.doc] = task.gids]
                    ELSE docGroups
    /\ Goto("ack")
    /\ UNCHANGED <<nodeVars, relVars, docs, docRel, lastDoc, mqVars, call, countVars>>

\* Any call of the handler may fail.  The handler logs it and returns nil, so
\* the task is acknowledged all the same.
StepFails ==
    /\ pc \in WorkerPc \ {"idle", "ack"}
    /\ faults < MaxFaults
    /\ faults' = faults + 1
    /\ Goto("ack")
    /\ UNCHANGED <<nodeVars, relVars, ragVars, mqVars, call, restudies, edits,
                   redeliveries, crashes>>

Reset == pc' = "idle" /\ task' = NoTask /\ doc' = NoDoc /\ gids' = Nil /\ old' = {}

Ack ==
    /\ pc = "ack"
    /\ Reset
    /\ UNCHANGED <<nodeVars, relVars, ragVars, mqVars, call, countVars>>

\* The ack wait of a task that is queued or in the handler runs out.
AckWaitExpires(m) ==
    /\ m \in stream \cup {task} /\ m # NoTask
    /\ redeliveries < MaxRedeliver
    /\ redeliveries' = redeliveries + 1
    /\ stream' = stream \cup {[m EXCEPT !.again = TRUE]}
    /\ UNCHANGED <<nodeVars, relVars, ragVars, lastMsg, workerVars, call, restudies, edits,
                   faults, crashes>>

\* The consumer process stops inside the handler and is started again.
CrashLeaves(back) ==
    /\ pc # "idle"
    /\ crashes < MaxCrashes
    /\ crashes' = crashes + 1
    /\ stream' = stream \cup back
    /\ Reset
    /\ UNCHANGED <<nodeVars, relVars, ragVars, lastMsg, call, restudies, edits,
                   faults, redeliveries>>

\* Mutant: a task is acknowledged when it is received.
CrashAfterEarlyAck == CrashLeaves({})

ConsumerCrash == CrashLeaves({[task EXCEPT !.again = TRUE]})

-------------------------------------------------------------------------------
Consume ==
    \/ \E m \in stream : Receive(m)
    \/ ReadPermission \/ ReadGroups \/ UpsertRecords \/ UpdateNodeReleaseDocID
    \/ GetOldNodeDocIDs \/ DeleteRecords \/ UpdateDocumentGroupIDs \/ Ack

Proceed(c) ==
    \/ \E x \in call[c].todo : PublishUpsert(c, x) \/ PublishDelete(c, x)
    \/ EditReadsLatest(c) \/ EditNotifies(c) \/ EditWritesGroups(c)

Request(c) ==
    \/ \E S \in SUBSET Nodes : CreateNodeReleases(c, S) \/ NodeRestudy(c, S) \/ NodeDelete(c, S)
    \/ \E n \in Nodes, p \in Perms, S \in SUBSET Groups :
         PermissionsEdit(c, n, p, Nil) \/ PermissionsEdit(c, n, p, Only(S))

Fault ==
    \/ \E c \in Callers : PublishFails(c)
    \/ UpsertTimesOut \/ StepFails \/ ConsumerCrash
    \/ \E m \in stream \cup {task} : AckWaitExpires(m)

Next == Consume \/ Fault \/ \E c \in Callers : Proceed(c) \/ Request(c)

\* The consumer goroutine and the request goroutines run; nothing makes a user
\* send a request, and nothing makes a call fail.
Spec == Init /\ [][Next]_vars
FairSpec == Spec /\ WF_vars(Consume) /\ \A c \in Callers : WF_vars(Proceed(c))

-------------------------------------------------------------------------------
(* Properties.                                                             *)

NodesType    == live \subseteq Nodes /\ perm \in [Nodes -> Perms]
                /\ groups \in [Nodes -> SUBSET Groups]
ReleasesType == lastRel \in 0..MaxReleases /\ rows \subseteq 1..lastRel
                /\ relNode \in [ReleaseId -> Nodes \cup {NoNode}]
                /\ relDoc \in [ReleaseId -> DocId \cup {NoDoc}]
RagType      == lastDoc \in 0..MaxDocs /\ docs \subseteq DocId
                /\ docRel \in [DocId -> ReleaseId \cup {NoRelease}]
                /\ docGroups \in [DocId -> GroupIds]
StreamType   == lastMsg \in Nat /\ stream \subseteq Message
WorkerType   == /\ pc \in WorkerPc
                /\ task \in Message \cup {NoTask}
                /\ pc = "idle" <=> task = NoTask
                /\ doc \in DocId \cup {NoDoc}
                /\ gids \in GroupIds
                /\ old \subseteq DocId
CallsType    == /\ call \in [Callers -> Call]
                /\ \A c \in Callers : call[c].todo \subseteq Todo(call[c].op)
CountsType   == restudies \in Nat /\ edits \in Nat /\ faults \in Nat
                /\ redeliveries \in Nat /\ crashes \in Nat
\* Every variable keeps its type, and a request only has work of its own kind left.
TypeOK == /\ NodesType /\ ReleasesType /\ RagType /\ StreamType
          /\ WorkerType /\ CallsType /\ CountsType

\* Chat turns a retrieved chunk into a citation by looking up the release that
\* names the chunk's document (GetRankNodes).  So a document a release names
\* must be in the service, and must hold the content of that very release.
CitationsSound ==
    \A r \in rows : Indexed(r) => relDoc[r] \in docs /\ docRel[relDoc[r]] = r

\* Re-indexing swaps documents without a gap: a node that can be answered from
\* stays answerable, through failures, crashes, redeliveries and overlapping
\* publishes, until it is deleted.
HasIndexed(n) == \E r \in rows : relNode[r] = n /\ Indexed(r)
IndexNeverLost ==
    [][\A n \in Nodes : HasIndexed(n) /\ n \in live' => HasIndexed(n)']_vars

\* As long as no call fails, two snapshots of one node are in the index at the
\* same time only while an upsert of one of them is still outstanding.
OneSnapshotIndexed ==
    faults = 0 =>
      \A r, s \in rows :
        relNode[r] = relNode[s] /\ r # s /\ Indexed(r) /\ Indexed(s) =>
          \E m \in stream \cup {task} : m.kind = "upsert" /\ m.rel \in {r, s}

\* As long as no call fails and no consumer crashes, a document that nothing
\* names and nothing is about to name or remove belongs to a deleted node.
Referenced(d) == \E r \in rows : relDoc[r] = d
Leaving(d) ==
    \/ d \in old
    \/ \E m \in stream \cup {task} : m.kind = "delete" /\ m.doc = d
    \/ \E c \in Callers : call[c].op = "delete" /\ d \in call[c].todo
LeaksOnlyOfDeletedNodes ==
    faults = 0 /\ crashes = 0 =>
      \A d \in docs : \/ Referenced(d) \/ Leaving(d)
                      \/ pc = "docid" /\ doc = d
                      \/ relNode[docRel[d]] \notin live

\* The pipeline implements the index that chat relies on (AnswerIndex).
Index == INSTANCE AnswerIndex
           WITH Releases <- ReleaseId, indexed <- {r \in rows : Indexed(r)}
ImplementsIndex == Index!IndexSpec

Quiet == stream = {} /\ pc = "idle" /\ \A c \in Callers : call[c] = NoCall

\* Nothing is outstanding and no call failed: every published node is indexed.
PublishedIsIndexed ==
    Quiet /\ faults = 0 =>
      \A n \in live : (\E r \in rows : relNode[r] = n) => HasIndexed(n)

\* The metadata the node's permission asks for.
Effective(n) == GroupIdsFor(perm[n], groups[n])

\* When nothing is outstanding and no call failed, retrieval filters by the
\* groups in the database.  The permission edit promises it (docs, 4.4.2); it holds
\* for requests that wait for each other (Serial), and not for others.
GroupsInForce ==
    Quiet /\ faults = 0 =>
      \A r \in rows : Indexed(r) => docGroups[relDoc[r]] = Effective(relNode[r])

\* Requests that wait until everything before them has been handled: as an
\* action constraint of a run it explores the behaviours of SerialSpec.
Serial == \A c \in Callers : call[c] = NoCall /\ call'[c] # NoCall => Quiet
SerialSpec == Init /\ [][Next /\ Serial]_vars

\* A published snapshot is indexed in the end, unless a later one replaces it or
\* its node is deleted, as long as requests do not overlap and no task is
\* delivered twice; otherwise the older of two snapshots may be the one that stays.
Undisturbed ==
    /\ faults = 0 /\ redeliveries = 0 /\ crashes = 0
    /\ \A c, d \in Callers : call[c] # NoCall /\ call[d] # NoCall => c = d
EventuallyIndexed ==
    []Undisturbed =>
      \A r \in ReleaseId : (r \in Latest(live)) ~> (Indexed(r) \/ r \notin Latest(live))

\* A published node is answerable in the end, with one snapshot or another,
\* whatever overlaps, is delivered again, or crashes.
NodeEventuallyIndexed ==
    \A n \in Nodes : (Latest({n} \cap live) # {}) ~> (HasIndexed(n) \/ n \notin live)
-------------------------------------------------------------------------------
(* The inductive invariant behind CitationsSound, IndexNeverLost and       *)
(* ImplementsIndex; the proofs are in VectorSyncProofs.                    *)

Upserting == {"perm", "groups", "upload", "docid", "getold"}

\* Document ids are never handed out again.
DocsBounded == /\ doc <= lastDoc
               /\ \A r \in rows : relDoc[r] <= lastDoc
               /\ \A d \in DocId : d \in docs \/ Leaving(d) => d <= lastDoc

\* Releases live and die with their node.
RowsOfLive  == /\ \A r \in 1..lastRel : relNode[r] \in Nodes
               /\ \A r \in 1..lastRel : r \in rows <=> relNode[r] \in live

\* Tasks are about releases that have existed.
TasksKnown  == /\ \A m \in stream \cup {task} : m.kind = "upsert" => m.rel <= lastRel
               /\ \A c \in Callers : call[c].op \in {"publish", "restudy"} =>
                                       call[c].todo \subseteq 1..lastRel

\* A document has one name, and whoever holds one keeps it from the deleters.
OneName     == \A r, s \in rows : Indexed(r) /\ relDoc[r] = relDoc[s] => r = s
NamedStays  == \A r \in rows : Indexed(r) => ~Leaving(relDoc[r])

\* What the consumer knows between two calls of an upsert.
WorkerKnows ==
    /\ pc \in Upserting => task.kind = "upsert"
    /\ pc \in Upserting /\ doc # NoDoc => \A r \in rows : relDoc[r] = doc => r = task.rel
    /\ pc \in {"perm", "groups", "upload"} /\ task.rel \in rows => doc = relDoc[task.rel]
    /\ pc = "docid" => /\ doc \in docs /\ docRel[doc] = task.rel
                       /\ task.rel \in rows => ~Leaving(doc)
    /\ pc = "getold" /\ task.rel \in rows => doc # NoDoc /\ relDoc[task.rel] = doc

IndexInv == /\ TypeOK /\ DocsBounded /\ RowsOfLive /\ TasksKnown
            /\ OneName /\ NamedStays /\ CitationsSound /\ WorkerKnows

=============================================================================
