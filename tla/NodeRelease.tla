------------------------------ MODULE NodeRelease ------------------------------
(***************************************************************************)
(* Drafts and published snapshots of the nodes of one knowledge base, in   *)
(* PostgreSQL: repo/pg/node.go, repo/pg/knowledge_base.go, the requests of *)
(* usecase/node.go and usecase/knowledge_base.go that write them, and the  *)
(* summary task of the consumer (handler/mq/rag.go).                       *)
(*                                                                         *)
(* A node has a draft and a status.  Publishing copies drafts into rows of *)
(* node_releases, and then records in a kb_release which rows readers see. *)
(* A transaction that locks the rows it writes is one step; reads outside  *)
(* of it, and the separate statements of a handler, are steps of their own.*)
(*                                                                         *)
(* Positions among siblings are left out: readers get them from the nodes  *)
(* themselves.  What a publish queues for the index is in VectorSync.      *)
(***************************************************************************)
EXTENDS Integers, FiniteSets

CONSTANTS Nodes,         \* the ids nodes will have
          NoNode,        \* not a node
          Bodies,        \* what a node's name, content and emoji can be together
          Summaries,     \* what a node's summary can be
          Places,        \* what a node's parent_id can be
          Callers,       \* API requests that may run at the same time
          MaxReleases,   \* bound on the rows ever inserted in node_releases
          MaxPublishes,  \* bound on the publish requests
          MaxFaults,     \* bound on failing calls
          MaxCrashes     \* bound on crashes of the consumer process

ASSUME NodeReleaseAssumption ==
    /\ NoNode \notin Nodes /\ IsFiniteSet(Nodes)
    /\ Bodies # {} /\ Summaries # {} /\ Places # {}
    /\ MaxReleases \in Nat /\ MaxPublishes \in Nat
    /\ MaxFaults \in Nat /\ MaxCrashes \in Nat

ReleaseId == 1..MaxReleases     \* in the order of node_releases.updated_at

Content  == [body : Bodies, summary : Summaries, place : Places]
Placed(x, p)     == [body |-> x.body, summary |-> x.summary, place |-> p]
Summarised(x, s) == [body |-> x.body, summary |-> s, place |-> x.place]
Blank    == CHOOSE x \in Content : TRUE   \* of an id without a row
Nowhere  == CHOOSE p \in Places : TRUE
Statuses == {"unreleased", "draft", "released"}

VARIABLES
    live,       \* nodes with a row in nodes
    unused,     \* ids no node has had yet
    draft,      \* nodes: name, content, meta, parent_id
    status,     \* nodes.status
    rows,       \* release ids with a row in node_releases
    relNode,    \* node_releases.node_id
    relContent, \* node_releases: name, content, meta, parent_id
    lastRel,    \* the last release id handed out
    kbReleases, \* rows of kb_releases, with their kb_release_node_releases
    lastStamp,  \* the time the last kb_releases.created_at was taken
    call,       \* the API requests: where they are, and their locals
    summaryTasks, \* nodes with a queued summary task
    pc,         \* the consumer: the next call of the summary handler
    node,       \* the consumer: request.NodeID
    nodeStatus, \* the consumer: node.Status as it was read
    publishes, faults, crashes  \* counters that bound the instance

nodeVars   == <<live, unused, draft, status>>
relVars    == <<rows, relNode, relContent, lastRel>>
kbVars     == <<kbReleases, lastStamp>>
workerVars == <<summaryTasks, pc, node, nodeStatus>>
countVars  == <<publishes, faults, crashes>>
vars == <<nodeVars, relVars, kbVars, call, workerVars, countVars>>

-------------------------------------------------------------------------------
\* at is the created_at of the row.
KBRelease == [at : Nat, items : SUBSET ReleaseId]

\* A request is between two of its steps: "queue" (snapshots taken, index tasks
\* to publish), "stamp", "select" and "insert" on the way to a kb_release, or
\* "move" between the read and the update of MoveNodeBetween.
CallOps == {"idle", "queue", "stamp", "select", "insert", "move"}
Call    == [op : CallOps, at : Nat, items : SUBSET ReleaseId,
            node : Nodes \cup {NoNode}, place : Places, read : Statuses]

At(op, t, items) == [op |-> op, at |-> t, items |-> items, node |-> NoNode,
                     place |-> Nowhere, read |-> "unreleased"]
Moving(n, p, st) == [op |-> "move", at |-> 0, items |-> {}, node |-> n,
                     place |-> p, read |-> st]
NoCall == At("idle", 0, {})

Become(c, x) == call' = [call EXCEPT ![c] = x]

ReleasesOf(n) == {r \in rows : relNode[r] = n}

\* DISTINCT ON (node_id) ... ORDER BY node_id, updated_at DESC
LatestOf(n) == {r \in ReleasesOf(n) : \A x \in ReleasesOf(n) : x <= r}
Latest      == {r \in rows : \A x \in ReleasesOf(relNode[r]) : x <= r}

Init ==
    /\ live = {} /\ unused = Nodes
    /\ draft = [n \in Nodes |-> Blank]
    /\ status = [n \in Nodes |-> "unreleased"]
    /\ rows = {} /\ lastRel = 0
    /\ relNode = [r \in ReleaseId |-> NoNode]
    /\ relContent = [r \in ReleaseId |-> Blank]
    /\ kbReleases = {} /\ lastStamp = 0
    /\ call = [c \in Callers |-> NoCall]
    /\ summaryTasks = {} /\ pc = "idle" /\ node = NoNode /\ nodeStatus = "unreleased"
    /\ publishes = 0 /\ faults = 0 /\ crashes = 0

-------------------------------------------------------------------------------
(* Requests that are one transaction.                                      *)

Create(n, x) ==
    /\ n \in unused
    /\ unused' = unused \ {n}
    /\ live' = live \cup {n}
    /\ draft' = [draft EXCEPT ![n] = x]
    /\ status' = [status EXCEPT ![n] = "unreleased"]
    /\ UNCHANGED <<relVars, kbVars, call, workerVars, countVars>>

\* The draft of n becomes x, under a row lock; repositioned says that the
\* request moves n among its siblings.
UpdateContent(n, x, repositioned, touched) ==
    /\ n \in live
    /\ x.place = draft[n].place
    /\ draft' = [draft EXCEPT ![n] = x]
    /\ status' = IF (x # draft[n] \/ repositioned) /\ status[n] \in touched
                 THEN [status EXCEPT ![n] = "draft"] ELSE status
    /\ UNCHANGED <<live, unused, relVars, kbVars, call, workerVars, countVars>>

\* Mutants: any edit makes a draft of the node; no edit does.
UpdateMakesDraft(n, x, repositioned)  == UpdateContent(n, x, repositioned, Statuses)
UpdateKeepsStatus(n, x, repositioned) == UpdateContent(n, x, repositioned, {})

UpdateNodeContent(n, x, repositioned) ==
    UpdateContent(n, x, repositioned, {"draft", "released"})

BatchMove(S, p) ==
    /\ S # {} /\ S \subseteq live
    /\ draft' = [n \in Nodes |-> IF n \in S THEN Placed(draft[n], p) ELSE draft[n]]
    /\ status' = [n \in Nodes |-> IF n \in S /\ status[n] = "released" THEN "draft"
                                  ELSE status[n]]
    /\ UNCHANGED <<live, unused, relVars, kbVars, call, workerVars, countVars>>

\* A node and everything below it (S) go, with all their releases.
\* kb_release_node_releases keeps its rows, which the joins of the readers skip.
Delete(S) ==
    /\ S # {} /\ S \subseteq live
    /\ live' = live \ S
    /\ rows' = {r \in rows : relNode[r] \notin S}
    /\ UNCHANGED <<unused, draft, status, relNode, relContent, lastRel, kbVars, call,
                   workerVars, countVars>>

-------------------------------------------------------------------------------
(* CreateKBRelease.                                                        *)

Number(S, new, of) == of \in [new -> S] /\ \A n \in S : \E r \in new : of[r] = n

\* CreateNodeReleases: one transaction sets the status and copies the drafts.
\* A request may also name no node, or only nodes that are gone.
CreateNodeReleases(c, S) ==
    /\ call[c] = NoCall
    /\ S \subseteq live
    /\ publishes < MaxPublishes
    /\ publishes' = publishes + 1
    /\ lastRel + Cardinality(S) <= MaxReleases
    /\ LET new == lastRel + 1 .. lastRel + Cardinality(S)
       IN \E of \in [new -> S] :
            /\ Number(S, new, of)
            /\ rows' = rows \cup new
            /\ relNode' = [r \in ReleaseId |-> IF r \in new THEN of[r] ELSE relNode[r]]
            /\ relContent' = [r \in ReleaseId |-> IF r \in new THEN draft[of[r]]
                                                  ELSE relContent[r]]
            /\ lastRel' = lastRel + Cardinality(S)
    /\ status' = [n \in Nodes |-> IF n \in S THEN "released" ELSE status[n]]
    /\ Become(c, At(IF S = {} THEN "stamp" ELSE "queue", 0, {}))
    /\ UNCHANGED <<live, unused, draft, kbVars, workerVars, faults, crashes>>

QueueUpserts(c) ==
    /\ call[c].op = "queue"
    /\ Become(c, At("stamp", 0, {}))
    /\ UNCHANGED <<nodeVars, relVars, kbVars, workerVars, countVars>>

\* created_at is taken before the transaction begins.
TakeStamp(c) ==
    /\ call[c].op = "stamp"
    /\ lastStamp' = lastStamp + 1
    /\ Become(c, At("select", lastStamp + 1, {}))
    /\ UNCHANGED <<nodeVars, relVars, kbReleases, workerVars, countVars>>

SelectItems(c, items) ==
    /\ call[c].op = "select"
    /\ Become(c, At("insert", call[c].at, items))
    /\ UNCHANGED <<nodeVars, relVars, kbVars, workerVars, countVars>>

\* Mutant: only what has never been in a kb_release is selected.
SelectUnlisted(c) ==
    SelectItems(c, {r \in Latest : \A k \in kbReleases : r \notin k.items})

SelectLatest(c) == SelectItems(c, Latest)

CommitKBRelease(c) ==
    /\ call[c].op = "insert"
    /\ kbReleases' = kbReleases \cup {[at |-> call[c].at, items |-> call[c].items]}
    /\ Become(c, NoCall)
    /\ UNCHANGED <<nodeVars, relVars, lastStamp, workerVars, countVars>>

\* A publish or a transaction of the request fails, and the request with it.
PublishFails(c) ==
    /\ call[c].op \in {"queue", "select", "insert"}
    /\ faults < MaxFaults
    /\ faults' = faults + 1
    /\ Become(c, NoCall)
    /\ UNCHANGED <<nodeVars, relVars, kbVars, workerVars, publishes, crashes>>

-------------------------------------------------------------------------------
(* MoveNode: MoveNodeBetween reads the node outside its transaction.       *)

MoveReads(c, n, p) ==
    /\ call[c] = NoCall
    /\ n \in live
    /\ Become(c, Moving(n, p, status[n]))
    /\ UNCHANGED <<nodeVars, relVars, kbVars, workerVars, countVars>>

MoveWrites(c) ==
    /\ call[c].op = "move"
    /\ LET n == call[c].node IN
         IF n \in live
           THEN /\ draft' = [draft EXCEPT ![n] = Placed(draft[n], call[c].place)]
                /\ status' = IF call[c].read = "released"
                             THEN [status EXCEPT ![n] = "draft"] ELSE status
           ELSE UNCHANGED <<draft, status>>
    /\ Become(c, NoCall)
    /\ UNCHANGED <<live, unused, relVars, kbVars, workerVars, countVars>>

-------------------------------------------------------------------------------
(* The summary task: the consumer reads the node, asks a model, and writes *)
(* the summary and the status in two statements.                           *)

Worker(where, n, st) == pc' = where /\ node' = n /\ nodeStatus' = st
Rested == Worker("idle", NoNode, "unreleased")

SummaryNode(S) ==
    /\ S # {} /\ S \subseteq live
    /\ summaryTasks' = summaryTasks \cup S
    /\ UNCHANGED <<nodeVars, relVars, kbVars, call, pc, node, nodeStatus, countVars>>

TaskBegins(n, missing) ==
    /\ pc = "idle"
    /\ n \in summaryTasks
    /\ summaryTasks' = summaryTasks \ {n}
    /\ IF n \in live THEN Worker("summary", n, status[n]) ELSE missing
    /\ UNCHANGED <<nodeVars, relVars, kbVars, call, countVars>>

\* Mutant: the handler goes on when the node is not found.
SummaryReadsNothing(n) == TaskBegins(n, Worker("summary", NoNode, "unreleased"))

SummaryReads(n) == TaskBegins(n, Rested)

UpdateNodeSummary(s) ==
    /\ pc = "summary"
    /\ draft' = IF node \in live THEN [draft EXCEPT ![node] = Summarised(draft[node], s)]
                ELSE draft
    /\ IF nodeStatus = "released" THEN Worker("status", node, nodeStatus) ELSE Rested
    /\ UNCHANGED <<live, unused, status, relVars, kbVars, call, summaryTasks, countVars>>

UpdateNodeStatus ==
    /\ pc = "status"
    /\ status' = IF node \in live THEN [status EXCEPT ![node] = "draft"] ELSE status
    /\ Rested
    /\ UNCHANGED <<live, unused, draft, relVars, kbVars, call, summaryTasks, countVars>>

\* A call of the handler fails; it logs that, and the task is acknowledged.
SummaryFails ==
    /\ pc # "idle"
    /\ faults < MaxFaults
    /\ faults' = faults + 1
    /\ Rested
    /\ UNCHANGED <<nodeVars, relVars, kbVars, call, summaryTasks, publishes, crashes>>

ConsumerCrash ==
    /\ pc # "idle"
    /\ crashes < MaxCrashes
    /\ crashes' = crashes + 1
    /\ summaryTasks' = summaryTasks \cup {node}
    /\ Rested
    /\ UNCHANGED <<nodeVars, relVars, kbVars, call, publishes, faults>>

-------------------------------------------------------------------------------
Request(c) ==
    \/ \E S \in SUBSET Nodes : CreateNodeReleases(c, S)
    \/ \E n \in Nodes, p \in Places : MoveReads(c, n, p)

Edit ==
    \/ \E n \in Nodes, x \in Content : Create(n, x)
    \/ \E n \in Nodes, x \in Content, moved \in BOOLEAN : UpdateNodeContent(n, x, moved)
    \/ \E S \in SUBSET Nodes, p \in Places : BatchMove(S, p)
    \/ \E S \in SUBSET Nodes : Delete(S) \/ SummaryNode(S)

Proceed(c) ==
    \/ QueueUpserts(c) \/ TakeStamp(c) \/ SelectLatest(c) \/ CommitKBRelease(c)
    \/ MoveWrites(c)

Consume ==
    \/ \E n \in summaryTasks : SummaryReads(n)
    \/ \E s \in Summaries : UpdateNodeSummary(s)
    \/ UpdateNodeStatus

Fault == SummaryFails \/ ConsumerCrash \/ \E c \in Callers : PublishFails(c)

Next == Edit \/ Consume \/ Fault \/ \E c \in Callers : Request(c) \/ Proceed(c)

Spec == Init /\ [][Next]_vars

-------------------------------------------------------------------------------
(* Properties.                                                             *)

NodesType == /\ live \subseteq Nodes /\ unused \subseteq Nodes \ live
             /\ draft \in [Nodes -> Content] /\ status \in [Nodes -> Statuses]
RowsType  == /\ lastRel \in 0..MaxReleases /\ rows \subseteq 1..lastRel
             /\ relNode \in [ReleaseId -> Nodes \cup {NoNode}]
             /\ relContent \in [ReleaseId -> Content]
KBType    == /\ lastStamp \in Nat
             /\ kbReleases \subseteq KBRelease
CallsType == call \in [Callers -> Call]
TaskType  == /\ summaryTasks \subseteq Nodes
             /\ pc \in {"idle", "summary", "status"}
             /\ node \in Nodes \cup {NoNode} /\ (pc = "idle" <=> node = NoNode)
             /\ nodeStatus \in Statuses
CountType == publishes \in 0..MaxPublishes /\ faults \in Nat /\ crashes \in Nat
\* Every variable keeps its type, and a node that exists is not an unused id.
TypeOK == NodesType /\ RowsType /\ KBType /\ CallsType /\ TaskType /\ CountType

\* What readers see: the items of the newest kb_release whose node is live.
Newest  == {k \in kbReleases : \A x \in kbReleases : x.at <= k.at}
Visible == {r \in ReleaseId : relNode[r] \in live /\ \E k \in Newest : r \in k.items}

\* The status of a node says which rows there are: a node is unreleased exactly
\* as long as it has no snapshot, whatever the slower writers of status read.
StatusTruthful ==
    \A n \in live : status[n] = "unreleased" <=> ReleasesOf(n) = {}

\* A node that shows as released has its name and content in its latest snapshot.
ReleasedBodyMatches ==
    \A n \in live : status[n] = "released" =>
        \A r \in LatestOf(n) : relContent[r].body = draft[n].body

\* When no publish is on its way and none failed, readers see the latest
\* snapshot of every node: overlapping publishes hide nothing.
Publishing(c) == call[c].op \in {"queue", "stamp", "select", "insert"}
PublishedIsVisible ==
    faults = 0 /\ (\A c \in Callers : ~Publishing(c)) => Latest \subseteq Visible

-------------------------------------------------------------------------------
(* The inductive invariant behind StatusTruthful, ReleasedBodyMatches and  *)
(* PublishedIsVisible; the proofs are in NodeReleaseProofs.                *)

\* Snapshots live and die with their node.
RowsOfLive == \A r \in 1..lastRel : relNode[r] \in Nodes \ unused
                                    /\ (r \in rows <=> relNode[r] \in live)

\* Who has read "released" knows that there is a snapshot.
ReadersKnow ==
    /\ \A c \in Callers : call[c].op = "move" =>
         /\ call[c].node \notin unused
         /\ call[c].read = "released" /\ call[c].node \in live
              => ReleasesOf(call[c].node) # {}
    /\ pc # "idle" =>
         /\ node \notin unused
         /\ nodeStatus = "released" /\ node \in live => ReleasesOf(node) # {}
         /\ pc = "status" => nodeStatus = "released"

\* Stamps are taken in order, each by one request.
StampsTaken ==
    /\ \A k \in kbReleases : k.at <= lastStamp
    /\ \A c \in Callers : call[c].at <= lastStamp

\* As long as nothing failed: whoever took the last stamp has all the latest
\* snapshots, or will; or somebody is yet to take a stamp.
NewestComplete ==
    \/ faults # 0
    \/ Latest = {}
    \/ \E c \in Callers : call[c].op \in {"queue", "stamp"}
    \/ \E c \in Callers : call[c].op = "select" /\ call[c].at = lastStamp
    \/ \E c \in Callers : /\ call[c].op = "insert" /\ call[c].at = lastStamp
                          /\ Latest \subseteq call[c].items
    \/ \E k \in kbReleases : k.at = lastStamp /\ Latest \subseteq k.items

ReleaseInv == /\ TypeOK /\ RowsOfLive /\ ReadersKnow /\ StampsTaken /\ NewestComplete
              /\ StatusTruthful /\ ReleasedBodyMatches

=============================================================================
