------------------------------- MODULE GraphSync -------------------------------
(***************************************************************************)
(* The knowledge graph in Neo4j follows the nodes in PostgreSQL: requests  *)
(* of usecase/node.go, each with the goroutine it starts after its commit, *)
(* the retries and dead letters of usecase/graph_sync.go, and the Cypher   *)
(* of store/neo4j.                                                         *)
(*                                                                         *)
(* A job is a request together with its goroutine, or an administrator's   *)
(* replay of the dead letters.  Its plan is the list of calls it is yet to *)
(* make; each call is one step, which may fail, or succeed with the answer *)
(* lost.  The process that runs the jobs may stop at any time.             *)
(*                                                                         *)
(* BELONGS_TO, CREATED_BY and the graph's copies of position and parent_id *)
(* are left out: nothing reads the copies, and only create writes those    *)
(* relations.  Users and knowledge bases are in the graph already.         *)
(***************************************************************************)
EXTENDS Integers, Sequences, FiniteSets

CONSTANTS Docs, Folders,  \* the ids that documents and folders will have
          Top,            \* the parent_id of a node that has no parent
          NoNode,         \* not an id
          Contents,       \* texts by similarity: two are related if they are equal
          Jobs,           \* requests and replays that may run at the same time
          MaxAttempts,    \* graphSyncMaxRetryAttempts
          MaxRequests,    \* bound on the requests
          MaxReplays,     \* bound on the replays
          MaxFaults,      \* bound on calls to Neo4j that fail
          MaxLosses,      \* bound on calls to PostgreSQL or NATS that fail
          MaxCrashes      \* bound on restarts of the API server

Ids     == Docs \cup Folders
Parents == Folders \cup {Top}

ASSUME GraphSyncAssumption ==
    /\ Docs \cap Folders = {} /\ Top \notin Ids /\ NoNode \notin Ids
    /\ IsFiniteSet(Docs) /\ IsFiniteSet(Folders)
    /\ Contents # {} /\ MaxAttempts \in Nat \ {0}
    /\ MaxRequests \in Nat /\ MaxReplays \in Nat
    /\ MaxFaults \in Nat /\ MaxLosses \in Nat /\ MaxCrashes \in Nat

Blank == CHOOSE c \in Contents : TRUE    \* of an id without a row or graph node

VARIABLES
    live, unused, content, parent,  \* the table nodes
    letters,   \* the rows of graph_sync_dead_letters, in the order of created_at
    pending,   \* the letters with status pending
    gnodes,    \* ids that have a node in the graph
    gcontent,  \* graph nodes: name and tokens
    contains,  \* graph: how many CONTAINS there are from a folder to a node
    related,   \* graph: pairs with a RELATED_BY_KEYWORD
    job,       \* the jobs: where they are, and their locals
    requests, replays, batchMoves, faults, losses, crashes   \* counters

pgVars     == <<live, unused, content, parent>>
letterVars == <<letters, pending>>
graphVars  == <<gnodes, gcontent, contains, related>>
countVars  == <<requests, replays, batchMoves, faults, losses, crashes>>
vars == <<pgVars, letterVars, graphVars, job, countVars>>

-------------------------------------------------------------------------------
Kinds == {"create", "update", "move", "delDoc", "delFolder"}
Calls == {"commit", "next", "load", "create", "set", "detach", "leave", "contain",
          "place", "unrelate", "relate", "letter", "resolve"}

\* What is kept of a task that failed.
Letter == [kind : Kinds, id : Ids, from : Parents, to : Parents]

\* op: what started the job.  roots, todo: of a delete, the ids that were asked for
\* and the ids still to go; of a replay, todo is the letters still to go.
Job == [op : {"idle", "create", "update", "move", "delete", "replay"},
        kind : Kinds, id : Ids \cup {NoNode}, from : Parents, to : Parents,
        text : Contents, plan : Seq(Calls), attempt : 1..MaxAttempts,
        roots : SUBSET Ids, todo : SUBSET (Ids \cup Nat), letter : Nat]

Idle == [op |-> "idle", kind |-> "update", id |-> NoNode, from |-> Top, to |-> Top,
         text |-> Blank, plan |-> <<>>, attempt |-> 1, roots |-> {}, todo |-> {},
         letter |-> 0]

If(cond, step) == IF cond THEN <<step>> ELSE <<>>

\* The calls of one attempt, as the Sync functions make them.
PlanWith(j, relations) ==
    IF j.kind = "create" THEN <<"create">> \o If(j.to # Top, "contain") \o relations
    ELSE IF j.kind = "update" THEN <<"set">> \o relations
    ELSE IF j.kind = "move" THEN If(j.from # Top, "leave") \o If(j.to # Top, "contain")
                                 \o If(j.id \in Folders, "place")
    ELSE <<"detach">>

\* Mutant: the relations of a document are added to and never cleared.
PlanKeepsRelations(j) == PlanWith(j, If(j.id \in Docs, "relate"))

Plan(j) == PlanWith(j, IF j.id \in Docs THEN <<"unrelate", "relate">> ELSE <<>>)

\* A goroutine reads the node once; a replay reads it in every attempt, also for a
\* move whose letter names no new parent.
Loads(j) == \/ j.kind \in {"create", "update"}
            \/ j.kind = "move" /\ letters[j.letter].to = Top

\* Mutant: a replay does not read the node again.
StartStale(j) == Plan(j)

Start(j) == IF j.op = "replay" /\ Loads(j) THEN <<"load">> ELSE Plan(j)

\* On to the next task of the job.
Onward(j) == IF j.kind = "delDoc" /\ j.op = "delete"
             THEN [j EXCEPT !.kind = "delFolder", !.attempt = 1, !.plan = <<"detach">>]
             ELSE IF j.todo = {} THEN Idle ELSE [j EXCEPT !.plan = <<"next">>]

\* runWithRetry and runWithRetryNoDeadLetter, after an attempt that failed ...
Again(j)   == [j EXCEPT !.plan = Start(j)]
GivenUp(j) == IF j.op = "replay" THEN Onward(j) ELSE [j EXCEPT !.plan = <<"letter">>]
Counted(j) == [Again(j) EXCEPT !.attempt = @ + 1]

\* Mutant: there is one attempt more.
RetriedPast(j) == IF j.attempt <= MaxAttempts THEN Counted(j) ELSE GivenUp(j)

Retried(j) == IF j.attempt < MaxAttempts THEN Counted(j) ELSE GivenUp(j)

\* ... and after its call succeeded.
Done(j) == IF Len(j.plan) > 1 THEN [j EXCEPT !.plan = Tail(j.plan)]
           ELSE IF j.op = "replay" THEN [j EXCEPT !.plan = <<"resolve">>]
           ELSE Onward(j)

At(g, call) == job[g].plan # <<>> /\ Head(job[g].plan) = call
Become(g, j) == job' = [job EXCEPT ![g] = j]

\* S and everything below it, as the search level by level finds it: the least set
\* that holds S and, with a node, the nodes in it.
Below(S) ==
    LET closed == {T \in SUBSET Ids : S \subseteq T /\ \A n \in live : parent[n] \in T => n \in T}
    IN  {n \in Ids : \A T \in closed : n \in T}

\* The search has no set of visited ids: below a cycle of parents it does not end.
Endless(S) == \E n \in Below(S) : n \in Below({m \in live : parent[m] = n})

Init ==
    /\ live = {} /\ unused = Ids
    /\ content = [n \in Ids |-> Blank] /\ parent = [n \in Ids |-> Top]
    /\ letters = <<>> /\ pending = {}
    /\ gnodes = {} /\ gcontent = [n \in Ids |-> Blank]
    /\ contains = [f \in Folders |-> [n \in Ids |-> 0]] /\ related = {}
    /\ job = [g \in Jobs |-> Idle]
    /\ requests = 0 /\ replays = 0 /\ batchMoves = 0
    /\ faults = 0 /\ losses = 0 /\ crashes = 0

-------------------------------------------------------------------------------
(* Requests.                                                               *)

Free(g) == job[g] = Idle /\ requests < MaxRequests

Requested(g, j) ==
    /\ requests' = requests + 1
    /\ Become(g, j)
    /\ UNCHANGED <<letterVars, graphVars, replays, batchMoves, faults, losses, crashes>>

Create(g, n, p, c) ==
    /\ Free(g)
    /\ n \in unused
    /\ p \in live \cup {Top}
    /\ unused' = unused \ {n}
    /\ live' = live \cup {n}
    /\ content' = [content EXCEPT ![n] = c]
    /\ parent' = [parent EXCEPT ![n] = p]
    /\ Requested(g, [Idle EXCEPT !.op = "create", !.kind = "create", !.id = n,
                                 !.plan = <<"load">>])

Update(g, n, c) ==
    /\ Free(g)
    /\ n \in live
    /\ content' = [content EXCEPT ![n] = c]
    /\ UNCHANGED <<live, unused, parent>>
    /\ Requested(g, [Idle EXCEPT !.op = "update", !.kind = "update", !.id = n,
                                 !.plan = <<"load">>])

\* MoveNode reads the old parent, and moves in a transaction of its own.
MoveReads(g, n, p) ==
    /\ Free(g)
    /\ n \in live
    /\ p \in live \cup {Top} /\ p \notin Below({n})
    /\ UNCHANGED pgVars
    /\ Requested(g, [Idle EXCEPT !.op = "move", !.kind = "move", !.id = n,
                                 !.from = parent[n], !.to = p, !.plan = <<"commit">>])

MoveCommits(g) ==
    LET j == job[g] IN
    /\ j.op = "move" /\ At(g, "commit")
    /\ IF j.id \in live
         THEN /\ parent' = [parent EXCEPT ![j.id] = j.to]
              /\ Become(g, IF j.from # j.to THEN [j EXCEPT !.plan = Plan(j)] ELSE Idle)
         ELSE UNCHANGED parent /\ Become(g, Idle)
    /\ UNCHANGED <<live, unused, content, letterVars, graphVars, countVars>>

\* NodeAction collects the ids for the graph, and Delete collects them again.
DeleteReads(g, S) ==
    /\ Free(g)
    /\ S # {} /\ S \subseteq live /\ ~Endless(S)
    /\ UNCHANGED pgVars
    /\ Requested(g, [Idle EXCEPT !.op = "delete", !.roots = S, !.todo = Below(S),
                                 !.plan = <<"commit">>])

\* Delete, and the index tasks; without these the goroutine does not start.
DeleteCommits(g, queued) ==
    LET j == job[g] IN
    /\ j.op = "delete" /\ At(g, "commit") /\ ~Endless(j.roots)
    /\ live' = live \ Below(j.roots)
    /\ Become(g, IF queued THEN [j EXCEPT !.plan = <<"next">>] ELSE Idle)
    /\ UNCHANGED <<unused, content, parent, letterVars, graphVars>>

\* Nothing is sent to the graph.
BatchMove(S, p) ==
    /\ requests < MaxRequests
    /\ S # {} /\ S \subseteq live
    /\ p \in live \cup {Top} /\ p \notin Below(S)
    /\ requests' = requests + 1 /\ batchMoves' = batchMoves + 1
    /\ parent' = [n \in Ids |-> IF n \in S THEN p ELSE parent[n]]
    /\ UNCHANGED <<live, unused, content, letterVars, graphVars, job, replays, faults,
                   losses, crashes>>

\* RetryDeadLetters lists what is pending.
Replay(g) ==
    /\ job[g] = Idle
    /\ pending # {}
    /\ replays < MaxReplays
    /\ replays' = replays + 1
    /\ Become(g, [Idle EXCEPT !.op = "replay", !.todo = pending, !.plan = <<"next">>])
    /\ UNCHANGED <<pgVars, letterVars, graphVars, requests, batchMoves, faults, losses,
                   crashes>>

-------------------------------------------------------------------------------
(* The jobs.                                                               *)

\* The ids that were asked for come first.
NextDelete(g, n) ==
    /\ job[g].op = "delete" /\ At(g, "next")
    /\ n \in job[g].roots \/ job[g].roots \cap job[g].todo = {}
    /\ Become(g, [job[g] EXCEPT !.todo = @ \ {n}, !.id = n, !.kind = "delDoc",
                                !.attempt = 1, !.plan = <<"detach">>])
    /\ UNCHANGED <<pgVars, letterVars, graphVars, countVars>>

\* The letters are replayed in their order.
NextLetter(g, k) ==
    /\ job[g].op = "replay" /\ At(g, "next")
    /\ \A i \in job[g].todo : k <= i
    /\ LET x == letters[k]
           j == [job[g] EXCEPT !.todo = @ \ {k}, !.letter = k, !.attempt = 1,
                               !.kind = x.kind, !.id = x.id, !.from = x.from, !.to = x.to]
       IN Become(g, [j EXCEPT !.plan = Start(j)])
    /\ UNCHANGED <<pgVars, letterVars, graphVars, countVars>>

\* GetNodeByID.  A goroutine that does not find its node ends; a replay fails.
Load(g) ==
    LET j == job[g]
        n == [j EXCEPT !.text = content[j.id],
                       !.to = IF j.kind \in {"create", "move"} THEN parent[j.id] ELSE j.to]
    IN /\ At(g, "load")
       /\ Become(g, IF j.id \in live THEN [n EXCEPT !.plan = Plan(n)]
                    ELSE IF j.op = "replay" THEN Retried(j) ELSE Idle)
       /\ UNCHANGED <<pgVars, letterVars, graphVars, countVars>>

\* What a call does to the graph.  CREATE is refused when there is a node with the
\* id, by the constraint; MERGE of a CONTAINS always adds one, as created_at is part
\* of what it looks for; a MATCH that finds nothing is no error.
Write(j) ==
    /\ gcontent' = [gcontent EXCEPT ![j.id] = j.text]
    /\ UNCHANGED <<contains, related>>

Detach(j) ==
    /\ gnodes' = gnodes \ {j.id}
    /\ gcontent' = [gcontent EXCEPT ![j.id] = Blank]
    /\ contains' = [f \in Folders |-> [n \in Ids |->
                      IF j.id \in {f, n} THEN 0 ELSE contains[f][n]]]
    /\ related' = {x \in related : j.id \notin x}

Contain(f, n, count) ==
    /\ contains' = [contains EXCEPT ![f][n] = count]
    /\ UNCHANGED <<gnodes, gcontent, related>>

Relate(pairs) == related' = pairs /\ UNCHANGED <<gnodes, gcontent, contains>>
Unrelated(n) == {x \in related : n \notin x}
Similar(n) == {{n, m} : m \in {d \in (gnodes \cap Docs) \ {n} : gcontent[d] = gcontent[n]}}

\* DeleteDocument looks among the documents only, DeleteFolder among the folders.
Matches(j, call) ==
    /\ j.id \in gnodes \/ call = "create"
    /\ call = "detach" => j.id \in (IF j.kind = "delDoc" THEN Docs ELSE Folders)
    /\ call = "contain" => j.to \in gnodes

Effect(j, call) ==
    \/ ~Matches(j, call) /\ UNCHANGED graphVars
    \/ /\ Matches(j, call)
       /\ \/ call = "create" /\ gnodes' = gnodes \cup {j.id} /\ Write(j)
          \/ call = "set" /\ UNCHANGED gnodes /\ Write(j)
          \/ call = "detach" /\ Detach(j)
          \/ call = "leave" /\ Contain(j.from, j.id, 0)
          \/ call = "contain" /\ Contain(j.to, j.id, contains[j.to][j.id] + 1)
          \/ call = "place" /\ UNCHANGED graphVars
          \/ call = "unrelate" /\ Relate(Unrelated(j.id))
          \/ call = "relate" /\ Relate(related \cup Similar(j.id))

GraphCalls == {"create", "set", "detach", "leave", "contain", "place", "unrelate", "relate"}
Refused(j) == Head(j.plan) = "create" /\ j.id \in gnodes

CallGraph(g) ==
    LET j == job[g] IN
    /\ j.plan # <<>> /\ Head(j.plan) \in GraphCalls
    /\ IF Refused(j) THEN UNCHANGED graphVars /\ Become(g, Retried(j))
       ELSE Effect(j, Head(j.plan)) /\ Become(g, Done(j))
    /\ UNCHANGED <<pgVars, letterVars, countVars>>

\* failGraphSyncTask.
WriteLetter(g) ==
    LET j == job[g] IN
    /\ At(g, "letter")
    /\ letters' = Append(letters, [kind |-> j.kind, id |-> j.id,
                                   from |-> IF j.kind = "move" THEN j.from ELSE Top,
                                   to |-> IF j.kind = "move" THEN j.to ELSE Top])
    /\ pending' = pending \cup {Len(letters) + 1}
    /\ Become(g, Onward(j))
    /\ UNCHANGED <<pgVars, graphVars, countVars>>

MarkResolved(g) ==
    /\ At(g, "resolve")
    /\ pending' = pending \ {job[g].letter}
    /\ Become(g, Onward(job[g]))
    /\ UNCHANGED <<pgVars, letters, graphVars, countVars>>

-------------------------------------------------------------------------------
(* Failures.                                                               *)

\* Neo4j fails, with or without having done what it was asked for.
GraphFails(g) ==
    LET j == job[g] IN
    /\ j.plan # <<>> /\ Head(j.plan) \in GraphCalls
    /\ faults < MaxFaults
    /\ faults' = faults + 1
    /\ UNCHANGED graphVars \/ (~Refused(j) /\ Effect(j, Head(j.plan)))
    /\ Become(g, Retried(j))
    /\ UNCHANGED <<pgVars, letterVars, requests, replays, batchMoves, losses, crashes>>

\* PostgreSQL or NATS fails.  A goroutine that cannot load its node only logs that,
\* as one does that cannot write its letter.
StoreFails(g) ==
    LET j == job[g] IN
    /\ losses < MaxLosses
    /\ losses' = losses + 1
    /\ \/ At(g, "load") /\ Become(g, IF j.op = "replay" THEN Retried(j) ELSE Idle)
       \/ (At(g, "letter") \/ At(g, "resolve")) /\ Become(g, Onward(j))
       \/ At(g, "commit") /\ Become(g, Idle)
    /\ UNCHANGED <<pgVars, letterVars, graphVars, requests, replays, batchMoves, faults,
                   crashes>>

QueueFails(g) ==
    /\ losses < MaxLosses
    /\ losses' = losses + 1
    /\ DeleteCommits(g, FALSE)
    /\ UNCHANGED <<requests, replays, batchMoves, faults, crashes>>

Crash ==
    /\ crashes < MaxCrashes
    /\ crashes' = crashes + 1
    /\ job' = [g \in Jobs |-> Idle]
    /\ UNCHANGED <<pgVars, letterVars, graphVars, requests, replays, batchMoves, faults,
                   losses>>

-------------------------------------------------------------------------------
Request(g) ==
    \/ \E n \in Ids, p \in Parents, c \in Contents : Create(g, n, p, c)
    \/ \E n \in Ids, c \in Contents : Update(g, n, c)
    \/ \E n \in Ids, p \in Parents : MoveReads(g, n, p)
    \/ \E S \in SUBSET Ids : DeleteReads(g, S)

Progress(g) ==
    \/ MoveCommits(g)
    \/ DeleteCommits(g, TRUE) /\ UNCHANGED countVars
    \/ Load(g)
    \/ CallGraph(g)
    \/ WriteLetter(g)
    \/ MarkResolved(g)
    \/ \E x \in job[g].todo : NextDelete(g, x) \/ NextLetter(g, x)

Next ==
    \/ \E g \in Jobs : \/ Request(g)
                       \/ Progress(g)
                       \/ Replay(g)
                       \/ GraphFails(g)
                       \/ StoreFails(g)
                       \/ QueueFails(g)
    \/ \E S \in SUBSET Ids, p \in Parents : BatchMove(S, p)
    \/ Crash

Spec == Init /\ [][Next]_vars

-------------------------------------------------------------------------------
(* Properties.                                                             *)

\* Every variable keeps its type: a plan holds known calls, a similar pair documents.
TypeOK ==
    /\ live \subseteq Ids /\ unused \subseteq Ids /\ live \cap unused = {}
    /\ content \in [Ids -> Contents] /\ parent \in [Ids -> Parents]
    /\ letters \in Seq(Letter) /\ pending \subseteq 1..Len(letters)
    /\ gnodes \subseteq Ids /\ gcontent \in [Ids -> Contents]
    /\ contains \in [Folders -> [Ids -> Nat]]
    /\ \A x \in related : \E m, n \in Docs : m # n /\ x = {m, n}
    /\ job \in [Jobs -> Job]
    /\ requests \in 0..MaxRequests /\ replays \in 0..MaxReplays
    /\ batchMoves \in 0..MaxRequests /\ faults \in 0..MaxFaults
    /\ losses \in 0..MaxLosses /\ crashes \in 0..MaxCrashes

Quiet == \A g \in Jobs : job[g] = Idle

\* The graph has the node if and only if PostgreSQL has it, with the same text.
Mirrored(n) ==
    /\ n \in gnodes <=> n \in live
    /\ n \in live => gcontent[n] = content[n]

Child(f, n) == n \in live /\ parent[n] = f
SimilarPairs == {{m, n} : m, n \in live \cap Docs} \cap
                {x \in SUBSET Docs : Cardinality(x) = 2 /\ \A m, n \in x : content[m] = content[n]}

\* Requests that wait until the graph has followed the one before; replays may
\* overlap with each other.  As an action constraint of a run it explores the
\* behaviours of SerialSpec.
Serial ==
    /\ batchMoves' # batchMoves => Quiet
    /\ \A g, h \in Jobs : job[g] = Idle /\ job'[g] # Idle /\ job[h] # Idle =>
          job'[g].op = "replay" /\ job[h].op = "replay"
SerialSpec == Init /\ [][Next /\ Serial]_vars

\* A node the graph does not show as it is has a dead letter that an administrator
\* can see: the retries and letters of graph_sync.go lose no failed task, however
\* calls fail, succeed unseen, and are replayed.  For requests that do not overlap;
\* a failure of PostgreSQL and a restart do lose tasks.
DivergenceOnRecord ==
    Quiet /\ losses = 0 /\ crashes = 0 =>
      \A n \in Ids : Mirrored(n) \/ \E k \in pending : letters[k].id = n

\* Without failures the graph is PostgreSQL's tree and the similar documents.
CalmMirror ==
    Quiet /\ faults = 0 /\ losses = 0 /\ crashes = 0 /\ batchMoves = 0 =>
      /\ \A n \in Ids : Mirrored(n)
      /\ \A f \in Folders, n \in Ids : contains[f][n] = IF Child(f, n) THEN 1 ELSE 0
      /\ related = SimilarPairs

\* Eventual consistency by retries and dead letters, as the thesis has it: when no
\* letter is left to replay, the graph has PostgreSQL's nodes.
NothingPendingMirrors ==
    Quiet /\ pending = {} /\ losses = 0 /\ crashes = 0 => \A n \in Ids : Mirrored(n)

=============================================================================
