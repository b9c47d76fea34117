# MindWeave in TLA+

MindWeave is a knowledge base server with two web front ends: administrators write
documents in a tree of folders, import others, and publish them; readers search them,
ask questions that a language model answers from them, and look at a graph of them.
This directory holds TLA+ specifications of the parts of its backend and of its front
ends where several actors share state, the TLC configurations that check them on small
instances, and TLAPS proofs of the most important properties for every instance.

Paths below are relative to `src/`; in sections about the backend, to `src/backend/`.

## 1. The system

Two processes run the backend. The **API server** (`cmd/api`) answers the requests
of administrators and readers and starts goroutines of its own. The **consumer**
(`cmd/consumer`) handles tasks from NATS JetStream and runs cron jobs. They share
PostgreSQL (nodes, snapshots, users, dead letters), Redis (sessions, caches, locks),
a RAG service (documents as vectors), Neo4j (the graph) and MinIO (files).

Two React apps run in browsers. The **admin app** (`web/admin`) holds the document
editor, which saves without being asked, and the import dialog, which sends many
requests through a queue of its own. The **reader app** (`web/app`) holds the chat
panel, as a page and as a widget embedded in other sites; answers come as server-sent
events. Both apps are concurrent programs too: timers, promises and streams interleave
with what their user does, and callbacks act on the state of an older render.

```
 import dialog, editor (admin app)          chat panel (reader app)
      │ create, update, publish                  ▲ events │ question
      ▼                                          │        ▼
 admin request ──► usecase ──► PostgreSQL ◄──── chat goroutine, conversations
                      │             ▲
                      ├─► NATS vector tasks ──► consumer ──► RAG service ──► chat
                      │                           └─► language model (summaries)
                      └─► goroutine ──► Neo4j ──► graph pages
                              └─► dead letters in PostgreSQL ◄── replay
```

### Components

| component | state it keeps | operations | what is hard | what makes it correct |
|---|---|---|---|---|
| vector index pipeline | `node_releases.doc_id`, the stream of tasks, documents and their `group_ids` in the RAG service | publish, learn again, delete, permission edit; the handler of upsert, delete, update_group_ids | each handler makes up to six calls, none atomic with another; redelivery, crashes, failures are acknowledged; requests overlap | citations point to the right content; a re-index leaves no gap; nothing is left behind; retrieval filters by the stored permission |
| nodes and releases | `nodes` (draft and status), `node_releases`, `kb_releases` and their items | create, edit, move, batch move, delete, publish, summary task | two writers of the status act on an older read; publishes overlap; a time stamp decides what readers see | the status tells the truth about snapshots and content; no publish hides another |
| graph synchronisation | Neo4j nodes and relations, `graph_sync_dead_letters`, goroutines in memory | create, update, move, delete of a node; retry, dead letter, replay | goroutines of two requests are not ordered; a call may take effect and fail; an attempt repeats all calls | what the graph misses is on record; without failures it equals PostgreSQL |
| tree and positions | `nodes.parent_id`, `position` | move between siblings, reorder, collect children | float positions run out of room; overlapping moves can form a cycle | siblings have distinct positions in the order asked for; parents form a tree |
| index status of nodes | `nodes.rag_info` | events of the RAG service, hourly poll | two unversioned writers | the status shown is the last one reported |
| dataset switch | `knowledge_bases.dataset_id`, datasets | `TriggerUpsertRecords` | the old dataset goes before the new one is named | each base names a dataset that exists |
| knowledge bases and cache | rows, Redis entries without expiry, Caddy routes | create, update, delete, read through the cache | a reader may store what an update just invalidated; a deletion is several systems | the cache agrees with the row in the end |
| chat and streamed answers | conversation rows, `eventCh`, the filter's buffer | ask, stream, save, block words | the goroutine outlives its reader; rows of two answers interleave; a block word split over chunks | what was seen is saved; a reload pairs questions with their answers |
| chat panel of the reader app | list of items, ids and nonce, the answer so far, one SSE client | ask, abort, reset, feedback, events | one callback writes to "the last item" whatever stream it belongs to; closures of older renders; failures nobody hears of | a text stands under its own question; the next request names a conversation the server issued; the spinner ends |
| import dialog of the admin app | list, selection, queue and its slots, id mapping | submit, upload, parse, pull a folder, import, close | several callers share a queue; a create whose answer is lost; a dialog that closes and stops nothing | one node per document, in its folder; the list tells the truth; no spinner for ever |
| document editor of the admin app | record of the page, record and text of the editor, flags, timers | open, type, save by key, button, hiding or leaving | loads, saves and debounced updates overtake one another and fail | nothing typed is lost, mixed up or replaced by something older |
| answers for WeChat and WeCom | map of conversations: buffer, channel, mutex, flags | ask, follow, poll | mutex held over an unbuffered send; two readers share a channel; poll reads two things separately | every reader gets the whole answer and nobody waits for ever |
| long-connection bots | running bots by app | start, stop, settings change | two saves of one app | the bot that runs has the stored settings |
| accounts of readers | `auths`, lock and sessions in Redis | login by a third party | a lock that expires | one account per external identity, within the licence |
| users and access times | map of times, `users.last_access` | record, flush | read, compare and delete apart | no access is lost |
| login limits | counters and locks in Redis | attempt, reset | overlapping attempts, two expiries | the documented number of attempts |
| statistics | page views, hourly sums, `node_stats` | count, aggregate, migrate, clean up | the migration only runs in hour 0 and is not idempotent | each view is counted once |
| crawler | tasks of the anydoc service | forward, poll | slow external service | a poll ends |
| drag and document list of the admin app | the tree as last loaded | drag, reload | a drag against an older list | what is sent names siblings that exist |
| apps, conversations, comments, models, graph queries, writing, files, migrations, telemetry, routing, the other pages of both apps | rows or nothing | one request, one write or read | — | — |

How they interact: publishing (`usecase/knowledge_base.go`) inserts snapshots, queues
one vector task for each, and then records in a `kb_release` which snapshots readers
see. The consumer uploads a snapshot to the RAG service and writes the document id
into the snapshot's row; chat finds the snapshot back by that id. Saving, moving and
deleting nodes (`usecase/node.go`) commits to PostgreSQL and then starts a goroutine
that brings Neo4j up to date. Deleting also queues the removal of documents. A
permission edit writes PostgreSQL and queues new `group_ids` for the document.

The editor's saves are `UpdateNodeContent`, which `NodeRelease` sees as one edit and
`GraphSync` as one update with its goroutine; an import ends in the same creates. The
chat panel talks to `handler/share/chat.go`, whose goroutine retrieves from the index
that `VectorSync` keeps and writes the rows a reload of the panel reads.

## 2. The modules

| module | models | checked by | proved in |
|---|---|---|---|
| `VectorSync` | the vector index pipeline | `MCVectorSync` | `VectorSyncProofs` |
| `AnswerIndex` | what the pipeline promises to chat (abstract) | refined by `VectorSync` | `VectorSyncProofs` |
| `NodeRelease` | drafts, status, snapshots, what readers see | `MCNodeRelease` | `NodeReleaseProofs` |
| `GraphSync` | the graph, retries, dead letters, replays | `MCGraphSync` | `GraphSyncProofs` |
| `ChatSession` | the chat panel, its SSE client, the goroutine that answers, conversations | `MCChatSession` | `ChatSessionProofs` |
| `ImportQueue` | the import dialog and its queue | `MCImportQueue` | `ImportQueueProofs`, `ImportKeptProofs` |
| `EditorSave` | the document editor and its saves | `MCEditorSave` | `EditorSaveProofs` |
| `AnswerStream` | an answer for WeChat or WeCom and its readers | `MCAnswerStream` | `AnswerStreamProofs` |

The `MC` modules only add symmetry sets and, for `ImportQueue`, the sources to import
from. In the backend's modules one database transaction that
locks what it writes, one statement, one call of another service, and one publish are
one step each; everything between two of them is local and belongs to the step before.
In the front ends' modules one
callback is one step, with the renders and effects it brings about: JavaScript runs a
callback to its end, and `await` is where a step ends.
Every step may be followed by any step of another actor. Definitions marked *Mutant*
are variants of a definition with a bug somebody could have written; `PROJECT.json`
names the property that notices each of them.

### VectorSync

State: `live`, `perm`, `groups` are the rows of `nodes` and `node_auth_groups`; `rows`,
`relNode`, `relDoc` the rows of `node_releases` (ids in commit order, which is also
the order of `updated_at` for one node, as publishing locks the node's row); `docs`,
`docRel`, `docGroups` what the RAG service holds; `stream` the deliveries that wait;
`pc`, `task`, `doc`, `gids`, `old` the consumer with the locals of its handler; `call`
the requests with theirs.

| action | code |
|---|---|
| `CreateNodeReleases`, `PublishUpsert` | `CreateKBRelease`: one transaction, then one publish per snapshot |
| `NodeRestudy` | queues the latest snapshots that have a document |
| `NodeDelete`, `PublishDelete` | `NodeAction` and `Delete`: nodes and all their releases in one transaction, then one task per document |
| `PermissionsEdit`, `EditReadsLatest`, `EditNotifies`, `EditWritesGroups` | `NodePermissionsEdit`: permission, latest release, message, group rows, in this order |
| `Receive` … `Ack` | `HandleNodeContentVectorRequest`, call by call |
| `UpsertTimesOut`, `StepFails`, `PublishFails` | a call fails with or without effect; the handler logs it and the message is acknowledged |
| `AckWaitExpires`, `ConsumerCrash` | JetStream delivers again |

External, modelled from their use: an upload without an id makes a new document, with
an id it replaces that document; an update of an unknown document is an error that is
dropped; JetStream delivers first deliveries in order and a redelivery at any time.
The RAG service's own processing of a document after the upload is not modelled.

`AnswerIndex` has no documents, messages or consumer: snapshots are published, enter
the index one at a time, leave it only for another of their node that stays, or leave
with their node. `ImplementsIndex` maps `indexed` to the rows with a `doc_id`.

### NodeRelease

State: `draft` (body = name, content and emoji; summary; place = parent) and `status` of
the nodes; `rows`, `relNode`, `relContent` of the snapshots; `kbReleases`, with the time
stamp that decides which one readers get; the requests between two steps; the queue of
summary tasks and the handler.

Publishing is five steps: the transaction that copies drafts and sets the status, the
queueing of index tasks, taking `created_at`, the selection of the latest snapshot of
each node, and the insert. A move reads the node outside its transaction and writes
later. The summary handler reads the node, asks a model, writes the summary, and, if
the node *was* released, writes the status. Other edits, batch moves and deletes are one
transaction each and so one step. The time stamps of one API server are assumed to grow.

A summary request for one node answers at once and writes nothing, so `SummaryNode`
stands for the requests that queue tasks. Positions among siblings are left out.

### GraphSync

State: the table `nodes` (`live`, `content`, `parent`), the letters in the order they
were written and which of them are `pending`, the graph (`gnodes`, `gcontent`, the number
of `CONTAINS` from a folder to a node, the pairs with `RELATED_BY_KEYWORD`), and the jobs.

A job is a request with the goroutine it starts, or a replay. Its `plan` is the list of
calls it still has to make, each of them one step: `commit`, `load` (the goroutine's read
of the node), the writes to Neo4j, `letter`, `resolve`. `CallGraph` applies the call's
effect; `GraphFails` lets it fail with or without its effect; `Retried` starts the attempt
over, from its first call, until the attempts are used up, and then writes the letter (a
replay leaves the letter pending). What the Cypher does is in `Effect` and `Matches`:
`CREATE` is refused by the unique constraint, a `MATCH` that finds nothing is silent, and
`MERGE` with `created_at: datetime()` always adds a relation.

Similarity of documents is equality of `content`: the model needs to tell apart documents
that are related from those that are not. `BELONGS_TO` and `CREATED_BY` are written only
by create and never changed; they and the create tasks of users and knowledge bases are
left out. Inputs never move a folder below itself. Two moves that overlap still can make
a cycle of parents; the search for children then never ends, which `Endless` marks, and
the delete that would start it is not followed further.

### ChatSession

One browser and the server. Code: `web/app/src/components/QaModal/AiQaContent.tsx` (the
page), `web/app/src/views/widget/AiQaContent.tsx` (the widget), `web/app/src/utils/fetch.ts`
(the SSE client), `backend/handler/share/chat.go`, `backend/usecase/chat.go`.

State of the panel: `items` (the order of the conversation) and `obj` (the item objects,
which several arrays share), `loading`, `convId`, `nonce`, `full`, `messageId`, the phase
of each question with what its closure captured (`ask`), the fetch the client has open
(`sub`), half a line left in its buffer, and a feedback under way. State of the server:
`job` (the goroutine of each request, its channel and what is on the wire), `log`
(`conversation_messages` by creation), `convs`, and the requests refused for a blocked
word whose fixed answer is still to be saved (`blocked`).

The client builds its ids by `prev + content`; so they are sequences here, and two ids
run together show. `surface` is fixed at the start, page or widget: the two components
are near copies that differ in what a reset clears and in which failures end the spinner.

| action | code |
|---|---|
| `Enter`, `Send` | `onSearch` from Enter or a suggestion, and from the button, which aborts first |
| `Start`, `AnswerFails`, `Subscribe` | `chatAnswer`: behind `setTimeout(0)`, then captcha and uploads, then `subscribe` |
| `Abort`, `Reset`, `WidgetReset` | `handleSearchAbort`, the two `onReset` |
| `ProcessChunk` with `OnMessage` | `processChunk` and the callback, by type of event |
| `Timeout`, `StreamEnds`, `Disconnect` | the ends of a fetch; no `onError` or `onComplete` is given |
| `Score`, `ScoreDone` | `handleScore`, which writes back the list of the render it was clicked in |
| `Converse` … `SaveAnswer` | `Chat`: conversation, question, references, pieces, answer and `done`, and the failures between them |
| `Blocked`, `SaveFixed` | a question with a blocked word: its row and the error, at which the handler returns; then, with a context of its own, the row of the fixed answer, which may fail |

The server's channel of 100 events is `Room`: once the handler has returned, the
goroutine fills it and then waits for ever, which the model keeps (`CanEmit`).

`blame` is a history variable: *cut* (a stream was cut short), *overlap* (a question was
asked while another was on its way), *list* (a feedback brought an older list back),
*unheard* (a failure no callback reports), *torn* (half a line left in the buffer spoiled an event),
*late* (a row was saved for a reader who had gone), *behind* (the fixed answer to a blocked question was
saved after its connection had ended), *unborn* (the insert of the
conversation failed). Each names a way in which this code can spoil something, and each is
reachable. A property "unless *overlap*" says that this is the **only** way: it would
be violated by a bug that mixes answers of two questions asked one after the other.

What is appended to an answer in words (*Request canceled*, an error) is kept apart from its
tokens, in `note`. The send button calls `onCancel` before it asks, so the answer before gets that
note, and an id that may be empty, however long ago it ended: `FinishedStays` lets this one step do so and no
other, and keeps the tokens and references even then.

### ImportQueue

Code: `web/admin/src/pages/document/component/AddDocByType/`, with `hooks/useGlobalQueue.ts`
(`Enqueue`, `Settle`), `ListRender/Action.tsx` (`BatchImport`, `LoopNext`, `Export`,
`CreateNode`, `CreateAnswered`, `BatchParse`), `FormSubmit` and `FileParse` (`Submit…`,
`UploadEnds`, `UploadsDone`, `ParseEnds`), `ListRender/index.tsx` (`Select…`, `PullFolder`),
`index.tsx` (`Close`, `Reopen`).

State: the source (see below), the dialog (`open`, `form`, `list`, `item`, `checked`, `pulling`), the queue (`queue`,
`running`), each batch with what is left of its snapshot and its `idMapping`, and the
`nodes` of the knowledge base. `lost` and `late` are histories: creates whose answer was
lost, and answers that came when their item had left the list.

The fourteen import types of the code are four kinds: offline files, web pages, sources
that come as a whole tree, and drives whose folders are pulled one by one. They differ in
what fills the list, whether there is a selection, and in the status an item begins with.
Importing a folder replaces its id in the list and in the batch's mapping, so documents
find their folder by whichever of the two they still name.

`Close` empties the list and stops nothing; after `Reopen` the form is there again and takes
another submission (`FormShown`), while uploads, parsing, pulls and batches of the one before go on.
The items are the entries of all these lists: `pull` says which submission lists an item, `under` is its
folder and `key` its id in the source. Two entries of one source have different uuids and the same key,
and the code finds an entry by its uuid but its folder by its key. So the answer about a folder of the first pull takes
the documents of the second pull to *its* node, and the batch that imports these knows only the node it made itself,
and puts them beside the folder. `Astray` is an item that this happened to. The properties say that it is the
only way out of the tree: the node is always one of the same folder, and without it a document stays with its folder.

### EditorSave

Code: `web/admin/src/pages/document/editor/`: `index.tsx` (`onSave`, the page's record),
`edit/index.tsx` (`getDetail`), `edit/Wrap.tsx` (the editor), `Catalog` (the clicks), and
`UpdateNodeContent` of the backend, which writes each field of the request on its own.

State: `node` (PostgreSQL), `url`, `loading`, the GETs under way, `detail` (the record the
editor is given), `nodeDetail` (the page's), `wrap` (the editor: text, summary, what it
compares with, its flag and the record its memoised callbacks keep), `timers`, and the
PUTs under way. `last` is the history of what was last typed.

| action | code |
|---|---|
| `Open` | a click in the catalogue: the effect on the id saves an editor of another document (`ShowsOther`), typed or not, and asks for the document |
| `Loaded`, `NotLoaded` | `getDetail`; nothing asks whether the document is still wanted |
| `TypeText`, `TypeTitle`, `TypeSummary` | `onUpdate`, and the two inputs with their debounced updates |
| `Shortcut`, `SaveButton`, `SaveAnswered`, `Hide`, `SaveAgain` | `changeCatalogItem`, `handleSave`, `visibilitychange`, and a render while address and record differ |
| `Fire`, `SummaryAnswered` | the debounced updates and the answer to the summary |
| `Update`, `NotUpdated` | one request reaches the server, in any order, or fails |
| `Leave` | the link to the history of versions: the editor goes, nothing is saved |

`odd` names what went wrong on the way: *left* (left to the history with unsaved text),
*late* (an answer for another document or an older render came), *back* (a failed GET
brought the old record back), *early* (a document was read before an update of it had
landed), *overtaken* (one update passed another), *failed* (one failed), *during* (something was
typed while the save button waited), *reset* (the answer to a summary put an older
title back). As above, the properties say that nothing **else** loses or mixes what was typed.

Assumed of the editor component (`@ctzhian/tiptap`, external): it takes content only when it is
created or set, and hands out a new object at each render, so its callbacks are current.

### AnswerStream

Code: `SendQuestionToAI` in `pkg/bot/wechat`, `pkg/bot/wechatservice` and `usecase/wecom.go`
(three near copies), `GetWechatAnswer` in `handler/share/wechat.go`, the page
`web/app/src/views/h5Chat`, and the polls in `HandleMsg` of `usecase/wecom.go`. The chat
that produces the answer is `ChatSession`'s goroutine, seen from its channel: pieces, then
the end, with the row saved or not.

State: what the chat has told (`told`, `outcome`, `row`), the goroutine (`taken`,
`writer`), the `ConversationState` it shares (`mutex`, `written` for its buffer, `visited`,
`done`, `closed` for its channel), whether `ConversationManager` still has it (`managed`),
and each reader: `handler` and `page` of a visit, or a `poll`. Pieces are numbered, so a text
shows what is missing or doubled. The channel has no room: `Send` is one step of the
goroutine and a handler, and the mutex stays locked until it happens.

| action | code |
|---|---|
| `Take`, `Write`, `Send`, `Close`, `Forget`, `MarkDone` | the loop of `SendQuestionToAI` and its deferred function; WeChat forgets the state, WeCom keeps it for the next poll |
| `Visit`, `CatchUp`, `Done`, `Leave` | the handler of a page: the buffer under the mutex, then the channel, then its deferred function |
| `FromDatabase` | a visit after the state was forgotten |
| `Refused`, `Stop`, `Break` | a page that stops or is gone, and a handler whose write fails |
| `PollLoads` … `PollAnswers` | a poll: text under the mutex, `IsDone` twice without |

`odd` names what the readers and the network did: *together* (a page caught up while the handler of
another had not returned, as after a reload in the middle of an answer: pieces then go to one
of the two), *slipped* (a piece was written between a poll's reading of the text and of
`IsDone`), *broken* (a write of a handler failed: it then waits for the mutex while
the goroutine sends with the mutex locked, or it returned with the mutex locked). Each is
reachable, spoils what the properties promise, and is the only thing that does.

## 3. The runs

All run with two workers in about three minutes at most. `import_dialog` checks for deadlock
(its user can always go on); the other instances may come to rest, because their bounds
on requests are used up or their user stops, and say `CHECK_DEADLOCK FALSE`.

| run | instance | result |
|---|---|---|
| `vector_index` | 2 nodes, 2 overlapping requests, 2 releases, 1 re-learn, 1 failing call, 1 redelivery, 1 crash; symmetry | 2.3 million states: `TypeOK`, `CitationsSound`, `OneSnapshotIndexed`, `LeaksOnlyOfDeletedNodes`, `PublishedIsIndexed`, `ImplementsIndex` hold |
| `vector_live` | 1 node, 2 overlapping requests, 1 redelivery, 1 crash, fair | 176 000 states: `NodeEventuallyIndexed`, `EventuallyIndexed` hold |
| `vector_serial` | 1 node, 2 groups, 2 permission edits, requests that wait for a quiet pipeline | 288 000 states: `GroupsInForce` holds |
| `release_status` | 1 node, 2 bodies, 2 requests, 2 publishes, 1 fault, 1 crash | 193 000 states: `TypeOK`, `StatusTruthful`, `ReleasedBodyMatches` hold |
| `release_publish` | 2 nodes, 2 requests, 2 publishes, 3 snapshots | 615 000 states: `PublishedIsVisible` holds |
| `graph_serial` | 2 documents, 1 folder, 2 contents, 3 requests, 2 overlapping replays, 2 attempts, 2 failing calls, 1 lost write, 1 crash; symmetry | 542 000 states: `TypeOK`, `DivergenceOnRecord`, `CalmMirror` hold |
| `graph_race` | 1 document, 1 folder, 2 jobs, no failure | `NothingPendingMirrors` is violated |
| `chat_panel` | 2 questions, 1 piece of answer, room for 2 events, 2 on the wire, 1 abort, reset or failure; page and widget, with and without a history; fair | 2.2 million states: `TypeOK`, `OwnAnswer`, `ConversationUsable`, `FeedbackNamesOwnAnswer`, `SeenIsSaved`, `HistoryPairsTrue`, `FinishedStays`, `LoadingEnds` hold |
| `import_dialog` | 3 items in nine sources, listed by one or two pulls, 2 slots, 2 batches, any request fails, any answer is lost; fair | 1.1 million states: `TypeOK`, `LimitUsedInFull`, `OneNodeEach`, `ListTellsTruth`, `SameBatchStaysTogether`, `ListStaysTree`, `PageMissesOnlyLate`, `SpinnersEnd` hold |
| `editor_tab` | 2 documents, 2 things typed, 3 clicks, 1 failing request, 2 updates under way; symmetry | 4.0 million states: `TypeOK`, `NothingLost`, `OwnDocument`, `HidingSaves`, `NeverBack` hold |
| `answer_stream` | 3 pieces, room for 2, 2 visits or 2 polls, any break, stop, error; fair | 75 000 states: `TypeOK`, `WholeAnswer`, `AllEnd` hold |
| `editor_title` | 1 document, 2 things typed, no failure | `TitleKept` is violated |

### Why the bounds are enough

* **Two snapshots of one node** are what re-indexing is about: one that is in the index and
  one that replaces it. The second node shows that an upsert leaves others alone. Two
  requests give every overlap of a publish with a publish, a delete or a re-learn. One
  redelivery and one crash already reach every point of the handler. `MaxDocs` is so
  large that an upload is never held up by it, and messages are bounded by the requests.
* **Two attempts** with **two faults** let a task of a goroutine go to a letter; one fault
  with an attempt left exercises the retry. With two replays and one letter both the replay that
  resolves and the one that comes too late happen.
* **Two bodies** tell a changed draft from an unchanged one; two publishes and a third
  snapshot let each publish select what the other has or has not committed.
* **Two questions** are the least that can be mixed up, with a shared list, a shared buffer and a
  shared callback; the history is a third item. One trouble is enough to leave half a line, a
  message id or a goroutine behind for the second question. A channel of two makes the goroutine of
  a reader who left wait in the middle of an answer.
* **Three items** allow a folder with two documents and a folder in a folder; with two slots
  something always waits, and two batches overlap on the same folder. With two pulls an old folder is
  in flight while the new list holds it again, and a document in it; a file or page listed twice beside another. Failures are not
  bounded: every request may fail each time it is tried.
* **Two documents** and **three clicks** go there and back again, before the first save has landed;
  two typings are an older and a newer value of one field, or two fields; two updates under
  way can overtake one another. `MaxOdd` lets the reader go on after one kind of mishap:
  after a second one only what is under way still comes in, as each property is about
  histories without, or with few, kinds of mishap.
* **Three pieces**, two visits: one piece before a page catches up, one while it follows, one after it
  left and another came. Polls are independent of one another but for the state the first may forget.
* Unbounded counters of the code that are bounded here: releases, documents, publishes,
  requests, replays, re-learns, edits, questions, pulls, batches, typings, clicks, pieces. Bounds on failures,
  redeliveries, losses and crashes limit how often the environment interferes, never what it does.

### Serial runs

`Serial` is an action constraint: a request starts only when everything before it is
finished (in `GraphSync`, replays may overlap with replays). What a run explores under it are the
behaviours of its module's `SerialSpec`, of which the theorems about `GroupsInForce`, `DivergenceOnRecord` and
`CalmMirror` speak. The three hold only for such histories; `graph_race` shows what overlap does to the
stronger wish behind the second. The runs say precisely how much order the code needs and does not enforce.

### Where the code and its documents disagree

| run | what happens |
|---|---|
| `graph_race` | A create and an update of a node overlap: the goroutine that read first writes last, and no letter tells. |
| `editor_title` | The answer to a typed summary is handled by a callback of the editor's first render, which puts the page's record back to the title it had then. The next save stores the old title over the new one. |

Observed while modelling, without a run of its own: an upsert removes the documents of *all*
other releases of the node, also of newer ones when it is delivered again behind them
(the node stays answerable all the same); a permission edit while the node's upsert is between
its read of the groups and its write of `doc_id` finds no document to notify (`usecase/node.go:717`),
and the upsert stores the old groups, so without `Serial` `GroupsInForce` does not hold; the summary handler decides by the status it read before it
asked the model, so a publish in between leaves a released node with an unpublished
summary; the readers' tree shows the draft's summary; a document created in a folder whose own
create failed never gets its `CONTAINS`, though the folder's letter is replayed;
the fixed answer to a blocked question is stored after its reader was told, so that a quick next question takes its place in the
history (`usecase/chat.go:191`); the send button marks the answer before as cancelled (`AiQaContent.tsx:1235`); a folder
that is pulled and imported again while its first import still runs loses its documents to the folder's parent (`ListRender/Action.tsx:217`).

## 4. Fairness

`VectorSync!FairSpec` is weak fairness of `Consume` (the consumer's goroutine runs, and
its process is restarted after a crash) and, for each request, of `Proceed` (a request
that has begun goes on to its next step). Nothing makes a user send a request, and no
failure is ever forced. Fairness of `Consume` as a whole is enough because the consumer is
sequential and finitely many tasks are queued. `NodeEventuallyIndexed` needs no failed
call, because a failed upsert is acknowledged and not repeated; `EventuallyIndexed` also
asks that nothing is delivered twice and that requests do not overlap, for otherwise the
older of two snapshots can be the one that stays.

`ChatSession!Fairness` is weak fairness of `Start` (a `setTimeout(0)` fires), of the end of
captcha and uploads in one way or the other, of `Timeout` (the five minutes of `subscribe`
pass), and of the arrival of what the server has written and closed. Nothing is assumed of
the reader, who need not abort, nor of the server, whose model may never answer:
`LoadingEnds` rests on the client's own timer.

`ImportQueue!Fairness` is weak fairness of the end of a request about an item (the browser
or the server ends it; `pollCrawlerResults` has a last attempt) and of what a promise does
next (`LoopNext`, `UploadsDone`, `FormDone`). Requests may always fail.

`AnswerStream!Fairness` is weak fairness of the goroutine and of each handler: Go runs what can
run, and a mutex that stays free is locked by who waits for it. Of the language model, the
readers and WeCom nothing is assumed; `AllEnd` begins when the chat has ended, which its
context's time limit sees to.

`NodeRelease`, `GraphSync` and `EditorSave` state safety only. What the editor promises is that
nothing is lost *at any moment*, closing the tab included, which is an invariant.

## 5. The proofs

`tlapm` proves every obligation of `VectorSyncProofs`, `NodeReleaseProofs`, `GraphSyncProofs`,
`EditorSaveProofs`, `AnswerStreamProofs`, `ImportQueueProofs`,
`ImportKeptProofs` and `ChatSessionProofs`. Every invariant and every action property that a passing run checks is
stated by a theorem. The only assumptions are `VectorSyncAssumption`, `NodeReleaseAssumption`, `GraphSyncAssumption`,
`BoundsAssumption` and `NoneAssumption` of `EditorSave`, `BoundsAssumption` of `AnswerStream` and of `ChatSession`, and
`NAssumption`, `LimitAssumption` and `SourcesAssumption` of `ImportQueue`: bounds are naturals, the set
of nodes is finite, no id is both a document's and a folder's, value sets are not empty, the null value is no node,
document or record, the queue has a slot and a task an attempt, and what is imported from is a forest. TLC evaluates them in the runs.

| theorem | for all instances |
|---|---|
| `VectorSyncProofs!TypeCorrect` | `Spec => []TypeOK` |
| `VectorSyncProofs!CitationsAreSound` | a document a release names is in the service, with this release's content |
| `VectorSyncProofs!IndexIsNeverLost` | an answerable node stays answerable until it is deleted |
| `VectorSyncProofs!PipelineImplementsIndex` | `Spec => Index!IndexSpec` |
| `VectorSyncProofs!SnapshotsAreSwapped` | two snapshots of a node are indexed together only while an upsert of one is outstanding |
| `VectorSyncProofs!PublishedBecomesIndexed` | at rest and without failures, each published node that lives is indexed |
| `VectorSyncProofs!OnlyDeletedNodesLeak` | a document nobody will remove any more belongs to a deleted node |
| `VectorSyncProofs!GroupsAreInForce` | `SerialSpec => []GroupsInForce`: retrieval filters by the groups in the database |
| `NodeReleaseProofs!TypeCorrect` | `Spec => []TypeOK` |
| `NodeReleaseProofs!StatusIsTruthful` | unreleased if and only if there is no snapshot |
| `NodeReleaseProofs!ReleasedBodiesMatch` | a released node's body is the one of its latest snapshot |
| `NodeReleaseProofs!PublishedIsSeen` | overlapping publishes hide nothing |
| `GraphSyncProofs!TypeCorrect` | `Spec => []TypeOK` |
| `GraphSyncProofs!EveryDivergenceOnRecord` | `SerialSpec => []DivergenceOnRecord`: what the graph misses has a letter |
| `GraphSyncProofs!CalmGraphMirrors` | `SerialSpec => []CalmMirror`: without failures the graph is PostgreSQL's tree |
| `EditorSaveProofs!TypesHold`, `TypeCorrect` | `Spec => []Types` and `Spec => []TypeOK` |
| `EditorSaveProofs!EachItsOwn` | what is stored or sent of a document was typed for it; the editor shows the document of the address |
| `EditorSaveProofs!NothingIsLost` | what was last typed is stored, on its way, in a timer or in the editor |
| `EditorSaveProofs!HidingIsSafe` | a text that would be left unsaved when the tab is hidden is marked as edited |
| `EditorSaveProofs!StoredNeverGoesBack` | no step stores an older value over a newer one |
| `ChatSessionProofs!TypeCorrect` | `Spec => []TypeOK` |
| `ChatSessionProofs!EachAnswerIsOwn` | the pieces of an answer are its own, in order |
| `ChatSessionProofs!AFinishedAnswerStays` | only the send button adds its note to an answer that is finished, and no step changes its tokens and references |
| `ChatSessionProofs!WhatIsSeenIsSaved` | an answer seen finished is whole and saved after its question |
| `ChatSessionProofs!FeedbackIsOwn` | a feedback names the message of its own answer |
| `ChatSessionProofs!ConversationStaysUsable` | the ids sent next are a pair the server issued |
| `ChatSessionProofs!HistoryIsTrue` | a reload pairs each question with its own answer, unless a row was saved after its request had ended |
| `ChatSessionProofs!SpinnerIsOwed` | a spinner has somebody who will end it |
| `AnswerStreamProofs!TypeCorrect` | `Spec => []TypeOK` |
| `AnswerStreamProofs!AnswerIsWhole` | who is told the end of an answer has the whole of it |
| `AnswerStreamProofs!NobodyIsBlocked` | the mutex is free, or its owner sends to a handler that is there |
| `ImportQueueProofs!TypeCorrect` | `Spec => []TypeOK` |
| `ImportQueueProofs!LimitKept` | the queue keeps its limit and leaves no slot empty while a task waits |
| `ImportQueueProofs!OneNode` | a second node of a document only after a lost answer |
| `ImportKeptProofs!ListIsTrue` | the list tells the truth about the knowledge base |
| `ImportKeptProofs!BatchStaysTogether` | nothing is in a wrong folder; what one batch creates after its folder is in it, but for items an older pull's answer took away |
| `ImportKeptProofs!PageMisses` | a closed dialog leaves a page that misses only what was late, lost or under way |
| `ImportKeptProofs!TreeStays` | each item listed has its folder's id as its parent, or that of the node an older pull made of the same folder |
| `ImportKeptProofs!SpinnersAreOwed` | each spinner has a request, or a running batch that has its item still to do |

**The index.** `CitationsSound` is not inductive: the consumer deletes documents it
collected some steps ago, and uploads into one whose id it read some steps ago.
`IndexInv` adds what rules the bad orders out. `OneName` and `NamedStays`: no two rows name
one document, and no document that a row names is in a delete task, in a request's list
of tasks to send, or in the set the consumer is about to remove. `DocsBounded`: the service
never hands out an id again. `RowsOfLive`: releases live and die with their node.
`WorkerKnows`: what the handler's locals mean at each `pc`; in particular between upload and
`doc_id` the document exists, holds the task's release, and nobody else is removing it.
Every action preserves each part; refinement and `IndexNeverLost` then follow step by
step: only `UpdateNodeReleaseDocID` adds to the index, only `GetOldNodeDocIDs` supersedes,
and at that point the task's own release is indexed.

**At rest, everything is indexed.** `PublishedIsIndexed` speaks of a pipeline at rest; `SettledInv` of every
state. `IndexOwed`: a published node is indexed or has an upsert that waits, runs, or is still to be
published. `SwapsAhead`: of two indexed snapshots one still has its swap ahead. Both hold as long as no call
failed: an upsert leaves the pipeline only after `GetOldNodeDocIDs`, or when its release is gone, and a
crash puts it back. `AccountInv` does the same for documents: `HandsKnown` says what the consumer holds of
those it will remove and of the one it has not named yet.

**The groups.** Without `Serial` `GroupsInForce` does not hold, so the theorem is about `SerialSpec`.
`OneAtATime`: one request at a time, and no upsert beside a permission edit. `NewestOnly`: only the newest
release of a node is ever about to be indexed, so that an edit, which reads the latest release, does not
miss a document. `EditsKnown`: what an edit, its message and an upsert carry is what the database says
or is about to say. `GroupsKept`: a document has these groups, or an edit on its way gives them.

**The status.** A move and the summary task write `draft` on the strength of an old read.
`ReadersKnow` is the reason that this is harmless to `StatusTruthful`: who has read
*released* knows that there is a snapshot, and snapshots only go with their node, whose id
is not used again (`RowsOfLive`).

**Publishes.** `NewestComplete` says who is responsible: as long as nothing failed, the
latest snapshots are all in the `kb_release` with the last stamp, or whoever holds that
stamp has selected them or has yet to select, or somebody has yet to take a stamp.
`StampsTaken` bounds the stamps. When nobody is publishing only the first case is left.

**The editor's documents.** `onSave` takes the text from the editor and the document from the
page's record, and each can be of another document. `Own` says when they agree: as long as no
answer came late (`InTime`), what is stored, every request, every timer, the record of the page, the
record the editor is given, the text in the editor and the record its memoised callbacks keep are of
the document they name, and page, editor and callbacks name the same one. `UrlOwn` ties that
document to the address. `Types` has what a step needs besides: a load is waited for
only while the address names a document, and the editor is shown exactly when there is a record
and no skeleton.

**Nothing is lost.** `NothingLost` is not inductive: an update under way may carry the last value
and be followed by one that carries an older. So a field of a document *stands* when it is *landed*: once all
that is under way is written in the order it was sent, it holds its last value. `Kept` is `Own` and two
parts. As long as nothing is odd but a *reset*, `Texts`: no timer holds a text (`TimersPlain`), the editor has the last
text (`TextLast`), what the save button waits for stands if it is still the text (`HeadersLast`), and a text that is not
in the editor stands (`TextsStand`). As long as nothing is odd at all, `Titles`: timers and the page's title are the last values (`TimersLast`,
`TitleLast`), and a title or summary stands or is in a timer (`MetasStand`). Lemmas on sequences of requests
say what keeps a value landed: one is appended, one that does not carry the field is removed, the first that
carries it is written. The actions that would break it are those that make something odd.

**Hiding the tab.** `HidingSaves` follows from `Texts`, which a reset does not disturb: it puts back the
record of the page, not the editor's text. What is needed besides is in `TextLast`: a text equal to the *initial* one, against which
`Differs` compares, stands without the editor, and any other is marked as edited.

**Never back.** For `NeverBack` the last value does not matter, but the order does. `Ordered`: the requests under way that
carry a field do so in the order of typing, none older than what is stored (`WireOrdered`); what a timer or a save would send
is at least as new (`TimerOrdered`, `EditorOrdered`), and there is one timer for each field of a document
(`OneTimer`), without which two could end in the wrong order. It survives a failed request, a missed answer and an
editor that was left, after which something is lost, but nothing goes back.

**Whose answer it is.** The panel keeps `fullAnswer`, `messageId` and the pair of conversation ids in variables that
outlive a question. `WireInv` says what may be on the wire at each step of the goroutine (`Shape`: the pair first, then the
message id, tokens, one last event), which connection is whose (`Connected`), and that the half line an abort leaves in the buffer
can only meet the first event of a stream (`BufferFresh`). `OneQuestion`: as long as no two questions overlap, what is under way
is the newest one. `PanelInv` adds, as long as nothing mixed, that the last item is that question's
(`LastIsNewest`) and that what the client has and what is on the wire make up what the goroutine has sent: the tokens
(`Told`), and the message id, which comes before *done* (`IdTold`). `OwnAnswer`, `FeedbackNamesOwnAnswer`, `SeenIsSaved`
and `FinishedStays` follow from it; for the second, a torn line may at worst leave an answer without its id.
For the last, `SpinsOn`: while the spinner is shown the last item is not finished, so an abort, a reset or the timer cannot write to
a finished answer. The send button is shown when there is no spinner, and can.

**The conversation and its history.** `PairInv`: the pair the next question will carry was issued together
(`Usable`), or its second half is still on the wire (`PairTold`). `RowsInv`: as long as no row is saved after its request
has ended, a question whose answer is awaited, streamed or fixed (`Awaits`), is the last row of the conversation, so that its answer's row
comes right after it.

**The whole answer.** `WholeAnswer` says nothing of a page that is still loading. `Answering`
does: at most one handler follows, `IsVisited` is set as long as it does, and its open page has exactly
what the *buffer* has (`PagesFollow`), so that the next piece is the one it lacks, whether the
goroutine waits for the mutex or for the channel. `Ends` ties the closed channel, `IsDone`, the
forgotten state and a visit of the database to the end of the chat; `Ways` keeps polls and pages
of different questions apart, so that no send can come between two reads of a poll; `Polling` says that
a poll has what the buffer has until it answers.

**The import.** The limit is a fact about counting: `EnqueueKeeps` and `SettleKeeps` show that pushing
any number of tasks, and the end of one, keep it, provided that no two tasks are equal, for `running` is
a set. So `QueueInv` carries `OneTask`: one upload or parsing per item, one task per batch. That the tasks
pushed are new rests on `ListOK`, where the status of a listed item says which requests it has, and on
`PhaseOK`, the order in which a kind of source goes through uploads, parsing and imports. `OneNodeEach`
is not inductive, as a batch creates from a snapshot: `TodosOK` says that an item waits in one batch at
a time, once, and `NodesOK` that a node whose answer was not lost is under way, or its item is in no batch
and called imported for as long as it is listed, so that no batch takes it again.

**The list, the folders and the page.** `IdsOK` ties the id of an imported item to its node. A document names its folder by
the source's id or by the node's, and a batch only knows the folders it created. `ParentsOK`
says that an item which does not name its folder by the source's id was moved to an answered node of it, or of another pull's entry
of it (`Moved`), and of what a batch has noted that such a node is none of its own (`NotedOK`); `MapsOK` that the mapping has for every
answered node of a folder the batch created this node or a later one of the same folder. Together they are what `CreateNode` needs. `WaitOK`: while a drive
is asked for its folders, nothing that is listed has been imported, as the answer takes the list's place. `PageOK` adds to the page's
property what holds while the dialog is open: a node that is missing belongs to a listed item, whose status then makes
`Close` refresh the page; and once it is closed nothing listed is in a batch, so that later answers are late.

**The tree shown.** An import gives a folder a new id, and the documents of a drive's folder may be listed long after
other things were imported. So `TreeOK` says of what may *still* be listed (`Unlisted`: the source has not answered its pull, or
not for its top-level folder) that it is as the source gave it (`Pristine`), which is enough because a folder whose documents were not asked for
is in no batch. That an item is listed with the top-level folder of its own folder needs the equation that `Top` is defined by.
It is proved without induction: the top of an item is in every set that has the item and, with an item, its folder,
and this description satisfies the recursion (`TopIs`).

**The graph, calls and letters.** Every call to Neo4j may fail, or take effect with its answer lost, and is repeated with the
whole task. `Types` has the shape of a plan: one call, or calls to the graph that belong to the kind of the task
(`JobOK`). `SerialInv` is about histories in which requests wait for one another (`OneAtATime`), though replays overlap with replays.
Ids are used once (`IdsUsedOnce`), parents are there (`ParentsLive`), and what a
job has read is still so (`ReadsHold`). `WritesHold`: what a task has written is in the graph until it is done, as the replays
beside it write what PostgreSQL has, too; so a letter is resolved only when what it stands for is there. `Explained` then says of each kind of difference who answers
for it at every moment: a pending letter *of the kind that would mend it*, or a goroutine that has still to come to it. Once nothing runs
only letters are left.

**The graph, without failures.** `CalmInv` says what the graph is between the calls of a job. `Shape` lists what can be left of
a plan, by the kind of the job (`Creating`, `Updating`, `Moving`, `Removing`); `Fits` says what then is missing or left over: nodes, texts,
`CONTAINS` and pairs of similar documents, each by what is still to be called. A deletion takes what is below its roots, the
least set that has them and the children of what it has; that nothing it leaves has a parent in it follows from
this set being closed.

**Who will end it.** Liveness is out of the prover's reach, but not that in each state there is somebody whose step is owed:
for a published node `PublishedBecomesIndexed` and its `IndexOwed`; for the goroutine and the handlers `NobodyIsBlocked`, from
`HandsMeet` (the flag is set only while a handler follows or is about to leave, and a handler leaves only when the channel is closed, except where one
was *broken*); for the panel `SpinnerIsOwed`, unless the failure is one nobody hears of; for the list `SpinnersAreOwed`, where
`AllOwed` counts what a batch marked and what it took, and `LimitKept` says that nothing waits in the queue while it has room.

The invariants were checked with TLC before they were proved.

**Only model-checked**: the liveness properties themselves (`NodeEventuallyIndexed`, `EventuallyIndexed`, `AllEnd`, `LoadingEnds`,
`SpinnersEnd`), as the prover has neither fairness nor `ENABLED`.

## 6. Not modelled

* The move of all bases to new datasets (`TriggerUpsertRecords`) and the deletion of a base:
  they touch the pipeline only through the dataset id, and come with the plan's
  `DatasetSwitch` and `KBCache`.
* Failing reads inside a transaction fail the whole transaction, which `PublishFails`,
  `StoreFails` and `StepFails` stand for; there are no half-done transactions.
* The pull of a language model, retrieval ranking, prompts, tokenizing, file storage,
  telemetry, migrations: data, external calls or code without shared state.
* `sdk/rag` is the client of an older RAG service; the backend uses raglite's.
* **Chat panel**: images beside a question, reasons of a feedback, search among documents, the
  OpenAI-compatible endpoint, block words over chunks.
* **Import**: `axios` sets no limit of its own, so a request ends when browser or server end it. The
  list is virtualised; that a row is mounted again while its folder is pulled, and pulls it a second time, is not
  modelled, nor are React's strict mode, removing single items, statuses of the crawler other
  than *completed* and *failed*. A list that is answered after its dialog was closed shows when the
  dialog is opened again, as in the code. The type of the dialog and its source are fixed: choosing another type while requests of the
  first still run, so that entries of two sources share a list, is not modelled.
* **Editor**: HTML documents only. Markdown documents, emoji, the dialogs for renaming and summaries,
  the publish menu, deletion and roll-back of versions are left out, and so are other tabs and
  other writers of the same document, which `UpdateNodeContent` lets overwrite each other.
  `beforeunload` acts as `Hide`. A load is answered with what the server holds when the answer arrives.
* **The rest of the front ends**: most of their lines are layout (JSX and styles), clients and
  types generated from the API description (`request/types.ts`), icons, themes, and forms that
  are read, edited and sent whole. They hold no state that two actors share, and a model of them would
  say nothing. The definitions here stand for most of the statements of the three
  components that do, which is a small part of the TypeScript of the repository.

## 7. The plan

Done: the three pipelines that leave PostgreSQL or decide what readers get, the abstract
index, the three components of the front ends and the answer for chat apps that share state with timers, streams or
queues, and a theorem for each of their safety properties. The order of what follows is the order of importance.

1. **NodeTree**: the drag of the admin app, positions over a small range with the gap rule, overlapping moves, the level
   by level search. Instance: three siblings, two folders, two moves. Worth proving: a move
   that finds room keeps positions distinct; without overlapping moves parents form a tree.
2. **KBCache**: rows, cache entries, readers that missed, updates and deletes. Abstract
   specification: a read returns a value the row had during the read or later.
   Instance: two versions, two readers.
3. **StatMigration** and **UserAccess**: counters that move from memory or Redis to PostgreSQL with
   restarts in between; the abstract specification is a counter that only grows.
4. **AuthLock** and **RateLimiter**: expiring keys, overlapping logins.
5. **DatasetSwitch** composed with `VectorSync`, and **RagStatus** beside it: the handler's dataset
   id is read before the switch and used after it.
6. **StreamFilter**: pure functions over short sequences of chunks against the filter of the
   whole text.

Hazards these would cover, by place (relative to `backend/`): `repo/pg/node.go:357` (two overlapping moves make a cycle
and the search for children does not end), `repo/pg/node.go:808` (the renumbering when a gap is used up),
`usecase/node.go:504` (a batch move tells the graph nothing), `usecase/node.go:756` (`rag_info` without a version),
`usecase/wecom.go:94` (a callback that WeCom repeats starts a second answer that no poll finds),
`usecase/node.go:857` (a snapshot whose first indexing failed cannot be learned again, only published again),
`usecase/model.go:86` (the old dataset is deleted before the new id is stored), `usecase/auth.go:281` (the lock expires before the account
is made), `repo/pg/user_access.go:96` (read, compare and delete apart), `pkg/ratelimit/rate_limiter.go:70`
(overlapping attempts), `handler/mq/cron.go:72` (the migration runs only in hour 0), `usecase/chat.go:397`
(a block word split over chunks), `store/neo4j/folder.go:153` and `usecase/graph_sync.go:275` (moves of
whole folders).
