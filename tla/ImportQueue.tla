---------------------------- MODULE ImportQueue ----------------------------
(***************************************************************************)
(* The import dialog of the admin app (pages/document/component/           *)
(* AddDocByType): a form or an upload fills a list of documents and        *)
(* folders, every request about an item goes through one queue with a      *)
(* limit, and a batch import creates the nodes one after the other.        *)
(* Closing the dialog empties the list but stops nothing: it can be opened *)
(* again and the same source pulled once more while old requests run.      *)
(*                                                                         *)
(* Items are the entries of all those lists, each with a uuid of its own.  *)
(* Ids are numbers: key[i] is the id the source gives item i, and what     *)
(* another pull of the same source lists has the same id; the id of the    *)
(* k-th node of the knowledge base is N + k, and 0 is no id at all (the    *)
(* root of the import, the folder the dialog was opened on).               *)
(***************************************************************************)
EXTENDS Naturals, Sequences, FiniteSets

CONSTANTS
    N,              \* items of all pulls
    Sources,        \* the dialogs and sources there are, of AllSources
    MaxConcurrency, \* requests in flight (5 in the code)
    MaxPulls,       \* bound: submissions of the form in one behaviour
    MaxBatches      \* bound: batch imports of one behaviour

ASSUME NAssumption == N \in Nat \ {0}
ASSUME LimitAssumption == /\ MaxConcurrency \in Nat \ {0}
                          /\ MaxPulls \in Nat /\ MaxBatches \in Nat

Items == 1..N
Pulls == 1..MaxPulls
Batches == 1..MaxBatches
Kinds == {"file", "url", "tree", "export", "drive"}
    \* file: offline files; url: web pages; tree: sitemap, RSS, Notion; export: a
    \* file exported by another wiki; drive: Feishu and DingTalk, whose folders are
    \* listed one by one
Forms == {"new", "waiting", "left", "stuck", "uploading", "parsing", "done"}
    \* left: waiting, and the upload area that waited is gone; stuck: it failed
    \* and goes on waiting
Statuses == {"common", "upload-error", "parsing", "parsed", "parse-error",
             "importing", "imported", "import-error"}

AllSources ==  \* forests whose folders come before what they hold
    {s \in [kind : Kinds, select : BOOLEAN, folder : SUBSET Items, under : [Items -> 0..N],
            pull : [Items -> Pulls], key : [Items -> Items]] :
        /\ \A i \in Items : s.under[i] # 0 =>
              s.under[i] < i /\ s.under[i] \in s.folder /\ s.pull[s.under[i]] = s.pull[i]
        /\ \A i, j \in Items : s.pull[i] = s.pull[j] /\ s.key[i] = s.key[j] => i = j
        /\ s.kind \in {"file", "url"} => s.folder = {}
        /\ s.kind \in {"file", "url", "export"} => ~s.select
        /\ s.kind = "drive" => s.select /\ \A i \in Items : s.under[i] = 0 => i \in s.folder}

ASSUME SourcesAssumption == Sources \subseteq AllSources

VARIABLES
    kind, select, \* the type of the dialog, and isSupportSelect
    folder, under,\* the source: its folders, and the folder of each item (0: none)
    pull, key,    \* the pull that lists an item, and its id in the source
    open,         \* whether the dialog is
    form,         \* each submission of the form, of Forms
    list,         \* data, in its order
    item,         \* what data says of each item
    checked,      \* the selection
    pulling,      \* folders whose documents are being listed
    queue,        \* queueRef: the tasks that wait
    running,      \* the tasks in flight
    batch,        \* each handleBatchImport: what is left of its snapshot, and idMapping
    nodes,        \* the nodes of the knowledge base, in the order of their creation
    lost,         \* those whose answer was lost
    page,         \* the nodes the document page shows
    late          \* nodes answered when their item had left the list

source == <<kind, select, folder, under, pull, key>>
dialog == <<open, form, list, item, checked, pulling>>
vars == <<source, dialog, queue, running, batch, nodes, lost, page, late>>

Shown == {list[k] : k \in 1..Len(list)}
With(s) == {i \in Shown : item[i].status \in s}
At(p, fs) == form[p] \in fs
Loading ==      \* formSubmitLoading
    kind # "export" /\ \E p \in Pulls : At(p, {"waiting", "parsing"})
Tasks == running \cup {queue[k] : k \in 1..Len(queue)}

Task(op, i, b) == [op |-> op, item |-> i, batch |-> b, at |-> "start", node |-> 0]

\* The numbers of s in their order, and what of seq is in s, in its order.
Sorted(s) == [k \in 1..Cardinality(s) |-> CHOOSE i \in s : Cardinality({j \in s : j <= i}) = k]
Among(seq, s) == LET at == Sorted({k \in 1..Len(seq) : seq[k] \in s})
                 IN  [k \in 1..Len(at) |-> seq[at[k]]]

Each(op, b, s) == [k \in 1..Len(s) |-> Task(op, s[k], b)]

\* The top-level folder an item of the source is in, or the item itself.
Top == LET top[i \in Items] == IF under[i] = 0 THEN i ELSE top[under[i]] IN top

\* The id of the folder an item of the source is in.
Above(i) == IF under[i] = 0 THEN 0 ELSE key[under[i]]

\* The items that pull p lists.
Of(p) == {i \in Items : pull[i] = p}

Init ==
    /\ \E s \in Sources :
          /\ kind = s.kind /\ select = s.select /\ folder = s.folder
          /\ under = s.under /\ pull = s.pull /\ key = s.key
    /\ open = TRUE /\ form = [p \in Pulls |-> "new"] /\ list = <<>>
    /\ item = [i \in Items |->
                 [status |-> IF kind = "file" THEN "common"
                             ELSE IF kind = "url" THEN "parsing" ELSE "parsed",
                  id |-> IF kind = "file" THEN 0 ELSE key[i],
                  parent |-> Above(i),
                  req |-> kind # "drive" \/ under[i] # 0]]
    /\ checked = {} /\ pulling = {}
    /\ queue = <<>> /\ running = {}
    /\ batch = [b \in Batches |-> [pc |-> "unused", todo |-> <<>>, map |-> [i \in Items |-> 0]]]
    /\ nodes = <<>> /\ lost = {} /\ page = {} /\ late = {}

-----------------------------------------------------------------------------
(* useGlobalQueue.                                                         *)

\* Mutant: the limit is tested once for all that is pushed.
EnqueueAtOnce(ts) ==
    IF Cardinality(running) < MaxConcurrency
    THEN running' = running \cup {ts[k] : k \in 1..Len(ts)} /\ UNCHANGED queue
    ELSE queue' = queue \o ts /\ UNCHANGED running

\* enqueue of several tasks in one go: each is pushed, then next() looks for room.
Enqueue(ts) ==
    LET all == queue \o ts
        room == MaxConcurrency - Cardinality(running)
        n == IF Len(ts) <= room THEN Len(ts) ELSE room
    IN  /\ running' = running \cup {all[k] : k \in 1..n}
        /\ queue' = SubSeq(all, n + 1, Len(all))

\* Mutant: the end of a task frees its slot and takes none that waits.
SettleOnly(t) == running' = running \ {t} /\ UNCHANGED queue

\* The end of a task: its slot is free, and next() takes one task.
Settle(t) ==
    IF queue = <<>>
    THEN running' = running \ {t} /\ UNCHANGED queue
    ELSE running' = (running \ {t}) \cup {Head(queue)} /\ queue' = Tail(queue)

\* The task goes on to its next request.
Onward(t, u) == running' = (running \ {t}) \cup {u} /\ UNCHANGED queue

\* setData(prev => prev.map(...)): items that have left the list are not there to change.
Update(S, f(_)) == item' = [i \in Items |-> IF i \in S \cap Shown THEN f(i) ELSE item[i]]
SetStatus(S, s) == Update(S, LAMBDA i : [item[i] EXCEPT !.status = s])

-----------------------------------------------------------------------------
(* Filling the list.                                                       *)

\* The form is shown while the list is empty, and takes a submission while none
\* of its own is under way.
FormShown(p) ==
    /\ open /\ list = <<>> /\ ~Loading
    /\ At(p, {"new"}) /\ \A q \in Pulls : At(q, {"new"}) => p <= q

\* handleInitFiles of offline files and handleSubmitForm of URLs: the items are
\* there at once; the effect on new files uploads them, the form parses its URLs.
SubmitItems(p) ==
    /\ FormShown(p) /\ kind \in {"file", "url"}
    /\ list' = Sorted(Of(p))
    /\ IF kind = "file"
       THEN form' = [form EXCEPT ![p] = "uploading"] /\ Enqueue(Each("upload", 0, list'))
       ELSE form' = [form EXCEPT ![p] = "parsing"] /\ Enqueue(Each("parse", 0, list'))
    /\ UNCHANGED <<source, open, item, checked, pulling, batch, nodes, lost, page, late>>

\* The other sources: one request that lists what they hold. The upload area of
\* an export has a spinner of its own.
Submit(p) ==
    /\ FormShown(p) /\ kind \in {"tree", "export", "drive"}
    /\ \A q \in Pulls : ~At(q, {"waiting", "stuck"})
    /\ form' = [form EXCEPT ![p] = "waiting"]
    /\ UNCHANGED <<source, open, list, item, checked, pulling, queue, running, batch, nodes,
                   lost, page, late>>

\* Its answer: a drive's takes the place of the list, the others' goes behind it.
Listed(p) ==
    /\ At(p, {"waiting", "left"})
    /\ form' = [form EXCEPT ![p] = "done"]
    /\ list' = IF kind = "drive" THEN Sorted({i \in Of(p) : under[i] = 0})
               ELSE list \o Sorted(Of(p))
    /\ UNCHANGED <<source, open, item, checked, pulling, queue, running, batch, nodes, lost,
                   page, late>>

NotListed(p) ==
    /\ At(p, {"waiting", "left"})
    /\ form' = [form EXCEPT ![p] = IF kind = "export" /\ @ = "waiting" THEN "stuck" ELSE "new"]
    /\ UNCHANGED <<source, open, list, item, checked, pulling, queue, running, batch, nodes,
                   lost, page, late>>

\* handlerPullFolder: the documents of a folder of the drive, and its answer.
PullFolder(f) ==
    /\ open /\ f \in Shown \cap folder
    /\ ~item[f].req /\ f \notin pulling
    /\ pulling' = pulling \cup {f}
    /\ UNCHANGED <<source, open, form, list, item, checked, queue, running,
                   batch, nodes, lost, page, late>>

Pulled(f) ==
    /\ f \in pulling
    /\ pulling' = pulling \ {f}
    /\ Update({f}, LAMBDA i : [item[i] EXCEPT !.req = TRUE])
    /\ list' = list \o Sorted({i \in Items : under[i] # 0 /\ Top[i] = f})
    /\ UNCHANGED <<source, open, form, checked, queue, running, batch, nodes,
                   lost, page, late>>

NotPulled(f) ==
    /\ f \in pulling
    /\ pulling' = pulling \ {f}
    /\ UNCHANGED <<source, open, form, list, item, checked, queue, running,
                   batch, nodes, lost, page, late>>

-----------------------------------------------------------------------------
(* The selection.                                                          *)

Select ==
    /\ open /\ select
    /\ \/ \E i \in Shown : /\ item[i].req
                           /\ checked' = IF i \in checked THEN checked \ {i} ELSE checked \cup {i}
       \/ LET all == {i \in Shown : item[i].req}
          IN checked' = IF Cardinality(checked) = Cardinality(all) THEN {} ELSE all
    /\ UNCHANGED <<source, open, form, list, item, pulling, queue, running,
                   batch, nodes, lost, page, late>>

\* getDescendantUuids, by the ids and parent ids of the list: the least set that holds
\* what is in id and, with a folder, what is in it.
Descendants(id) ==
    LET in(g) == {j \in Shown : item[j].parent = item[g].id}
        closed == {S \in SUBSET Shown : /\ {j \in Shown : item[j].parent = id} \subseteq S
                                       /\ \A g \in S \cap folder : in(g) \subseteq S}
    IN {i \in Shown : \A S \in closed : i \in S}

SelectFolder(f) ==
    /\ open /\ select /\ f \in Shown \cap folder /\ item[f].req
    /\ checked' \in {checked \cup {f} \cup Descendants(item[f].id),
                     checked \ ({f} \cup Descendants(item[f].id))}
    /\ UNCHANGED <<source, open, form, list, item, pulling, queue, running,
                   batch, nodes, lost, page, late>>

Chosen(s) == {i \in With(s) : select => i \in checked}

-----------------------------------------------------------------------------
(* Uploads and parsing.                                                    *)

UploadEnds(t) ==
    /\ t.op = "upload"
    /\ Settle(t)
    /\ \/ Update({t.item}, LAMBDA i : [item[i] EXCEPT !.id = key[i]])
       \/ SetStatus({t.item}, "upload-error")
    /\ UNCHANGED <<source, open, form, list, checked, pulling, batch, nodes,
                   lost, page, late>>

\* The Promise.all of handleUploadFile: what was uploaded, and still is on the
\* list, goes to handleParse.
UploadsDone(p) ==
    /\ At(p, {"uploading"})
    /\ \A t \in Tasks : t.op = "upload" => t.item \notin Of(p)
    /\ form' = [form EXCEPT ![p] = "done"]
    /\ LET ready == {i \in Of(p) \cap With({"common"}) : item[i].id # 0}
       IN SetStatus(ready, "parsing") /\ Enqueue(Each("parse", 0, Sorted(ready)))
    /\ UNCHANGED <<source, open, list, checked, pulling, batch, nodes, lost,
                   page, late>>

ParseEnds(t) ==
    /\ t.op = "parse"
    /\ Settle(t)
    /\ \E s \in {"parsed", "parse-error"} : SetStatus({t.item}, s)
    /\ UNCHANGED <<source, open, form, list, checked, pulling, batch, nodes,
                   lost, page, late>>

\* The Promise.all of handleSubmitForm: the form stops loading.
FormDone(p) ==
    /\ At(p, {"parsing"})
    /\ \A t \in Tasks : t.op = "parse" => t.item \notin Of(p)
    /\ form' = [form EXCEPT ![p] = "done"]
    /\ UNCHANGED <<source, open, list, item, checked, pulling, queue, running,
                   batch, nodes, lost, page, late>>

\* handleBatchParse: once more, what could not be parsed.
BatchParse ==
    /\ open /\ ~Loading
    /\ Chosen({"parse-error"}) # {}
    /\ SetStatus(Chosen({"parse-error"}), "parsing")
    /\ Enqueue(Each("parse", 0, Among(list, Chosen({"parse-error"}))))
    /\ UNCHANGED <<source, open, form, list, checked, pulling, batch, nodes,
                   lost, page, late>>

-----------------------------------------------------------------------------
(* The batch import.                                                       *)

\* Mutant: what is being imported is taken once more.
BatchImportAgain(b) ==
    LET these == {i \in Chosen({"parsed", "import-error", "importing"}) : i \in folder => item[i].req}
        snapshot == Among(list, these)
    IN  /\ open /\ ~Loading
        /\ batch[b].pc = "unused" /\ \A c \in Batches : c < b => batch[c].pc # "unused"
        /\ these # {}
        /\ SetStatus(these, "importing")
        /\ batch' = [batch EXCEPT ![b].pc = "running",
                                  ![b].todo = [k \in 1..Len(snapshot) |->
                                     [item |-> snapshot[k], parent |-> item[snapshot[k]].parent]]]
        /\ UNCHANGED <<source, open, form, list, checked, pulling, queue,
                       running, nodes, lost, page, late>>

\* handleBatchImport: a snapshot of what is to be imported, marked at once.
BatchImport(b) ==
    LET these == {i \in Chosen({"parsed", "import-error"}) : i \in folder => item[i].req}
        snapshot == Among(list, these)
    IN  /\ open /\ ~Loading
        /\ batch[b].pc = "unused" /\ \A c \in Batches : c < b => batch[c].pc # "unused"
        /\ these # {}
        /\ SetStatus(these, "importing")
        /\ batch' = [batch EXCEPT ![b].pc = "running",
                                  ![b].todo = [k \in 1..Len(snapshot) |->
                                     [item |-> snapshot[k], parent |-> item[snapshot[k]].parent]]]
        /\ UNCHANGED <<source, open, form, list, checked, pulling, queue,
                       running, nodes, lost, page, late>>

\* The loop: one item at a time, each through the queue.
LoopNext(b) ==
    /\ batch[b].pc = "running"
    /\ \A t \in Tasks : t.batch # b
    /\ IF batch[b].todo = <<>>
       THEN batch' = [batch EXCEPT ![b].pc = "over"] /\ UNCHANGED <<queue, running>>
       ELSE UNCHANGED batch /\ Enqueue(<<Task("import", Head(batch[b].todo).item, b)>>)
    /\ UNCHANGED <<source, dialog, nodes, lost, page, late>>

\* A document is exported by the crawler first, and its result polled for.
Export(t) ==
    /\ t.op = "import" /\ t.item \notin folder
    /\ t.at \in {"start", "poll"}
    /\ Onward(t, [t EXCEPT !.at = IF t.at = "start" THEN "poll" ELSE "create"])
    /\ UNCHANGED <<source, dialog, batch, nodes, lost, page, late>>

\* Mutant: a parent the batch did not create is taken as it is.
ParentAsIs(t) ==
    LET p == Head(batch[t.batch].todo).parent
    IN IF p \in Items /\ batch[t.batch].map[p] # 0 THEN batch[t.batch].map[p] ELSE p

\* The node's parent, by what this batch knows: actualParentId.
Parent(t) ==
    LET p == Head(batch[t.batch].todo).parent
    IN IF p \in Items THEN batch[t.batch].map[p] ELSE 0

CreateNode(t) ==
    /\ t.op = "import"
    /\ t.at = IF t.item \in folder THEN "start" ELSE "create"
    /\ nodes' = Append(nodes, [item |-> t.item, parent |-> Parent(t), batch |-> t.batch])
    /\ Onward(t, [t EXCEPT !.at = "answer", !.node = Len(nodes) + 1])
    /\ UNCHANGED <<source, dialog, batch, lost, page, late>>

\* Mutants: the item keeps its old id; the items under a folder keep theirs.
ImportedKeepsId(i, n) ==
    item' = [j \in Items |->
        IF j \notin Shown THEN item[j]
        ELSE IF j = i THEN [item[j] EXCEPT !.status = "imported"]
        ELSE IF i \in folder /\ item[j].parent = key[i] THEN [item[j] EXCEPT !.parent = N + n]
        ELSE item[j]]
ImportedAlone(i, n) ==
    item' = [j \in Items |->
        IF j = i /\ j \in Shown THEN [item[j] EXCEPT !.status = "imported", !.id = N + n]
        ELSE item[j]]

\* The answer: a folder's new id replaces the old one in the list, with whatever
\* names it as its parent, and is noted for the rest of the batch.
Imported(i, n) ==
    item' = [j \in Items |->
        IF j \notin Shown THEN item[j]
        ELSE IF j = i THEN [item[j] EXCEPT !.status = "imported", !.id = N + n]
        ELSE IF i \in folder /\ item[j].parent = key[i] THEN [item[j] EXCEPT !.parent = N + n]
        ELSE item[j]]

\* Mutant: idMapping lives for one item only.
LeaveNoMap(t, m) ==
    batch' = [batch EXCEPT ![t.batch].todo = Tail(@), ![t.batch].map = [i \in Items |-> 0]]

\* One round of the loop is over; idMapping is m from here on.
Leave(t, m) == batch' = [batch EXCEPT ![t.batch].todo = Tail(@), ![t.batch].map = m]

CreateAnswered(t) ==
    /\ t.at = "answer"
    /\ Settle(t)
    /\ Imported(t.item, t.node)
    /\ Leave(t, IF t.item \in folder
                THEN [batch[t.batch].map EXCEPT ![key[t.item]] = t.node] ELSE batch[t.batch].map)
    /\ late' = IF t.item \in Shown THEN late ELSE late \cup {t.node}
    /\ UNCHANGED <<source, open, form, list, checked, pulling, nodes, lost,
                   page>>

\* Any of those requests may fail, the crawler may fail or take too long, and the
\* answer of a create may be lost although the node is there.
ImportFails(t) ==
    /\ t.op = "import"
    /\ Settle(t)
    /\ SetStatus({t.item}, "import-error")
    /\ Leave(t, batch[t.batch].map)
    /\ lost' = IF t.at = "answer" THEN lost \cup {t.node} ELSE lost
    /\ UNCHANGED <<source, open, form, list, checked, pulling, nodes, page,
                   late>>

-----------------------------------------------------------------------------
(* Closing and opening the dialog.                                         *)

\* Mutant: the page is refreshed when everything was imported.
CloseAllImported ==
    /\ open
    /\ open' = FALSE
    /\ page' = IF With({"imported"}) # Shown THEN page ELSE 1..Len(nodes)
    /\ form' = [p \in Pulls |-> IF At(p, {"stuck"}) THEN "new"
                               ELSE IF kind = "export" /\ At(p, {"waiting"}) THEN "left"
                               ELSE form[p]]
    /\ list' = <<>> /\ checked' = {}
    /\ UNCHANGED <<source, item, pulling, queue, running, batch, nodes,
                   lost, late>>

\* handleCancel, and the upload area goes with the dialog.
Close ==
    /\ open
    /\ open' = FALSE
    /\ form' = [p \in Pulls |-> IF At(p, {"stuck"}) THEN "new"
                               ELSE IF kind = "export" /\ At(p, {"waiting"}) THEN "left"
                               ELSE form[p]]
    /\ page' = IF With({"imported"}) = {} THEN page ELSE 1..Len(nodes)
    /\ list' = <<>> /\ checked' = {}
    /\ UNCHANGED <<source, item, pulling, queue, running, batch, nodes,
                   lost, late>>

Reopen ==
    /\ ~open
    /\ open' = TRUE
    /\ UNCHANGED <<source, form, list, item, checked, pulling, queue, running,
                   batch, nodes, lost, page, late>>

Reader == \/ \E p \in Pulls : SubmitItems(p) \/ Submit(p)
          \/ Select \/ BatchParse \/ Close \/ Reopen
          \/ \E b \in Batches : BatchImport(b)
          \/ \E f \in Items : PullFolder(f) \/ SelectFolder(f)

TaskEnds(t) == UploadEnds(t) \/ ParseEnds(t) \/ CreateAnswered(t) \/ ImportFails(t)

System == \/ \E p \in Pulls : Listed(p) \/ NotListed(p) \/ UploadsDone(p) \/ FormDone(p)
          \/ \E f \in Items : Pulled(f) \/ NotPulled(f)
          \/ \E t \in running : TaskEnds(t) \/ Export(t) \/ CreateNode(t)
          \/ \E b \in Batches : LoopNext(b)

Next == Reader \/ System

Spec == Init /\ [][Next]_vars

\* A request ends, by the browser or the server (the client sets no limit of its
\* own), pollCrawlerResults has a last attempt, and what the code does by itself
\* happens; the reader owes nothing.
Fairness == /\ \A p \in Pulls : WF_vars(UploadsDone(p)) /\ WF_vars(FormDone(p))
            /\ \A b \in Batches : WF_vars(LoopNext(b))
            /\ \A i \in Items : WF_vars(\E t \in running : t.item = i /\ TaskEnds(t))
LiveSpec == Spec /\ Fairness

-----------------------------------------------------------------------------
(* Properties.                                                             *)

Ids == 0..(N + Len(nodes))
ItemState == [status : Statuses, id : Ids, parent : Ids, req : BOOLEAN]
TaskType == [op : {"upload", "parse", "import"}, item : Items, batch : 0..MaxBatches,
             at : {"start", "poll", "create", "answer"}, node : 0..Len(nodes)]
BatchType == [pc : {"unused", "running", "over"},
              todo : Seq([item : Items, parent : Ids]), map : [Items -> 0..Len(nodes)]]

\* Every variable has its type.
TypeOK ==
    /\ kind \in Kinds /\ select \in BOOLEAN /\ folder \subseteq Items
    /\ under \in [Items -> 0..N] /\ pull \in [Items -> Pulls] /\ key \in [Items -> Items]
    /\ open \in BOOLEAN /\ form \in [Pulls -> Forms]
    /\ list \in Seq(Items) /\ item \in [Items -> ItemState]
    /\ checked \subseteq Items /\ pulling \subseteq folder
    /\ queue \in Seq(TaskType) /\ running \subseteq TaskType
    /\ batch \in [Batches -> BatchType]
    /\ nodes \in Seq([item : Items, parent : 0..Len(nodes), batch : Batches])
    /\ lost \subseteq 1..Len(nodes) /\ page \subseteq 1..Len(nodes) /\ late \subseteq 1..Len(nodes)

\* useGlobalQueue: never more requests in flight than the limit, and none waits
\* while there is room for it, whichever callers push and whichever tasks fail.
LimitUsedInFull ==
    /\ Cardinality(running) <= MaxConcurrency
    /\ queue # <<>> => Cardinality(running) = MaxConcurrency

\* handleBatchImport: batches that overlap, failed requests and retries make two
\* nodes of one entry of the list only when the answer of the first was lost.
OneNodeEach ==
    \A m, n \in 1..Len(nodes) : m < n /\ nodes[m].item = nodes[n].item => m \in lost

\* What the list calls imported is in the knowledge base under the id it shows, and
\* a node whose answer came is called imported for as long as its item is listed.
ListTellsTruth ==
    /\ \A i \in With({"imported"}) :
          item[i].id > N /\ nodes[item[i].id - N].item = i
    /\ \A n \in 1..Len(nodes) :
          LET i == nodes[n].item
          IN \/ item[i].status = "imported" \/ i \notin Shown
             \/ n \in lost \/ \E t \in running : t.at = "answer" /\ t.node = n
             \/ n \in late

\* Item i has as its parent the node of another pull's entry of its folder.
Astray(i) == item[i].parent > N /\ nodes[item[i].parent - N].item # under[i]

\* idMapping: a node is in no other folder than its own, created by its own batch,
\* and it is in it when the batch created that before, though the same source be
\* pulled again and lists of two pulls be mixed. A folder listed and created twice
\* may hold it the second time, and an answer to an older pull that came when the
\* item was listed leaves it beside its folder (Action.tsx:217-224, 194-198).
SameBatchStaysTogether ==
    \A n \in 1..Len(nodes) :
        LET x == nodes[n]
            f == under[x.item]
        IN /\ x.parent # 0 => /\ f # 0 /\ key[nodes[x.parent].item] = key[f]
                              /\ nodes[x.parent].batch = x.batch
           /\ \A m \in 1..(n - 1) \ lost :
                 nodes[m].item = f /\ nodes[m].batch = x.batch =>
                    x.parent \in m..(n - 1) \/ (x.parent = 0 /\ Astray(x.item))

\* Importing a folder changes its id: the items listed under it follow, so that
\* the tree shown and the selection of a whole folder lose none but those that an
\* older pull's answer about the same folder has taken to the node it made.
ListStaysTree ==
    \A i, f \in Shown : under[i] = f =>
        \/ item[i].parent = item[f].id
        \/ Astray(i) /\ key[nodes[item[i].parent - N].item] = key[f]

\* handleCancel refreshes the page when something was imported: with the dialog
\* closed, the page misses only nodes answered after their item left the list,
\* nodes whose answer was lost, and those still under way.
PageMissesOnlyLate ==
    open \/ \A n \in (1..Len(nodes)) \ page :
               \/ n \in lost \cup late
               \/ \E t \in running : t.at = "answer" /\ t.node = n

\* No item shows a spinner for ever: what is parsing or importing ends, or its
\* dialog is closed.
SpinnersEnd ==
    \A i \in Items : (i \in With({"parsing", "importing"})) ~> (i \notin With({"parsing", "importing"}))
=============================================================================
