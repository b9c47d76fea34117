--------------------------- MODULE ImportKeptProofs ------------------------
(***************************************************************************)
(* More proofs about ImportQueue: what the list says of the nodes, which   *)
(* folder a node is created in, what the page shows once the dialog is     *)
(* closed, that the list stays a tree, and who ends the spinners.          *)
(***************************************************************************)
EXTENDS ImportQueueProofs

\* The answer of node n is still to come; it came and was not lost.
UnderWay(n) == \E t \in Tasks : t.at = "answer" /\ t.node = n
Answered(n) == n \in (1..Len(nodes)) \ lost /\ ~UnderWay(n)

\* No batch has item i, and no node is of it.
Fresh(i) == /\ \A b \in Batches : ~InTodo(b, i)
            /\ \A n \in 1..Len(nodes) : nodes[n].item # i

\* What waits has not begun, and a node under way is the last of its batch, not lost.
AnswersOK ==
    /\ \A k \in 1..Len(queue) : queue[k].at = "start"
    /\ \A t \in Tasks : t.at = "answer" =>
          /\ t.node \notin lost /\ nodes[t.node].batch = t.batch
          /\ \A n \in 1..Len(nodes) : nodes[n].batch = t.batch => n <= t.node
    /\ \A n \in 1..Len(nodes) : batch[nodes[n].batch].pc # "unused"

\* With the dialog closed nothing on the list is in a batch; and a node the page does
\* not show is lost, late, under way, or on the list of the open dialog.
PageOK ==
    /\ ~open => \A b \in Batches, i \in Shown : ~InTodo(b, i)
    /\ \A n \in (1..Len(nodes)) \ (lost \cup late \cup page) :
          UnderWay(n) \/ (open /\ nodes[n].item \in Shown)

\* While a drive is asked what it holds, no batch has begun with what is listed, which
\* its answer will take away; only the upload area of an export goes while it waits.
WaitOK ==
    /\ kind # "export" => \A p \in Pulls : form[p] # "left"
    /\ kind = "drive" /\ (\E p \in Pulls : form[p] \in {"waiting", "left"}) =>
          \A i \in Shown : Fresh(i)

\* What was imported has the id of a node of its own.
IdsOK == \A i \in Items : item[i].status = "imported" =>
            /\ item[i].id > N /\ item[i].id - N \in 1..Len(nodes)
            /\ nodes[item[i].id - N].item = i

\* Item i was moved to a node of its folder, or of another pull's entry of that.
Moved(i) == /\ item[i].parent > N /\ under[i] # 0 /\ Answered(item[i].parent - N)
            /\ key[nodes[item[i].parent - N].item] = key[under[i]]

\* The parent that batch b noted with an item: the folder by its first id, or the node
\* the item was moved to, of another batch.
NotedOK(b, x) ==
    \/ x.parent = Above(x.item)
    \/ /\ x.parent > N /\ item[x.item].parent = x.parent
       /\ nodes[x.parent - N].batch # b

\* An item's parent is its folder, by its first id or by that of a node.
ParentsOK ==
    /\ \A i \in Items : item[i].parent = Above(i) \/ Moved(i)
    /\ \A b \in Batches : \A k \in 1..Len(batch[b].todo) : NotedOK(b, batch[b].todo[k])

\* idMapping holds the nodes of the folders the batch has created, the last of each.
MapsOK ==
    \A b \in Batches :
        /\ \A i \in Items : batch[b].map[i] # 0 =>
              key[nodes[batch[b].map[i]].item] = i /\ nodes[batch[b].map[i]].batch = b
        /\ \A n \in 1..Len(nodes) :
              Answered(n) /\ nodes[n].batch = b /\ nodes[n].item \in folder =>
                 batch[b].map[key[nodes[n].item]] >= n

JInv == AnswersOK /\ PageOK /\ WaitOK /\ IdsOK /\ ParentsOK /\ MapsOK /\ SameBatchStaysTogether

-----------------------------------------------------------------------------
(* What the queue does to tasks that have begun.                           *)

\* Pushing adds what is pushed, and nothing else waits.
LEMMA Pushed ==
    ASSUME QueueInv, NEW ts \in Seq(Things), Enqueue(ts),
           \A k \in 1..Len(ts) : ts[k].at = "start",
           \A k \in 1..Len(queue) : queue[k].at = "start"
    PROVE  /\ \A k \in 1..Len(queue') : queue'[k].at = "start"
           /\ \A t : t.at # "start" => (t \in Tasks' <=> t \in Tasks)
  <1> DEFINE all == queue \o ts
             room == MaxConcurrency - Cardinality(running)
             n == IF Len(ts) <= room THEN Len(ts) ELSE room
  <1>1. /\ queue \in Seq(Things) /\ Cardinality(running) \in Nat /\ MaxConcurrency \in Nat
        /\ Cardinality(running) <= MaxConcurrency /\ Len(ts) \in Nat
    BY LimitAssumption, FS_CardinalityType DEF QueueInv, QueueOfThings, LimitUsedInFull
  <1>2. running' = running \cup {all[k] : k \in 1..n} /\ queue' = SubSeq(all, n + 1, Len(all))
    BY DEF Enqueue
  <1>3. /\ all \in Seq(Things) /\ Len(all) = Len(queue) + Len(ts)
        /\ \A k \in 1..Len(all) : all[k].at = "start"
        /\ \A k \in 1..Len(queue) : k \in 1..Len(all) /\ all[k] = queue[k]
    BY <1>1
  <1>4. n \in 0..Len(all)
    BY <1>1, <1>3
  <1> HIDE DEF all, n
  <1>5. Len(queue') = Len(all) - n /\ \A k \in 1..Len(all) - n : queue'[k] = all[k + n] /\ k + n \in 1..Len(all)
    BY <1>2, <1>3, <1>4, RestFacts
  <1>6. \A k \in 1..Len(queue') : queue'[k].at = "start"
    BY <1>3, <1>5
  <1>7. \A k \in 1..n : all[k].at = "start"
    BY <1>3, <1>4
  <1>8. ASSUME NEW t, t.at # "start" PROVE t \in Tasks' <=> t \in Tasks
    <2>1. t \in Tasks <=> t \in running
      BY <1>8 DEF Tasks
    <2>2. t \in Tasks' <=> t \in running'
      BY <1>6, <1>8 DEF Tasks
    <2>3. t \in running' <=> t \in running
      BY <1>2, <1>7, <1>8
    <2> QED
      BY <2>1, <2>2, <2>3
  <1> QED
    BY <1>6, <1>8

\* Pushing one task for each of some items.
LEMMA PushedEach ==
    ASSUME QueueInv, NEW op \in {"upload", "parse"}, NEW s \in Seq(Items), Enqueue(Each(op, 0, s)),
           \A k \in 1..Len(queue) : queue[k].at = "start"
    PROVE  /\ \A k \in 1..Len(queue') : queue'[k].at = "start"
           /\ \A t : t.at # "start" => (t \in Tasks' <=> t \in Tasks)
  <1> DEFINE ts == Each(op, 0, s)
  <1>1. \A k \in 1..Len(s) : Task(op, s[k], 0) \in Things /\ Task(op, s[k], 0).at = "start"
    BY LimitAssumption DEF Task, Things
  <1>2. ts \in Seq(Things) /\ \A k \in 1..Len(ts) : ts[k].at = "start"
    BY <1>1 DEF Each
  <1>3. Enqueue(ts)
    OBVIOUS
  <1> HIDE DEF ts
  <1> QED
    BY <1>2, <1>3, Pushed

\* What waits behind a task that ends still waits from the start.
LEMMA Settled ==
    ASSUME QueueInv, NEW t, Settle(t), \A k \in 1..Len(queue) : queue[k].at = "start"
    PROVE  \A k \in 1..Len(queue') : queue'[k].at = "start"
  <1>1. queue \in Seq(Things)
    BY DEF QueueInv, QueueOfThings
  <1>2. CASE queue = <<>>
    BY <1>2 DEF Settle
  <1>3. CASE queue # <<>>
    <2>1. /\ queue' = Tail(queue) /\ Len(Tail(queue)) = Len(queue) - 1 /\ Len(queue) \in Nat
          /\ \A k \in 1..Len(queue) - 1 : Tail(queue)[k] = queue[k + 1]
      BY <1>1, <1>3 DEF Settle
    <2> QED
      BY <2>1
  <1> QED
    BY <1>2, <1>3

-----------------------------------------------------------------------------
(* Parents and nodes.                                                      *)

\* The id of an item's folder is one of the source; 0 is the root's.
LEMMA AboveIs ==
    ASSUME DataOK, NEW i \in Items
    PROVE  /\ Above(i) \in 0..N /\ N \in Nat
           /\ IF under[i] = 0 THEN Above(i) = 0
              ELSE Above(i) = key[under[i]] /\ Above(i) \in Items /\ under[i] \in folder
  <1>1. under[i] \in 0..N /\ N \in Nat /\ (under[i] # 0 => under[i] \in folder /\ under[i] \in Items)
    BY NAssumption DEF DataOK, Items
  <1>2. \A j \in Items : key[j] \in Items /\ key[j] \in 0..N
    <2>1. key \in [Items -> Items]
      BY DEF DataOK
    <2>2. \A j \in Items : j \in 0..N
      BY NAssumption DEF Items
    <2> QED
      BY <2>1, <2>2
  <1> QED
    BY <1>1, <1>2 DEF Above

\* The types of an item.
LEMMA ItemTypes ==
    ASSUME DataOK, NEW i \in Items
    PROVE  /\ item[i].parent \in 0..(N + Len(nodes)) /\ item[i].id \in 0..(N + Len(nodes))
           /\ item[i].status \in Statuses /\ item[i].req \in BOOLEAN
  BY DEF DataOK, ItemState, Ids

\* Nodes keep their place, and what was answered stays so: so does a parent, for the
\* items and for the batches.
LEMMA ParentsKept ==
    ASSUME IInv, ParentsOK, UNCHANGED <<under, key>>,
           \A n \in 1..Len(nodes) : nodes'[n] = nodes[n],
           \A n : Answered(n) => Answered(n)',
           \A c \in Batches : \A k \in 1..Len(batch'[c].todo) :
              \/ \E l \in 1..Len(batch[c].todo) : batch'[c].todo[k] = batch[c].todo[l]
              \/ NotedOK(c, batch[c].todo[k])',
           \A i \in Items : \/ item'[i].parent = item[i].parent
                            \/ item[i].parent <= N /\ Moved(i)'
    PROVE  /\ ParentsOK'
           /\ \A i \in Items : Astray(i) => Astray(i)'
  <1>1. ASSUME NEW i \in Items, item[i].parent > N
        PROVE  /\ Moved(i) /\ Moved(i)' /\ item'[i].parent = item[i].parent
               /\ nodes'[item[i].parent - N] = nodes[item[i].parent - N]
    <2>1. N \in Nat /\ Above(i) \in 0..N /\ item[i].parent \in Nat
      BY AboveIs, ItemTypes, NodeTypes DEF IInv
    <2>2. Moved(i) /\ item'[i].parent = item[i].parent
      BY <1>1, <2>1 DEF ParentsOK
    <2>3. PICK n : n = item[i].parent - N
      OBVIOUS
    <2>4. Answered(n) /\ n \in 1..Len(nodes)
      BY <2>2, <2>3 DEF Moved, Answered
    <2>5. Answered(n)' /\ nodes'[n] = nodes[n]
      BY <2>4
    <2> QED
      BY <2>2, <2>3, <2>5 DEF Moved
  <1>2. \A i \in Items : Astray(i) => Astray(i)'
    BY <1>1 DEF Astray
  <1>3. \A i \in Items : item'[i].parent = Above(i)' \/ Moved(i)'
    <2> SUFFICES ASSUME NEW i \in Items PROVE item'[i].parent = Above(i)' \/ Moved(i)'
      OBVIOUS
    <2>1. Above(i)' = Above(i)
      BY DEF Above
    <2>2. CASE item[i].parent > N
      BY <1>1, <2>2
    <2>3. CASE ~(item[i].parent > N)
      BY <2>1, <2>3 DEF ParentsOK, Moved
    <2> QED
      BY <2>2, <2>3
  <1>4. ASSUME NEW c \in Batches, NEW l \in 1..Len(batch[c].todo), NEW x, x = batch[c].todo[l]
        PROVE  NotedOK(c, x)'
    <2>1. NotedOK(c, x) /\ x.item \in Items
      BY <1>4, BatchTypes DEF ParentsOK, IInv
    <2>2. CASE x.parent = Above(x.item)
      BY <2>2 DEF NotedOK, Above
    <2>3. CASE x.parent > N /\ item[x.item].parent = x.parent /\ nodes[x.parent - N].batch # c
      BY <1>1, <2>1, <2>3 DEF NotedOK
    <2> QED
      BY <2>1, <2>2, <2>3 DEF NotedOK
  <1>5. ASSUME NEW c \in Batches, NEW k \in 1..Len(batch'[c].todo)
        PROVE  NotedOK(c, batch[c].todo[k])'
    <2>1. CASE \E l \in 1..Len(batch[c].todo) : batch'[c].todo[k] = batch[c].todo[l]
      <3>1. PICK l \in 1..Len(batch[c].todo) : batch'[c].todo[k] = batch[c].todo[l]
        BY <2>1
      <3>2. PICK x : x = batch[c].todo[l] /\ x = batch'[c].todo[k]
        BY <3>1
      <3>3. NotedOK(c, x)'
        BY <1>4, <3>2
      <3> QED
        BY <3>2, <3>3
    <2> QED
      BY <2>1
  <1> QED
    BY <1>2, <1>3, <1>5 DEF ParentsOK

\* No node is created: each is where it was, or beside its folder.
LEMMA SameStays ==
    ASSUME IInv, SameBatchStaysTogether, UNCHANGED <<under, key, nodes>>, lost \subseteq lost',
           \A i \in Items : Astray(i) => Astray(i)'
    PROVE  SameBatchStaysTogether'
  <1>1. \A n \in 1..Len(nodes) : nodes[n].item \in Items
    BY NodeTypes DEF IInv
  <1>2. ASSUME NEW n \in 1..Len(nodes)
        PROVE  LET x == nodes[n]
                   f == under[x.item]
               IN /\ x.parent # 0 => /\ f # 0 /\ key[nodes[x.parent].item] = key[f]
                                     /\ nodes[x.parent].batch = x.batch
                  /\ \A m \in 1..(n - 1) \ lost' :
                        nodes[m].item = f /\ nodes[m].batch = x.batch =>
                           x.parent \in m..(n - 1) \/ (x.parent = 0 /\ Astray(x.item)')
    <2>1. PICK x : x = nodes[n]
      OBVIOUS
    <2>2. /\ x.parent # 0 => /\ under[x.item] # 0 /\ key[nodes[x.parent].item] = key[under[x.item]]
                             /\ nodes[x.parent].batch = x.batch
          /\ \A m \in 1..(n - 1) \ lost :
                nodes[m].item = under[x.item] /\ nodes[m].batch = x.batch =>
                   x.parent \in m..(n - 1) \/ (x.parent = 0 /\ Astray(x.item))
      BY <2>1 DEF SameBatchStaysTogether
    <2>3. x.item \in Items
      BY <1>1, <2>1
    <2>4. Astray(x.item) => Astray(x.item)'
      BY <2>3
    <2>5. \A m \in 1..(n - 1) \ lost' : m \in 1..(n - 1) \ lost
      OBVIOUS
    <2> QED
      BY <2>1, <2>2, <2>4, <2>5
  <1> QED
    BY <1>2 DEF SameBatchStaysTogether

-----------------------------------------------------------------------------
(* The steps that create no node and answer none.                          *)

\* A step that keeps ids and parents keeps what is noted of them.
LEMMA FrameParts ==
    ASSUME IInv, JInv, UNCHANGED <<under, folder, key, nodes, lost>>,
           \A b \in Batches : /\ batch'[b].todo = batch[b].todo /\ batch'[b].map = batch[b].map
                              /\ batch'[b].pc = "unused" => batch[b].pc = "unused",
           \A k \in 1..Len(queue') : queue'[k].at = "start",
           \A t : t.at = "answer" => (t \in Tasks' <=> t \in Tasks),
           \A i \in Items : /\ item'[i].parent = item[i].parent
                            /\ item'[i].status = "imported" =>
                                  item[i].status = "imported" /\ item'[i].id = item[i].id
    PROVE  AnswersOK' /\ IdsOK' /\ ParentsOK' /\ MapsOK' /\ SameBatchStaysTogether'
  <1>1. Len(nodes) \in Nat /\ nodes' = nodes /\ lost' = lost /\ \A n \in 1..Len(nodes) : nodes[n].batch \in Batches /\ nodes[n].item \in Items
    BY NodeTypes DEF IInv
  <1>2. \A n : (UnderWay(n)' <=> UnderWay(n)) /\ (Answered(n)' <=> Answered(n))
    <2>1. \A n : UnderWay(n)' <=> UnderWay(n)
      BY DEF UnderWay
    <2> QED
      BY <1>1, <2>1 DEF Answered
  <1>5. AnswersOK'
    BY <1>1 DEF JInv, AnswersOK
  <1>6. IdsOK'
    BY <1>1 DEF JInv, IdsOK
  <1>7. ParentsOK' /\ \A i \in Items : Astray(i) => Astray(i)'
    <2>1. \A c \in Batches : \A k \in 1..Len(batch'[c].todo) :
             \E l \in 1..Len(batch[c].todo) : batch'[c].todo[k] = batch[c].todo[l]
      OBVIOUS
    <2>2. ParentsOK /\ \A n : Answered(n) => Answered(n)'
      BY <1>2 DEF JInv
    <2> QED
      BY <1>1, <2>1, <2>2, ParentsKept
  <1>8. MapsOK'
    BY <1>1, <1>2 DEF JInv, MapsOK
  <1>9. SameBatchStaysTogether'
    BY <1>1, <1>7, SameStays DEF JInv
  <1> QED
    BY <1>5, <1>6, <1>7, <1>8, <1>9

\* A step after which no more submissions wait, and what is listed is fresh or was
\* listed before.
LEMMA WaitFrame ==
    ASSUME WaitOK, kind' = kind,
           kind = "drive" => \/ Shown' = {}
                             \/ \A p \in Pulls : form'[p] \in {"waiting", "left"} => form[p] \in {"waiting", "left"},
           kind # "export" => \A p \in Pulls : form'[p] = "left" => form[p] = "left",
           \A i \in Shown' : (i \in Shown \/ Fresh(i)) /\ (Fresh(i) => Fresh(i)')
    PROVE  WaitOK'
  BY DEF WaitOK

\* A step that keeps ids, parents, and the list keeps the invariant.
LEMMA FrameKeeps ==
    ASSUME IInv, JInv, UNCHANGED <<kind, under, folder, key, nodes, lost, late, page>>,
           \A b \in Batches : /\ batch'[b].todo = batch[b].todo /\ batch'[b].map = batch[b].map
                              /\ batch'[b].pc = "unused" => batch[b].pc = "unused",
           \A k \in 1..Len(queue') : queue'[k].at = "start",
           \A t : t.at = "answer" => (t \in Tasks' <=> t \in Tasks),
           \A i \in Items : /\ item'[i].parent = item[i].parent
                            /\ item'[i].status = "imported" =>
                                  item[i].status = "imported" /\ item'[i].id = item[i].id,
           open' = open, \A i \in Shown' : i \in Shown \/ Fresh(i),
           \A i \in Shown : open => i \in Shown' \/ Fresh(i),
           kind = "drive" => \/ Shown' = {}
                             \/ \A p \in Pulls : form'[p] \in {"waiting", "left"} => form[p] \in {"waiting", "left"},
           kind # "export" => \A p \in Pulls : form'[p] = "left" => form[p] = "left"
    PROVE  JInv'
  <1>1. AnswersOK' /\ IdsOK' /\ ParentsOK' /\ MapsOK' /\ SameBatchStaysTogether'
    BY FrameParts
  <1>2. \A n : UnderWay(n)' <=> UnderWay(n)
    BY DEF UnderWay
  <1>3. (\A b \in Batches : \A i : InTodo(b, i)' <=> InTodo(b, i)) /\ \A i : Fresh(i)' <=> Fresh(i)
    BY DEF InTodo, Fresh
  <1>4. PageOK'
    <2>1. ASSUME NEW n \in (1..Len(nodes)) \ (lost \cup late \cup page)
          PROVE  UnderWay(n)' \/ (open' /\ nodes[n].item \in Shown')
      <3>1. ~Fresh(nodes[n].item)
        BY DEF Fresh
      <3> QED
        BY <1>2, <3>1 DEF JInv, PageOK
    <2>2. ~open' => \A b \in Batches, i \in Shown' : ~InTodo(b, i)'
      BY <1>3 DEF JInv, PageOK, Fresh
    <2> QED
      BY <2>1, <2>2 DEF PageOK
  <1>5. WaitOK'
    BY <1>3, WaitFrame DEF JInv
  <1> QED
    BY <1>1, <1>4, <1>5 DEF JInv

\* A step of the dialog alone that leaves the list as it is.
LEMMA DialogKeeps ==
    ASSUME IInv, JInv, UNCHANGED <<source, list, item, queue, running, batch, nodes, lost, late, page>>,
           open => open',
           kind = "drive" => \/ list = <<>>
                             \/ \A p \in Pulls : form'[p] \in {"waiting", "left"} => form[p] \in {"waiting", "left"},
           kind # "export" => \A p \in Pulls : form'[p] = "left" => form[p] = "left"
    PROVE  JInv'
  <1>1. Tasks' = Tasks /\ Shown' = Shown /\ (list = <<>> => Shown = {})
    BY ShownItems DEF Tasks, Shown, IInv
  <1>2. (\A n : UnderWay(n)' <=> UnderWay(n)) /\ (\A b \in Batches : \A i : InTodo(b, i)' <=> InTodo(b, i))
        /\ \A i : Fresh(i)' <=> Fresh(i)
    BY <1>1 DEF UnderWay, InTodo, Fresh
  <1>3. \A k \in 1..Len(queue') : queue'[k].at = "start"
    BY DEF JInv, AnswersOK
  <1>4. AnswersOK' /\ IdsOK' /\ ParentsOK' /\ MapsOK' /\ SameBatchStaysTogether'
    BY <1>1, <1>3, FrameParts DEF source
  <1>5. PageOK'
    BY <1>1, <1>2 DEF JInv, PageOK
  <1>6. WaitOK'
    BY <1>1, <1>2, WaitFrame DEF JInv, source
  <1> QED
    BY <1>4, <1>5, <1>6 DEF JInv

\* Submit: nothing is listed.
LEMMA SubmitFrame ==
    ASSUME IInv, JInv, NEW p \in Pulls, Submit(p)
    PROVE  JInv'
  <1>1. list = <<>> /\ \A q \in Pulls : form'[q] = "left" => form[q] = "left"
    BY DEF Submit, FormShown, IInv, DataOK
  <1> QED
    BY <1>1, DialogKeeps DEF Submit

\* NotListed and FormDone.
LEMMA FormEndsFrame ==
    ASSUME IInv, JInv, NEW p \in Pulls, NotListed(p) \/ FormDone(p)
    PROVE  JInv'
  <1>1. \A q \in Pulls : form'[q] \in {"waiting", "left"} => form'[q] = form[q]
    BY DEF NotListed, FormDone, IInv, DataOK
  <1> QED
    BY <1>1, DialogKeeps DEF NotListed, FormDone

\* PullFolder and NotPulled, the selection, and opening the dialog.
LEMMA ReaderFrame ==
    ASSUME IInv, JInv,
           Select \/ Reopen \/ \E f \in Items : PullFolder(f) \/ NotPulled(f) \/ SelectFolder(f)
    PROVE  JInv'
  BY DialogKeeps DEF Select, Reopen, PullFolder, NotPulled, SelectFolder

\* Listed: what a submission lists was not there before; a drive's answer takes away
\* what no batch has begun with.
LEMMA ListedFrame ==
    ASSUME IInv, JInv, NEW p \in Pulls, Listed(p)
    PROVE  JInv'
  <1> DEFINE s == Of(p)
             r == {i \in Of(p) : under[i] = 0}
  <1>1. \A i \in s : i \in Items /\ Unread(i) /\ Fresh(i) /\ i \notin Shown
    <2>1. \A i \in s : i \in Items /\ Unread(i)
      BY DEF Of, Unread, At, Listed
    <2> QED
      BY <2>1, UnreadFacts DEF Fresh
  <1>2. /\ form[p] \in {"waiting", "left"} /\ form' = [form EXCEPT ![p] = "done"]
        /\ list' = IF kind = "drive" THEN Sorted(r) ELSE list \o Sorted(s)
        /\ UNCHANGED <<source, open, item, queue, running, batch, nodes, lost, late, page>>
    BY DEF Listed, At
  <1>3. s \in SUBSET Items /\ r \in SUBSET s /\ s \cap Shown = {}
    BY <1>1
  <1> HIDE DEF s, r
  <1>4. \A i \in Shown' : i \in Shown \/ i \in s
    <2>1. CASE kind = "drive"
      <3>1. r \in SUBSET Items
        BY <1>3
      <3>2. Sorted(r) \in Seq(Items) /\ \A k \in 1..Len(Sorted(r)) : Sorted(r)[k] \in r
        BY <3>1, ItemsSorted
      <3>3. list' = Sorted(r)
        BY <1>2, <2>1
      <3> QED
        BY <1>3, <3>2, <3>3 DEF Shown
    <2>2. CASE kind # "drive"
      BY <1>2, <1>3, <2>2, ListGrows
    <2> QED
      BY <2>1, <2>2
  <1>5. \A i \in Shown : i \in Shown' \/ Fresh(i)
    <2>1. CASE kind = "drive"
      BY <1>2, <2>1 DEF JInv, WaitOK
    <2>2. CASE kind # "drive"
      BY <1>2, <1>3, <2>2, ListGrows
    <2> QED
      BY <2>1, <2>2
  <1>6. \A q \in Pulls : form'[q] \in {"waiting", "left"} => form'[q] = form[q]
    BY <1>2 DEF IInv, DataOK
  <1>7. \A i \in Shown' : i \in Shown \/ Fresh(i)
    BY <1>1, <1>4
  <1>8. Tasks' = Tasks /\ \A k \in 1..Len(queue') : queue'[k].at = "start"
    BY <1>2 DEF Tasks, JInv, AnswersOK
  <1> QED
    BY <1>2, <1>5, <1>6, <1>7, <1>8, FrameKeeps DEF source

\* Pulled: what the folder holds is in no batch.
LEMMA PulledFrame ==
    ASSUME IInv, JInv, NEW f \in Items, Pulled(f)
    PROVE  JInv'
  <1> DEFINE s == {i \in Items : under[i] # 0 /\ Top[i] = f}
  <1>1. \A i \in s : i \in Items /\ ~Been(i)
    BY DEF IInv, ListOK, Pulled
  <1>2. /\ list' = list \o Sorted(s)
        /\ UNCHANGED <<source, open, form, queue, running, batch, nodes, lost, late, page>>
    BY DEF Pulled
  <1> HIDE DEF s
  <1>3. s \in SUBSET Items /\ s \cap Shown = {} /\ \A i \in s : Fresh(i)
    BY <1>1 DEF Been, Fresh
  <1>4. Shown' = Shown \cup s
    BY <1>2, <1>3, ListGrows
  <1>5. \A i \in Items : /\ item'[i].parent = item[i].parent
                         /\ item'[i].status = "imported" =>
                               item[i].status = "imported" /\ item'[i].id = item[i].id
    <2>1. item \in [Items -> ItemState]
      BY DEF IInv, DataOK
    <2>2. item' = [i \in Items |-> IF i \in {f} \cap Shown THEN [item[i] EXCEPT !.req = TRUE] ELSE item[i]]
      BY DEF Pulled, Update
    <2> QED
      BY <2>1, <2>2 DEF ItemState
  <1>6. Tasks' = Tasks /\ \A k \in 1..Len(queue') : queue'[k].at = "start"
    BY <1>2 DEF Tasks, JInv, AnswersOK
  <1> QED
    BY <1>2, <1>3, <1>4, <1>5, <1>6, FrameKeeps DEF source

\* SubmitItems: nothing was listed.
LEMMA SubmitItemsFrame ==
    ASSUME IInv, JInv, NEW p \in Pulls, SubmitItems(p)
    PROVE  JInv'
  <1> DEFINE s == Of(p)
  <1>1. /\ list = <<>> /\ list' = Sorted(s) /\ kind \in {"file", "url"} /\ s \in SUBSET Items
        /\ UNCHANGED <<source, open, item, batch, nodes, lost, late, page>>
        /\ \A i \in s : Unread(i)
    BY DEF SubmitItems, FormShown, Of, Unread, At
  <1>2. \A i \in s : Fresh(i)
    BY <1>1, UnreadFacts DEF Fresh
  <1> HIDE DEF s
  <1>3. Sorted(s) \in Seq(Items) /\ \A k \in 1..Len(Sorted(s)) : Sorted(s)[k] \in s
    BY <1>1, ItemsSorted
  <1>4. Shown = {} /\ \A i \in Shown' : Fresh(i)
    BY <1>1, <1>2, <1>3, ShownItems DEF IInv, Shown
  <1>5. /\ \A k \in 1..Len(queue') : queue'[k].at = "start"
        /\ \A t : t.at # "start" => (t \in Tasks' <=> t \in Tasks)
    <2>1. PICK op \in {"upload", "parse"} : Enqueue(Each(op, 0, Sorted(s)))
      <3>1. Enqueue(Each("upload", 0, list')) \/ Enqueue(Each("parse", 0, list'))
        BY DEF SubmitItems
      <3>2. Enqueue(Each("upload", 0, Sorted(s))) \/ Enqueue(Each("parse", 0, Sorted(s)))
        BY <1>1, <3>1
      <3> QED
        BY <3>2
    <2> QED
      BY <1>3, <2>1, PushedEach DEF IInv, JInv, AnswersOK
  <1>6. \A t : t.at = "answer" => (t \in Tasks' <=> t \in Tasks)
    BY <1>5
  <1>7. \A q \in Pulls : form'[q] = "left" => form[q] = "left"
    BY DEF SubmitItems, IInv, DataOK
  <1> QED
    BY <1>1, <1>4, <1>5, <1>6, <1>7, FrameKeeps DEF source

\* UploadsDone.
LEMMA UploadsDoneFrame ==
    ASSUME IInv, JInv, NEW p \in Pulls, UploadsDone(p)
    PROVE  JInv'
  <1> DEFINE s == {i \in Of(p) \cap With({"common"}) : item[i].id # 0}
  <1>1. /\ SetStatus(s, "parsing") /\ Enqueue(Each("parse", 0, Sorted(s))) /\ s \in SUBSET Items
        /\ UNCHANGED <<source, open, list, batch, nodes, lost, late, page>> /\ Shown' = Shown
    BY DEF UploadsDone, Of, Shown
  <1> HIDE DEF s
  <1>2. /\ \A k \in 1..Len(queue') : queue'[k].at = "start"
        /\ \A t : t.at # "start" => (t \in Tasks' <=> t \in Tasks)
    BY <1>1, ItemsSorted, PushedEach DEF IInv, JInv, AnswersOK
  <1>3. \A t : t.at = "answer" => (t \in Tasks' <=> t \in Tasks)
    BY <1>2
  <1>4. \A i \in Items : /\ item'[i].parent = item[i].parent
                         /\ item'[i].status = "imported" =>
                               item[i].status = "imported" /\ item'[i].id = item[i].id
    BY <1>1, StatusSet DEF IInv, Statuses
  <1>5. \A q \in Pulls : form'[q] \in {"waiting", "left"} => form'[q] = form[q]
    BY DEF UploadsDone, IInv, DataOK
  <1> QED
    BY <1>1, <1>2, <1>3, <1>4, <1>5, FrameKeeps DEF source

\* BatchParse.
LEMMA BatchParseFrame ==
    ASSUME IInv, JInv, BatchParse
    PROVE  JInv'
  <1> DEFINE s == Chosen({"parse-error"})
  <1>1. /\ SetStatus(s, "parsing") /\ Enqueue(Each("parse", 0, Among(list, s))) /\ Among(list, s) \in Seq(Items)
        /\ UNCHANGED <<source, open, form, list, batch, nodes, lost, late, page>> /\ Shown' = Shown
    BY AmongFacts DEF BatchParse, Shown, IInv, DataOK
  <1> HIDE DEF s
  <1>2. /\ \A k \in 1..Len(queue') : queue'[k].at = "start"
        /\ \A t : t.at # "start" => (t \in Tasks' <=> t \in Tasks)
    BY <1>1, PushedEach DEF IInv, JInv, AnswersOK
  <1>3. \A t : t.at = "answer" => (t \in Tasks' <=> t \in Tasks)
    BY <1>2
  <1>4. \A i \in Items : /\ item'[i].parent = item[i].parent
                         /\ item'[i].status = "imported" =>
                               item[i].status = "imported" /\ item'[i].id = item[i].id
    BY <1>1, StatusSet DEF IInv, Statuses
  <1> QED
    BY <1>1, <1>2, <1>3, <1>4, FrameKeeps DEF source

\* ParseEnds and UploadEnds: what was imported is not parsed or uploaded.
LEMMA ReadEndsFrame ==
    ASSUME IInv, JInv, NEW t \in running, ParseEnds(t) \/ UploadEnds(t)
    PROVE  JInv'
  <1>1. /\ t \in Tasks /\ t.at # "answer" /\ Settle(t) /\ t.item \in Items
        /\ UNCHANGED <<source, open, form, list, batch, nodes, lost, late, page>> /\ Shown' = Shown
    BY TaskTypes DEF IInv, TasksOK, TaskOK, ParseEnds, UploadEnds, Shown, Things
  <1>2. Tasks' = Tasks \ {t} /\ \A k \in 1..Len(queue') : queue'[k].at = "start"
    BY <1>1, SettleKeeps, Settled DEF IInv, JInv, AnswersOK
  <1>3. \A u : u.at = "answer" => (u \in Tasks' <=> u \in Tasks)
    BY <1>1, <1>2
  <1>4. \A i \in Items : /\ item'[i].parent = item[i].parent
                         /\ item'[i].status = "imported" =>
                               item[i].status = "imported" /\ item'[i].id = item[i].id
    <2>1. CASE \E s \in Statuses \ {"imported"} : SetStatus({t.item}, s)
      <3>1. PICK s \in Statuses \ {"imported"} : SetStatus({t.item}, s)
        BY <2>1
      <3> QED
        BY <3>1, StatusSet DEF IInv
    <2>2. CASE UploadEnds(t) /\ Update({t.item}, LAMBDA i : [item[i] EXCEPT !.id = key[i]])
      <3>1. item' = [i \in Items |-> IF i \in {t.item} \cap Shown THEN [item[i] EXCEPT !.id = key[i]] ELSE item[i]]
        BY <2>2 DEF Update
      <3>2. item \in [Items -> ItemState]
        BY DEF IInv, DataOK
      <3>3. item[t.item].status # "imported"
        BY <1>1, <2>2 DEF UploadEnds, IInv, PhaseOK
      <3> QED
        BY <3>1, <3>2, <3>3 DEF ItemState
    <2> QED
      BY <2>1, <2>2 DEF ParseEnds, UploadEnds, Statuses
  <1> QED
    BY <1>1, <1>2, <1>3, <1>4, FrameKeeps DEF source

\* LoopNext, nothing left.
LEMMA LoopEndsFrame ==
    ASSUME IInv, JInv, NEW b \in Batches, LoopNext(b), batch[b].todo = <<>>
    PROVE  JInv'
  <1>1. /\ UNCHANGED <<source, dialog, queue, running, nodes, lost, late, page>> /\ Tasks' = Tasks
        /\ Shown' = Shown /\ \A k \in 1..Len(queue') : queue'[k].at = "start"
    BY DEF LoopNext, Tasks, Shown, dialog, JInv, AnswersOK
  <1>2. \A c \in Batches : /\ batch'[c].todo = batch[c].todo /\ batch'[c].map = batch[c].map
                           /\ batch'[c].pc = "unused" => batch[c].pc = "unused"
    <2>1. batch \in [Batches -> BatchType] /\ batch' = [batch EXCEPT ![b].pc = "over"]
      BY DEF IInv, DataOK, LoopNext
    <2> QED
      BY <2>1 DEF BatchType
  <1> QED
    BY <1>1, <1>2, FrameKeeps DEF source, dialog

\* LoopNext: a task that has not begun.
LEMMA LoopPushesFrame ==
    ASSUME IInv, JInv, NEW b \in Batches, LoopNext(b), batch[b].todo # <<>>
    PROVE  JInv'
  <1>1. UNCHANGED <<source, dialog, batch, nodes, lost, late, page>> /\ Shown' = Shown
    BY DEF LoopNext, Shown, dialog
  <1>2. /\ \A k \in 1..Len(queue') : queue'[k].at = "start"
        /\ \A t : t.at # "start" => (t \in Tasks' <=> t \in Tasks)
    <2>1. PICK u : u = Task("import", Head(batch[b].todo).item, b)
      OBVIOUS
    <2>2. Enqueue(<<u>>) /\ u.at = "start"
      BY <2>1 DEF LoopNext, Task
    <2>3. u \in Things
      <3>1. Len(batch[b].todo) \in Nat \ {0} /\ Head(batch[b].todo) = batch[b].todo[1] /\ 1 \in 1..Len(batch[b].todo)
        BY BatchTypes DEF IInv
      <3>2. Head(batch[b].todo).item \in Items /\ b \in 0..MaxBatches
        BY <3>1, BatchTypes, LimitAssumption DEF IInv, Batches
      <3> QED
        BY <2>1, <3>2 DEF Task, Things
    <2>4. <<u>> \in Seq(Things) /\ \A k \in 1..Len(<<u>>) : <<u>>[k].at = "start"
      BY <2>2, <2>3
    <2> QED
      BY <2>2, <2>4, Pushed DEF IInv, JInv, AnswersOK
  <1>3. \A t : t.at = "answer" => (t \in Tasks' <=> t \in Tasks)
    BY <1>2
  <1> QED
    BY <1>1, <1>2, <1>3, FrameKeeps DEF source, dialog

\* Export.
LEMMA ExportFrame ==
    ASSUME IInv, JInv, NEW t \in running, Export(t)
    PROVE  JInv'
  <1> DEFINE u == [t EXCEPT !.at = IF t.at = "start" THEN "poll" ELSE "create"]
  <1>1. /\ t \in Tasks /\ t \in Things /\ t.at # "answer" /\ Onward(t, u)
        /\ UNCHANGED <<source, dialog, batch, nodes, lost, late, page>> /\ Shown' = Shown
    BY TaskTypes DEF IInv, Export, Shown, dialog
  <1>2. u \in Things /\ u.op = t.op /\ u.item = t.item /\ u.batch = t.batch /\ u.at # "answer"
    BY <1>1 DEF Things
  <1> HIDE DEF u
  <1>3. Tasks' = (Tasks \ {t}) \cup {u} /\ queue' = queue
    BY <1>1, <1>2, OnwardKeeps DEF IInv, Onward
  <1>4. /\ \A k \in 1..Len(queue') : queue'[k].at = "start"
        /\ \A x : x.at = "answer" => (x \in Tasks' <=> x \in Tasks)
    BY <1>1, <1>2, <1>3 DEF JInv, AnswersOK
  <1> QED
    BY <1>1, <1>4, FrameKeeps DEF source, dialog

\* Close: what was answered while the dialog was open is shown as imported, and then
\* the page is refreshed.
LEMMA CloseFrame ==
    ASSUME IInv, JInv, Close
    PROVE  JInv'
  <1>1. /\ UNCHANGED <<source, item, queue, running, batch, nodes, lost, late>> /\ Tasks' = Tasks
        /\ ~open' /\ \A k \in 1..Len(queue') : queue'[k].at = "start"
    BY DEF Close, Tasks, JInv, AnswersOK
  <1>2. AnswersOK' /\ IdsOK' /\ ParentsOK' /\ MapsOK' /\ SameBatchStaysTogether'
    BY <1>1, FrameParts DEF source
  <1>3. Shown' = {} /\ \A n : UnderWay(n)' <=> UnderWay(n)
    <2>1. Len(<<>>) = 0
      OBVIOUS
    <2> QED
      BY <1>1, <2>1 DEF Shown, UnderWay, Close
  <1>4. PageOK'
    <2>1. ASSUME NEW n \in (1..Len(nodes)) \ (lost \cup late \cup page')
          PROVE  UnderWay(n)
      <3>1. With({"imported"}) = {} /\ page' = page
        BY DEF Close
      <3>2. UnderWay(n) \/ nodes[n].item \in Shown
        BY <3>1 DEF JInv, PageOK
      <3>3. UnderWay(n) \/ (nodes[n].item \in Shown => item[nodes[n].item].status = "imported")
        BY DEF IInv, NodesOK, UnderWay
      <3>4. nodes[n].item \in Shown => item[nodes[n].item].status # "imported"
        BY <3>1 DEF With
      <3> QED
        BY <3>2, <3>3, <3>4
    <2> QED
      BY <1>1, <1>3, <2>1 DEF PageOK
  <1>5. WaitOK'
    <2>1. kind # "export" => \A p \in Pulls : form'[p] = "left" => form[p] = "left"
      BY DEF Close, At, IInv, DataOK
    <2> QED
      BY <1>1, <1>3, <2>1, WaitFrame DEF JInv, source
  <1> QED
    BY <1>2, <1>4, <1>5 DEF JInv

\* BatchImport: the batch begins with nothing created.
LEMMA BatchImportFrame ==
    ASSUME IInv, JInv, NEW b \in Batches, BatchImport(b)
    PROVE  JInv'
  <1> DEFINE s == {i \in Chosen({"parsed", "import-error"}) : i \in folder => item[i].req}
             q == Among(list, s)
             td == [k \in 1..Len(q) |-> [item |-> q[k], parent |-> item[q[k]].parent]]
  <1>1. s \subseteq Shown /\ \A i \in s : item[i].status \in {"parsed", "import-error"}
    BY DEF With, Chosen
  <1>2. q \in Seq(Items) /\ \A k \in 1..Len(q) : q[k] \in s
    <2>1. list \in Seq(Items)
      BY DEF IInv, DataOK
    <2> HIDE DEF s
    <2> QED
      BY <2>1, AmongFacts
  <1>3. SetStatus(s, "importing") /\ batch[b].pc = "unused" /\ open
        /\ batch' = [batch EXCEPT ![b].pc = "running", ![b].todo = td]
        /\ UNCHANGED <<source, open, form, list, queue, running, nodes, lost, page, late>>
    BY DEF BatchImport
  <1> HIDE DEF s, q
  <1>4. Len(td) = Len(q) /\ \A k \in 1..Len(td) : td[k].item \in s /\ td[k].parent = item[td[k].item].parent
    BY <1>2
  <1> HIDE DEF td
  <1>5. /\ batch'[b].todo = td /\ batch'[b].pc = "running" /\ batch'[b].map = batch[b].map
        /\ \A c \in Batches \ {b} : batch'[c] = batch[c]
    <2>1. batch \in [Batches -> BatchType]
      BY DEF IInv, DataOK
    <2> QED
      BY <1>3, <2>1 DEF BatchType
  <1>6. Tasks' = Tasks /\ Shown' = Shown
    BY <1>3 DEF Tasks, Shown
  <1>7. \A i \in Items : /\ item'[i].parent = item[i].parent /\ item'[i].id = item[i].id
                         /\ item'[i].status = "imported" => item[i].status = "imported"
    BY <1>3, StatusSet DEF IInv, Statuses
  <1>8. (\A n : UnderWay(n)' <=> UnderWay(n)) /\ (\A n : Answered(n)' <=> Answered(n))
    <2>1. \A n : UnderWay(n)' <=> UnderWay(n)
      BY <1>6 DEF UnderWay
    <2> QED
      BY <1>3, <2>1 DEF Answered
  <1>9. AnswersOK'
    <2>1. \A n \in 1..Len(nodes) : nodes[n].batch \in Batches
      BY NodeTypes DEF IInv
    <2>2. \A c \in Batches : batch[c].pc # "unused" => batch'[c].pc # "unused"
      BY <1>5
    <2>3. \A n \in 1..Len(nodes) : batch'[nodes[n].batch].pc # "unused"
      BY <2>1, <2>2 DEF JInv, AnswersOK
    <2> QED
      BY <1>3, <1>6, <2>3 DEF JInv, AnswersOK
  <1>10. PageOK'
    BY <1>3, <1>6, <1>8 DEF JInv, PageOK
  <1>11. WaitOK'
    <2>1. kind # "export" => \A p \in Pulls : form[p] \notin {"left", "waiting"}
      BY DEF BatchImport, Loading, At, JInv, WaitOK
    <2> QED
      BY <1>3, <2>1 DEF WaitOK, source
  <1>12. IdsOK'
    BY <1>3, <1>7 DEF JInv, IdsOK
  <1>13. \A l \in 1..Len(nodes) : nodes[l].batch # b
    BY <1>3 DEF JInv, AnswersOK
  <1>14. ParentsOK' /\ \A i \in Items : Astray(i) => Astray(i)'
    <2>1. ASSUME NEW k \in 1..Len(td), NEW x, x = td[k] PROVE NotedOK(b, x)'
      <3>2. x.item \in Items /\ x.parent = item[x.item].parent
        BY <1>1, <1>4, <2>1, ShownItems DEF IInv
      <3>3. x.parent = Above(x.item) \/ Moved(x.item)
        BY <3>2 DEF JInv, ParentsOK
      <3>4. CASE x.parent = Above(x.item)
        <4>1. Above(x.item)' = Above(x.item)
          BY <1>3 DEF Above, source
        <4> QED
          BY <3>4, <4>1 DEF NotedOK
      <3>5. CASE Moved(x.item)
        <4>1. x.parent > N /\ x.parent - N \in 1..Len(nodes) /\ nodes' = nodes
          BY <1>3, <3>2, <3>5 DEF Moved, Answered
        <4>2. item'[x.item].parent = x.parent /\ nodes'[x.parent - N].batch # b
          BY <1>7, <1>13, <3>2, <4>1
        <4> QED
          BY <4>1, <4>2 DEF NotedOK
      <3> QED
        BY <3>3, <3>4, <3>5
    <2>2. ASSUME NEW c \in Batches, NEW k \in 1..Len(batch'[c].todo)
          PROVE  \/ \E l \in 1..Len(batch[c].todo) : batch'[c].todo[k] = batch[c].todo[l]
                 \/ NotedOK(c, batch[c].todo[k])'
      <3>1. CASE c = b
        <4>1. PICK x : x = td[k]
          OBVIOUS
        <4>2. k \in 1..Len(td) /\ batch'[c].todo[k] = x
          BY <1>5, <3>1, <4>1
        <4>3. NotedOK(b, x)'
          BY <2>1, <4>1, <4>2
        <4> QED
          BY <3>1, <4>2, <4>3
      <3>2. CASE c # b
        BY <1>5, <3>2
      <3> QED
        BY <3>1, <3>2
    <2>3. ParentsOK /\ UNCHANGED <<under, key, nodes>>
      BY <1>3 DEF JInv, source
    <2> QED
      BY <1>7, <1>8, <2>2, <2>3, ParentsKept
  <1>15. MapsOK'
    <2>1. \A c \in Batches : batch'[c].map = batch[c].map
      BY <1>5
    <2>2. UNCHANGED <<nodes, folder, key>>
      BY <1>3 DEF source
    <2> QED
      BY <1>8, <2>1, <2>2 DEF JInv, MapsOK
  <1>16. SameBatchStaysTogether'
    BY <1>3, <1>14, SameStays DEF JInv, source
  <1> QED
    BY <1>9, <1>10, <1>11, <1>12, <1>14, <1>15, <1>16 DEF JInv

\* A node under way is that of one task.
LEMMA OneAnswer ==
    ASSUME IInv, JInv, NEW t \in Tasks, NEW u \in Tasks, t.at = "answer", u.at = "answer",
           t.node = u.node
    PROVE  t = u
  <1>1. t.batch = u.batch
    BY DEF JInv, AnswersOK
  <1>2. t.op = "import" /\ u.op = "import"
    BY DEF IInv, TasksOK, TaskOK
  <1> QED
    BY <1>1, <1>2, TaskUnique DEF IInv, Same

\* CreateNode: its folder's node, if the batch has one that was answered, is the one
\* idMapping knows.
LEMMA CreateNodeFrame ==
    ASSUME IInv, JInv, NEW t \in running, CreateNode(t)
    PROVE  JInv'
  <1>1. /\ t \in Tasks /\ t \in Things /\ TaskOK(t) /\ t.op = "import" /\ t.at # "answer"
        /\ Len(nodes) \in Nat
    BY TaskTypes, NodeTypes DEF IInv, TasksOK, CreateNode, source
  <1>2. PICK n, x, u : /\ n = Len(nodes) + 1
                       /\ x = [item |-> t.item, parent |-> Parent(t), batch |-> t.batch]
                       /\ u = [t EXCEPT !.at = "answer", !.node = n]
    OBVIOUS
  <1>3. /\ u \in Things /\ u.op = t.op /\ u.item = t.item /\ u.batch = t.batch
        /\ u.at = "answer" /\ u.node = n
    <2>1. n \in Nat /\ t \in Things
      BY <1>1, <1>2
    <2>2. u = [t EXCEPT !.at = "answer", !.node = n]
      BY <1>2
    <2> QED
      BY <2>1, <2>2 DEF Things
  <1>4. Tasks' = (Tasks \ {t}) \cup {u} /\ queue' = queue
    <2>1. Onward(t, u)
      BY <1>2 DEF CreateNode, source
    <2> QED
      BY <1>3, <2>1, OnwardKeeps DEF IInv, Onward
  <1>5. /\ t.batch \in Batches /\ t.item \in Items /\ InTodo(t.batch, t.item)
        /\ batch[t.batch].pc = "running" /\ t.item = batch[t.batch].todo[1].item
        /\ 1 \in 1..Len(batch[t.batch].todo)
    <2>1. t.batch \in Batches /\ batch[t.batch].todo # <<>> /\ t.item = batch[t.batch].todo[1].item
      BY <1>1 DEF TaskOK
    <2>2. Len(batch[t.batch].todo) \in Nat \ {0} /\ 1 \in 1..Len(batch[t.batch].todo)
      BY <2>1, BatchTypes DEF IInv
    <2> QED
      BY <1>1, <2>1, <2>2 DEF InTodo, Things, IInv, TodosOK
  <1>6. /\ Len(nodes') = n /\ nodes'[n] = x /\ n \in Nat
        /\ \A k \in 1..Len(nodes) : nodes'[k] = nodes[k] /\ k # n /\ k \in 1..n
        /\ \A k \in 1..n : k \in 1..Len(nodes) \/ k = n
        /\ x.item = t.item /\ x.parent = Parent(t) /\ x.batch = t.batch
    <2>1. nodes \in Seq([item : Items, parent : 0..Len(nodes), batch : Batches]) /\ nodes' = Append(nodes, x)
      BY <1>2 DEF IInv, DataOK, CreateNode, source
    <2>2. \E R : nodes \in Seq(R)
      BY <2>1
    <2> QED
      BY <1>1, <1>2, <2>1, <2>2
  <1>7. /\ item' = item /\ batch' = batch /\ lost' = lost /\ late' = late /\ page' = page /\ list' = list
        /\ open' = open /\ UNCHANGED <<kind, folder, under, key, form>> /\ Shown' = Shown
    BY DEF CreateNode, source, dialog, Shown
  <1>8. /\ \A k \in 1..Len(nodes) : UnderWay(k)' <=> UnderWay(k)
        /\ UnderWay(n)'
    BY <1>1, <1>3, <1>4, <1>6 DEF UnderWay
  <1>9. /\ \A k \in 1..Len(nodes) : Answered(k)' <=> Answered(k)
        /\ \A k : Answered(k) => Answered(k)'
        /\ ~Answered(n)'
    <2>1. \A k \in 1..Len(nodes) : k \in 1..Len(nodes')
      BY <1>1, <1>2, <1>6
    <2> QED
      BY <1>7, <1>8, <2>1 DEF Answered
  <1>10. lost \subseteq 1..Len(nodes) /\ n \notin lost
    BY <1>6 DEF IInv, DataOK
  <1>11. AnswersOK'
    <2>1. ASSUME NEW y \in Tasks', y.at = "answer"
          PROVE  /\ y.node \notin lost /\ nodes'[y.node].batch = y.batch
                 /\ \A k \in 1..Len(nodes') : nodes'[k].batch = y.batch => k <= y.node
      <3>1. CASE y = u
        <4>1. \A k \in 1..n : k <= n
          BY <1>6
        <4> QED
          BY <3>1, <4>1, <1>3, <1>6, <1>10
      <3>2. CASE y \in Tasks /\ y # u
        <4>1. /\ y.node \in 1..Len(nodes) /\ y.node \notin lost /\ nodes[y.node].batch = y.batch
              /\ \A k \in 1..Len(nodes) : nodes[k].batch = y.batch => k <= y.node
          BY <2>1, <3>2 DEF IInv, TasksOK, TaskOK, JInv, AnswersOK
        <4>2. y.batch # t.batch
          <5>1. y.op = "import"
            BY <2>1, <3>2 DEF IInv, TasksOK, TaskOK
          <5> QED
            BY <5>1, <2>1, <3>2, <1>1, TaskUnique DEF IInv, Same
        <4> QED
          BY <4>1, <4>2, <1>6
      <3> QED
        BY <3>1, <3>2, <1>4
    <2>2. \A k \in 1..n : batch[nodes'[k].batch].pc # "unused"
      BY <1>5, <1>6 DEF JInv, AnswersOK
    <2> QED
      BY <1>4, <1>6, <1>7, <2>1, <2>2 DEF JInv, AnswersOK
  <1>12. PageOK'
    <2>1. \A k \in (1..Len(nodes')) \ (lost \cup late \cup page) :
             UnderWay(k)' \/ (open /\ nodes'[k].item \in Shown)
      BY <1>6, <1>8 DEF JInv, PageOK
    <2>2. ~open => \A b \in Batches, i \in Shown : ~InTodo(b, i)
      BY DEF JInv, PageOK
    <2> QED
      BY <1>7, <2>1, <2>2 DEF PageOK, InTodo
  <1>13. IdsOK'
    BY <1>6, <1>7 DEF JInv, IdsOK
  <1>14. ParentsOK' /\ \A i \in Items : Astray(i) => Astray(i)'
    <2>1. \A c \in Batches : \A k \in 1..Len(batch'[c].todo) :
             \E l \in 1..Len(batch[c].todo) : batch'[c].todo[k] = batch[c].todo[l]
      BY <1>7
    <2> QED
      BY <1>6, <1>7, <1>9, <2>1, ParentsKept DEF JInv
  <1>15. MapsOK'
    <2>1. ASSUME NEW b \in Batches, NEW i \in Items, batch[b].map[i] # 0
          PROVE  key[nodes'[batch[b].map[i]].item] = i /\ nodes'[batch[b].map[i]].batch = b
      <3>1. batch[b].map[i] \in 1..Len(nodes)
        BY <2>1, <1>1, BatchTypes DEF IInv
      <3>2. key[nodes[batch[b].map[i]].item] = i /\ nodes[batch[b].map[i]].batch = b
        BY <2>1 DEF JInv, MapsOK
      <3> QED
        BY <3>1, <3>2, <1>6
    <2>2. ASSUME NEW b \in Batches, NEW k \in 1..Len(nodes'), Answered(k)',
                 nodes'[k].batch = b, nodes'[k].item \in folder
          PROVE  batch[b].map[key[nodes'[k].item]] >= k
      <3>1. k \in 1..Len(nodes) /\ nodes'[k] = nodes[k] /\ Answered(k)
        BY <2>2, <1>6, <1>9
      <3> QED
        BY <3>1, <2>2 DEF JInv, MapsOK
    <2> QED
      BY <1>7, <2>1, <2>2 DEF MapsOK
  <1>w. WaitOK'
    <2>1. ASSUME NEW i \in Items, Fresh(i) PROVE Fresh(i)'
      <3>1. i # t.item
        BY <1>5, <2>1 DEF Fresh
      <3>2. \A k \in 1..Len(nodes') : nodes'[k].item # i
        BY <1>6, <2>1, <3>1 DEF Fresh
      <3>3. \A b \in Batches : ~InTodo(b, i)'
        BY <1>7, <2>1 DEF Fresh, InTodo
      <3> QED
        BY <3>2, <3>3 DEF Fresh
    <2>2. Shown \subseteq Items
      BY ShownItems DEF IInv
    <2> QED
      BY <1>7, <2>1, <2>2, WaitFrame DEF JInv
  <1>16. SameBatchStaysTogether'
    <2> DEFINE i == t.item
               f == under[i]
               q == batch[t.batch].todo[1].parent
    <2>1. Parent(t) = IF q \in Items THEN batch[t.batch].map[q] ELSE 0
      <3>1. PICK z : z = batch[t.batch].todo
        OBVIOUS
      <3>2. z \in Seq([item : Items, parent : Ids])
        BY <3>1, <1>5, BatchTypes DEF IInv
      <3>3. z # <<>>
        BY <3>1, <1>1 DEF TaskOK
      <3>4. Head(z) = z[1]
        BY <3>2, <3>3
      <3> QED
        BY <3>1, <3>4 DEF Parent
    <2>2. \/ q = Above(i)
          \/ q > N /\ item[i].parent = q /\ nodes[q - N].batch # t.batch
      <3>1. PICK y : y = batch[t.batch].todo[1]
        OBVIOUS
      <3>2. NotedOK(t.batch, y) /\ y.item = i
        BY <3>1, <1>5 DEF JInv, ParentsOK
      <3> QED
        BY <3>1, <3>2 DEF NotedOK
    <2>3. /\ i \in Items /\ DataOK /\ N \in Nat /\ Above(i) \in 0..N
          /\ IF f = 0 THEN Above(i) = 0 ELSE Above(i) = key[f] /\ Above(i) \in Items /\ f \in folder
      BY <1>5, AboveIs DEF IInv
    <2>4. 0 \notin Items /\ \A z \in Nat : z > N => z \notin Items
      BY NAssumption DEF Items
    <2>5. q > N => q \notin Items
      <3>1. q > N => q = item[i].parent
        BY <2>2, <2>3
      <3>2. item[i].parent \in Nat
        BY <2>3, <1>1, ItemTypes
      <3> QED
        BY <2>4, <3>1, <3>2
    <2> HIDE DEF q, f, i
    <2>6. ASSUME Parent(t) # 0
          PROVE  /\ f # 0 /\ Parent(t) \in 1..Len(nodes) /\ key[nodes[Parent(t)].item] = key[f]
                 /\ nodes[Parent(t)].batch = t.batch
      <3>1. q \in Items /\ Parent(t) = batch[t.batch].map[q]
        BY <2>1, <2>6
      <3>2. q = Above(i) /\ f # 0 /\ q = key[f]
        BY <2>2, <2>3, <2>4, <2>5, <3>1
      <3>3. batch[t.batch].map[q] \in 0..Len(nodes)
        BY <1>5, <3>1, BatchTypes DEF IInv
      <3>4. key[nodes[batch[t.batch].map[q]].item] = q /\ nodes[batch[t.batch].map[q]].batch = t.batch
        BY <1>5, <2>6, <3>1 DEF JInv, MapsOK
      <3> QED
        BY <1>1, <2>6, <3>1, <3>2, <3>3, <3>4
    <2>7. ASSUME NEW m \in (1..Len(nodes)) \ lost, nodes[m].item = f, nodes[m].batch = t.batch
          PROVE  Parent(t) \in m..Len(nodes) \/ (Parent(t) = 0 /\ Astray(i))
      <3>1. f \in Items /\ f # 0
        <4>1. nodes[m].item \in Items
          BY NodeTypes DEF IInv
        <4> QED
          BY <4>1, <2>4, <2>7
      <3>2. Answered(m)
        <4> SUFFICES ASSUME NEW y \in Tasks, y.at = "answer", y.node = m PROVE FALSE
          BY <2>7 DEF UnderWay, Answered
        <4>1. y.batch = t.batch /\ y.op = "import"
          BY <2>7 DEF JInv, AnswersOK, IInv, TasksOK, TaskOK
        <4> QED
          BY <4>1, <1>1, TaskUnique DEF IInv, Same
      <3>3. CASE q = Above(i)
        <4>1. q = key[f] /\ q \in Items /\ f \in folder
          BY <2>3, <3>1, <3>3
        <4>2. batch[t.batch].map[q] >= m
          BY <1>5, <2>7, <3>2, <4>1 DEF JInv, MapsOK
        <4>3. batch[t.batch].map[q] \in 0..Len(nodes)
          BY <1>5, <4>1, BatchTypes DEF IInv
        <4> QED
          BY <1>1, <2>1, <4>1, <4>2, <4>3
      <3>4. CASE q > N /\ item[i].parent = q /\ nodes[q - N].batch # t.batch
        <4>1. Parent(t) = 0
          BY <2>1, <2>5, <3>4
        <4>2. Moved(i)
          <5>1. q # Above(i)
            BY <2>3, <3>4
          <5> QED
            BY <2>3, <3>4, <5>1 DEF JInv, ParentsOK
        <4>3. PICK k : k = q - N
          OBVIOUS
        <4>4. Answered(k) /\ nodes[k].batch # t.batch
          BY <3>4, <4>2, <4>3 DEF Moved
        <4>5. nodes[k].item # f
          <5>1. k \in 1..Len(nodes) /\ k \notin lost /\ k # m
            BY <2>7, <4>4 DEF Answered
          <5>2. k < m \/ m < k
            BY <5>1
          <5> QED
            BY <2>7, <5>1, <5>2 DEF IInv, NodesOK, OneNodeEach
        <4>6. Astray(i)
          BY <3>4, <4>3, <4>5 DEF Astray, f
        <4> QED
          BY <4>1, <4>6
      <3> QED
        BY <2>2, <3>3, <3>4
    <2>8. ASSUME NEW k \in 1..Len(nodes')
          PROVE  /\ nodes'[k].parent # 0 =>
                       /\ under[nodes'[k].item] # 0
                       /\ key[nodes'[nodes'[k].parent].item] = key[under[nodes'[k].item]]
                       /\ nodes'[nodes'[k].parent].batch = nodes'[k].batch
                 /\ \A m \in 1..(k - 1) \ lost :
                       nodes'[m].item = under[nodes'[k].item] /\ nodes'[m].batch = nodes'[k].batch =>
                          \/ nodes'[k].parent \in m..(k - 1)
                          \/ nodes'[k].parent = 0 /\ Astray(nodes[k].item)'
      <3>1. CASE k \in 1..Len(nodes)
        <4>1. nodes'[k] = nodes[k] /\ \A m \in 1..(k - 1) : m \in 1..Len(nodes) /\ nodes'[m] = nodes[m]
          BY <1>1, <1>6, <3>1
        <4>y. PICK y : y = nodes[k]
          OBVIOUS
        <4>2. /\ y.parent # 0 => /\ under[y.item] # 0
                                 /\ key[nodes[y.parent].item] = key[under[y.item]]
                                 /\ nodes[y.parent].batch = y.batch
              /\ \A m \in 1..(k - 1) \ lost :
                    nodes[m].item = under[y.item] /\ nodes[m].batch = y.batch =>
                       y.parent \in m..(k - 1) \/ (y.parent = 0 /\ Astray(y.item))
          BY <3>1, <4>y DEF JInv, SameBatchStaysTogether
        <4>3. (y.parent # 0 => y.parent \in 1..Len(nodes)) /\ y.item \in Items
          BY <1>1, <3>1, <4>y, NodeTypes DEF IInv
        <4>4. Astray(y.item) => Astray(y.item)'
          BY <4>3, <1>14
        <4>5. nodes'[k] = y /\ (y.parent # 0 => nodes'[y.parent] = nodes[y.parent])
          BY <4>1, <4>y, <4>3, <1>6
        <4>6. \A m \in 1..(k - 1) \ lost :
                    nodes'[m].item = under[y.item] /\ nodes'[m].batch = y.batch =>
                       y.parent \in m..(k - 1) \/ (y.parent = 0 /\ Astray(y.item)')
          BY <4>1, <4>2, <4>4
        <4>7. Astray(nodes[k].item)' <=> Astray(y.item)'
          BY <4>5
        <4> QED
          BY <4>2, <4>5, <4>6, <4>7
      <3>2. CASE k = n
        <4>1. \A m \in 1..(k - 1) : m \in 1..Len(nodes) /\ nodes'[m] = nodes[m]
          BY <1>1, <1>2, <1>6, <3>2
        <4>2. nodes'[k].item = i /\ nodes'[k].parent = Parent(t) /\ nodes'[k].batch = t.batch
          BY <1>6, <3>2 DEF i
        <4>3. Parent(t) # 0 =>
                 f # 0 /\ key[nodes'[Parent(t)].item] = key[f] /\ nodes'[Parent(t)].batch = t.batch
          BY <2>6, <1>6
        <4>4. \A m \in 1..(k - 1) \ lost :
                 nodes'[m].item = f /\ nodes'[m].batch = t.batch =>
                    Parent(t) \in m..(k - 1) \/ (Parent(t) = 0 /\ Astray(i)')
          <5>1. Astray(i) => Astray(i)'
            BY <1>14, <2>3
          <5>2. k - 1 = Len(nodes)
            BY <1>1, <1>2, <3>2
          <5> QED
            BY <4>1, <5>1, <5>2, <2>7
        <4>5. PICK j : j = i
          OBVIOUS
        <4> QED
          BY <4>2, <4>3, <4>4 DEF f
      <3> QED
        BY <3>1, <3>2, <1>6
    <2> QED
      BY <2>8, <1>7 DEF SameBatchStaysTogether
  <1> QED
    BY <1>11, <1>12, <1>w, <1>13, <1>14, <1>15, <1>16 DEF JInv

\* ImportFails: a node whose answer is lost is not known to anyone.
LEMMA ImportFailsFrame ==
    ASSUME IInv, JInv, NEW t \in running, ImportFails(t)
    PROVE  JInv'
  <1>1. t \in Tasks /\ t \in Things /\ TaskOK(t) /\ Shown \subseteq Items
    BY TaskTypes, ShownItems DEF IInv, TasksOK
  <1>2. Tasks' = Tasks \ {t} /\ \A k \in 1..Len(queue') : queue'[k].at = "start"
    BY SettleKeeps, Settled DEF IInv, JInv, AnswersOK, ImportFails, source
  <1>3. /\ t.op = "import" /\ t.batch \in Batches /\ InTodo(t.batch, t.item) /\ t.item \in Items
    <2>1. t.op = "import"
      BY <1>1 DEF ImportFails, source, TaskOK
    <2>2. t.batch \in Batches /\ batch[t.batch].todo # <<>> /\ t.item = batch[t.batch].todo[1].item
      BY <1>1, <2>1 DEF TaskOK
    <2>3. Len(batch[t.batch].todo) \in Nat \ {0} /\ 1 \in 1..Len(batch[t.batch].todo)
      BY <2>2, BatchTypes DEF IInv
    <2> QED
      BY <1>1, <2>1, <2>2, <2>3 DEF InTodo, Things
  <1>4. PICK m \in [Items -> 0..Len(nodes)] :
           Leave(t, m) /\ m = batch[t.batch].map
    <2>1. batch[t.batch].map \in [Items -> 0..Len(nodes)]
      BY <1>3, BatchTypes DEF IInv
    <2> QED
      BY <2>1 DEF ImportFails, source
  <1>5. /\ \A c \in Batches \ {t.batch} : batch'[c] = batch[c]
        /\ \A c \in Batches : batch'[c].pc = batch[c].pc
        /\ batch'[t.batch].map = m
        /\ \A c \in Batches : \A k \in 1..Len(batch'[c].todo) :
              \E l \in 1..Len(batch[c].todo) : batch'[c].todo[k] = batch[c].todo[l]
        /\ \A c \in Batches, i \in Items : InTodo(c, i)' <=> InTodo(c, i) /\ i # t.item
    BY <1>1, <1>3, <1>4, LeaveFacts DEF IInv
  <1>6. ASSUME NEW c \in Batches, NEW i, InTodo(c, i)' PROVE InTodo(c, i)
    <2>1. PICK k \in 1..Len(batch'[c].todo) : batch'[c].todo[k].item = i
      BY <1>6 DEF InTodo
    <2>2. \E l \in 1..Len(batch[c].todo) : batch'[c].todo[k] = batch[c].todo[l]
      BY <2>1, <1>5
    <2> QED
      BY <2>1, <2>2 DEF InTodo
  <1>7. /\ nodes' = nodes /\ list' = list /\ open' = open /\ page' = page /\ form' = form
        /\ UNCHANGED <<kind, under, folder, key>>
        /\ Shown' = Shown
    BY DEF Shown, ImportFails, source
  <1>8. \A n : UnderWay(n)' <=> UnderWay(n) /\ ~(t.at = "answer" /\ t.node = n)
    BY <1>1, <1>2, OneAnswer DEF UnderWay
  <1>9. Len(nodes) \in Nat /\ \A n \in 1..Len(nodes) : nodes[n].item \in Items /\ nodes[n].batch \in Batches
    BY NodeTypes DEF IInv
  <1>10. (\A n : Answered(n) => Answered(n)')
         /\ \A n : Answered(n)' => Answered(n) \/ (t.at = "answer" /\ t.node = n /\ n \in 1..Len(nodes))
    <2>1. \A n \in lost' : n \in lost \/ UnderWay(n)
      BY <1>1 DEF UnderWay, ImportFails, source
    <2>2. \A n \in lost : n \in lost'
      BY DEF ImportFails
    <2> QED
      BY <1>7, <1>8, <2>1, <2>2 DEF Answered
  <1>11. AnswersOK'
    <2>1. ASSUME NEW u \in Tasks', u.at = "answer"
          PROVE  /\ u.node \notin lost' /\ nodes[u.node].batch = u.batch
                 /\ \A n \in 1..Len(nodes) : nodes[n].batch = u.batch => n <= u.node
      <3>1. u \in Tasks /\ u # t
        BY <1>2
      <3>2. /\ u.node \notin lost /\ nodes[u.node].batch = u.batch
            /\ \A n \in 1..Len(nodes) : nodes[n].batch = u.batch => n <= u.node
        BY <2>1, <3>1 DEF JInv, AnswersOK
      <3>3. t.at = "answer" => t.node # u.node
        BY <1>1, <2>1, <3>1, OneAnswer
      <3> QED
        BY <3>2, <3>3 DEF ImportFails, source
    <2>2. \A n \in 1..Len(nodes) : batch'[nodes[n].batch].pc # "unused"
      BY <1>5, <1>9 DEF JInv, AnswersOK
    <2> QED
      BY <1>2, <1>7, <2>1, <2>2 DEF AnswersOK
  <1>12. PageOK'
    <2>1. ASSUME NEW n \in (1..Len(nodes)) \ (lost' \cup late' \cup page)
          PROVE  UnderWay(n)' \/ (open /\ nodes[n].item \in Shown)
      <3>1. n \notin lost /\ n \notin late
        BY DEF ImportFails, source
      <3>2. UnderWay(n) \/ (open /\ nodes[n].item \in Shown)
        BY <3>1 DEF JInv, PageOK
      <3>3. ~(t.at = "answer" /\ t.node = n)
        BY DEF ImportFails, source
      <3> QED
        BY <3>2, <3>3, <1>8
    <2>2. ~open => \A c \in Batches, i \in Shown : ~InTodo(c, i)'
      BY <1>6 DEF JInv, PageOK
    <2> QED
      BY <1>7, <2>1, <2>2 DEF PageOK
  <1>13. \A i \in Items : /\ item'[i].parent = item[i].parent /\ item'[i].id = item[i].id
                          /\ item'[i].status = "imported" => item[i].status = "imported"
    <2>1. SetStatus({t.item}, "import-error")
      BY DEF ImportFails, source
    <2> QED
      BY <2>1, StatusSet DEF IInv, Statuses
  <1>14. IdsOK'
    BY <1>7, <1>13 DEF JInv, IdsOK
  <1>15. ParentsOK' /\ \A i \in Items : Astray(i) => Astray(i)'
    BY <1>5, <1>7, <1>10, <1>13, ParentsKept DEF JInv
  <1>16. MapsOK'
    <2>1. \A c \in Batches : batch'[c].map = batch[c].map
      BY <1>4, <1>5
    <2>2. \A n : Answered(n)' => Answered(n)
      BY <1>10 DEF ImportFails, Answered
    <2> QED
      BY <1>7, <2>1, <2>2 DEF JInv, MapsOK
  <1>w. WaitOK'
    <2>1. ASSUME NEW i, Fresh(i) PROVE Fresh(i)'
      <3>1. \A c \in Batches : ~InTodo(c, i)'
        BY <1>6, <2>1 DEF Fresh
      <3> QED
        BY <1>7, <2>1, <3>1 DEF Fresh
    <2> QED
      BY <1>7, <2>1, WaitFrame DEF JInv
  <1>17. SameBatchStaysTogether'
    BY <1>7, <1>15, SameStays DEF JInv, ImportFails
  <1> QED
    BY <1>11, <1>12, <1>w, <1>14, <1>15, <1>16, <1>17 DEF JInv

\* CreateAnswered: the new id goes to the list and to idMapping.
LEMMA CreateAnsweredFrame ==
    ASSUME IInv, JInv, NEW t \in running, CreateAnswered(t)
    PROVE  JInv'
  <1>1. t \in Tasks /\ t \in Things /\ TaskOK(t) /\ Shown \subseteq Items
    BY TaskTypes, ShownItems DEF IInv, TasksOK
  <1>2. Tasks' = Tasks \ {t} /\ \A k \in 1..Len(queue') : queue'[k].at = "start"
    BY SettleKeeps, Settled DEF IInv, JInv, AnswersOK, CreateAnswered, source
  <1>3. /\ t.op = "import" /\ t.batch \in Batches /\ InTodo(t.batch, t.item) /\ t.item \in Items
    <2>1. t.op = "import"
      BY <1>1 DEF CreateAnswered, source, TaskOK
    <2>2. t.batch \in Batches /\ batch[t.batch].todo # <<>> /\ t.item = batch[t.batch].todo[1].item
      BY <1>1, <2>1 DEF TaskOK
    <2>3. Len(batch[t.batch].todo) \in Nat \ {0} /\ 1 \in 1..Len(batch[t.batch].todo)
      BY <2>2, BatchTypes DEF IInv
    <2> QED
      BY <1>1, <2>1, <2>2, <2>3 DEF InTodo, Things
  <1>4. PICK m \in [Items -> 0..Len(nodes)] :
           Leave(t, m) /\ m = IF t.item \in folder
                            THEN [batch[t.batch].map EXCEPT ![key[t.item]] = t.node] ELSE batch[t.batch].map
    <2>1. batch[t.batch].map \in [Items -> 0..Len(nodes)]
      BY <1>3, BatchTypes DEF IInv
    <2>2. [batch[t.batch].map EXCEPT ![key[t.item]] = t.node] \in [Items -> 0..Len(nodes)]
      <3>1. t.node \in 0..Len(nodes)
        BY <1>1, NodeTypes DEF TaskOK, IInv, CreateAnswered
      <3> QED
        BY <2>1, <3>1
    <2> QED
      BY <2>1, <2>2 DEF CreateAnswered, source
  <1>5. /\ \A c \in Batches \ {t.batch} : batch'[c] = batch[c]
        /\ \A c \in Batches : batch'[c].pc = batch[c].pc
        /\ batch'[t.batch].map = m
        /\ \A c \in Batches : \A k \in 1..Len(batch'[c].todo) :
              \E l \in 1..Len(batch[c].todo) : batch'[c].todo[k] = batch[c].todo[l]
        /\ \A c \in Batches, i \in Items : InTodo(c, i)' <=> InTodo(c, i) /\ i # t.item
    BY <1>1, <1>3, <1>4, LeaveFacts DEF IInv
  <1>6. ASSUME NEW c \in Batches, NEW i, InTodo(c, i)' PROVE InTodo(c, i)
    <2>1. PICK k \in 1..Len(batch'[c].todo) : batch'[c].todo[k].item = i
      BY <1>6 DEF InTodo
    <2>2. \E l \in 1..Len(batch[c].todo) : batch'[c].todo[k] = batch[c].todo[l]
      BY <2>1, <1>5
    <2> QED
      BY <2>1, <2>2 DEF InTodo
  <1>7. /\ nodes' = nodes /\ list' = list /\ open' = open /\ page' = page /\ form' = form
        /\ UNCHANGED <<kind, under, folder, key>>
        /\ Shown' = Shown
    BY DEF Shown, CreateAnswered, source
  <1>8. \A n : UnderWay(n)' <=> UnderWay(n) /\ ~(t.at = "answer" /\ t.node = n)
    BY <1>1, <1>2, OneAnswer DEF UnderWay
  <1>9. Len(nodes) \in Nat /\ \A n \in 1..Len(nodes) : nodes[n].item \in Items /\ nodes[n].batch \in Batches
    BY NodeTypes DEF IInv
  <1>10. (\A n : Answered(n) => Answered(n)')
         /\ \A n : Answered(n)' => Answered(n) \/ (t.at = "answer" /\ t.node = n /\ n \in 1..Len(nodes))
    <2>1. \A n \in lost' : n \in lost \/ UnderWay(n)
      BY <1>1 DEF UnderWay, CreateAnswered, source
    <2>2. \A n \in lost : n \in lost'
      BY DEF CreateAnswered
    <2> QED
      BY <1>7, <1>8, <2>1, <2>2 DEF Answered
  <1>11. AnswersOK'
    <2>1. ASSUME NEW u \in Tasks', u.at = "answer"
          PROVE  /\ u.node \notin lost' /\ nodes[u.node].batch = u.batch
                 /\ \A n \in 1..Len(nodes) : nodes[n].batch = u.batch => n <= u.node
      <3>1. u \in Tasks /\ u # t
        BY <1>2
      <3>2. /\ u.node \notin lost /\ nodes[u.node].batch = u.batch
            /\ \A n \in 1..Len(nodes) : nodes[n].batch = u.batch => n <= u.node
        BY <2>1, <3>1 DEF JInv, AnswersOK
      <3>3. t.at = "answer" => t.node # u.node
        BY <1>1, <2>1, <3>1, OneAnswer
      <3> QED
        BY <3>2, <3>3 DEF CreateAnswered, source
    <2>2. \A n \in 1..Len(nodes) : batch'[nodes[n].batch].pc # "unused"
      BY <1>5, <1>9 DEF JInv, AnswersOK
    <2> QED
      BY <1>2, <1>7, <2>1, <2>2 DEF AnswersOK
  <1>12. PageOK'
    <2>1. ASSUME NEW n \in (1..Len(nodes)) \ (lost' \cup late' \cup page)
          PROVE  UnderWay(n)' \/ (open /\ nodes[n].item \in Shown)
      <3>1. n \notin lost /\ n \notin late
        BY DEF CreateAnswered, source
      <3>2. UnderWay(n) \/ (open /\ nodes[n].item \in Shown)
        BY <3>1 DEF JInv, PageOK
      <3>3. CASE n = t.node
        <4>1. nodes[n].item = t.item
          BY <1>1, <3>3 DEF CreateAnswered, source, TaskOK
        <4>2. t.item \in Shown
          BY <3>3 DEF CreateAnswered, source
        <4>3. open
          BY <1>3, <4>2 DEF JInv, PageOK
        <4> QED
          BY <4>1, <4>2, <4>3
      <3>4. CASE n # t.node
        BY <3>2, <3>4, <1>8
      <3> QED
        BY <3>3, <3>4
    <2>2. ~open => \A c \in Batches, i \in Shown : ~InTodo(c, i)'
      BY <1>6 DEF JInv, PageOK
    <2> QED
      BY <1>7, <2>1, <2>2 DEF PageOK
  <1>13. \A i \in Items :
            /\ \/ item'[i].parent = item[i].parent
               \/ t.item \in folder /\ item[i].parent = key[t.item] /\ item'[i].parent = N + t.node
            /\ item'[i].status = "imported" =>
                  \/ item[i].status = "imported" /\ item'[i].id = item[i].id
                  \/ i = t.item /\ item'[i].id = N + t.node
    <2>1. item \in [Items -> ItemState]
      BY DEF IInv, DataOK
    <2>2. item' = [j \in Items |->
             IF j \notin Shown THEN item[j]
             ELSE IF j = t.item THEN [item[j] EXCEPT !.status = "imported", !.id = N + t.node]
             ELSE IF t.item \in folder /\ item[j].parent = key[t.item] THEN [item[j] EXCEPT !.parent = N + t.node]
             ELSE item[j]]
      BY DEF CreateAnswered, source, Imported
    <2> SUFFICES ASSUME NEW i \in Items
                 PROVE  /\ \/ item'[i].parent = item[i].parent
                           \/ t.item \in folder /\ item[i].parent = key[t.item] /\ item'[i].parent = N + t.node
                        /\ item'[i].status = "imported" =>
                              \/ item[i].status = "imported" /\ item'[i].id = item[i].id
                              \/ i = t.item /\ item'[i].id = N + t.node
      OBVIOUS
    <2>3. CASE i = t.item
      BY <2>1, <2>2, <2>3 DEF ItemState
    <2>4. CASE i # t.item
      BY <2>1, <2>2, <2>4 DEF ItemState
    <2> QED
      BY <2>3, <2>4
  <1>a. /\ t.node \in 1..Len(nodes) /\ nodes[t.node].item = t.item /\ t.node \notin lost /\ lost' = lost
        /\ nodes[t.node].batch = t.batch /\ t.at = "answer"
    BY <1>1 DEF CreateAnswered, source, TaskOK, JInv, AnswersOK
  <1>14. IdsOK'
    <2>1. ASSUME NEW i \in Items, item'[i].status = "imported"
          PROVE  item'[i].id > N /\ item'[i].id - N \in 1..Len(nodes) /\ nodes[item'[i].id - N].item = i
      <3>1. CASE item[i].status = "imported" /\ item'[i].id = item[i].id
        BY <3>1 DEF JInv, IdsOK
      <3>2. CASE i = t.item /\ item'[i].id = N + t.node
        <4>1. item'[i].id > N /\ item'[i].id - N = t.node
          BY <3>2, <1>a, <1>9, NAssumption
        <4> QED
          BY <4>1, <3>2, <1>a
      <3> QED
        BY <2>1, <3>1, <3>2, <1>13
    <2> QED
      BY <1>7, <2>1 DEF IdsOK
  <1>15. ParentsOK' /\ \A i \in Items : Astray(i) => Astray(i)'
    <2>1. Answered(t.node)' /\ N \in Nat /\ key[t.item] \in Items /\ key[t.item] <= N
      <3>1. N \in Nat /\ key \in [Items -> Items] /\ \A i \in Items : i <= N
        <4>1. N \in Nat /\ \A i \in Items : i <= N
          BY NAssumption DEF Items
        <4> QED
          BY <4>1 DEF IInv, DataOK
      <3>2. Answered(t.node)'
        BY <1>7, <1>8, <1>a DEF Answered
      <3> QED
        BY <1>3, <3>1, <3>2
    <2>2. ASSUME NEW i \in Items
          PROVE  item'[i].parent = item[i].parent \/ (item[i].parent <= N /\ Moved(i)')
      <3> SUFFICES ASSUME item[i].parent = key[t.item], item'[i].parent = N + t.node
                   PROVE  item[i].parent <= N /\ Moved(i)'
        BY <1>13
      <3>1. item[i].parent <= N /\ item[i].parent \in Items
        BY <2>1
      <3>2. item[i].parent = Above(i)
        <4>1. item[i].parent \in Nat /\ ~(item[i].parent > N)
          BY <2>1, <3>1 DEF Items
        <4> QED
          BY <4>1 DEF JInv, ParentsOK, Moved
      <3>3. under[i] # 0 /\ key[under[i]] = key[t.item]
        <4>1. 0 \notin Items
          BY NAssumption DEF Items
        <4> QED
          BY <3>1, <3>2, <4>1, AboveIs DEF IInv
      <3>4. item'[i].parent > N /\ item'[i].parent - N = t.node
        BY <1>a, <1>9, <2>1
      <3> QED
        BY <1>7, <1>a, <2>1, <3>1, <3>3, <3>4 DEF Moved
    <2> QED
      BY <1>5, <1>7, <1>10, <2>2, ParentsKept DEF JInv
  <1>16. MapsOK'
    <2>k. key[t.item] \in Items /\ \A n \in 1..Len(nodes) : key[nodes[n].item] \in Items
      <3>1. key \in [Items -> Items]
        BY DEF IInv, DataOK
      <3> QED
        BY <1>3, <1>9, <3>1
    <2>1. \A c \in Batches \ {t.batch} : batch'[c].map = batch[c].map
      BY <1>5
    <2>2. ASSUME NEW i \in Items
          PROVE  m[i] = IF i = key[t.item] /\ t.item \in folder THEN t.node ELSE batch[t.batch].map[i]
      <3>1. batch[t.batch].map \in [Items -> 0..Len(nodes)]
        BY <1>3, BatchTypes DEF IInv
      <3> QED
        BY <3>1, <1>4
    <2>3. ASSUME NEW c \in Batches, NEW i \in Items, batch'[c].map[i] # 0
          PROVE  key[nodes[batch'[c].map[i]].item] = i /\ nodes[batch'[c].map[i]].batch = c
      <3>1. CASE c = t.batch
        <4>1. batch'[c].map[i] = IF i = key[t.item] /\ t.item \in folder THEN t.node ELSE batch[c].map[i]
          BY <3>1, <2>2, <1>5
        <4> QED
          BY <4>1, <2>3, <3>1, <1>a DEF JInv, MapsOK
      <3>2. CASE c # t.batch
        BY <3>2, <2>1, <2>3 DEF JInv, MapsOK
      <3> QED
        BY <3>1, <3>2
    <2>4. ASSUME NEW c \in Batches, NEW n \in 1..Len(nodes), Answered(n)', nodes[n].batch = c,
                 nodes[n].item \in folder
          PROVE  batch'[c].map[key[nodes[n].item]] >= n
      <3>1. CASE n = t.node
        <4>1. n \in Nat
          BY <1>9
        <4> QED
          BY <3>1, <4>1, <2>2, <2>4, <2>k, <1>3, <1>5, <1>a
      <3>2. CASE n # t.node
        <4>1. Answered(n) /\ batch[c].map[key[nodes[n].item]] >= n
          BY <2>4, <3>2, <1>10 DEF JInv, MapsOK
        <4>2. CASE c = t.batch /\ key[nodes[n].item] = key[t.item] /\ t.item \in folder
          <5>1. batch'[c].map[key[nodes[n].item]] = t.node
            BY <1>5, <2>2, <2>k, <4>2
          <5>2. n <= t.node
            BY <1>1, <1>a, <2>4, <4>2 DEF JInv, AnswersOK
          <5> QED
            BY <1>9, <1>a, <5>1, <5>2
        <4>3. CASE ~(c = t.batch /\ key[nodes[n].item] = key[t.item] /\ t.item \in folder)
          <5>1. batch'[c].map[key[nodes[n].item]] = batch[c].map[key[nodes[n].item]]
            BY <1>5, <2>1, <2>2, <2>k, <4>3
          <5> QED
            BY <4>1, <5>1
        <4> QED
          BY <4>2, <4>3
      <3> QED
        BY <3>1, <3>2
    <2> QED
      BY <1>7, <1>a, <2>3, <2>4 DEF MapsOK
  <1>w. WaitOK'
    <2>1. ASSUME NEW i, Fresh(i) PROVE Fresh(i)'
      <3>1. \A c \in Batches : ~InTodo(c, i)'
        BY <1>6, <2>1 DEF Fresh
      <3> QED
        BY <1>7, <2>1, <3>1 DEF Fresh
    <2> QED
      BY <1>7, <2>1, WaitFrame DEF JInv
  <1>17. SameBatchStaysTogether'
    BY <1>7, <1>15, <1>a, SameStays DEF JInv
  <1> QED
    BY <1>11, <1>12, <1>w, <1>14, <1>15, <1>16, <1>17 DEF JInv

-----------------------------------------------------------------------------
(* The theorems.                                                           *)

\* The second invariant holds at the start.
LEMMA KeptAtFirst ==
    ASSUME Init
    PROVE  JInv
  <1>1. IInv
    BY InitEstablishes
  <1>2. /\ Len(nodes) = 0 /\ Len(queue) = 0 /\ Tasks = {} /\ open /\ lost = {}
        /\ \A b \in Batches : batch[b].todo = <<>> /\ Len(batch[b].todo) = 0 /\ batch[b].pc = "unused"
        /\ \A b \in Batches, i \in Items : batch[b].map[i] = 0
    <2>1. /\ nodes = <<>> /\ Len(nodes) = 0 /\ queue = <<>> /\ Len(queue) = 0 /\ running = {}
          /\ open /\ lost = {} /\ Len(<<>>) = 0
      BY DEF Init
    <2>2. batch = [b \in Batches |-> [pc |-> "unused", todo |-> <<>>, map |-> [i \in Items |-> 0]]]
      BY DEF Init
    <2> QED
      BY <2>1, <2>2 DEF Tasks
  <1>3. AnswersOK /\ MapsOK /\ SameBatchStaysTogether
    BY <1>2 DEF AnswersOK, MapsOK, SameBatchStaysTogether
  <1>4. PageOK
    BY <1>2 DEF PageOK
  <1>5. \A i \in Items : item[i].parent = Above(i) /\ item[i].status # "imported"
    BY DEF Init
  <1>6. WaitOK
    BY DEF Init, WaitOK
  <1>7. IdsOK /\ ParentsOK
    BY <1>2, <1>5 DEF IdsOK, ParentsOK
  <1> QED
    BY <1>3, <1>4, <1>6, <1>7 DEF JInv

\* Every step keeps it.
LEMMA KeptByNext ==
    ASSUME IInv, JInv, [Next]_vars
    PROVE  JInv'
  <1>1. CASE \E p \in Pulls : SubmitItems(p) \/ Submit(p)
    BY <1>1, SubmitItemsFrame, SubmitFrame
  <1>2. CASE Select \/ Reopen \/ \E f \in Items : PullFolder(f) \/ SelectFolder(f)
    BY <1>2, ReaderFrame
  <1>3. CASE BatchParse
    BY <1>3, BatchParseFrame
  <1>4. CASE Close
    BY <1>4, CloseFrame
  <1>5. CASE \E b \in Batches : BatchImport(b)
    BY <1>5, BatchImportFrame
  <1>6. CASE \E p \in Pulls : Listed(p) \/ NotListed(p) \/ UploadsDone(p) \/ FormDone(p)
    BY <1>6, ListedFrame, FormEndsFrame, UploadsDoneFrame
  <1>7. CASE \E f \in Items : Pulled(f) \/ NotPulled(f)
    BY <1>7, PulledFrame, ReaderFrame
  <1>8. CASE \E t \in running : TaskEnds(t)
    BY <1>8, ReadEndsFrame, CreateAnsweredFrame, ImportFailsFrame DEF TaskEnds
  <1>9. CASE \E t \in running : Export(t) \/ CreateNode(t)
    BY <1>9, ExportFrame, CreateNodeFrame
  <1>10. CASE \E b \in Batches : LoopNext(b)
    BY <1>10, LoopEndsFrame, LoopPushesFrame
  <1>11. CASE UNCHANGED vars
    BY <1>11, DialogKeeps DEF vars, dialog
  <1> QED
    BY <1>1, <1>2, <1>3, <1>4, <1>5, <1>6, <1>7, <1>8, <1>9, <1>10, <1>11 DEF Next, Reader, System

\* The second invariant holds always.
THEOREM KeptInvariance == Spec => []JInv
  <1>1. Init => JInv
    BY KeptAtFirst
  <1>2. IInv /\ JInv /\ [Next]_vars => JInv'
    BY KeptByNext
  <1> QED
    BY <1>1, <1>2, Invariance, PTL DEF Spec

\* What answers is in flight.
LEMMA AnswersRun ==
    ASSUME JInv, NEW t \in Tasks, t.at = "answer"
    PROVE  t \in running
  BY DEF JInv, AnswersOK, Tasks

\* What the list calls imported is in the knowledge base under the id it shows, and a
\* node whose answer came is called imported for as long as its item is listed.
THEOREM ListIsTrue == Spec => []ListTellsTruth
  <1>1. ASSUME IInv, JInv PROVE ListTellsTruth
    <2>1. \A i \in With({"imported"}) : item[i].id > N /\ nodes[item[i].id - N].item = i
      BY <1>1, ShownItems DEF IInv, JInv, IdsOK, With
    <2>2. ASSUME NEW n \in 1..Len(nodes), n \notin lost,
                 ~(item[nodes[n].item].status = "imported" \/ nodes[n].item \notin Shown)
          PROVE  \E t \in running : t.at = "answer" /\ t.node = n
      <3>1. \E t \in Tasks : t.at = "answer" /\ t.node = n
        BY <1>1, <2>2 DEF IInv, NodesOK
      <3> QED
        BY <1>1, <3>1, AnswersRun
    <2> QED
      BY <2>1, <2>2 DEF ListTellsTruth
  <1> QED
    BY <1>1, Invariance, KeptInvariance, PTL

\* A node is in no folder but its own, or another listing of that, which its own batch
\* made; and it is in one when its batch had made it before, unless an answer to an older
\* batch has moved it to the folder that one made: whatever fails, whichever batches and
\* pulls of the same source overlap.
THEOREM BatchStaysTogether == Spec => []SameBatchStaysTogether
  <1>1. JInv => SameBatchStaysTogether
    BY DEF JInv
  <1> QED
    BY <1>1, KeptInvariance, PTL

\* With the dialog closed, the page misses only nodes answered after their item left
\* the list, nodes whose answer was lost, and those still under way.
THEOREM PageMisses == Spec => []PageMissesOnlyLate
  <1>1. ASSUME JInv PROVE PageMissesOnlyLate
    <2> SUFFICES ASSUME ~open, NEW n \in (1..Len(nodes)) \ page, n \notin lost, n \notin late
                 PROVE  \E t \in running : t.at = "answer" /\ t.node = n
      BY DEF PageMissesOnlyLate
    <2>1. UnderWay(n)
      BY <1>1 DEF JInv, PageOK
    <2> QED
      BY <1>1, <2>1, AnswersRun DEF UnderWay
  <1> QED
    BY <1>1, KeptInvariance, PTL

-----------------------------------------------------------------------------
(* The tree shown.                                                         *)

\* Item i may still be listed: its pull was not answered, or not for its folder.
Unlisted(i) ==
    \/ Unread(i)
    \/ /\ under[i] # 0
       /\ Top[i] \in pulling \/ (Top[i] \in Shown /\ ~item[Top[i]].req)

\* As the source gave item i.
Pristine(i) == item[i].id = key[i] /\ item[i].parent = Above(i) /\ item[i].status = "parsed"

\* The tree, and what it rests on: only an import changes the id of an item; a folder
\* whose documents were not asked for is in no batch, nor is one that is being pulled;
\* and what may still be listed is as the source gave it.
TreeOK ==
    /\ ListStaysTree
    /\ kind = "drive" => \A i \in Items : under[i] = 0 => i \in folder
    /\ kind \notin {"file", "url"} =>
          \A i \in Items : item[i].id = key[i] \/ item[i].status = "imported"
    /\ \A f \in pulling : under[f] = 0 /\ (f \in Shown => ~item[f].req)
    /\ \A i \in Items : ~item[i].req => item[i].status = "parsed"
    /\ kind \notin {"file", "url"} => \A i \in Items : Unlisted(i) => Pristine(i)

\* What may still be listed is not.
LEMMA UnlistedHidden ==
    ASSUME IInv, NEW i \in Items, Unlisted(i)
    PROVE  i \notin Shown
  <1>1. CASE Unread(i)
    BY <1>1, UnreadFacts
  <1>2. CASE ~Unread(i)
    BY <1>2 DEF Unlisted, IInv, ListOK, Been
  <1> QED
    BY <1>1, <1>2

\* What item i may be beside folder f.
InTree(i, f) ==
    \/ item[i].parent = item[f].id
    \/ Astray(i) /\ key[nodes[item[i].parent - N].item] = key[f]

\* What is in a folder has an entry for it.
LEMMA FolderIs ==
    ASSUME IInv, NEW i \in Items, NEW f \in Items, under[i] = f
    PROVE  f # 0 /\ f # i /\ f \in folder /\ Above(i) = key[f] /\ pull[f] = pull[i] /\ key[f] \in Items
  <1>1. 0 \notin Items /\ \A j \in Items : ~(j < j)
    BY NAssumption DEF Items
  <1>2. key[f] \in Items
    BY DEF IInv, DataOK
  <1> QED
    BY <1>1, <1>2 DEF IInv, DataOK, Above

\* Files and web pages have no folders.
LEMMA FlatTree ==
    IInv /\ kind \in {"file", "url"} => TreeOK
  <1> SUFFICES ASSUME IInv, kind \in {"file", "url"} PROVE TreeOK
    OBVIOUS
  <1>1. Shown \subseteq Items /\ folder = {} /\ pulling = {} /\ \A i \in Items : item[i].req
    BY ShownItems DEF IInv, DataOK, PhaseOK
  <1>2. ListStaysTree
    BY <1>1, FolderIs DEF ListStaysTree
  <1> QED
    BY <1>1, <1>2 DEF TreeOK

\* A step that keeps ids, parents and what was asked for, lists nothing more and pulls
\* nothing more, keeps the tree.
LEMMA TreeFrame ==
    ASSUME IInv, TreeOK, kind \notin {"file", "url"}, UNCHANGED <<kind, under, folder, key>>,
           Shown' \subseteq Shown, pulling' \subseteq pulling,
           \A i \in Items : Unread(i)' => Unread(i),
           \A i \in Items : Astray(i) => Astray(i)' /\ nodes'[item[i].parent - N] = nodes[item[i].parent - N],
           \A i \in Items :
              /\ item'[i].parent = item[i].parent /\ item'[i].id = item[i].id
              /\ item'[i].req = item[i].req
              /\ \/ item'[i].status = item[i].status
                 \/ i \in Shown /\ item[i].req /\ item[i].status # "imported"
    PROVE  TreeOK'
  <1>1. Shown \subseteq Items /\ under \in [Items -> 0..N] /\ pulling \subseteq Items
    BY ShownItems DEF IInv, DataOK
  <1>2. ASSUME NEW i \in Shown', NEW f \in Shown', under[i] = f PROVE InTree(i, f)'
    <2>1. i \in Items /\ f \in Items /\ InTree(i, f)
      BY <1>1, <1>2 DEF TreeOK, ListStaysTree, InTree
    <2>2. Astray(i) => Astray(i)' /\ nodes'[item[i].parent - N] = nodes[item[i].parent - N]
      BY <2>1
    <2> QED
      BY <2>1, <2>2 DEF InTree
  <1>3. ListStaysTree'
    BY <1>2 DEF ListStaysTree, InTree
  <1>4. Top' = Top
    BY TopStays
  <1>5. \A i \in Items : Unlisted(i)' => Unlisted(i)
    <2> SUFFICES ASSUME NEW i \in Items, Unlisted(i)', ~Unlisted(i) PROVE FALSE
      OBVIOUS
    <2>1. under[i] # 0 /\ (Top[i] \in pulling' \/ (Top[i] \in Shown' /\ ~item'[Top[i]].req))
      BY <1>4 DEF Unlisted
    <2>2. Top[i] \in pulling \/ (Top[i] \in Shown /\ ~item[Top[i]].req)
      BY <1>1, <2>1
    <2> QED
      BY <2>1, <2>2 DEF Unlisted
  <1>6. \A f \in pulling' : under[f] = 0 /\ (f \in Shown' => ~item'[f].req)
    BY <1>1 DEF TreeOK
  <1>7. \A i \in Items : Unlisted(i)' => Pristine(i)'
    <2> SUFFICES ASSUME NEW i \in Items, Unlisted(i)' PROVE Pristine(i)'
      OBVIOUS
    <2>1. Unlisted(i) /\ Pristine(i) /\ i \notin Shown
      BY <1>5, UnlistedHidden DEF TreeOK
    <2> QED
      BY <2>1 DEF Pristine, Above
  <1>8. \A i \in Items : /\ under[i] = 0 /\ kind = "drive" => i \in folder
                         /\ item'[i].id = key[i] \/ item'[i].status = "imported"
                         /\ ~item'[i].req => item'[i].status = "parsed"
    BY DEF TreeOK
  <1> QED
    BY <1>3, <1>6, <1>7, <1>8 DEF TreeOK

\* Pulling a folder: what it holds could be listed before.
LEMMA PullFolderTree ==
    ASSUME IInv, TreeOK, NEW f \in Items, PullFolder(f)
    PROVE  TreeOK'
  <1>1. /\ f \in Shown /\ ~item[f].req /\ pulling' = pulling \cup {f}
        /\ UNCHANGED <<source, form, list, item, nodes>> /\ Shown' = Shown /\ Top' = Top
    BY TopStays DEF PullFolder, source, Shown
  <1>2. under[f] = 0
    BY <1>1 DEF IInv, PhaseOK
  <1>3. \A i \in Items : (Unlisted(i)' => Unlisted(i)) /\ (Pristine(i)' <=> Pristine(i))
    BY <1>1 DEF Unlisted, Pristine, Unread, At, Above, source
  <1>4. ListStaysTree'
    BY <1>1 DEF TreeOK, ListStaysTree, Astray, source
  <1>5. \A g \in pulling' : under[g] = 0 /\ (g \in Shown => ~item[g].req)
    BY <1>1, <1>2 DEF TreeOK
  <1> QED
    BY <1>1, <1>3, <1>4, <1>5 DEF TreeOK, source

\* The answer to a submission: a pull is listed once, and its folders with what they hold.
LEMMA ListedTree ==
    ASSUME IInv, TreeOK, NEW p \in Pulls, Listed(p)
    PROVE  TreeOK'
  <1> DEFINE s == Of(p)
             r == {i \in Of(p) : under[i] = 0}
  <1>1. /\ form[p] \in {"waiting", "left"} /\ form' = [form EXCEPT ![p] = "done"]
        /\ list' = IF kind = "drive" THEN Sorted(r) ELSE list \o Sorted(s)
        /\ UNCHANGED <<source, item, pulling, nodes>> /\ Top' = Top /\ kind \notin {"file", "url"}
    BY TopStays DEF Listed, At, source, IInv, PhaseOK
  <1>2. \A i \in Items : i \in s <=> pull[i] = p
    BY DEF Of
  <1>3. s \in SUBSET Items /\ r \in SUBSET s /\ (\A i \in r : under[i] = 0) /\ Shown \subseteq Items
    BY ShownItems DEF Of, IInv
  <1> HIDE DEF s, r
  <1>4. \A i \in s : Unread(i) /\ Unlisted(i) /\ i \notin Shown /\ i \notin pulling /\ Pristine(i)
    <2>1. \A i \in s : Unread(i)
      BY <1>1, <1>2, <1>3 DEF Unread, At
    <2> QED
      BY <1>1, <1>3, <2>1, UnreadFacts DEF TreeOK, Unlisted
  <1>5. \A i \in Shown' : IF kind = "drive" THEN i \in r ELSE i \in Shown \/ i \in s
    <2>1. CASE kind = "drive"
      <3>1. r \in SUBSET Items
        BY <1>3
      <3>2. Sorted(r) \in Seq(Items) /\ \A k \in 1..Len(Sorted(r)) : Sorted(r)[k] \in r
        BY <3>1, ItemsSorted
      <3>3. list' = Sorted(r)
        BY <1>1, <2>1
      <3> QED
        BY <2>1, <3>2, <3>3 DEF Shown
    <2>2. CASE kind # "drive"
      BY <1>1, <1>3, <1>4, <2>2, ListGrows
    <2> QED
      BY <2>1, <2>2
  <1>6. \A i \in Items : Unread(i)' => Unread(i) /\ i \notin s
    <2>1. form \in [Pulls -> Forms]
      BY DEF IInv, DataOK
    <2> QED
      BY <1>1, <1>2, <2>1, FormMoves DEF IInv, source
  <1>7. ASSUME NEW i \in Shown', NEW f \in Shown', under[i] = f PROVE InTree(i, f)
    <2>1. i \in Items /\ f \in Items
      BY <1>3, <1>5
    <2>2. f # 0 /\ pull[f] = pull[i] /\ Above(i) = key[f]
      BY <1>7, <2>1, FolderIs
    <2>3. kind # "drive"
      BY <1>3, <1>5, <1>7, <2>2
    <2>4. CASE i \in s
      <3>1. f \in s
        BY <1>2, <2>1, <2>2, <2>4
      <3> QED
        BY <1>4, <2>2, <2>4, <3>1 DEF Pristine, InTree
    <2>5. CASE i \notin s
      <3>1. i \in Shown /\ f \notin s
        BY <1>2, <1>5, <2>1, <2>2, <2>3, <2>5
      <3>2. f \in Shown
        BY <1>5, <2>3, <3>1
      <3> QED
        BY <1>7, <3>1, <3>2 DEF TreeOK, ListStaysTree, InTree
    <2> QED
      BY <2>4, <2>5
  <1>8. ListStaysTree'
    BY <1>1, <1>7 DEF ListStaysTree, InTree, Astray, source
  <1>9. \A f \in pulling : under[f] = 0 /\ (f \in Shown' => ~item[f].req)
    <2>1. \A f \in pulling : f \in Shown' => f \in Shown
      BY <1>3, <1>4, <1>5
    <2> QED
      BY <2>1 DEF TreeOK
  <1>10. \A i \in Items : Unlisted(i)' => Pristine(i)'
    <2> SUFFICES ASSUME NEW i \in Items, Unlisted(i)' PROVE Pristine(i)
      BY <1>1 DEF Pristine, Above, source
    <2>1. CASE Unread(i)'
      BY <1>1, <1>6, <2>1 DEF TreeOK, Unlisted
    <2>2. CASE under[i] # 0 /\ Top[i] \in pulling
      BY <1>1, <2>2 DEF TreeOK, Unlisted
    <2>3. CASE under[i] # 0 /\ Top[i] \in Shown' /\ ~item[Top[i]].req
      <3>1. Top[i] \in Items /\ pull[Top[i]] = pull[i]
        BY TopPull DEF IInv
      <3>2. CASE Top[i] \in s
        <4>1. i \in s
          BY <1>2, <3>1, <3>2
        <4> QED
          BY <1>4, <4>1
      <3>3. CASE Top[i] \notin s
        <4>1. Top[i] \in Shown
          BY <1>3, <1>5, <2>3, <3>3
        <4> QED
          BY <1>1, <2>3, <4>1 DEF TreeOK, Unlisted
      <3> QED
        BY <3>2, <3>3
    <2> QED
      BY <1>1, <2>1, <2>2, <2>3 DEF Unlisted, source
  <1> QED
    BY <1>1, <1>8, <1>9, <1>10 DEF TreeOK, source

\* The documents of a folder: they have the ids of the source, and the folder, if it is
\* still listed, too.
LEMMA PulledTree ==
    ASSUME IInv, TreeOK, NEW f \in Items, Pulled(f)
    PROVE  TreeOK'
  <1> DEFINE s == {i \in Items : under[i] # 0 /\ Top[i] = f}
  <1>1. /\ f \in pulling /\ pulling' = pulling \ {f} /\ list' = list \o Sorted(s) /\ kind = "drive"
        /\ UNCHANGED <<source, form, nodes>> /\ Top' = Top
        /\ under \in [Items -> 0..N] /\ pulling \subseteq Items /\ Shown \subseteq Items
    BY TopStays, ShownItems DEF Pulled, source, IInv, PhaseOK, DataOK
  <1>2. \A i \in Items : Top[i] = IF under[i] = 0 THEN i ELSE Top[under[i]]
    BY <1>1, TopIs
  <1>3. \A i \in Items : i \in s <=> under[i] # 0 /\ Top[i] = f
    OBVIOUS
  <1>4. s \in SUBSET Items
    OBVIOUS
  <1> HIDE DEF s
  <1>5. \A i \in s : i \in Items /\ Pristine(i) /\ i \notin Shown
    <2>1. \A i \in s : i \in Items /\ Unlisted(i)
      BY <1>1, <1>3, <1>4 DEF Unlisted
    <2> QED
      BY <1>1, <2>1, UnlistedHidden DEF TreeOK
  <1>6. Shown' = Shown \cup s
    BY <1>1, <1>4, <1>5, ListGrows
  <1>7. \A i \in Items : /\ item'[i].id = item[i].id /\ item'[i].parent = item[i].parent
                         /\ item'[i].status = item[i].status
                         /\ item'[i].req = (item[i].req \/ (i = f /\ f \in Shown))
    <2>1. item \in [Items -> ItemState]
      BY DEF IInv, DataOK
    <2>2. item' = [i \in Items |-> IF i \in {f} \cap Shown THEN [item[i] EXCEPT !.req = TRUE] ELSE item[i]]
      BY DEF Pulled, Update
    <2> QED
      BY <2>1, <2>2 DEF ItemState
  <1>8. under[f] = 0 /\ (f \in Shown => item[f].id = key[f])
    <2>1. under[f] = 0 /\ (f \in Shown => ~item[f].req)
      BY <1>1 DEF TreeOK
    <2>2. f \in Shown => item[f].status = "parsed"
      BY <2>1 DEF TreeOK
    <2> QED
      BY <1>1, <2>1, <2>2 DEF TreeOK
  <1>9. ASSUME NEW i \in Shown', NEW g \in Shown', under[i] = g PROVE InTree(i, g)
    <2>1. i \in Items /\ g \in Items
      BY <1>1, <1>4, <1>6
    <2>2. g # 0 /\ Above(i) = key[g]
      BY <1>9, <2>1, FolderIs
    <2>3. Top[i] = Top[g]
      BY <1>2, <1>9, <2>1, <2>2
    <2>4. CASE i \in s
      <3>1. CASE g \in s
        BY <1>5, <2>2, <2>4, <3>1 DEF Pristine, InTree
      <3>2. CASE g \notin s
        <4>1. g \in Shown /\ under[g] = 0
          BY <1>3, <1>6, <2>1, <2>3, <2>4, <3>2
        <4>2. g = f
          BY <1>2, <1>3, <2>1, <2>3, <2>4, <4>1
        <4> QED
          BY <1>5, <1>8, <2>2, <2>4, <4>1, <4>2 DEF Pristine, InTree
      <3> QED
        BY <3>1, <3>2
    <2>5. CASE i \notin s
      <3>1. i \in Shown /\ Top[i] # f
        BY <1>3, <1>6, <1>9, <2>1, <2>2, <2>5
      <3>2. g \in Shown
        BY <1>3, <1>6, <2>1, <2>3, <3>1
      <3> QED
        BY <1>9, <3>1, <3>2 DEF TreeOK, ListStaysTree, InTree
    <2> QED
      BY <2>4, <2>5
  <1>10. ListStaysTree'
    <2>1. ASSUME NEW i \in Shown', NEW g \in Shown', under[i] = g PROVE InTree(i, g)'
      <3>1. i \in Items /\ g \in Items /\ InTree(i, g)
        BY <1>1, <1>4, <1>6, <1>9, <2>1
      <3> QED
        BY <1>1, <1>7, <3>1 DEF InTree, Astray, source
    <2> QED
      BY <1>1, <2>1 DEF ListStaysTree, InTree, source
  <1>11. \A g \in pulling' : under[g] = 0 /\ (g \in Shown' => ~item'[g].req)
    <2>1. ASSUME NEW g \in pulling' PROVE under[g] = 0 /\ (g \in Shown' => ~item'[g].req)
      <3>1. g \in pulling /\ g # f /\ g \in Items
        BY <1>1
      <3>2. under[g] = 0 /\ (g \in Shown => ~item[g].req)
        BY <3>1 DEF TreeOK
      <3>3. g \in Shown' => g \in Shown
        BY <1>3, <1>6, <3>1, <3>2
      <3> QED
        BY <1>7, <3>1, <3>2, <3>3
    <2> QED
      BY <2>1
  <1>12. \A i \in Items : Unlisted(i)' => Unlisted(i)
    <2> SUFFICES ASSUME NEW i \in Items, Unlisted(i)', ~Unlisted(i) PROVE FALSE
      OBVIOUS
    <2>1. Unread(i)' <=> Unread(i)
      BY <1>1, FormStays DEF source
    <2>2. under[i] # 0 /\ (Top[i] \in pulling' \/ (Top[i] \in Shown' /\ ~item'[Top[i]].req))
      BY <1>1, <2>1 DEF Unlisted, source
    <2>3. CASE Top[i] \in pulling'
      BY <1>1, <2>2, <2>3 DEF Unlisted
    <2>4. CASE Top[i] \in Shown' /\ ~item'[Top[i]].req
      <3>1. Top[i] \in Items
        BY TopPull DEF IInv
      <3>2. ~item[Top[i]].req
        BY <1>7, <2>4, <3>1
      <3>3. Top[i] \notin s
        BY <1>3, <3>1, <3>2 DEF IInv, PhaseOK
      <3> QED
        BY <1>6, <2>2, <2>4, <3>2, <3>3 DEF Unlisted
    <2> QED
      BY <2>2, <2>3, <2>4
  <1>13. \A i \in Items : Unlisted(i)' => Pristine(i)'
    <2> SUFFICES ASSUME NEW i \in Items, Unlisted(i)' PROVE Pristine(i)'
      OBVIOUS
    <2>1. Pristine(i)
      BY <1>1, <1>12 DEF TreeOK
    <2> QED
      BY <1>1, <1>7, <2>1 DEF Pristine, Above, source
  <1>14. \A i \in Items : /\ under[i] = 0 => i \in folder
                          /\ item'[i].id = key[i] \/ item'[i].status = "imported"
                          /\ ~item'[i].req => item'[i].status = "parsed"
    BY <1>1, <1>7 DEF TreeOK
  <1> QED
    BY <1>1, <1>10, <1>11, <1>13, <1>14 DEF TreeOK, source

\* A step that sets a status of items that were asked for and are not imported.
LEMMA StatusTree ==
    ASSUME IInv, TreeOK, kind \notin {"file", "url"},
           UNCHANGED <<kind, under, folder, key, pull, form, list, pulling, nodes>>,
           NEW S, NEW s \in Statuses, SetStatus(S, s),
           \A i \in S \cap Shown : item[i].req /\ item[i].status # "imported"
    PROVE  TreeOK'
  <1>1. Shown' = Shown /\ Shown \subseteq Items
    BY ShownItems DEF IInv, Shown
  <1>2. \A i \in Items :
           /\ item'[i].parent = item[i].parent /\ item'[i].id = item[i].id
           /\ item'[i].req = item[i].req
           /\ \/ item'[i].status = item[i].status
              \/ i \in Shown /\ item[i].req /\ item[i].status # "imported"
    BY StatusSet DEF IInv
  <1>3. \A i \in Items : Unread(i)' => Unread(i)
    BY FormStays
  <1>4. \A i \in Items : Astray(i) => Astray(i)'
    BY <1>2 DEF Astray
  <1> QED
    BY <1>1, <1>2, <1>3, <1>4, TreeFrame

\* BatchImport takes a folder only when its documents are listed.
LEMMA BatchImportTree ==
    ASSUME IInv, TreeOK, kind \notin {"file", "url"}, NEW b \in Batches, BatchImport(b)
    PROVE  TreeOK'
  <1> DEFINE s == {i \in Chosen({"parsed", "import-error"}) : i \in folder => item[i].req}
  <1>1. \A i \in s : /\ i \in Shown /\ item[i].status \in {"parsed", "import-error"}
                     /\ i \in folder => item[i].req
    BY DEF With, Chosen
  <1>2. SetStatus(s, "importing") /\ UNCHANGED <<source, list, pulling, form, nodes>>
    BY DEF BatchImport
  <1> HIDE DEF s
  <1>3. \A i \in s : item[i].req /\ item[i].status # "imported"
    <2> SUFFICES ASSUME NEW i \in s PROVE item[i].req /\ item[i].status # "imported"
      OBVIOUS
    <2>1. i \in Items
      BY <1>1, ShownItems DEF IInv
    <2>2. ~item[i].req => under[i] = 0 /\ kind = "drive"
      BY <2>1 DEF IInv, PhaseOK
    <2>3. ~item[i].req => i \in folder
      BY <2>1, <2>2 DEF TreeOK
    <2> QED
      BY <1>1, <2>3
  <1>4. "importing" \in Statuses
    BY DEF Statuses
  <1> QED
    BY <1>2, <1>3, <1>4, StatusTree DEF source

\* What an import in flight is about, if it is still listed.
LEMMA ImportingIs ==
    ASSUME IInv, TreeOK, kind \notin {"file", "url"}, NEW t \in running, t.op = "import"
    PROVE  /\ t \in Tasks /\ t.item \in Items
           /\ t.item \in Shown => /\ item[t.item].status = "importing" /\ item[t.item].id = key[t.item]
                                  /\ item[t.item].req
  <1>1. t \in Tasks /\ t.item \in Items
    BY TaskTypes DEF IInv, Things
  <1>2. t.batch \in Batches /\ InTodo(t.batch, t.item)
    <2>1. t.batch \in Batches /\ batch[t.batch].todo # <<>> /\ t.item = batch[t.batch].todo[1].item
      BY <1>1 DEF IInv, TasksOK, TaskOK
    <2>2. Len(batch[t.batch].todo) \in Nat \ {0} /\ 1 \in 1..Len(batch[t.batch].todo)
      BY <2>1, BatchTypes DEF IInv
    <2> QED
      BY <2>1, <2>2 DEF InTodo
  <1>3. t.item \in Shown => item[t.item].status = "importing"
    BY <1>2 DEF IInv, ListOK
  <1> QED
    BY <1>1, <1>3 DEF TreeOK

\* An import that fails.
LEMMA ImportFailsTree ==
    ASSUME IInv, TreeOK, kind \notin {"file", "url"}, NEW t \in running, ImportFails(t)
    PROVE  TreeOK'
  <1>1. /\ SetStatus({t.item}, "import-error") /\ t.op = "import"
        /\ UNCHANGED <<source, list, pulling, form, nodes>>
    BY DEF ImportFails
  <1>2. \A i \in {t.item} \cap Shown : item[i].req /\ item[i].status # "imported"
    BY <1>1, ImportingIs
  <1>3. "import-error" \in Statuses
    BY DEF Statuses
  <1> QED
    BY <1>1, <1>2, <1>3, StatusTree DEF source

\* An import that succeeds: the folder's id changes, and with it the parents of what is
\* listed in it, or in another pull's entry of it.
LEMMA CreateAnsweredTree ==
    ASSUME IInv, JInv, TreeOK, kind \notin {"file", "url"}, NEW t \in running, CreateAnswered(t)
    PROVE  TreeOK'
  <1>1. /\ UNCHANGED <<source, list, pulling, form, nodes>> /\ Shown' = Shown /\ Top' = Top
        /\ Shown \subseteq Items /\ pulling \subseteq Items
    BY TopStays, ShownItems DEF CreateAnswered, source, IInv, DataOK, Shown
  <1>2. t \in Tasks /\ t.op = "import"
    BY TaskTypes DEF IInv, CreateAnswered, PhaseOK
  <1>3. /\ t.item \in Items
        /\ t.item \in Shown => /\ item[t.item].status = "importing" /\ item[t.item].id = key[t.item]
                               /\ item[t.item].req
    BY <1>2, ImportingIs
  <1>4. t.node \in 1..Len(nodes) /\ nodes[t.node].item = t.item
    BY <1>2 DEF IInv, TasksOK, TaskOK, CreateAnswered
  <1>5. /\ \A j \in Items : key[j] \in Items /\ item[j].parent \in Nat
        /\ N \in Nat /\ t.node \in Nat /\ t.node > 0
    <2>1. Len(nodes) \in Nat /\ N \in Nat
      BY NodeTypes, NAssumption DEF IInv
    <2>2. \A j \in Items : item[j].parent \in 0..(N + Len(nodes)) /\ key[j] \in Items
      BY ItemTypes DEF IInv, DataOK
    <2> QED
      BY <1>4, <2>1, <2>2
  <1>6. \A j \in Items : ~(key[j] > N) /\ N + t.node > N /\ N + t.node - N = t.node
    <2>1. \A j \in Items : ~(j > N)
      BY NAssumption DEF Items
    <2> QED
      BY <1>5, <2>1
  <1>7. \A j \in Items :
           /\ j \notin Shown => item'[j] = item[j]
           /\ item'[j].req = item[j].req
           /\ j # t.item => item'[j].id = item[j].id /\ item'[j].status = item[j].status
           /\ j = t.item /\ j \in Shown =>
                 /\ item'[j].id = N + t.node /\ item'[j].status = "imported"
                 /\ item'[j].parent = item[j].parent
           /\ j # t.item /\ j \in Shown =>
                 item'[j].parent = IF t.item \in folder /\ item[j].parent = key[t.item] THEN N + t.node
                                   ELSE item[j].parent
    <2>1. item \in [Items -> ItemState]
      BY DEF IInv, DataOK
    <2>2. item' = [j \in Items |->
             IF j \notin Shown THEN item[j]
             ELSE IF j = t.item THEN [item[j] EXCEPT !.status = "imported", !.id = N + t.node]
             ELSE IF t.item \in folder /\ item[j].parent = key[t.item] THEN [item[j] EXCEPT !.parent = N + t.node]
             ELSE item[j]]
      BY DEF CreateAnswered, Imported
    <2> SUFFICES ASSUME NEW j \in Items
                 PROVE  /\ j \notin Shown => item'[j] = item[j]
                        /\ item'[j].req = item[j].req
                        /\ j # t.item => item'[j].id = item[j].id /\ item'[j].status = item[j].status
                        /\ j = t.item /\ j \in Shown =>
                              /\ item'[j].id = N + t.node /\ item'[j].status = "imported"
                              /\ item'[j].parent = item[j].parent
                        /\ j # t.item /\ j \in Shown =>
                              item'[j].parent = IF t.item \in folder /\ item[j].parent = key[t.item] THEN N + t.node
                                                ELSE item[j].parent
      OBVIOUS
    <2>3. CASE j = t.item
      BY <2>1, <2>2, <2>3 DEF ItemState
    <2>4. CASE j # t.item
      BY <2>1, <2>2, <2>4 DEF ItemState
    <2> QED
      BY <2>3, <2>4
  <1>8. \A j \in Items : Astray(j) => Astray(j)' /\ item'[j].parent = item[j].parent
    <2>1. \A j \in Items : item[j].parent > N => item'[j].parent = item[j].parent
      BY <1>3, <1>6, <1>7
    <2> QED
      BY <1>1, <2>1 DEF Astray, source
  <1>9. ASSUME NEW j \in Shown, NEW g \in Shown, under[j] = g PROVE InTree(j, g)'
    <2>1. j \in Items /\ g \in Items
      BY <1>1
    <2>2. g # 0 /\ g # j /\ g \in folder /\ Above(j) = key[g]
      BY <1>9, <2>1, FolderIs
    <2>3. InTree(j, g)
      BY <1>9 DEF TreeOK, ListStaysTree, InTree
    <2>4. CASE t.item \in folder /\ item[j].parent = key[t.item] /\ j # t.item
      <3>1. item'[j].parent = N + t.node
        BY <1>7, <2>1, <2>4
      <3>2. key[g] = key[t.item]
        <4>1. item[j].parent = Above(j) \/ Moved(j)
          BY <2>1 DEF JInv, ParentsOK
        <4>2. ~(item[j].parent > N)
          BY <1>3, <1>6, <2>4
        <4> QED
          BY <2>2, <2>4, <4>1, <4>2 DEF Moved
      <3>3. CASE g = t.item
        BY <1>7, <2>1, <3>1, <3>3 DEF InTree
      <3>4. CASE g # t.item
        <4>1. PICK z : z = N + t.node
          OBVIOUS
        <4>2. z > N /\ z - N = t.node
          BY <1>5, <4>1
        <4>3. item'[j].parent = z
          BY <3>1, <4>1
        <4>4. nodes'[z - N].item = t.item /\ under'[j] = g /\ key' = key
          BY <1>1, <1>4, <1>9, <4>2 DEF source
        <4> QED
          BY <3>2, <3>4, <4>2, <4>3, <4>4 DEF InTree, Astray
      <3> QED
        BY <3>3, <3>4
    <2>5. CASE ~(t.item \in folder /\ item[j].parent = key[t.item] /\ j # t.item)
      <3>1. item'[j].parent = item[j].parent
        BY <1>7, <2>1, <2>5
      <3>2. CASE Astray(j) /\ key[nodes[item[j].parent - N].item] = key[g]
        BY <1>1, <1>8, <2>1, <3>1, <3>2 DEF InTree, source
      <3>3. CASE item[j].parent = item[g].id
        <4>1. g # t.item
          BY <1>3, <2>2, <2>5, <3>3
        <4> QED
          BY <1>7, <2>1, <3>1, <3>3, <4>1 DEF InTree
      <3> QED
        BY <2>3, <3>2, <3>3 DEF InTree
    <2> QED
      BY <2>4, <2>5
  <1>10. ListStaysTree'
    BY <1>1, <1>9 DEF ListStaysTree, InTree, source
  <1>11. \A f \in pulling : under[f] = 0 /\ (f \in Shown => ~item'[f].req)
    BY <1>1, <1>7 DEF TreeOK
  <1>12. \A j \in Items : Unlisted(j)' => Unlisted(j)
    <2> SUFFICES ASSUME NEW j \in Items, Unlisted(j)', ~Unlisted(j) PROVE FALSE
      OBVIOUS
    <2>1. Unread(j)' <=> Unread(j)
      BY <1>1, FormStays DEF source
    <2>2. under[j] # 0 /\ (Top[j] \in pulling \/ (Top[j] \in Shown /\ ~item'[Top[j]].req))
      BY <1>1, <2>1 DEF Unlisted, source
    <2>3. Top[j] \in pulling \/ (Top[j] \in Shown /\ ~item[Top[j]].req)
      BY <1>1, <1>7, <2>2
    <2> QED
      BY <2>2, <2>3 DEF Unlisted
  <1>13. ASSUME NEW j \in Items, Unlisted(j)' PROVE Pristine(j)'
    <2>1. Unlisted(j) /\ Pristine(j)
      BY <1>12, <1>13 DEF TreeOK
    <2>2. j \notin Shown
      BY <2>1, UnlistedHidden
    <2> QED
      BY <1>1, <1>7, <2>1, <2>2 DEF Pristine, Above, source
  <1>14. \A j \in Items : /\ kind = "drive" /\ under[j] = 0 => j \in folder
                          /\ item'[j].id = key[j] \/ item'[j].status = "imported"
                          /\ ~item'[j].req => item'[j].status = "parsed"
    <2> SUFFICES ASSUME NEW j \in Items
                 PROVE  /\ item'[j].id = key[j] \/ item'[j].status = "imported"
                        /\ ~item'[j].req => item'[j].status = "parsed"
      BY DEF TreeOK
    <2>1. CASE j \in Shown /\ j = t.item
      BY <1>3, <1>7, <2>1
    <2>2. CASE j \notin Shown \/ j # t.item
      BY <1>7, <2>2 DEF TreeOK
    <2> QED
      BY <2>1, <2>2
  <1> QED
    BY <1>1, <1>10, <1>11, <1>13, <1>14 DEF TreeOK, source

\* The tree at the start.
LEMMA TreeAtFirst ==
    ASSUME Init
    PROVE  TreeOK
  <1>1. PICK s \in Sources : kind = s.kind /\ folder = s.folder /\ under = s.under
    BY DEF Init
  <1>2. kind = "drive" => \A i \in Items : under[i] = 0 => i \in folder
    <2>1. s \in AllSources
      BY SourcesAssumption
    <2> QED
      BY <1>1, <2>1 DEF AllSources
  <1>3. Shown = {} /\ pulling = {}
    BY InitEstablishes, ShownItems DEF Init, IInv
  <1>4. \A i \in Items : /\ kind \notin {"file", "url"} => item[i].status = "parsed" /\ item[i].id = key[i]
                         /\ kind # "drive" => item[i].req
                         /\ item[i].parent = Above(i)
    BY DEF Init
  <1>5. ListStaysTree
    BY <1>3 DEF ListStaysTree
  <1> QED
    BY <1>2, <1>3, <1>4, <1>5 DEF TreeOK, Pristine

\* A step that leaves the items alone and lists nothing.
LEMMA IdleTree ==
    ASSUME IInv, TreeOK, kind \notin {"file", "url"}, UNCHANGED <<kind, under, folder, key, item>>,
           Shown' \subseteq Shown, pulling' \subseteq pulling,
           \A i \in Items : Unread(i)' => Unread(i),
           \A i \in Items : Astray(i) => nodes'[item[i].parent - N] = nodes[item[i].parent - N]
    PROVE  TreeOK'
  <1>1. \A i \in Items : Astray(i) => Astray(i)'
    BY DEF Astray
  <1> QED
    BY <1>1, TreeFrame

\* A submission goes on: a pull that is to be listed was so before.
LEMMA FormTree ==
    ASSUME IInv, TreeOK, kind \notin {"file", "url"}, UNCHANGED <<source, item, pulling, nodes>>,
           NEW p \in Pulls, NEW f, form' = [form EXCEPT ![p] = f], list' = list,
           f \in {"new", "waiting", "left", "stuck"} => form[p] \in {"new", "waiting", "left", "stuck"}
    PROVE  TreeOK'
  <1>1. \A i \in Items : Unread(i)' => Unread(i)
    BY FormMoves DEF IInv, source
  <1>2. Shown' = Shown
    BY DEF Shown
  <1> QED
    BY <1>1, <1>2, IdleTree DEF source

\* The steps that leave the items alone and list nothing.
LEMMA RestTree ==
    ASSUME IInv, JInv, TreeOK, kind \notin {"file", "url"},
           \/ Select \/ Close \/ Reopen \/ UNCHANGED vars
           \/ \E p \in Pulls : Submit(p) \/ NotListed(p) \/ FormDone(p) \/ UploadsDone(p)
           \/ \E f \in Items : SelectFolder(f) \/ NotPulled(f)
           \/ \E t \in running : Export(t) \/ CreateNode(t)
           \/ \E b \in Batches : LoopNext(b)
    PROVE  TreeOK'
  <1>1. CASE \E p \in Pulls : Submit(p) \/ NotListed(p) \/ FormDone(p)
    <2>1. PICK p \in Pulls : Submit(p) \/ NotListed(p) \/ FormDone(p)
      BY <1>1
    <2>2. \E f : /\ form' = [form EXCEPT ![p] = f]
                 /\ f \in {"new", "waiting", "left", "stuck"} => form[p] \in {"new", "waiting", "left", "stuck"}
      <3>1. CASE Submit(p)
        BY <3>1 DEF Submit, FormShown, At
      <3>2. CASE FormDone(p)
        <4>1. PICK f : f = "done"
          OBVIOUS
        <4>2. form' = [form EXCEPT ![p] = f] /\ f \notin {"new", "waiting", "left", "stuck"}
          BY <3>2, <4>1 DEF FormDone
        <4> QED
          BY <4>2
      <3>3. CASE NotListed(p)
        BY <3>3 DEF NotListed, At
      <3> QED
        BY <2>1, <3>1, <3>2, <3>3
    <2>3. UNCHANGED <<source, item, pulling, nodes, list>>
      BY <2>1 DEF Submit, NotListed, FormDone
    <2> QED
      BY <2>2, <2>3, FormTree
  <1>2. CASE \E p \in Pulls : UploadsDone(p)
    <2>1. PICK p \in Pulls : UploadsDone(p)
      BY <1>2
    <2>2. With({"common"}) = {}
      BY ShownItems DEF With, IInv, PhaseOK
    <2>3. SetStatus({}, "parsing")
      <3>1. {i \in Of(p) \cap With({"common"}) : item[i].id # 0} = {}
        BY <2>2
      <3> QED
        BY <2>1, <3>1 DEF UploadsDone
    <2>4. item' = item
      <3>1. item \in [Items -> ItemState]
        BY DEF IInv, DataOK
      <3>2. item' = [i \in Items |-> item[i]]
        BY <2>3 DEF SetStatus, Update
      <3> QED
        BY <3>1, <3>2
    <2>5. UNCHANGED <<source, pulling, nodes, list>> /\ form' = [form EXCEPT ![p] = "done"]
      BY <2>1 DEF UploadsDone
    <2> QED
      BY <2>4, <2>5, FormTree
  <1>3. CASE Close
    <2>1. \A i \in Items : Unread(i)' => Unread(i)
      <3>1. pull \in [Items -> Pulls] /\ pull' = pull
        BY <1>3 DEF IInv, DataOK, Close, source
      <3>2. \A p \in Pulls : form'[p] \in {"new", "waiting", "left", "stuck"} =>
                                form[p] \in {"new", "waiting", "left", "stuck"}
        BY <1>3 DEF Close, At
      <3> QED
        BY <3>1, <3>2 DEF Unread, At
    <2>2. Shown' = {}
      <3>1. list' = <<>> /\ Len(<<>>) = 0
        BY <1>3 DEF Close
      <3> QED
        BY <3>1 DEF Shown
    <2>3. UNCHANGED <<kind, under, folder, key, item, pulling, nodes>>
      BY <1>3 DEF Close, source
    <2> QED
      BY <2>1, <2>2, <2>3, IdleTree
  <1>4. CASE \/ Select \/ Reopen \/ UNCHANGED vars
             \/ \E f \in Items : SelectFolder(f) \/ NotPulled(f)
             \/ \E t \in running : Export(t) \/ CreateNode(t)
             \/ \E b \in Batches : LoopNext(b)
    <2>1. UNCHANGED <<source, form, item, list>> /\ pulling' \subseteq pulling
      BY <1>4 DEF vars, dialog, Select, Reopen, SelectFolder, NotPulled, Export, CreateNode, LoopNext
    <2>2. Shown' = Shown /\ \A i \in Items : Unread(i)' => Unread(i)
      BY <2>1, FormStays DEF Shown, source
    <2>3. \A n \in 1..Len(nodes) : nodes'[n] = nodes[n]
      <3>1. nodes' = nodes \/ \E x : nodes' = Append(nodes, x)
        BY <1>4 DEF vars, Select, Reopen, SelectFolder, NotPulled, Export, CreateNode, LoopNext
      <3>2. \E R : nodes \in Seq(R)
        BY DEF IInv, DataOK
      <3> QED
        BY <3>1, <3>2
    <2>4. \A i \in Items : Astray(i) => nodes'[item[i].parent - N] = nodes[item[i].parent - N]
      <3> SUFFICES ASSUME NEW i \in Items, Astray(i) PROVE nodes'[item[i].parent - N] = nodes[item[i].parent - N]
        OBVIOUS
      <3>1. PICK n : n = item[i].parent - N
        OBVIOUS
      <3>2. item[i].parent > N /\ N \in Nat /\ Above(i) \in 0..N
        BY AboveIs DEF Astray, IInv
      <3>3. n \in 1..Len(nodes)
        BY <3>1, <3>2 DEF JInv, ParentsOK, Moved, Answered
      <3> QED
        BY <2>3, <3>1, <3>3
    <2> QED
      BY <2>1, <2>2, <2>4, IdleTree DEF source
  <1> QED
    BY <1>1, <1>2, <1>3, <1>4

\* Every step keeps it.
LEMMA TreeByNext ==
    ASSUME IInv, JInv, TreeOK, [Next]_vars
    PROVE  TreeOK'
  <1>1. IInv' /\ kind' = kind
    <2>1. ASSUME Reader PROVE kind' = kind
      BY <2>1 DEF Reader, SubmitItems, source, Submit, Select, BatchParse, Close, Reopen, BatchImport, PullFolder,
                  SelectFolder
    <2>2. ASSUME NEW t \in running, TaskEnds(t) \/ Export(t) \/ CreateNode(t)
          PROVE  kind' = kind
      BY <2>2 DEF TaskEnds, UploadEnds, source, ParseEnds, CreateAnswered, ImportFails, Export, CreateNode
    <2>3. ASSUME System PROVE kind' = kind
      BY <2>2, <2>3 DEF System, Listed, source, NotListed, UploadsDone, FormDone, Pulled, NotPulled, LoopNext
    <2>4. UNCHANGED vars => kind' = kind
      BY DEF vars, source
    <2>5. IInv'
      BY NextKeeps
    <2> QED
      BY <2>1, <2>3, <2>4, <2>5 DEF Next
  <1>2. CASE kind \in {"file", "url"}
    <2>1. (IInv /\ kind \in {"file", "url"} => TreeOK)'
      BY FlatTree, PTL
    <2> QED
      BY <1>1, <1>2, <2>1
  <1>3. CASE kind \notin {"file", "url"}
    <2>1. CASE \/ Select \/ Close \/ Reopen \/ UNCHANGED vars
               \/ \E p \in Pulls : Submit(p) \/ NotListed(p) \/ FormDone(p) \/ UploadsDone(p)
               \/ \E f \in Items : SelectFolder(f) \/ NotPulled(f)
               \/ \E t \in running : Export(t) \/ CreateNode(t)
               \/ \E b \in Batches : LoopNext(b)
      BY <1>3, <2>1, RestTree
    <2>2. CASE \E b \in Batches : BatchImport(b)
      BY <1>3, <2>2, BatchImportTree
    <2>3. CASE \E f \in Items : PullFolder(f)
      BY <2>3, PullFolderTree
    <2>4. CASE \E p \in Pulls : Listed(p)
      BY <2>4, ListedTree
    <2>5. CASE \E f \in Items : Pulled(f)
      BY <2>5, PulledTree
    <2>6. CASE \E t \in running : CreateAnswered(t) \/ ImportFails(t)
      BY <1>3, <2>6, CreateAnsweredTree, ImportFailsTree
    <2>7. /\ \A p \in Pulls : ~SubmitItems(p)
          /\ ~BatchParse /\ \A t \in running : ~UploadEnds(t) /\ ~ParseEnds(t)
      <3>1. Chosen({"parse-error"}) = {}
        BY <1>3, ShownItems DEF With, Chosen, IInv, PhaseOK
      <3>2. \A t \in running : t.op = "import"
        BY <1>3, TaskTypes DEF IInv, PhaseOK
      <3> QED
        BY <1>3, <3>1, <3>2 DEF SubmitItems, BatchParse, UploadEnds, ParseEnds
    <2> QED
      BY <2>1, <2>2, <2>3, <2>4, <2>5, <2>6, <2>7 DEF Next, Reader, System, TaskEnds
  <1> QED
    BY <1>2, <1>3

\* Importing a folder changes its id, and what is listed in it follows, or is where an
\* older pull's answer about the same folder took it: whatever was closed, opened again,
\* pulled or answered in between.
THEOREM TreeStays == Spec => []ListStaysTree
  <1>1. Init => TreeOK
    BY TreeAtFirst
  <1>2. IInv /\ JInv /\ TreeOK /\ [Next]_vars => TreeOK'
    BY TreeByNext
  <1>3. TreeOK => ListStaysTree
    BY DEF TreeOK
  <1> QED
    BY <1>1, <1>2, <1>3, Invariance, KeptInvariance, PTL DEF Spec

-----------------------------------------------------------------------------
(* The spinners: the part of SpinnersEnd that is about states.             *)

\* What is parsing has a request, and what is importing is left to do in a batch.
Owed(i) ==
    /\ item[i].status = "parsing" => \E t \in Tasks : t.op = "parse" /\ t.item = i
    /\ item[i].status = "importing" => \E b \in Batches : InTodo(b, i)
AllOwed == \A i \in Shown : Owed(i)

\* No spinner is left alone: there is a request that will answer for it, or a batch that
\* runs and has not come to it yet.
SpinnersOwed ==
    \A i \in With({"parsing", "importing"}) :
        \/ \E t \in Tasks : t.op = "parse" /\ t.item = i
        \/ \E b \in Batches : batch[b].pc = "running" /\ InTodo(b, i)

\* What of q is in s, in its order, is all of it.
LEMMA AmongAll ==
    ASSUME NEW X, NEW q \in Seq(X), NEW s
    PROVE  \A j \in 1..Len(q) : q[j] \in s =>
              \E k \in 1..Len(Among(q, s)) : Among(q, s)[k] = q[j]
  <1> DEFINE P == {k \in 1..Len(q) : q[k] \in s}
             at == Sorted(P)
  <1>1. P \in SUBSET Nat /\ IsFiniteSet(P)
    BY FS_Interval, FS_Subset
  <1>2. (\A j \in P : \E k \in 1..Len(at) : at[k] = j) /\ at \in Seq(P)
    BY <1>1, SortedFacts
  <1> HIDE DEF at
  <1>3. Among(q, s) = [k \in 1..Len(at) |-> q[at[k]]]
    BY DEF Among, at
  <1>4. Len(at) \in Nat
    BY <1>2
  <1>5. Len(Among(q, s)) = Len(at) /\ \A k \in 1..Len(at) : Among(q, s)[k] = q[at[k]]
    BY <1>3, <1>4
  <1>6. ASSUME NEW j \in 1..Len(q), q[j] \in s
        PROVE  \E k \in 1..Len(Among(q, s)) : Among(q, s)[k] = q[j]
    <2>1. j \in P
      BY <1>6
    <2>2. PICK k \in 1..Len(at) : at[k] = j
      BY <1>2, <2>1
    <2> QED
      BY <1>5, <2>2
  <1> QED
    BY <1>6

\* A step that ends no request and no round of a batch.
LEMMA OwedStays ==
    ASSUME AllOwed, NEW i \in Shown, item'[i].status = item[i].status,
           \A t \in Tasks : t.op = "parse" /\ t.item = i => t \in Tasks',
           \A b \in Batches : InTodo(b, i) => InTodo(b, i)'
    PROVE  Owed(i)'
  BY DEF AllOwed, Owed

\* A step that leaves every status alone, and lists only what has no spinner.
LEMMA OwedFrame ==
    ASSUME AllOwed, \A i \in Shown' : item'[i].status = item[i].status,
           \A i \in Shown' : i \in Shown \/ item[i].status = "parsed",
           \A t \in Tasks : t.op = "parse" => t \in Tasks',
           \A b \in Batches, i \in Shown : InTodo(b, i) => InTodo(b, i)'
    PROVE  AllOwed'
  <1>1. ASSUME NEW i \in Shown' PROVE Owed(i)'
    <2>1. CASE i \in Shown
      BY <2>1, OwedStays
    <2>2. CASE item[i].status = "parsed"
      BY <2>2 DEF Owed
    <2> QED
      BY <1>1, <2>1, <2>2
  <1> QED
    BY <1>1 DEF AllOwed

\* Files and web pages that are submitted.
LEMMA SubmitItemsOwed ==
    ASSUME IInv, NEW p \in Pulls, SubmitItems(p)
    PROVE  AllOwed'
  <1> DEFINE s == Of(p)
             q == Sorted(s)
  <1>1. /\ s \in SUBSET Items /\ item' = item /\ list' = q /\ kind \in {"file", "url"}
        /\ \A i \in s : Unread(i)
    BY DEF SubmitItems, FormShown, Of, Unread, At
  <1>2. \A i \in s : /\ kind = "file" => item[i].status = "common"
                     /\ \A t \in Tasks : t.item # i
    BY <1>1 DEF IInv, PhaseOK
  <1>3. CASE kind = "url"
    <2>1. Enqueue(Each("parse", 0, q))
      BY <1>1, <1>3 DEF SubmitItems
    <2> HIDE DEF s
    <2>2. /\ q \in Seq(Items) /\ (\A k \in 1..Len(q) : q[k] \in s)
          /\ \A k, l \in 1..Len(q) : q[k] = q[l] => k = l
      BY <1>1, ItemsSorted
    <2> HIDE DEF q
    <2>3. \A k \in 1..Len(q) : Task("parse", q[k], 0) \in Tasks'
      <3>1. QueueInv /\ \A t \in Tasks, k \in 1..Len(q) : t.op = "parse" => t.item # q[k]
        BY <1>2, <2>2 DEF IInv
      <3> QED
        BY ONLY <2>1, <2>2, <3>1, PushEach
    <2>4. ASSUME NEW i \in Shown' PROVE Owed(i)'
      <3>1. PICK k \in 1..Len(q) : q[k] = i
        BY <1>1 DEF Shown
      <3>2. Task("parse", i, 0) \in Tasks' /\ Task("parse", i, 0).op = "parse" /\ Task("parse", i, 0).item = i
        BY <2>3, <3>1 DEF Task
      <3>3. item'[i].status = "parsing"
        <4>1. i \in s
          BY <2>2, <3>1
        <4> QED
          BY <1>1, <1>3, <4>1 DEF IInv, PhaseOK
      <3> QED
        BY <3>2, <3>3 DEF Owed
    <2> QED
      BY <2>4 DEF AllOwed
  <1>4. CASE kind = "file"
    <2> HIDE DEF s
    <2>1. \A k \in 1..Len(q) : q[k] \in s
      BY <1>1, ItemsSorted
    <2>2. \A i \in Shown' : item'[i].status = "common"
      BY <1>1, <1>2, <1>4, <2>1 DEF Shown
    <2> QED
      BY <2>2 DEF AllOwed, Owed
  <1> QED
    BY <1>1, <1>3, <1>4

\* Each of some listed items is parsed.
LEMMA ParseOwed ==
    ASSUME IInv, AllOwed, NEW s \in SUBSET Shown, NEW q \in Seq(Items),
           SetStatus(s, "parsing"), Enqueue(Each("parse", 0, q)), UNCHANGED <<list, batch>>,
           \A k, l \in 1..Len(q) : q[k] = q[l] => k = l,
           \A t \in Tasks, k \in 1..Len(q) : t.op = "parse" => t.item # q[k],
           \A i \in s : \E k \in 1..Len(q) : q[k] = i
    PROVE  AllOwed'
  <1>1. Tasks \subseteq Tasks' /\ \A k \in 1..Len(q) : Task("parse", q[k], 0) \in Tasks'
    BY PushEach DEF IInv
  <1>2. Shown' = Shown /\ Shown \subseteq Items
    BY ShownItems DEF IInv, Shown
  <1>3. \A i \in Shown : item'[i].status = IF i \in s THEN "parsing" ELSE item[i].status
    BY <1>2, StatusSet DEF IInv, Statuses
  <1>4. ASSUME NEW i \in Shown PROVE Owed(i)'
    <2>1. CASE i \in s
      <3>1. PICK k \in 1..Len(q) : q[k] = i
        BY <2>1
      <3>2. Task("parse", i, 0) \in Tasks' /\ Task("parse", i, 0).op = "parse" /\ Task("parse", i, 0).item = i
        BY <1>1, <3>1 DEF Task
      <3> QED
        BY <1>3, <2>1, <3>2 DEF Owed
    <2>2. CASE i \notin s
      <3>1. \A b \in Batches : InTodo(b, i) => InTodo(b, i)'
        BY DEF InTodo
      <3> QED
        BY <1>1, <1>3, <2>2, <3>1, OwedStays
    <2> QED
      BY <2>1, <2>2
  <1> QED
    BY <1>2, <1>4 DEF AllOwed

\* The files that were uploaded.
LEMMA UploadsDoneOwed ==
    ASSUME IInv, AllOwed, NEW p \in Pulls, UploadsDone(p)
    PROVE  AllOwed'
  <1> DEFINE s == {i \in Of(p) \cap With({"common"}) : item[i].id # 0}
             q == Sorted(s)
  <1>1. s \in SUBSET Shown /\ s \in SUBSET Items
    BY ShownItems DEF IInv, With
  <1>2. SetStatus(s, "parsing") /\ Enqueue(Each("parse", 0, q)) /\ UNCHANGED <<list, batch>>
    BY DEF UploadsDone
  <1>3. \A i \in s : i \in Items /\ Uploading(i)
    BY DEF UploadsDone, Of, Uploading, At
  <1> HIDE DEF s
  <1>4. /\ q \in Seq(Items) /\ \A k, l \in 1..Len(q) : q[k] = q[l] => k = l
        /\ \A k \in 1..Len(q) : q[k] \in s
        /\ \A i \in s : \E k \in 1..Len(q) : q[k] = i
    <2>1. s \in SUBSET Nat /\ IsFiniteSet(s)
      BY <1>1, ItemsFinite
    <2> QED
      BY <1>1, <2>1, ItemsSorted, SortedFacts
  <1> HIDE DEF q
  <1>5. \A t \in Tasks, k \in 1..Len(q) : t.op = "parse" => t.item # q[k]
    BY <1>3, <1>4 DEF IInv, PhaseOK
  <1> QED
    BY <1>1, <1>2, <1>4, <1>5, ParseOwed

\* What could not be parsed, once more.
LEMMA BatchParseOwed ==
    ASSUME IInv, AllOwed, BatchParse
    PROVE  AllOwed'
  <1> DEFINE s == Chosen({"parse-error"})
             q == Among(list, s)
  <1>1. s \in SUBSET Shown /\ \A i \in s : item[i].status = "parse-error"
    BY DEF With, Chosen
  <1>2. /\ q \in Seq(Items) /\ \A k, l \in 1..Len(q) : q[k] = q[l] => k = l
        /\ \A k \in 1..Len(q) : q[k] \in s
        /\ \A i \in s : \E k \in 1..Len(q) : q[k] = i
    <2>1. list \in Seq(Items) /\ \A k, l \in 1..Len(list) : list[k] = list[l] => k = l
      BY DEF IInv, DataOK, ListOK
    <2>2. \A i \in s : \E j \in 1..Len(list) : list[j] = i
      BY <1>1 DEF Shown
    <2> HIDE DEF s
    <2>3. \A j \in 1..Len(list) : list[j] \in s => \E k \in 1..Len(q) : q[k] = list[j]
      BY <2>1, AmongAll
    <2>4. /\ q \in Seq(Items) /\ \A k, l \in 1..Len(q) : q[k] = q[l] => k = l
          /\ \A k \in 1..Len(q) : q[k] \in s
      BY <2>1, AmongFacts
    <2> HIDE DEF q
    <2> QED
      BY <2>2, <2>3, <2>4
  <1>3. SetStatus(s, "parsing") /\ Enqueue(Each("parse", 0, q)) /\ UNCHANGED <<list, batch>>
    BY DEF BatchParse, source
  <1> HIDE DEF s, q
  <1>4. \A t \in Tasks, k \in 1..Len(q) : t.op = "parse" => t.item # q[k]
    BY <1>1, <1>2 DEF IInv, ListOK
  <1> QED
    BY <1>1, <1>2, <1>3, <1>4, ParseOwed

\* What was being uploaded has no spinner of its own.
LEMMA UploadEndsOwed ==
    ASSUME IInv, AllOwed, NEW t \in running, UploadEnds(t)
    PROVE  AllOwed'
  <1>1. t \in Tasks /\ t.op = "upload" /\ t.item \in Items /\ Settle(t)
    BY TaskTypes DEF IInv, Things, UploadEnds
  <1>2. item[t.item].status \in {"common", "upload-error"}
    BY <1>1 DEF IInv, PhaseOK
  <1>3. Shown' = Shown /\ Shown \subseteq Items /\ \A b \in Batches, i \in Items : InTodo(b, i) => InTodo(b, i)'
    BY ShownItems DEF IInv, Shown, UploadEnds, InTodo
  <1>4. Tasks' = Tasks \ {t}
    BY <1>1, SettleKeeps DEF IInv
  <1>5. \A i \in Shown : IF i = t.item THEN item'[i].status \in {"common", "upload-error"}
                         ELSE item'[i].status = item[i].status
    <2>1. CASE SetStatus({t.item}, "upload-error")
      BY <1>3, <2>1, StatusSet DEF IInv, Statuses
    <2>2. CASE Update({t.item}, LAMBDA i : [item[i] EXCEPT !.id = key[i]])
      <3>1. item' = [i \in Items |-> IF i \in {t.item} \cap Shown THEN [item[i] EXCEPT !.id = key[i]] ELSE item[i]]
        BY <2>2 DEF Update
      <3>2. item \in [Items -> ItemState]
        BY DEF IInv, DataOK
      <3> QED
        BY <1>2, <1>3, <3>1, <3>2 DEF ItemState
    <2> QED
      BY <2>1, <2>2 DEF UploadEnds
  <1>6. ASSUME NEW i \in Shown PROVE Owed(i)'
    <2>1. CASE i = t.item
      BY <1>5, <2>1 DEF Owed
    <2>2. CASE i # t.item
      BY <1>3, <1>4, <1>5, <2>2, OwedStays
    <2> QED
      BY <2>1, <2>2
  <1> QED
    BY <1>3, <1>6 DEF AllOwed

\* A parsing that ends ends its spinner.
LEMMA ParseEndsOwed ==
    ASSUME IInv, AllOwed, NEW t \in running, ParseEnds(t)
    PROVE  AllOwed'
  <1>1. PICK s \in {"parsed", "parse-error"} : SetStatus({t.item}, s)
    BY DEF ParseEnds, source
  <1>2. Shown' = Shown /\ Shown \subseteq Items /\ \A b \in Batches, i \in Items : InTodo(b, i) => InTodo(b, i)'
    BY ShownItems DEF IInv, Shown, ParseEnds, source, InTodo
  <1>3. \A i \in Shown : item'[i].status = IF i = t.item THEN s ELSE item[i].status
    BY <1>1, <1>2, StatusSet DEF IInv, Statuses
  <1>4. Tasks' = Tasks \ {t}
    BY SettleKeeps DEF IInv, ParseEnds, source
  <1>5. ASSUME NEW i \in Shown PROVE Owed(i)'
    <2>1. CASE i = t.item
      BY <1>3, <2>1 DEF Owed
    <2>2. CASE i # t.item
      BY <1>2, <1>3, <1>4, <2>2, OwedStays
    <2> QED
      BY <2>1, <2>2
  <1> QED
    BY <1>2, <1>5 DEF AllOwed

\* A batch that begins has all that it marked.
LEMMA BatchImportOwed ==
    ASSUME IInv, AllOwed, NEW b \in Batches, BatchImport(b)
    PROVE  AllOwed'
  <1> DEFINE s == {i \in Chosen({"parsed", "import-error"}) : i \in folder => item[i].req}
             q == Among(list, s)
             todo == [k \in 1..Len(q) |-> [item |-> q[k], parent |-> item[q[k]].parent]]
  <1>1. s \in SUBSET Shown
    BY DEF With, Chosen
  <1>2. Len(q) \in Nat /\ \A i \in s : \E k \in 1..Len(q) : q[k] = i
    <2>1. list \in Seq(Items)
      BY DEF IInv, DataOK
    <2>2. \A i \in s : \E j \in 1..Len(list) : list[j] = i
      BY <1>1 DEF Shown
    <2> HIDE DEF s
    <2>3. \A j \in 1..Len(list) : list[j] \in s => \E k \in 1..Len(q) : q[k] = list[j]
      BY <2>1, AmongAll
    <2>4. q \in Seq(Items)
      BY <2>1, AmongFacts
    <2> QED
      BY <2>2, <2>3, <2>4
  <1>3. /\ SetStatus(s, "importing") /\ UNCHANGED <<list, queue, running>> /\ batch[b].pc = "unused"
        /\ batch' = [batch EXCEPT ![b].pc = "running", ![b].todo = todo]
    BY DEF BatchImport, source
  <1> HIDE DEF s, q
  <1>4. /\ Len(todo) = Len(q) /\ \A k \in 1..Len(q) : todo[k].item = q[k]
    BY <1>2
  <1> HIDE DEF todo
  <1>5. batch'[b].todo = todo /\ \A c \in Batches \ {b} : batch'[c] = batch[c]
    BY <1>3 DEF IInv, DataOK, BatchType
  <1>6. Shown' = Shown /\ Shown \subseteq Items /\ Tasks' = Tasks
    BY <1>3, ShownItems DEF IInv, Shown, Tasks
  <1>7. \A i \in Shown : item'[i].status = IF i \in s THEN "importing" ELSE item[i].status
    BY <1>3, <1>6, StatusSet DEF IInv, Statuses
  <1>8. \A c \in Batches, i \in Items : InTodo(c, i) => InTodo(c, i)'
    <2>1. batch[b].todo = <<>> /\ Len(<<>>) = 0
      BY <1>3 DEF IInv, TodosOK
    <2>2. \A i \in Items : ~InTodo(b, i)
      BY <2>1 DEF InTodo
    <2> QED
      BY <1>5, <2>2 DEF InTodo
  <1>9. ASSUME NEW i \in Shown PROVE Owed(i)'
    <2>1. CASE i \in s
      <3>1. PICK k \in 1..Len(q) : q[k] = i
        BY <1>2, <2>1
      <3>2. InTodo(b, i)'
        BY <1>4, <1>5, <3>1 DEF InTodo
      <3> QED
        BY <1>7, <2>1, <3>2 DEF Owed
    <2>2. CASE i \notin s
      BY <1>6, <1>7, <1>8, <2>2, OwedStays
    <2> QED
      BY <2>1, <2>2
  <1> QED
    BY <1>6, <1>9 DEF AllOwed

\* The end of an import, one way or the other: only its own item leaves the batch.
LEMMA ImportEndsOwed ==
    ASSUME IInv, AllOwed, NEW t \in running, t.op = "import", Settle(t),
           NEW m \in [Items -> 0..Len(nodes)], Leave(t, m), list' = list,
           \A i \in Shown : IF i = t.item THEN item'[i].status \in {"imported", "import-error"}
                            ELSE item'[i].status = item[i].status
    PROVE  AllOwed'
  <1>1. Tasks' = Tasks \ {t} /\ Shown' = Shown /\ Shown \subseteq Items
    BY SettleKeeps, ShownItems DEF IInv, Shown
  <1>2. \A b \in Batches, i \in Items : InTodo(b, i)' <=> InTodo(b, i) /\ i # t.item
    <2>1. TaskOK(t)
      BY TaskTypes DEF IInv, TasksOK
    <2> QED
      BY <2>1, LeaveFacts DEF IInv
  <1>3. ASSUME NEW i \in Shown PROVE Owed(i)'
    <2>1. CASE i = t.item
      BY <2>1 DEF Owed
    <2>2. CASE i # t.item
      BY <1>1, <1>2, <2>2, OwedStays
    <2> QED
      BY <2>1, <2>2
  <1> QED
    BY <1>1, <1>3 DEF AllOwed

\* An import that succeeds.
LEMMA CreateAnsweredOwed ==
    ASSUME IInv, AllOwed, NEW t \in running, CreateAnswered(t)
    PROVE  AllOwed'
  <1>1. t \in Tasks /\ t \in Things /\ TaskOK(t) /\ Shown \subseteq Items
    BY TaskTypes, ShownItems DEF IInv, TasksOK
  <1>2. t.op = "import" /\ t.batch \in Batches /\ t.node \in 1..Len(nodes) /\ t.item \in Items
    BY <1>1 DEF CreateAnswered, source, TaskOK, Things
  <1> DEFINE m == IF t.item \in folder THEN [batch[t.batch].map EXCEPT ![key[t.item]] = t.node]
                  ELSE batch[t.batch].map
  <1>3. m \in [Items -> 0..Len(nodes)] /\ Leave(t, m)
    <2>1. batch[t.batch].map \in [Items -> 0..Len(nodes)] /\ t.node \in 0..Len(nodes)
      BY <1>2, BatchTypes, NodeTypes DEF IInv
    <2> QED
      BY <2>1 DEF CreateAnswered, source
  <1>4. \A i \in Shown : IF i = t.item THEN item'[i].status = "imported"
                         ELSE item'[i].status = item[i].status
    <2>1. item' = [j \in Items |->
             IF j \notin Shown THEN item[j]
             ELSE IF j = t.item THEN [item[j] EXCEPT !.status = "imported", !.id = N + t.node]
             ELSE IF t.item \in folder /\ item[j].parent = key[t.item] THEN [item[j] EXCEPT !.parent = N + t.node]
             ELSE item[j]]
      BY DEF CreateAnswered, source, Imported
    <2>2. item \in [Items -> ItemState]
      BY DEF IInv, DataOK
    <2> QED
      BY <1>1, <2>1, <2>2 DEF ItemState
  <1> HIDE DEF m
  <1>5. Settle(t) /\ list' = list
    BY DEF CreateAnswered, source
  <1> QED
    BY <1>2, <1>3, <1>4, <1>5, ImportEndsOwed

\* An import that fails.
LEMMA ImportFailsOwed ==
    ASSUME IInv, AllOwed, NEW t \in running, ImportFails(t)
    PROVE  AllOwed'
  <1>1. t \in Tasks /\ TaskOK(t) /\ Shown \subseteq Items
    BY TaskTypes, ShownItems DEF IInv, TasksOK
  <1>2. t.op = "import" /\ t.batch \in Batches
    BY <1>1 DEF ImportFails, source, TaskOK
  <1>3. batch[t.batch].map \in [Items -> 0..Len(nodes)] /\ Leave(t, batch[t.batch].map)
    BY <1>2, BatchTypes DEF IInv, ImportFails, source
  <1>4. \A i \in Shown : IF i = t.item THEN item'[i].status = "import-error"
                         ELSE item'[i].status = item[i].status
    BY <1>1, StatusSet DEF IInv, Statuses, ImportFails, source
  <1>5. Settle(t) /\ list' = list
    BY DEF ImportFails, source
  <1> QED
    BY <1>2, <1>3, <1>4, <1>5, ImportEndsOwed

\* What is listed now for the first time has no spinner.
LEMMA ListedOwed ==
    ASSUME IInv, TreeOK, AllOwed, kind \notin {"file", "url"}, NEW s \in SUBSET Items,
           \A i \in s : Unlisted(i), \A i \in Shown' : i \in Shown \/ i \in s,
           \A i \in Items : item'[i].status = item[i].status, UNCHANGED <<queue, running, batch>>
    PROVE  AllOwed'
  <1>1. \A i \in s : item[i].status = "parsed"
    BY DEF TreeOK, Pristine
  <1>2. Tasks' = Tasks /\ \A b \in Batches, i \in Shown : InTodo(b, i) => InTodo(b, i)'
    BY DEF Tasks, InTodo
  <1>3. \A i \in Shown' : i \in Items
    BY ShownItems DEF IInv
  <1> QED
    BY <1>1, <1>2, <1>3, OwedFrame

\* Every step keeps the spinners owed.
LEMMA OwedByNext ==
    ASSUME IInv, TreeOK, AllOwed, [Next]_vars
    PROVE  AllOwed'
  <1>1. Shown \subseteq Items
    BY ShownItems DEF IInv
  <1>2. CASE \/ Select \/ Close \/ Reopen \/ UNCHANGED vars
             \/ \E p \in Pulls : Submit(p) \/ NotListed(p) \/ FormDone(p)
             \/ \E f \in Items : SelectFolder(f) \/ PullFolder(f) \/ NotPulled(f)
    <2>1. UNCHANGED <<item, queue, running, batch>>
      BY <1>2 DEF vars, source, dialog, Submit, Select, Close, Reopen, NotListed, FormDone, SelectFolder, PullFolder,
                  NotPulled
    <2>2. Shown' \subseteq Shown
      <3>1. list' = list \/ list' = <<>>
        BY <1>2 DEF vars, source, dialog, Submit, Select, Close, Reopen, NotListed, FormDone, SelectFolder, PullFolder,
                    NotPulled
      <3>2. Len(<<>>) = 0
        OBVIOUS
      <3> QED
        BY <3>1, <3>2 DEF Shown
    <2>3. Tasks' = Tasks /\ \A b \in Batches, i \in Shown : InTodo(b, i) => InTodo(b, i)'
      BY <2>1 DEF Tasks, InTodo
    <2> QED
      BY <2>1, <2>2, <2>3, OwedFrame
  <1>3. CASE \E b \in Batches : LoopNext(b)
    <2>1. PICK b \in Batches : LoopNext(b)
      BY <1>3
    <2>2. item' = item /\ Shown' = Shown
      BY <2>1 DEF LoopNext, source, dialog, Shown
    <2>3. \A c \in Batches, i \in Shown : InTodo(c, i) => InTodo(c, i)'
      <3>1. batch \in [Batches -> BatchType] /\ (batch' = batch \/ batch' = [batch EXCEPT ![b].pc = "over"])
        BY <2>1 DEF LoopNext, source, IInv, DataOK
      <3>2. ASSUME NEW c \in Batches PROVE batch'[c].todo = batch[c].todo
        <4>1. batch[c] \in BatchType
          BY <3>1
        <4>2. batch'[c] = batch[c] \/ batch'[c] = [batch[c] EXCEPT !.pc = "over"]
          BY <3>1
        <4> QED
          BY <4>1, <4>2 DEF BatchType
      <3> QED
        BY <3>2 DEF InTodo
    <2>4. Tasks \subseteq Tasks'
      <3>1. CASE batch[b].todo = <<>>
        BY <2>1, <3>1 DEF LoopNext, source, Tasks
      <3>2. CASE batch[b].todo # <<>>
        <4>1. PICK i : i = Head(batch[b].todo).item
          OBVIOUS
        <4>2. Enqueue(<<Task("import", i, b)>>) /\ \A t \in Tasks : t.batch # b
          BY <2>1, <3>2, <4>1 DEF LoopNext, source
        <4>3. Task("import", i, b) \in Things
          <5>1. i \in Items
            <6>1. /\ Len(batch[b].todo) \in Nat \ {0} /\ Head(batch[b].todo) = batch[b].todo[1]
                  /\ 1 \in 1..Len(batch[b].todo)
              BY <3>2, BatchTypes DEF IInv
            <6> QED
              BY <4>1, <6>1, BatchTypes DEF IInv
          <5>2. b \in 0..MaxBatches
            BY LimitAssumption DEF Batches
          <5> QED
            BY <5>1, <5>2 DEF Task, Things
        <4>4. \A t \in Tasks : ~Same(t, Task("import", i, b))
          BY <4>2 DEF Same, Task
        <4>5. Tasks' = Tasks \cup {Task("import", i, b)}
          BY <4>2, <4>3, <4>4, EnqueueOne DEF IInv
        <4> QED
          BY <4>5
      <3> QED
        BY <3>1, <3>2
    <2> QED
      BY <2>2, <2>3, <2>4, OwedFrame
  <1>4. CASE \E t \in running : Export(t) \/ CreateNode(t)
    <2>1. PICK t \in running : Export(t) \/ CreateNode(t)
      BY <1>4
    <2>2. item' = item /\ Shown' = Shown /\ \A b \in Batches, i \in Shown : InTodo(b, i) => InTodo(b, i)'
      BY <2>1 DEF Export, source, CreateNode, dialog, Shown, InTodo
    <2>3. t.op = "import" /\ queue' = queue /\ \A u \in running : u # t => u \in running'
      BY <2>1 DEF Export, source, CreateNode, Onward
    <2>4. \A u \in Tasks : u.op = "parse" => u \in Tasks'
      BY <2>3 DEF Tasks
    <2> QED
      BY <2>2, <2>4, OwedFrame
  <1>5. CASE \E p \in Pulls : Listed(p)
    <2>1. PICK p \in Pulls : Listed(p)
      BY <1>5
    <2> DEFINE s == Of(p)
               r == {i \in Of(p) : under[i] = 0}
    <2>2. /\ list' = IF kind = "drive" THEN Sorted(r) ELSE list \o Sorted(s)
          /\ UNCHANGED <<item, queue, running, batch>> /\ kind \notin {"file", "url"}
      BY <2>1 DEF Listed, At, IInv, PhaseOK
    <2>3. s \in SUBSET Items /\ r \in SUBSET s /\ \A i \in s : Unlisted(i)
      BY <2>1 DEF Listed, Of, Unlisted, Unread, At
    <2> HIDE DEF s, r
    <2>4. \A i \in s : i \notin Shown
      BY <2>3, UnlistedHidden
    <2>5. \A i \in Shown' : i \in Shown \/ i \in s
      <3>1. CASE kind = "drive"
        <4>1. list' = Sorted(r) /\ r \in SUBSET Items
          BY <2>2, <2>3, <3>1
        <4>2. Sorted(r) \in Seq(Items) /\ \A k \in 1..Len(Sorted(r)) : Sorted(r)[k] \in r
          BY <4>1, ItemsSorted
        <4> QED
          BY <2>3, <4>1, <4>2 DEF Shown
      <3>2. CASE kind # "drive"
        BY <2>2, <2>3, <2>4, <3>2, ListGrows
      <3> QED
        BY <3>1, <3>2
    <2> QED
      BY <2>2, <2>3, <2>5, ListedOwed
  <1>6. CASE \E f \in Items : Pulled(f)
    <2>1. PICK f \in Items : Pulled(f)
      BY <1>6
    <2> DEFINE s == {i \in Items : under[i] # 0 /\ Top[i] = f}
    <2>2. /\ f \in pulling /\ list' = list \o Sorted(s) /\ UNCHANGED <<queue, running, batch>>
          /\ item' = [i \in Items |-> IF i \in {f} \cap Shown THEN [item[i] EXCEPT !.req = TRUE] ELSE item[i]]
      BY <2>1 DEF Pulled, Update
    <2>3. kind \notin {"file", "url"} /\ s \in SUBSET Items /\ \A i \in s : Unlisted(i)
      BY <2>2 DEF IInv, PhaseOK, Unlisted
    <2>4. \A i \in Items : item'[i].status = item[i].status
      BY <2>2 DEF IInv, DataOK, ItemState
    <2> HIDE DEF s
    <2>5. Shown' = Shown \cup s
      BY <2>2, <2>3, UnlistedHidden, ListGrows
    <2> QED
      BY <2>2, <2>3, <2>4, <2>5, ListedOwed
  <1>7. CASE \/ BatchParse \/ \E b \in Batches : BatchImport(b)
             \/ \E p \in Pulls : SubmitItems(p) \/ UploadsDone(p)
    BY <1>7, SubmitItemsOwed, BatchParseOwed, UploadsDoneOwed, BatchImportOwed
  <1>8. CASE \E t \in running : TaskEnds(t)
    BY <1>8, UploadEndsOwed, ParseEndsOwed, CreateAnsweredOwed, ImportFailsOwed DEF TaskEnds
  <1> QED
    BY <1>2, <1>3, <1>4, <1>5, <1>6, <1>7, <1>8 DEF Next, Reader, System

\* Whatever overlaps, fails or is closed, each spinner that is shown has somebody who
\* will end it: a request about its item, or a batch that runs and has it still to do.
THEOREM SpinnersAreOwed == Spec => []SpinnersOwed
  <1>1. Init => AllOwed
    BY InitEstablishes, ShownItems DEF Init, IInv, AllOwed
  <1>2. IInv /\ TreeOK /\ AllOwed /\ [Next]_vars => AllOwed'
    BY OwedByNext
  <1>3. IInv /\ AllOwed => SpinnersOwed
    <2> SUFFICES ASSUME IInv, AllOwed, NEW i \in With({"parsing", "importing"})
                 PROVE  \/ \E t \in Tasks : t.op = "parse" /\ t.item = i
                        \/ \E b \in Batches : batch[b].pc = "running" /\ InTodo(b, i)
      BY DEF SpinnersOwed
    <2>1. ASSUME NEW b \in Batches, InTodo(b, i) PROVE batch[b].pc = "running"
      <3>1. batch[b].todo # <<>>
        <4>1. Len(<<>>) = 0
          OBVIOUS
        <4> QED
          BY <2>1, <4>1 DEF InTodo
      <3> QED
        BY <3>1 DEF IInv, TodosOK
    <2> QED
      BY <2>1 DEF With, AllOwed, Owed
  <1>4. Spec => []TreeOK
    <2>1. Init => TreeOK
      BY TreeAtFirst
    <2>2. IInv /\ JInv /\ TreeOK /\ [Next]_vars => TreeOK'
      BY TreeByNext
    <2> QED
      BY <2>1, <2>2, Invariance, KeptInvariance, PTL DEF Spec
  <1> QED
    BY <1>1, <1>2, <1>3, <1>4, Invariance, PTL DEF Spec
=============================================================================
