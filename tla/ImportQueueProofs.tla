------------------------- MODULE ImportQueueProofs --------------------------
(***************************************************************************)
(* Proofs about ImportQueue: types, the queue's limit, and one node of     *)
(* each document, for any source, limit and number of batches.             *)
(***************************************************************************)
EXTENDS ImportQueue, FiniteSetTheorems, SequenceTheorems, TLAPS

-----------------------------------------------------------------------------
(* Sequences.                                                              *)

\* The numbers of s in their order are a sequence of s without repetition.
LEMMA SortedFacts ==
    ASSUME NEW s \in SUBSET Nat, IsFiniteSet(s)
    PROVE  /\ Sorted(s) \in Seq(s)
           /\ \A k, l \in 1..Len(Sorted(s)) : Sorted(s)[k] = Sorted(s)[l] => k = l
           /\ Len(Sorted(s)) = Cardinality(s)
           /\ \A i \in s : \E k \in 1..Len(Sorted(s)) : Sorted(s)[k] = i
           /\ \A k \in 1..Len(Sorted(s)) : Cardinality({j \in s : j <= Sorted(s)[k]}) = k
  <1> DEFINE n == Cardinality(s)
             upto(i) == {j \in s : j <= i}
             rank == [i \in s |-> Cardinality(upto(i))]
  <1>1. n \in Nat /\ IsFiniteSet(1..n) /\ Cardinality(1..n) = n
    BY FS_CardinalityType, FS_Interval
  <1>2. ASSUME NEW i \in s PROVE rank[i] \in 1..n
    <2>1. upto(i) \in SUBSET s /\ i \in upto(i)
      OBVIOUS
    <2>2. IsFiniteSet(upto(i)) /\ Cardinality(upto(i)) <= n /\ Cardinality(upto(i)) # 0
      BY <2>1, FS_Subset, FS_EmptySet
    <2> QED
      BY <2>2, <1>1, FS_CardinalityType
  <1>3. ASSUME NEW i \in s, NEW j \in s, i < j PROVE rank[i] # rank[j]
    <2>1. upto(i) \in SUBSET upto(j) /\ j \in upto(j) /\ j \notin upto(i) /\ upto(j) \in SUBSET s
      <3>1. i \in Nat /\ j \in Nat /\ i < j /\ \A x \in s : x \in Nat
        BY <1>3
      <3>2. \A x \in upto(i) : x \in upto(j)
        BY <3>1
      <3>3. j \in upto(j) /\ j \notin upto(i)
        BY <3>1
      <3> QED
        BY <3>2, <3>3
    <2>2. IsFiniteSet(upto(j)) /\ upto(i) # upto(j)
      BY <2>1, FS_Subset
    <2>3. Cardinality(upto(j)) # Cardinality(upto(i))
      BY <2>1, <2>2, FS_Subset
    <2> QED
      BY <2>3
  <1>4. rank \in Injection(s, 1..n)
    <2>1. rank \in [s -> 1..n]
      BY <1>2
    <2>2. \A i, j \in s : rank[i] = rank[j] => i = j
      BY <1>3
    <2> QED
      BY <2>1, <2>2 DEF Injection, IsInjective
  <1>5. rank \in Surjection(s, 1..n)
    BY <1>1, <1>4, FS_Injection
  <1>6. \A k \in 1..n : \E i \in s : Cardinality(upto(i)) = k
    BY <1>5 DEF Surjection
  <1>7. \A k \in 1..n : Sorted(s)[k] \in s /\ Cardinality(upto(Sorted(s)[k])) = k
    BY <1>6 DEF Sorted
  <1>8. Sorted(s) \in [1..n -> s]
    BY <1>7 DEF Sorted
  <1>9. Sorted(s) \in Seq(s) /\ Len(Sorted(s)) = n
    BY <1>1, <1>8
  <1>10. \A k \in 1..n : rank[Sorted(s)[k]] = k
    BY <1>7
  <1>11. \A i, j \in s : rank[i] = rank[j] => i = j
    BY <1>3
  <1>12. ASSUME NEW i \in s PROVE \E k \in 1..n : Sorted(s)[k] = i
    <2>1. rank[i] \in 1..n
      BY <1>2
    <2> HIDE DEF rank
    <2>2. rank[Sorted(s)[rank[i]]] = rank[i] /\ Sorted(s)[rank[i]] \in s
      BY <1>7, <1>10, <2>1
    <2> QED
      BY <1>11, <2>1, <2>2
  <1> HIDE DEF rank
  <1> QED
    BY <1>7, <1>9, <1>10, <1>12

\* Some numbers have a least one.
LEMMA LeastExists ==
    ASSUME NEW s \in SUBSET Nat, IsFiniteSet(s), s # {}
    PROVE  \E i \in s : \A j \in s : i <= j
  <1>1. Cardinality(s) \in Nat \ {0}
    BY FS_CardinalityType, FS_EmptySet
  <1>2. PICK i \in s : Cardinality({j \in s : j <= i}) = 1
    <2>1. 1 \in 1..Len(Sorted(s)) /\ Sorted(s) \in Seq(s)
      BY <1>1, SortedFacts
    <2>2. Sorted(s)[1] \in s /\ Cardinality({j \in s : j <= Sorted(s)[1]}) = 1
      BY <2>1, SortedFacts
    <2> QED
      BY <2>2
  <1> DEFINE upto == {j \in s : j <= i}
  <1>3. i \in Nat /\ i \in upto /\ upto \in SUBSET s
    OBVIOUS
  <1>4. ASSUME NEW j \in s, ~(i <= j) PROVE FALSE
    <2>1. j \in upto /\ j # i
      <3>1. i \in Nat /\ j \in Nat
        OBVIOUS
      <3> QED
        BY <1>4, <3>1
    <2> HIDE DEF upto
    <2>2. IsFiniteSet(upto)
      BY <1>3, FS_Subset
    <2>3. IsFiniteSet(upto \ {i}) /\ Cardinality(upto \ {i}) = Cardinality(upto) - 1
      BY <1>3, <2>2, FS_RemoveElement
    <2>4. Cardinality(upto) = 1
      BY <1>2 DEF upto
    <2>5. upto \ {i} = {}
      BY <2>3, <2>4, FS_EmptySet
    <2> QED
      BY <2>1, <2>5
  <1> QED
    BY <1>4

\* What of q is in s: elements of both, none of them twice if none is in q.
LEMMA AmongFacts ==
    ASSUME NEW X, NEW q \in Seq(X), NEW s
    PROVE  /\ Among(q, s) \in Seq(X)
           /\ \A k \in 1..Len(Among(q, s)) :
                 Among(q, s)[k] \in s /\ \E j \in 1..Len(q) : Among(q, s)[k] = q[j]
           /\ (\A k, l \in 1..Len(q) : q[k] = q[l] => k = l) =>
                 \A k, l \in 1..Len(Among(q, s)) : Among(q, s)[k] = Among(q, s)[l] => k = l
  <1> DEFINE P == {k \in 1..Len(q) : q[k] \in s}
             at == Sorted(P)
  <1>1. P \in SUBSET Nat /\ IsFiniteSet(P)
    BY FS_Interval, FS_Subset
  <1>2. at \in Seq(P) /\ \A k, l \in 1..Len(at) : at[k] = at[l] => k = l
    BY <1>1, SortedFacts
  <1> HIDE DEF at
  <1>3. Among(q, s) = [k \in 1..Len(at) |-> q[at[k]]]
    BY DEF Among, at
  <1>4. \A k \in 1..Len(at) : at[k] \in 1..Len(q) /\ q[at[k]] \in s /\ q[at[k]] \in X
    BY <1>2
  <1>5. Len(at) \in Nat
    BY <1>2
  <1>6. Among(q, s) \in Seq(X) /\ Len(Among(q, s)) = Len(at)
    BY <1>3, <1>4, <1>5
  <1> QED
    BY <1>2, <1>3, <1>4, <1>6

\* What follows the first n of a sequence.
LEMMA RestFacts ==
    ASSUME NEW X, NEW q \in Seq(X), NEW n \in 0..Len(q)
    PROVE  /\ SubSeq(q, n + 1, Len(q)) \in Seq(X)
           /\ Len(SubSeq(q, n + 1, Len(q))) = Len(q) - n
           /\ \A k \in 1..Len(q) - n : /\ SubSeq(q, n + 1, Len(q))[k] = q[k + n]
                                       /\ k + n \in 1..Len(q)
  <1> DEFINE r == SubSeq(q, n + 1, Len(q))
  <1>1. Len(q) \in Nat /\ n \in Nat /\ n <= Len(q) /\ n + 1 \in Int
    OBVIOUS
  <1>2. \A k \in n + 1..Len(q) : q[k] \in X
    BY <1>1
  <1>3. /\ r \in Seq(X) /\ Len(r) = (IF n + 1 <= Len(q) THEN Len(q) - (n + 1) + 1 ELSE 0)
        /\ \A k \in 1..Len(q) - (n + 1) + 1 : r[k] = q[n + 1 + k - 1]
    BY <1>1, <1>2, SubSeqProperties
  <1> HIDE DEF r
  <1>4. Len(q) - (n + 1) + 1 = Len(q) - n
    BY <1>1
  <1>5. \A k \in 1..Len(q) - n : n + 1 + k - 1 = k + n /\ k + n \in 1..Len(q)
    BY <1>1
  <1>6. Len(r) = Len(q) - n
    BY <1>1, <1>3
  <1>7. ASSUME NEW k \in 1..Len(q) - n PROVE r[k] = q[k + n]
    <2>1. r[k] = q[n + 1 + k - 1]
      BY <1>3, <1>4
    <2> QED
      BY <2>1, <1>5
  <1> QED
    BY <1>3, <1>5, <1>6, <1>7 DEF r

\* One sequence behind another.
LEMMA JoinFacts ==
    ASSUME NEW X, NEW p \in Seq(X), NEW q \in Seq(X)
    PROVE  /\ p \o q \in Seq(X) /\ Len(p \o q) = Len(p) + Len(q)
           /\ \A k \in 1..Len(p) : (p \o q)[k] = p[k]
           /\ \A k \in Len(p) + 1 .. Len(p \o q) : (p \o q)[k] = q[k - Len(p)]
  OBVIOUS

-----------------------------------------------------------------------------
(* The queue.                                                              *)

\* Two tasks for the same thing: of one batch, or of one kind for one item.
Same(t, u) ==
    t.op = u.op /\ IF t.op = "import" THEN t.batch = u.batch ELSE t.item = u.item

\* A task is the same as itself.
LEMMA SameIsReflexive == \A t : Same(t, t)
  BY DEF Same

\* Which of two comes first does not matter.
LEMMA SameSymmetric == \A t, u : Same(t, u) => Same(u, t)
  BY DEF Same

\* No two tasks, in flight or waiting, are for the same thing.
OneTask ==
    /\ \A t, u \in running : Same(t, u) => t = u
    /\ \A k, l \in 1..Len(queue) : Same(queue[k], queue[l]) => k = l
    /\ \A t \in running, k \in 1..Len(queue) : ~Same(t, queue[k])

\* What a task can be, and what the queue keeps.
Things == [op : {"upload", "parse", "import"}, item : Items, batch : 0..MaxBatches,
           at : {"start", "poll", "create", "answer"}, node : Nat]
QueueOfThings == queue \in Seq(Things) /\ running \subseteq Things /\ IsFiniteSet(running)
QueueInv == QueueOfThings /\ OneTask /\ LimitUsedInFull

Firsts(ts, n) == {ts[k] : k \in 1..n}

\* The first n of a sequence without repetition, none of them in R, are n more.
LEMMA CountMore ==
    ASSUME NEW R, IsFiniteSet(R), NEW X, NEW ts \in Seq(X), NEW n \in 0..Len(ts),
           \A k, l \in 1..Len(ts) : ts[k] = ts[l] => k = l,
           \A k \in 1..Len(ts) : ts[k] \notin R
    PROVE  /\ IsFiniteSet(R \cup Firsts(ts, n))
           /\ Cardinality(R \cup Firsts(ts, n)) = Cardinality(R) + n
  <1> DEFINE T == Firsts(ts, n)
             f == [k \in 1..n |-> ts[k]]
  <1>1. n \in Nat /\ n <= Len(ts) /\ IsFiniteSet(1..n) /\ Cardinality(1..n) = n
    BY FS_Interval
  <1>2. f \in Bijection(1..n, T)
    BY <1>1 DEF Bijection, Injection, IsInjective, Surjection, Firsts
  <1>3. IsFiniteSet(T) /\ Cardinality(T) = n
    BY <1>1, <1>2, FS_Bijection DEF ExistsBijection
  <1>4. R \cap T = {}
    BY <1>1 DEF Firsts
  <1>5. IsFiniteSet(R \cup T) /\ Cardinality(R \cup T) = Cardinality(R) + Cardinality(T) - Cardinality({})
    BY <1>3, <1>4, FS_Union
  <1> QED
    BY <1>1, <1>3, <1>5, FS_EmptySet, FS_CardinalityType

\* Pushing tasks that are new, for different things.
LEMMA EnqueueKeeps ==
    ASSUME QueueInv, NEW ts \in Seq(Things), Enqueue(ts),
           \A k, l \in 1..Len(ts) : Same(ts[k], ts[l]) => k = l,
           \A k \in 1..Len(ts), t \in Tasks : ~Same(t, ts[k])
    PROVE  QueueInv' /\ Tasks' = Tasks \cup {ts[k] : k \in 1..Len(ts)}
  <1> DEFINE all == queue \o ts
             room == MaxConcurrency - Cardinality(running)
             n == IF Len(ts) <= room THEN Len(ts) ELSE room
  <1>1. /\ queue \in Seq(Things) /\ running \subseteq Things /\ IsFiniteSet(running) /\ OneTask
        /\ Cardinality(running) <= MaxConcurrency
        /\ queue # <<>> => Cardinality(running) = MaxConcurrency
        /\ MaxConcurrency \in Nat /\ Cardinality(running) \in Nat /\ Len(ts) \in Nat
    BY LimitAssumption, FS_CardinalityType DEF QueueInv, QueueOfThings, LimitUsedInFull
  <1>2. running' = running \cup {all[k] : k \in 1..n} /\ queue' = SubSeq(all, n + 1, Len(all))
    BY DEF Enqueue
  <1>3. \A k, l \in 1..Len(ts) : ts[k] = ts[l] => k = l
    BY DEF Same
  <1>4. \A t \in running : t \in Tasks
    BY DEF Tasks
  <1>5. \A k \in 1..Len(queue) : queue[k] \in Tasks
    BY DEF Tasks
  <1>6. CASE queue # <<>>
    <2>1. n = 0 /\ Len(all) = Len(queue) + Len(ts)
      BY <1>1, <1>6
    <2>2. running' = running /\ queue' = all
      <3>1. all \in Seq(Things) /\ SubSeq(all, 1, Len(all)) = all
        BY <1>1, SubSeqFull
      <3>2. {all[k] : k \in 1..n} = {} /\ SubSeq(all, n + 1, Len(all)) = SubSeq(all, 1, Len(all))
        BY <2>1
      <3> QED
        BY <1>2, <3>1, <3>2
    <2>3. /\ Len(all) = Len(queue) + Len(ts) /\ all \in Seq(Things)
          /\ \A k \in 1..Len(queue) : all[k] = queue[k]
          /\ \A k \in Len(queue) + 1 .. Len(all) : all[k] = ts[k - Len(queue)]
      BY <1>1, JoinFacts
    <2>4. OneTask'
      <3>1. \A k, l \in 1..Len(all) : Same(all[k], all[l]) => k = l
        <4>0. \A k, l \in 1..Len(all) : k < l \/ l < k \/ k = l
          BY <1>1, <2>3
        <4> SUFFICES ASSUME NEW k \in 1..Len(all), NEW l \in 1..Len(all), Same(all[k], all[l]), k < l
                     PROVE  FALSE
          BY <4>0, SameSymmetric
        <4>1. CASE l <= Len(queue)
          BY <4>1, <1>1, <2>3 DEF OneTask
        <4>2. CASE k <= Len(queue) /\ l > Len(queue)
          BY <4>2, <1>1, <1>5, <2>3
        <4>3. CASE k > Len(queue)
          <5>1. Same(ts[k - Len(queue)], ts[l - Len(queue)]) /\ k - Len(queue) \in 1..Len(ts) /\ l - Len(queue) \in 1..Len(ts)
            BY <4>3, <1>1, <2>3
          <5> QED
            BY <5>1, <1>1
        <4> QED
          BY <4>1, <4>2, <4>3, <1>1
      <3>2. ASSUME NEW t \in running, NEW k \in 1..Len(all) PROVE ~Same(t, all[k])
        <4>1. CASE k \in 1..Len(queue)
          BY <4>1, <1>1, <2>3 DEF OneTask
        <4>2. CASE k \notin 1..Len(queue)
          <5>1. k \in Len(queue) + 1 .. Len(all) /\ k - Len(queue) \in 1..Len(ts)
            BY <4>2, <1>1, <2>3
          <5>2. all[k] = ts[k - Len(queue)] /\ t \in Tasks
            BY <5>1, <1>4, <2>3
          <5> QED
            BY <5>1, <5>2
        <4> QED
          BY <4>1, <4>2
      <3> QED
        BY <3>1, <3>2, <2>2, <1>1 DEF OneTask
    <2>5. LimitUsedInFull'
      BY <1>1, <1>6, <2>2 DEF LimitUsedInFull
    <2>6. Tasks' = Tasks \cup {ts[k] : k \in 1..Len(ts)}
      <3>1. {all[k] : k \in 1..Len(all)} = {queue[k] : k \in 1..Len(queue)} \cup {ts[k] : k \in 1..Len(ts)}
        <4>0. Len(queue) \in Nat /\ Len(ts) \in Nat /\ Len(all) = Len(queue) + Len(ts)
          BY <1>1, <2>3
        <4>1. \A k \in 1..Len(ts) : ts[k] = all[k + Len(queue)] /\ k + Len(queue) \in 1..Len(all)
          <5>1. \A k \in 1..Len(ts) : /\ k + Len(queue) \in Len(queue) + 1 .. Len(all)
                                      /\ k + Len(queue) \in 1..Len(all) /\ k + Len(queue) - Len(queue) = k
            BY <4>0
          <5> QED
            BY <2>3, <5>1
        <4>2. \A k \in 1..Len(queue) : k \in 1..Len(all) /\ all[k] = queue[k]
          BY <2>3, <4>0
        <4>3. \A k \in 1..Len(all) : \/ k \in 1..Len(queue) /\ all[k] = queue[k]
                                     \/ k - Len(queue) \in 1..Len(ts) /\ all[k] = ts[k - Len(queue)]
          BY <2>3, <4>0
        <4> QED
          BY <4>1, <4>2, <4>3
      <3> QED
        BY <3>1, <2>2 DEF Tasks
    <2> QED
      BY <1>1, <2>2, <2>3, <2>4, <2>5, <2>6 DEF QueueInv, QueueOfThings
  <1>7. CASE queue = <<>>
    <2>1. all = ts /\ Len(queue) = 0
      BY <1>7
    <2>2. n \in 0..Len(ts) /\ n <= room /\ (n < Len(ts) => n = room)
      BY <1>1
    <2>3. /\ Len(queue') = Len(ts) - n /\ queue' \in Seq(Things)
          /\ \A k \in 1..Len(ts) - n : queue'[k] = ts[k + n]
      <3>1. queue' = SubSeq(ts, n + 1, Len(ts))
        BY <1>2, <2>1
      <3> HIDE DEF n, room
      <3> QED
        BY ONLY ts \in Seq(Things), <2>2, <3>1, RestFacts
    <2>4. running' = running \cup {ts[k] : k \in 1..n}
      BY <1>2, <2>1
    <2> HIDE DEF n
    <2>5. IsFiniteSet(running') /\ Cardinality(running') = Cardinality(running) + n
      <3>1. \A k \in 1..Len(ts) : ts[k] \notin running
        BY <1>4 DEF Same
      <3>2. IsFiniteSet(running) /\ ts \in Seq(Things) /\ n \in 0..Len(ts)
        BY <1>1, <2>2
      <3> HIDE DEF room, all
      <3>3. /\ IsFiniteSet(running \cup Firsts(ts, n))
            /\ Cardinality(running \cup Firsts(ts, n)) = Cardinality(running) + n
        BY ONLY <1>3, <3>1, <3>2, CountMore
      <3> QED
        BY <2>4, <3>3 DEF Firsts
    <2>6. LimitUsedInFull'
      BY <1>1, <2>2, <2>3, <2>5 DEF LimitUsedInFull
    <2>7. OneTask'
      <3>1. \A t, u \in running' : Same(t, u) => t = u
        <4> SUFFICES ASSUME NEW t \in running', NEW u \in running', Same(t, u)
                     PROVE  t = u
          OBVIOUS
        <4>1. CASE t \in running /\ u \in running
          BY <4>1, <1>1 DEF OneTask
        <4>2. \A x \in running' : x \in running \/ \E k \in 1..Len(ts) : x = ts[k]
          BY <2>2, <2>4, <1>1
        <4>3. CASE t \notin running /\ u \notin running
          BY <4>2, <4>3
        <4>4. CASE t \in running /\ u \notin running
          BY <4>2, <4>4, <1>4
        <4>5. CASE t \notin running /\ u \in running
          BY <4>2, <4>5, <1>4, SameSymmetric
        <4> QED
          BY <4>1, <4>3, <4>4, <4>5
      <3>2. \A k, l \in 1..Len(queue') : Same(queue'[k], queue'[l]) => k = l
        <4> SUFFICES ASSUME NEW k \in 1..Len(queue'), NEW l \in 1..Len(queue'), Same(queue'[k], queue'[l])
                     PROVE  k = l
          OBVIOUS
        <4>0. n \in Nat /\ k \in Nat /\ l \in Nat
          BY <2>2
        <4>1. Same(ts[k + n], ts[l + n]) /\ k + n \in 1..Len(ts) /\ l + n \in 1..Len(ts)
          <5>1. k \in 1..Len(ts) - n /\ l \in 1..Len(ts) - n
            BY <2>3
          <5>2. k + n \in 1..Len(ts) /\ l + n \in 1..Len(ts)
            BY <1>1, <4>0, <5>1
          <5> QED
            BY <2>3, <5>1, <5>2
        <4>2. k + n = l + n
          BY <4>1
        <4> QED
          BY <4>0, <4>2
      <3>3. \A t \in running', k \in 1..Len(queue') : ~Same(t, queue'[k])
        <4> SUFFICES ASSUME NEW t \in running', NEW k \in 1..Len(queue'), Same(t, queue'[k])
                     PROVE  FALSE
          OBVIOUS
        <4>1. Same(t, ts[k + n]) /\ k + n \in 1..Len(ts) /\ k \in Nat /\ k > 0
          <5>1. k \in 1..Len(ts) - n /\ n \in Nat
            BY <2>2, <2>3
          <5>2. k + n \in 1..Len(ts) /\ k \in Nat /\ k > 0
            BY <1>1, <5>1
          <5> QED
            BY <2>3, <5>1, <5>2
        <4>2. t \notin running
          BY <4>1, <1>4
        <4>3. PICK l \in 1..n : t = ts[l]
          BY <4>2, <2>4
        <4>4. l \in 1..Len(ts) /\ l # k + n
          BY <4>1, <4>3, <1>1, <2>2
        <4> QED
          BY <4>1, <4>3, <4>4
      <3> QED
        BY <3>1, <3>2, <3>3 DEF OneTask
    <2>8. Tasks' = Tasks \cup {ts[k] : k \in 1..Len(ts)}
      <3>1. {queue'[k] : k \in 1..Len(queue')} = {ts[k] : k \in n + 1..Len(ts)}
        <4>1. \A k \in n + 1..Len(ts) : ts[k] = queue'[k - n] /\ k - n \in 1..Len(queue')
          BY <1>1, <2>2, <2>3
        <4>2. \A k \in 1..Len(queue') : queue'[k] = ts[k + n] /\ k + n \in n + 1..Len(ts)
          BY <1>1, <2>2, <2>3
        <4>3. \A x \in {queue'[k] : k \in 1..Len(queue')} : x \in {ts[k] : k \in n + 1..Len(ts)}
          BY <4>2
        <4>4. \A x \in {ts[k] : k \in n + 1..Len(ts)} : x \in {queue'[k] : k \in 1..Len(queue')}
          BY <4>1
        <4> QED
          BY <4>3, <4>4
      <3>2. Tasks = running
        BY <2>1 DEF Tasks
      <3>3. \A k \in 1..Len(ts) : k \in 1..n \/ k \in n + 1..Len(ts)
        BY <1>1, <2>2
      <3>4. \A k : k \in 1..n \/ k \in n + 1..Len(ts) => k \in 1..Len(ts)
        BY <1>1, <2>2
      <3> QED
        BY <3>1, <3>2, <3>3, <3>4, <2>4 DEF Tasks
    <2>9. running' \subseteq Things
      BY <1>1, <2>2, <2>4
    <2> QED
      BY <2>3, <2>5, <2>6, <2>7, <2>8, <2>9 DEF QueueInv, QueueOfThings
  <1> QED
    BY <1>6, <1>7

\* The end of a task: it is gone, and all the others are still there.
LEMMA SettleKeeps ==
    ASSUME QueueInv, NEW t \in running, Settle(t)
    PROVE  QueueInv' /\ Tasks' = Tasks \ {t}
  <1>1. /\ queue \in Seq(Things) /\ running \subseteq Things /\ IsFiniteSet(running) /\ OneTask
        /\ Cardinality(running) <= MaxConcurrency
        /\ queue # <<>> => Cardinality(running) = MaxConcurrency
        /\ MaxConcurrency \in Nat /\ Cardinality(running) \in Nat
    BY LimitAssumption, FS_CardinalityType DEF QueueInv, QueueOfThings, LimitUsedInFull
  <1>2. IsFiniteSet(running \ {t}) /\ Cardinality(running \ {t}) = Cardinality(running) - 1
    BY <1>1, FS_RemoveElement
  <1>3. \A k \in 1..Len(queue) : queue[k] # t
    BY <1>1, SameIsReflexive DEF OneTask
  <1>4. CASE queue = <<>>
    <2>1. running' = running \ {t} /\ queue' = queue /\ Len(queue) = 0
      BY <1>4 DEF Settle
    <2>2. QueueOfThings' /\ LimitUsedInFull'
      BY <1>1, <1>2, <1>4, <2>1 DEF QueueOfThings, LimitUsedInFull
    <2>3. OneTask'
      BY <1>1, <2>1 DEF OneTask
    <2>4. Tasks' = Tasks \ {t}
      BY <2>1 DEF Tasks
    <2> QED
      BY <2>2, <2>3, <2>4 DEF QueueInv
  <1>5. CASE queue # <<>>
    <2>1. /\ running' = (running \ {t}) \cup {Head(queue)} /\ queue' = Tail(queue)
          /\ Head(queue) = queue[1] /\ queue[1] \in Things /\ 1 \in 1..Len(queue)
      BY <1>1, <1>5 DEF Settle
    <2>2. /\ Tail(queue) \in Seq(Things) /\ Len(Tail(queue)) = Len(queue) - 1 /\ Len(queue) \in Nat
          /\ \A k \in 1..Len(queue) - 1 : Tail(queue)[k] = queue[k + 1]
      BY <1>1, <1>5
    <2>3. queue[1] \notin running
      BY <1>1, <2>1, SameIsReflexive DEF OneTask
    <2>4. IsFiniteSet(running') /\ Cardinality(running') = Cardinality(running)
      <3>1. queue[1] \notin running \ {t}
        BY <2>3
      <3>2. /\ IsFiniteSet((running \ {t}) \cup {queue[1]})
            /\ Cardinality((running \ {t}) \cup {queue[1]}) = Cardinality(running \ {t}) + 1
        BY <1>2, <3>1, FS_AddElement
      <3> QED
        BY <1>1, <1>2, <2>1, <3>2
    <2>5. QueueOfThings' /\ LimitUsedInFull'
      BY <1>1, <1>5, <2>1, <2>2, <2>4 DEF QueueOfThings, LimitUsedInFull
    <2>6. OneTask'
      <3>1. \A x, y \in running' : Same(x, y) => x = y
        BY <1>1, <2>1, SameSymmetric DEF OneTask
      <3>2. \A k, l \in 1..Len(queue') : Same(queue'[k], queue'[l]) => k = l
        <4> SUFFICES ASSUME NEW k \in 1..Len(queue'), NEW l \in 1..Len(queue'), Same(queue'[k], queue'[l])
                     PROVE  k = l
          OBVIOUS
        <4>1. Same(queue[k + 1], queue[l + 1]) /\ k + 1 \in 1..Len(queue) /\ l + 1 \in 1..Len(queue)
          BY <2>1, <2>2
        <4> QED
          BY <4>1, <1>1 DEF OneTask
      <3>3. \A x \in running', k \in 1..Len(queue') : ~Same(x, queue'[k])
        <4> SUFFICES ASSUME NEW x \in running', NEW k \in 1..Len(queue'), Same(x, queue'[k])
                     PROVE  FALSE
          OBVIOUS
        <4>1. Same(x, queue[k + 1]) /\ k + 1 \in 1..Len(queue) /\ k + 1 # 1
          BY <2>1, <2>2
        <4> QED
          BY <4>1, <1>1, <2>1 DEF OneTask
      <3> QED
        BY <3>1, <3>2, <3>3 DEF OneTask
    <2>7. Tasks' = Tasks \ {t}
      <3>1. \A x \in Tasks' : x \in Tasks /\ x # t
        BY <1>3, <2>1, <2>2 DEF Tasks
      <3>2. ASSUME NEW x \in Tasks, x # t PROVE x \in Tasks'
        <4>1. CASE x \in running
          BY <3>2, <4>1, <2>1 DEF Tasks
        <4>2. CASE x \notin running
          <5>1. PICK k \in 1..Len(queue) : x = queue[k]
            BY <4>2 DEF Tasks
          <5>2. k = 1 \/ (k - 1 \in 1..Len(queue') /\ queue'[k - 1] = x)
            BY <5>1, <2>1, <2>2
          <5> QED
            BY <5>1, <5>2, <2>1 DEF Tasks
        <4> QED
          BY <4>1, <4>2
      <3> QED
        BY <3>1, <3>2
    <2> QED
      BY <2>5, <2>6, <2>7 DEF QueueInv
  <1> QED
    BY <1>4, <1>5

\* A task that goes on is still the same.
LEMMA OnwardKeeps ==
    ASSUME QueueInv, NEW t \in running, NEW u \in Things, Onward(t, u),
           u.op = t.op, u.item = t.item, u.batch = t.batch
    PROVE  QueueInv' /\ Tasks' = (Tasks \ {t}) \cup {u}
  <1>1. /\ queue \in Seq(Things) /\ running \subseteq Things /\ IsFiniteSet(running) /\ OneTask
        /\ Cardinality(running) \in Nat /\ LimitUsedInFull
    BY FS_CardinalityType DEF QueueInv, QueueOfThings
  <1>2. running' = (running \ {t}) \cup {u} /\ queue' = queue
    BY DEF Onward
  <1>3. \A x : (Same(x, u) <=> Same(x, t)) /\ (Same(u, x) <=> Same(t, x))
    BY DEF Same
  <1>4. u \notin running \ {t}
    BY <1>1, <1>3, SameIsReflexive DEF OneTask
  <1>5. IsFiniteSet(running') /\ Cardinality(running') = Cardinality(running)
    <2>1. IsFiniteSet(running \ {t}) /\ Cardinality(running \ {t}) = Cardinality(running) - 1
      BY <1>1, FS_RemoveElement
    <2>2. /\ IsFiniteSet((running \ {t}) \cup {u})
          /\ Cardinality((running \ {t}) \cup {u}) = Cardinality(running \ {t}) + 1
      BY <1>4, <2>1, FS_AddElement
    <2> QED
      BY <1>1, <1>2, <2>1, <2>2
  <1>6. OneTask'
    BY <1>1, <1>2, <1>3 DEF OneTask
  <1>7. \A k \in 1..Len(queue) : queue[k] # t
    BY <1>1, SameIsReflexive DEF OneTask
  <1>8. Tasks' = (Tasks \ {t}) \cup {u}
    BY <1>2, <1>7 DEF Tasks
  <1> QED
    BY <1>1, <1>2, <1>5, <1>6, <1>8 DEF QueueInv, QueueOfThings, LimitUsedInFull

-----------------------------------------------------------------------------
(* The inductive invariant.                                                *)

\* Item i waits in batch b, or is under way there.
InTodo(b, i) == \E k \in 1..Len(batch[b].todo) : batch[b].todo[k].item = i

\* Item i was listed once: it still is, a batch has it, or it has a node.
Been(i) == \/ i \in Shown \/ \E b \in Batches : InTodo(b, i)
           \/ \E n \in 1..Len(nodes) : nodes[n].item = i

\* No list holds item i yet; it is a file that is being uploaded.
Unread(i) == At(pull[i], {"new", "waiting", "left", "stuck"})
Uploading(i) == At(pull[i], {"uploading"})

\* The types of everything but the queue, and what the source says of its folders.
DataOK ==
    /\ kind \in Kinds /\ select \in BOOLEAN /\ folder \subseteq Items
    /\ under \in [Items -> 0..N] /\ pull \in [Items -> Pulls] /\ key \in [Items -> Items]
    /\ \A i \in Items : under[i] # 0 =>
          under[i] < i /\ under[i] \in folder /\ pull[under[i]] = pull[i]
    /\ kind \in {"file", "url"} => folder = {}
    /\ open \in BOOLEAN /\ form \in [Pulls -> Forms]
    /\ list \in Seq(Items) /\ item \in [Items -> ItemState]
    /\ checked \subseteq Items /\ pulling \subseteq folder
    /\ batch \in [Batches -> BatchType]
    /\ nodes \in Seq([item : Items, parent : 0..Len(nodes), batch : Batches])
    /\ lost \subseteq 1..Len(nodes) /\ page \subseteq 1..Len(nodes) /\ late \subseteq 1..Len(nodes)

\* The task of an import is at the head of its batch, and at the node it made.
TaskOK(t) ==
    /\ t.node <= Len(nodes)
    /\ t.op # "import" => t.batch = 0 /\ t.at = "start"
    /\ t.op = "import" => /\ t.batch \in Batches /\ batch[t.batch].todo # <<>>
                          /\ t.item = batch[t.batch].todo[1].item
    /\ t.at = "answer" => t.node \in 1..Len(nodes) /\ nodes[t.node].item = t.item
TasksOK == \A t \in Tasks : TaskOK(t)

\* What no list holds yet nothing has happened to, and what is being uploaded is not
\* parsed; other sources have nothing to upload or to parse.
PhaseOK ==
    /\ \A p \in Pulls : At(p, {"waiting", "left", "stuck"}) => kind \notin {"file", "url"}
    /\ \A i \in Items : Unread(i) =>
          /\ ~Been(i) /\ i \notin pulling /\ \A t \in Tasks : t.item # i
          /\ kind = "file" => item[i].status = "common"
          /\ kind = "url" => item[i].status = "parsing"
    /\ \A i \in Items : Uploading(i) =>
          /\ item[i].status \in {"common", "upload-error"}
          /\ \A b \in Batches : ~InTodo(b, i)
          /\ \A t \in Tasks : t.item = i => t.op = "upload"
    /\ \A t \in Tasks : t.op = "upload" => Uploading(t.item)
    /\ kind \notin {"file", "url"} =>
          /\ \A t \in Tasks : t.op = "import"
          /\ \A i \in Items : item[i].status \in {"parsed", "importing", "imported", "import-error"}
    /\ kind # "drive" => pulling = {} /\ \A i \in Items : item[i].req
    /\ \A i \in Items : under[i] # 0 => item[i].req

\* An item is listed once, and its status says which requests it has.
ListOK ==
    /\ \A k, l \in 1..Len(list) : list[k] = list[l] => k = l
    /\ \A t \in Tasks : t.op = "parse" /\ t.item \in Shown => item[t.item].status = "parsing"
    /\ \A b \in Batches, i \in Shown : InTodo(b, i) => item[i].status = "importing"
    /\ \A i \in Items : under[i] # 0 /\ Been(i) =>
          Top[i] \notin pulling /\ (Top[i] \in Shown => item[Top[i]].req)

\* An item is in one batch at a time, once.
TodosOK ==
    /\ \A b \in Batches : batch[b].pc # "running" => batch[b].todo = <<>>
    /\ \A b, c \in Batches :
          \A k \in 1..Len(batch[b].todo), l \in 1..Len(batch[c].todo) :
             batch[b].todo[k].item = batch[c].todo[l].item => b = c /\ k = l

\* A node whose answer was not lost is under way, or its item is in no batch and is
\* called imported for as long as it is listed.
NodesOK ==
    /\ OneNodeEach
    /\ \A n \in (1..Len(nodes)) \ lost :
          \/ \E t \in Tasks : t.at = "answer" /\ t.node = n
          \/ /\ \A b \in Batches : ~InTodo(b, nodes[n].item)
             /\ nodes[n].item \in Shown => item[nodes[n].item].status = "imported"

IInv == DataOK /\ QueueInv /\ TasksOK /\ PhaseOK /\ ListOK /\ TodosOK /\ NodesOK

\* What leaves the queue alone leaves its tasks alone.
LEMMA QueueStays == ASSUME QueueInv, UNCHANGED <<queue, running>> PROVE QueueInv' /\ Tasks' = Tasks
  BY DEF QueueInv, QueueOfThings, OneTask, LimitUsedInFull, Tasks

\* While no node is created, the types of items and batches are what they were.
LEMMA TypesStay ==
    ASSUME nodes' = nodes
    PROVE  ItemState' = ItemState /\ BatchType' = BatchType
  BY DEF ItemState, BatchType, Ids

\* The source does not change, and so where its items are.
LEMMA TopStays == ASSUME under' = under PROVE Top' = Top
  BY DEF Top

\* Top is what its recursion says: the item itself, or the top of its folder.
LEMMA TopIs ==
    ASSUME under \in [Items -> 0..N]
    PROVE  \A i \in Items : Top[i] = IF under[i] = 0 THEN i ELSE Top[under[i]]
  <1> DEFINE Closed(C, i) == i \in C /\ \A y \in C : under[y] # 0 => under[y] \in C
             Roots(i) == {x \in Items : under[x] = 0 /\ \A C \in SUBSET Items : Closed(C, i) => x \in C}
             w == [i \in Items |-> CHOOSE x : x \in Roots(i)]
  <1>1. ASSUME NEW i \in Items, under[i] = 0 PROVE Roots(i) = {i}
    <2>1. {i} \in SUBSET Items /\ Closed({i}, i)
      BY <1>1
    <2>2. i \in Roots(i)
      BY <1>1
    <2>3. \A x \in Roots(i) : x \in {i}
      BY <2>1
    <2> QED
      BY <2>2, <2>3
  <1>2. ASSUME NEW i \in Items, under[i] # 0 PROVE under[i] \in Items /\ Roots(i) = Roots(under[i])
    <2>1. under[i] \in Items
      BY <1>2, NAssumption DEF Items
    <2>2. ASSUME NEW x \in Roots(under[i]) PROVE x \in Roots(i)
      <3>1. ASSUME NEW C \in SUBSET Items, Closed(C, i) PROVE x \in C
        <4>1. Closed(C, under[i])
          BY <1>2, <3>1
        <4> QED
          BY <2>2, <4>1
      <3> QED
        BY <2>2, <3>1
    <2>3. ASSUME NEW x \in Roots(i) PROVE x \in Roots(under[i])
      <3>1. ASSUME NEW C \in SUBSET Items, Closed(C, under[i]) PROVE x \in C
        <4>1. C \cup {i} \in SUBSET Items /\ Closed(C \cup {i}, i)
          BY <3>1
        <4>2. x \in C \cup {i} /\ x # i
          BY <1>2, <2>3, <4>1
        <4> QED
          BY <4>2
      <3> QED
        BY <2>3, <3>1
    <2> QED
      BY <2>1, <2>2, <2>3
  <1>3. ASSUME NEW i \in Items PROVE w[i] = IF under[i] = 0 THEN i ELSE w[under[i]]
    <2>1. CASE under[i] = 0
      <3>1. Roots(i) = {i}
        BY <1>1, <2>1
      <3> HIDE DEF Roots
      <3>2. w[i] = CHOOSE x : x \in {i}
        BY <3>1
      <3> QED
        BY <2>1, <3>2
    <2>2. CASE under[i] # 0
      <3>1. under[i] \in Items /\ Roots(i) = Roots(under[i])
        BY <1>2, <2>2
      <3> HIDE DEF Roots
      <3> QED
        BY <2>2, <3>1
    <2> QED
      BY <2>1, <2>2
  <1>4. w = [i \in Items |-> IF under[i] = 0 THEN i ELSE w[under[i]]]
    <2>1. w = [i \in Items |-> w[i]]
      OBVIOUS
    <2> HIDE DEF w
    <2> QED
      BY <1>3, <2>1
  <1> HIDE DEF w
  <1> DEFINE Is(g) == g = [i \in Items |-> IF under[i] = 0 THEN i ELSE g[under[i]]]
  <1>5. Top = CHOOSE g : Is(g)
    BY DEF Top
  <1>6. \E g : Is(g)
    BY <1>4
  <1>7. Is(Top)
    <2> HIDE DEF Is
    <2> QED
      BY <1>5, <1>6
  <1>8. Top = [i \in Items |-> IF under[i] = 0 THEN i ELSE Top[under[i]]]
    BY <1>7
  <1> QED
    BY <1>8

\* An item and the top of its folders are of one pull.
LEMMA TopPull ==
    ASSUME DataOK
    PROVE  \A i \in Items : Top[i] \in Items /\ pull[Top[i]] = pull[i]
  <1> DEFINE bad == {i \in Items : ~(Top[i] \in Items /\ pull[Top[i]] = pull[i])}
  <1>1. bad \in SUBSET Nat /\ IsFiniteSet(bad)
    <2>1. IsFiniteSet(Items) /\ Items \subseteq Nat /\ bad \subseteq Items
      BY FS_Interval, NAssumption DEF Items
    <2> QED
      BY <2>1, FS_Subset
  <1>2. under \in [Items -> 0..N] /\ \A i \in Items : under[i] # 0 => under[i] < i /\ pull[under[i]] = pull[i]
    BY DEF DataOK
  <1>3. \A i \in Items : Top[i] = IF under[i] = 0 THEN i ELSE Top[under[i]]
    BY <1>2, TopIs
  <1>4. ASSUME bad # {} PROVE FALSE
    <2>1. PICK i \in bad : \A j \in bad : i <= j
      BY <1>1, <1>4, LeastExists
    <2>2. CASE under[i] = 0
      BY <1>3, <2>2
    <2>3. CASE under[i] # 0
      <3>1. under[i] \in Items /\ under[i] < i /\ i \in Nat /\ under[i] \in Nat
        BY <1>2, <2>3, NAssumption DEF Items
      <3>2. under[i] \notin bad
        BY <2>1, <3>1
      <3> QED
        BY <1>2, <1>3, <2>3, <3>1, <3>2
    <2> QED
      BY <2>2, <2>3
  <1> QED
    BY <1>4

\* What is shown are items, and with an empty list nothing is.
LEMMA ShownItems ==
    ASSUME DataOK
    PROVE  Shown \subseteq Items /\ (list = <<>> => Shown = {})
  <1>1. list \in Seq(Items)
    BY DEF DataOK
  <1>2. \A k \in 1..Len(list) : list[k] \in Items
    BY <1>1
  <1>3. list = <<>> => Len(list) = 0
    OBVIOUS
  <1> QED
    BY <1>2, <1>3 DEF Shown

\* What a node is.
LEMMA NodeTypes ==
    ASSUME DataOK
    PROVE  /\ Len(nodes) \in Nat
           /\ \A n \in 1..Len(nodes) : /\ nodes[n] \in [item : Items, parent : 0..Len(nodes), batch : Batches]
                                       /\ nodes[n].item \in Items
  <1> DEFINE R == [item : Items, parent : 0..Len(nodes), batch : Batches]
  <1>1. nodes \in Seq(R)
    BY DEF DataOK
  <1>2. \A r \in R : r.item \in Items
    OBVIOUS
  <1> HIDE DEF R
  <1>3. Len(nodes) \in Nat /\ \A n \in 1..Len(nodes) : nodes[n] \in R
    BY <1>1
  <1>4. \A n \in 1..Len(nodes) : nodes[n].item \in Items
    BY <1>2, <1>3
  <1> QED
    BY <1>3, <1>4 DEF R

\* What a batch is.
LEMMA BatchTypes ==
    ASSUME DataOK, NEW b \in Batches
    PROVE  /\ batch[b] \in BatchType /\ batch[b].map \in [Items -> 0..Len(nodes)]
           /\ batch[b].todo \in Seq([item : Items, parent : Ids])
           /\ \A k \in 1..Len(batch[b].todo) : /\ batch[b].todo[k].item \in Items
                                               /\ batch[b].todo[k].parent \in Ids
  <1>1. batch[b] \in BatchType
    BY DEF DataOK
  <1>2. batch[b].todo \in Seq([item : Items, parent : Ids]) /\ batch[b].map \in [Items -> 0..Len(nodes)]
    BY <1>1 DEF BatchType
  <1> DEFINE R == [item : Items, parent : Ids]
             q == batch[b].todo
  <1>3. q \in Seq(R) /\ \A r \in R : r.item \in Items /\ r.parent \in Ids
    BY <1>2
  <1> HIDE DEF R, q
  <1>4. \A k \in 1..Len(q) : q[k] \in R
    BY <1>3
  <1>5. \A k \in 1..Len(q) : q[k].item \in Items /\ q[k].parent \in Ids
    BY <1>3, <1>4
  <1> QED
    BY <1>1, <1>2, <1>5 DEF q

\* Two tasks for the same thing are one.
LEMMA TaskUnique ==
    ASSUME QueueInv, NEW t \in Tasks, NEW u \in Tasks, Same(t, u)
    PROVE  t = u
  BY SameSymmetric DEF QueueInv, OneTask, Tasks

\* Every task is one of Things.
LEMMA TaskTypes == ASSUME QueueInv PROVE Tasks \subseteq Things /\ running \subseteq Tasks
  BY DEF QueueInv, QueueOfThings, Tasks

\* Items are finite in number.
LEMMA ItemsFinite == IsFiniteSet(Items) /\ Items \subseteq Nat /\ \A s \in SUBSET Items : IsFiniteSet(s)
  <1>1. 1 \in Int /\ N \in Int
    BY NAssumption
  <1>2. IsFiniteSet(Items)
    BY <1>1, FS_Interval DEF Items
  <1>3. \A s \in SUBSET Items : IsFiniteSet(s)
    BY <1>2, FS_Subset
  <1> QED
    BY <1>1, <1>2, <1>3 DEF Items

\* Some items in their order.
LEMMA ItemsSorted ==
    ASSUME NEW s \in SUBSET Items
    PROVE  /\ Sorted(s) \in Seq(Items) /\ \A k \in 1..Len(Sorted(s)) : Sorted(s)[k] \in s
           /\ \A k, l \in 1..Len(Sorted(s)) : Sorted(s)[k] = Sorted(s)[l] => k = l
  <1>1. s \in SUBSET Nat /\ IsFiniteSet(s)
    BY ItemsFinite
  <1>2. Sorted(s) \in Seq(s) /\ \A k, l \in 1..Len(Sorted(s)) : Sorted(s)[k] = Sorted(s)[l] => k = l
    BY <1>1, SortedFacts
  <1> QED
    BY <1>2

\* Pushing one task for each of some items that have none of its kind.
LEMMA PushEach ==
    ASSUME QueueInv, NEW op \in {"upload", "parse"}, NEW s \in Seq(Items), Enqueue(Each(op, 0, s)),
           \A k, l \in 1..Len(s) : s[k] = s[l] => k = l,
           \A t \in Tasks, k \in 1..Len(s) : t.op = op => t.item # s[k]
    PROVE  /\ QueueInv' /\ Tasks \subseteq Tasks'
           /\ \A t \in Tasks' : t \in Tasks \/ \E k \in 1..Len(s) : t = Task(op, s[k], 0)
           /\ \A k \in 1..Len(s) : Task(op, s[k], 0) \in Tasks'
  <1> DEFINE ts == Each(op, 0, s)
  <1>1. /\ ts \in Seq(Things) /\ Len(ts) = Len(s)
        /\ \A k \in 1..Len(s) : ts[k] = Task(op, s[k], 0)
    <2>1. \A k \in 1..Len(s) : Task(op, s[k], 0) \in Things
      BY LimitAssumption DEF Task, Things
    <2> QED
      BY <2>1 DEF Each
  <1>2. op # "import" /\ \A k \in 1..Len(s) : ts[k].op = op /\ ts[k].item = s[k]
    <2>1. \A i : Task(op, i, 0).op = op /\ Task(op, i, 0).item = i
      BY DEF Task
    <2> HIDE DEF ts
    <2> QED
      BY <1>1, <2>1
  <1>3. \A k, l \in 1..Len(ts) : Same(ts[k], ts[l]) => k = l
    BY <1>1, <1>2 DEF Same
  <1>4. \A k \in 1..Len(ts), t \in Tasks : ~Same(t, ts[k])
    BY <1>1, <1>2 DEF Same
  <1> HIDE DEF ts
  <1>5. QueueInv' /\ Tasks' = Tasks \cup {ts[k] : k \in 1..Len(ts)}
    <2>1. Enqueue(ts)
      BY DEF ts
    <2> QED
      BY <1>1, <1>3, <1>4, <2>1, EnqueueKeeps
  <1> QED
    BY <1>1, <1>5

\* A status that is set, and what stays.
LEMMA StatusSet ==
    ASSUME DataOK, NEW S, NEW s \in Statuses, SetStatus(S, s)
    PROVE  /\ item' \in [Items -> ItemState]
           /\ \A i \in Items :
                 /\ item'[i].status = IF i \in S /\ i \in Shown THEN s ELSE item[i].status
                 /\ item'[i].id = item[i].id /\ item'[i].parent = item[i].parent
                 /\ item'[i].req = item[i].req
  <1>1. item \in [Items -> ItemState]
    BY DEF DataOK
  <1>2. item' = [i \in Items |-> IF i \in S \cap Shown THEN [item[i] EXCEPT !.status = s] ELSE item[i]]
    BY DEF SetStatus, Update
  <1>3. ASSUME NEW i \in Items
        PROVE  /\ item'[i] \in ItemState
               /\ item'[i].status = IF i \in S /\ i \in Shown THEN s ELSE item[i].status
               /\ item'[i].id = item[i].id /\ item'[i].parent = item[i].parent
               /\ item'[i].req = item[i].req
    BY <1>1, <1>2 DEF ItemState
  <1> QED
    BY <1>2, <1>3

\* A step that lists nothing, and whose tasks are those of before, imports of what a
\* batch has, or parses of what could not be parsed.
LEMMA PhaseFrame ==
    ASSUME IInv, UNCHANGED <<kind, under, pull>>,
           \A i \in Items : (Unread(i)' <=> Unread(i)) /\ (Uploading(i)' <=> Uploading(i)),
           \A p \in Pulls : At(p, {"waiting", "left", "stuck"})' => kind \notin {"file", "url"},
           \A i \in pulling' : i \in pulling \/ (i \in Shown /\ ~item[i].req),
           \A t \in Tasks' :
              \/ \E z \in Tasks : z.op = t.op /\ z.item = t.item
              \/ t.op = "import" /\ t.item \in Items /\ \E b \in Batches : InTodo(b, t.item)
              \/ t.op = "parse" /\ t.item \in Shown /\ item[t.item].status = "parse-error",
           \A i \in Items : Been(i)' => Been(i),
           \A b \in Batches, i \in Items : InTodo(b, i)' =>
              \/ \E c \in Batches : InTodo(c, i)
              \/ i \in Shown /\ item[i].status \in {"parsed", "import-error"},
           \A i \in Items :
              /\ item[i].req => item'[i].req
              /\ \/ item'[i].status = item[i].status
                 \/ /\ i \in Shown /\ item[i].status \notin {"common", "upload-error"}
                    /\ \/ item'[i].status \in {"parsed", "importing", "imported", "import-error"}
                       \/ kind \in {"file", "url"}
    PROVE  PhaseOK'
  <1>1. PhaseOK /\ Shown \subseteq Items
    BY ShownItems DEF IInv
  <1>2. \A i \in Items : i \in Shown => Been(i) /\ ~Unread(i)
    BY <1>1 DEF PhaseOK, Been
  <1>3. \A b \in Batches, i \in Items : InTodo(b, i) => Been(i) /\ ~Unread(i) /\ ~Uploading(i)
    BY <1>1 DEF PhaseOK, Been
  <1>4. ASSUME NEW i \in Items, Unread(i)'
        PROVE  /\ ~Been(i)' /\ i \notin pulling' /\ \A t \in Tasks' : t.item # i
               /\ kind = "file" => item'[i].status = "common"
               /\ kind = "url" => item'[i].status = "parsing"
    <2>1. Unread(i) /\ i \notin Shown /\ ~Been(i) /\ i \notin pulling /\ \A t \in Tasks : t.item # i
      BY <1>1, <1>2, <1>4 DEF PhaseOK
    <2>2. \A t \in Tasks' : t.item # i
      BY <1>3, <2>1
    <2>3. item'[i].status = item[i].status
      BY <2>1
    <2> QED
      BY <1>1, <2>1, <2>2, <2>3 DEF PhaseOK
  <1>5. ASSUME NEW i \in Items, Uploading(i)'
        PROVE  /\ item'[i].status \in {"common", "upload-error"}
               /\ \A b \in Batches : ~InTodo(b, i)'
               /\ \A t \in Tasks' : t.item = i => t.op = "upload"
    <2>1. /\ Uploading(i) /\ item[i].status \in {"common", "upload-error"}
          /\ \A b \in Batches : ~InTodo(b, i)
          /\ \A t \in Tasks : t.item = i => t.op = "upload"
      BY <1>1, <1>5 DEF PhaseOK
    <2>2. item'[i].status = item[i].status /\ \A b \in Batches : ~InTodo(b, i)'
      BY <2>1
    <2>3. \A t \in Tasks' : t.item = i => t.op = "upload"
      BY <2>1
    <2> QED
      BY <2>1, <2>2, <2>3
  <1>6. \A t \in Tasks : t.item \in Items
    BY TaskTypes DEF IInv, Things
  <1>7. \A t \in Tasks' : t.op = "upload" => Uploading(t.item)'
    BY <1>1, <1>6 DEF PhaseOK
  <1>8. kind \notin {"file", "url"} =>
           /\ \A t \in Tasks' : t.op = "import"
           /\ \A i \in Items : item'[i].status \in {"parsed", "importing", "imported", "import-error"}
    BY <1>1 DEF PhaseOK
  <1>9. /\ kind # "drive" => pulling' = {} /\ \A i \in Items : item'[i].req
        /\ \A i \in Items : under[i] # 0 => item'[i].req
    BY <1>1 DEF PhaseOK
  <1> QED
    BY <1>4, <1>5, <1>7, <1>8, <1>9 DEF PhaseOK

\* A step of the dialog that lists nothing and asks for nothing.
LEMMA PhaseIdle ==
    ASSUME IInv, UNCHANGED <<kind, under, pull, queue, running, item, batch, nodes>>, Shown' \subseteq Shown,
           \A i \in Items : (Unread(i)' <=> Unread(i)) /\ (Uploading(i)' <=> Uploading(i)),
           \A p \in Pulls : At(p, {"waiting", "left", "stuck"})' => kind \notin {"file", "url"},
           \A i \in pulling' : i \in pulling \/ (i \in Shown /\ ~item[i].req)
    PROVE  PhaseOK'
  <1>1. Tasks' = Tasks
    BY DEF Tasks
  <1>2. \A b \in Batches, i \in Items : InTodo(b, i)' <=> InTodo(b, i)
    BY DEF InTodo
  <1>3. \A i \in Items : Been(i)' => Been(i)
    BY <1>2 DEF Been
  <1> QED
    BY <1>1, <1>2, <1>3, PhaseFrame

\* The submissions are as they were, and so are their phases.
LEMMA FormStays ==
    ASSUME IInv, UNCHANGED <<form, pull>>
    PROVE  /\ \A i \in Items : (Unread(i)' <=> Unread(i)) /\ (Uploading(i)' <=> Uploading(i))
           /\ \A p \in Pulls : At(p, {"waiting", "left", "stuck"})' => kind \notin {"file", "url"}
  BY DEF IInv, PhaseOK, Unread, Uploading, At

\* One submission goes on, from one phase to another.
LEMMA FormMoves ==
    ASSUME DataOK, NEW p \in Pulls, NEW f, form' = [form EXCEPT ![p] = f], UNCHANGED pull
    PROVE  /\ \A i \in Items : IF pull[i] = p
                 THEN /\ Unread(i) <=> form[p] \in {"new", "waiting", "left", "stuck"}
                      /\ Unread(i)' <=> f \in {"new", "waiting", "left", "stuck"}
                      /\ Uploading(i) <=> form[p] = "uploading"
                      /\ Uploading(i)' <=> f = "uploading"
                 ELSE (Unread(i)' <=> Unread(i)) /\ (Uploading(i)' <=> Uploading(i))
           /\ \A q \in Pulls : form'[q] = IF q = p THEN f ELSE form[q]
           /\ f \in Forms => form' \in [Pulls -> Forms]
  <1>1. form \in [Pulls -> Forms] /\ pull \in [Items -> Pulls]
    BY DEF DataOK
  <1>2. \A q \in Pulls : form'[q] = IF q = p THEN f ELSE form[q]
    BY <1>1
  <1> QED
    BY <1>1, <1>2 DEF Unread, Uploading, At

\* Submit.
LEMMA SubmitKeeps ==
    ASSUME IInv, NEW p \in Pulls, Submit(p)
    PROVE  IInv'
  <1>1. QueueInv' /\ Tasks' = Tasks
    BY QueueStays DEF IInv, Submit, source
  <1>2. ItemState' = ItemState /\ BatchType' = BatchType /\ Top' = Top
    BY TypesStay, TopStays DEF Submit, source
  <1> DEFINE f == "waiting"
  <1>3. form' = [form EXCEPT ![p] = f] /\ form[p] = "new" /\ f \in Forms /\ DataOK /\ kind \notin {"file", "url"}
    BY DEF Submit, FormShown, At, Forms, IInv
  <1>4. /\ \A i \in Items : (Unread(i)' <=> Unread(i)) /\ (Uploading(i)' <=> Uploading(i))
        /\ \A q \in Pulls : form'[q] = IF q = p THEN f ELSE form[q]
        /\ form' \in [Pulls -> Forms]
    <2>1. pull' = pull
      BY DEF Submit, source
    <2> QED
      BY <1>3, <2>1, FormMoves
  <1>11. DataOK'
    BY <1>1, <1>2, <1>4 DEF IInv, Submit, source, DataOK
  <1>12. QueueInv'
    BY <1>1
  <1>13. TasksOK'
    BY <1>1, <1>2 DEF IInv, Submit, source, TasksOK, TaskOK
  <1>14. PhaseOK'
    <2>1. UNCHANGED <<kind, under, pull, queue, running, item, batch, nodes, pulling>> /\ Shown' = Shown
      BY DEF Submit, source, Shown
    <2>2. \A q \in Pulls : At(q, {"waiting", "left", "stuck"})' => kind \notin {"file", "url"}
      BY <1>3, <1>4 DEF At, IInv, PhaseOK
    <2> QED
      BY <1>4, <2>1, <2>2, PhaseIdle
  <1>15. ListOK'
    BY <1>1, <1>2 DEF IInv, Submit, source, ListOK, Been, InTodo, Shown
  <1>16. TodosOK'
    BY <1>1, <1>2 DEF IInv, Submit, source, TodosOK
  <1>17. NodesOK'
    BY <1>1, <1>2 DEF IInv, Submit, source, NodesOK, OneNodeEach, InTodo, Shown
  <1> QED
    BY <1>11, <1>12, <1>13, <1>14, <1>15, <1>16, <1>17 DEF IInv

\* NotListed.
LEMMA NotListedKeeps ==
    ASSUME IInv, NEW p \in Pulls, NotListed(p)
    PROVE  IInv'
  <1>1. QueueInv' /\ Tasks' = Tasks
    BY QueueStays DEF IInv, NotListed, source
  <1>2. ItemState' = ItemState /\ BatchType' = BatchType /\ Top' = Top
    BY TypesStay, TopStays DEF NotListed, source
  <1> DEFINE f == IF kind = "export" /\ form[p] = "waiting" THEN "stuck" ELSE "new"
  <1>3. form' = [form EXCEPT ![p] = f] /\ form[p] \in {"waiting", "left"} /\ f \in Forms /\ DataOK /\ kind \notin {"file", "url"}
    BY DEF NotListed, At, Forms, IInv, DataOK, PhaseOK, Kinds
  <1>4. /\ \A i \in Items : (Unread(i)' <=> Unread(i)) /\ (Uploading(i)' <=> Uploading(i))
        /\ \A q \in Pulls : form'[q] = IF q = p THEN f ELSE form[q]
        /\ form' \in [Pulls -> Forms]
    <2>1. pull' = pull
      BY DEF NotListed, source
    <2> QED
      BY <1>3, <2>1, FormMoves
  <1>11. DataOK'
    BY <1>1, <1>2, <1>4 DEF IInv, NotListed, source, DataOK
  <1>12. QueueInv'
    BY <1>1
  <1>13. TasksOK'
    BY <1>1, <1>2 DEF IInv, NotListed, source, TasksOK, TaskOK
  <1>14. PhaseOK'
    <2>1. UNCHANGED <<kind, under, pull, queue, running, item, batch, nodes, pulling>> /\ Shown' = Shown
      BY DEF NotListed, source, Shown
    <2>2. \A q \in Pulls : At(q, {"waiting", "left", "stuck"})' => kind \notin {"file", "url"}
      BY <1>3, <1>4 DEF At, IInv, PhaseOK
    <2> QED
      BY <1>4, <2>1, <2>2, PhaseIdle
  <1>15. ListOK'
    BY <1>1, <1>2 DEF IInv, NotListed, source, ListOK, Been, InTodo, Shown
  <1>16. TodosOK'
    BY <1>1, <1>2 DEF IInv, NotListed, source, TodosOK
  <1>17. NodesOK'
    BY <1>1, <1>2 DEF IInv, NotListed, source, NodesOK, OneNodeEach, InTodo, Shown
  <1> QED
    BY <1>11, <1>12, <1>13, <1>14, <1>15, <1>16, <1>17 DEF IInv

\* PullFolder.
LEMMA PullFolderKeeps ==
    ASSUME IInv, NEW f \in Items, PullFolder(f)
    PROVE  IInv'
  <1>1. QueueInv' /\ Tasks' = Tasks
    BY QueueStays DEF IInv, PullFolder, source
  <1>2. ItemState' = ItemState /\ BatchType' = BatchType /\ Top' = Top
    BY TypesStay, TopStays DEF PullFolder, source
  <1>3. Shown \subseteq Items /\ (list = <<>> => Shown = {})
    BY ShownItems DEF IInv
  <1>11. DataOK'
    BY <1>1, <1>2 DEF IInv, PullFolder, source, DataOK, Kinds
  <1>12. QueueInv'
    BY <1>1
  <1>13. TasksOK'
    BY <1>1, <1>2 DEF IInv, PullFolder, source, TasksOK, TaskOK
  <1>14. PhaseOK'
    <2>1. UNCHANGED <<kind, under, pull, queue, running, item, batch, nodes, form>> /\ Shown' = Shown
      BY DEF PullFolder, source, Shown
    <2>2. \A i \in pulling' : i \in pulling \/ (i \in Shown /\ ~item[i].req)
      BY DEF PullFolder
    <2> QED
      BY <2>1, <2>2, FormStays, PhaseIdle
  <1>15. ListOK'
    BY <1>1, <1>2 DEF IInv, PullFolder, source, ListOK, Been, InTodo, Shown
  <1>16. TodosOK'
    BY <1>1, <1>2 DEF IInv, PullFolder, source, TodosOK
  <1>17. NodesOK'
    BY <1>1, <1>2 DEF IInv, PullFolder, source, NodesOK, OneNodeEach, InTodo, Shown
  <1> QED
    BY <1>11, <1>12, <1>13, <1>14, <1>15, <1>16, <1>17 DEF IInv

\* NotPulled.
LEMMA NotPulledKeeps ==
    ASSUME IInv, NEW f \in Items, NotPulled(f)
    PROVE  IInv'
  <1>1. QueueInv' /\ Tasks' = Tasks
    BY QueueStays DEF IInv, NotPulled, source
  <1>2. ItemState' = ItemState /\ BatchType' = BatchType /\ Top' = Top
    BY TypesStay, TopStays DEF NotPulled, source
  <1>11. DataOK'
    BY <1>1, <1>2 DEF IInv, NotPulled, source, DataOK, Kinds
  <1>12. QueueInv'
    BY <1>1
  <1>13. TasksOK'
    BY <1>1, <1>2 DEF IInv, NotPulled, source, TasksOK, TaskOK
  <1>14. PhaseOK'
    <2>1. UNCHANGED <<kind, under, pull, queue, running, item, batch, nodes, form>> /\ Shown' = Shown
      BY DEF NotPulled, source, Shown
    <2>2. \A i \in pulling' : i \in pulling \/ (i \in Shown /\ ~item[i].req)
      BY DEF NotPulled
    <2> QED
      BY <2>1, <2>2, FormStays, PhaseIdle
  <1>15. ListOK'
    BY <1>1, <1>2 DEF IInv, NotPulled, source, ListOK, Been, InTodo, Shown
  <1>16. TodosOK'
    BY <1>1, <1>2 DEF IInv, NotPulled, source, TodosOK
  <1>17. NodesOK'
    BY <1>1, <1>2 DEF IInv, NotPulled, source, NodesOK, OneNodeEach, InTodo, Shown
  <1> QED
    BY <1>11, <1>12, <1>13, <1>14, <1>15, <1>16, <1>17 DEF IInv

\* Select.
LEMMA SelectKeeps ==
    ASSUME IInv, Select
    PROVE  IInv'
  <1>1. QueueInv' /\ Tasks' = Tasks
    BY QueueStays DEF IInv, Select, source
  <1>2. ItemState' = ItemState /\ BatchType' = BatchType /\ Top' = Top
    BY TypesStay, TopStays DEF Select, source
  <1>3. Shown \subseteq Items /\ (list = <<>> => Shown = {})
    BY ShownItems DEF IInv
  <1>11. DataOK'
    BY <1>1, <1>2, <1>3 DEF IInv, Select, source, DataOK, Kinds
  <1>12. QueueInv'
    BY <1>1
  <1>13. TasksOK'
    BY <1>1, <1>2, <1>3 DEF IInv, Select, source, TasksOK, TaskOK
  <1>14. PhaseOK'
    <2>1. UNCHANGED <<kind, under, pull, queue, running, item, batch, nodes, form>> /\ Shown' = Shown
      BY DEF Select, source, Shown
    <2>2. \A i \in pulling' : i \in pulling \/ (i \in Shown /\ ~item[i].req)
      BY DEF Select
    <2> QED
      BY <2>1, <2>2, FormStays, PhaseIdle
  <1>15. ListOK'
    BY <1>1, <1>2, <1>3 DEF IInv, Select, source, ListOK, Been, InTodo, Shown
  <1>16. TodosOK'
    BY <1>1, <1>2, <1>3 DEF IInv, Select, source, TodosOK
  <1>17. NodesOK'
    BY <1>1, <1>2, <1>3 DEF IInv, Select, source, NodesOK, OneNodeEach, InTodo, Shown
  <1> QED
    BY <1>11, <1>12, <1>13, <1>14, <1>15, <1>16, <1>17 DEF IInv

\* SelectFolder.
LEMMA SelectFolderKeeps ==
    ASSUME IInv, NEW f \in Items, SelectFolder(f)
    PROVE  IInv'
  <1>1. QueueInv' /\ Tasks' = Tasks
    BY QueueStays DEF IInv, SelectFolder, source, Descendants
  <1>2. ItemState' = ItemState /\ BatchType' = BatchType /\ Top' = Top
    BY TypesStay, TopStays DEF SelectFolder, source, Descendants
  <1>3. Shown \subseteq Items /\ (list = <<>> => Shown = {})
    BY ShownItems DEF IInv
  <1>11. DataOK'
    BY <1>1, <1>2, <1>3 DEF IInv, SelectFolder, source, Descendants, DataOK, Kinds
  <1>12. QueueInv'
    BY <1>1
  <1>13. TasksOK'
    BY <1>1, <1>2, <1>3 DEF IInv, SelectFolder, source, Descendants, TasksOK, TaskOK
  <1>14. PhaseOK'
    <2>1. UNCHANGED <<kind, under, pull, queue, running, item, batch, nodes, form>> /\ Shown' = Shown
      BY DEF SelectFolder, source, Shown
    <2>2. \A i \in pulling' : i \in pulling \/ (i \in Shown /\ ~item[i].req)
      BY DEF SelectFolder
    <2> QED
      BY <2>1, <2>2, FormStays, PhaseIdle
  <1>15. ListOK'
    BY <1>1, <1>2, <1>3 DEF IInv, SelectFolder, source, Descendants, ListOK, Been, InTodo, Shown
  <1>16. TodosOK'
    BY <1>1, <1>2, <1>3 DEF IInv, SelectFolder, source, Descendants, TodosOK
  <1>17. NodesOK'
    BY <1>1, <1>2, <1>3 DEF IInv, SelectFolder, source, Descendants, NodesOK, OneNodeEach, InTodo, Shown
  <1> QED
    BY <1>11, <1>12, <1>13, <1>14, <1>15, <1>16, <1>17 DEF IInv

\* FormDone.
LEMMA FormDoneKeeps ==
    ASSUME IInv, NEW p \in Pulls, FormDone(p)
    PROVE  IInv'
  <1>1. QueueInv' /\ Tasks' = Tasks
    BY QueueStays DEF IInv, FormDone, source
  <1>2. ItemState' = ItemState /\ BatchType' = BatchType /\ Top' = Top
    BY TypesStay, TopStays DEF FormDone, source
  <1> DEFINE f == "done"
  <1>3. form' = [form EXCEPT ![p] = f] /\ form[p] = "parsing" /\ f \in Forms /\ DataOK
    BY DEF FormDone, At, Forms, IInv
  <1>4. /\ \A i \in Items : (Unread(i)' <=> Unread(i)) /\ (Uploading(i)' <=> Uploading(i))
        /\ \A q \in Pulls : form'[q] = IF q = p THEN f ELSE form[q]
        /\ form' \in [Pulls -> Forms]
    <2>1. pull' = pull
      BY DEF FormDone, source
    <2> QED
      BY <1>3, <2>1, FormMoves
  <1>11. DataOK'
    BY <1>1, <1>2, <1>4 DEF IInv, FormDone, source, DataOK
  <1>12. QueueInv'
    BY <1>1
  <1>13. TasksOK'
    BY <1>1, <1>2 DEF IInv, FormDone, source, TasksOK, TaskOK
  <1>14. PhaseOK'
    <2>1. UNCHANGED <<kind, under, pull, queue, running, item, batch, nodes, pulling>> /\ Shown' = Shown
      BY DEF FormDone, source, Shown
    <2>2. \A q \in Pulls : At(q, {"waiting", "left", "stuck"})' => kind \notin {"file", "url"}
      BY <1>3, <1>4 DEF At, IInv, PhaseOK
    <2> QED
      BY <1>4, <2>1, <2>2, PhaseIdle
  <1>15. ListOK'
    BY <1>1, <1>2 DEF IInv, FormDone, source, ListOK, Been, InTodo, Shown
  <1>16. TodosOK'
    BY <1>1, <1>2 DEF IInv, FormDone, source, TodosOK
  <1>17. NodesOK'
    BY <1>1, <1>2 DEF IInv, FormDone, source, NodesOK, OneNodeEach, InTodo, Shown
  <1> QED
    BY <1>11, <1>12, <1>13, <1>14, <1>15, <1>16, <1>17 DEF IInv

\* Reopen.
LEMMA ReopenKeeps ==
    ASSUME IInv, Reopen
    PROVE  IInv'
  <1>1. QueueInv' /\ Tasks' = Tasks
    BY QueueStays DEF IInv, Reopen, source
  <1>2. ItemState' = ItemState /\ BatchType' = BatchType /\ Top' = Top
    BY TypesStay, TopStays DEF Reopen, source
  <1>11. DataOK'
    BY <1>1, <1>2 DEF IInv, Reopen, source, DataOK, Kinds
  <1>12. QueueInv'
    BY <1>1
  <1>13. TasksOK'
    BY <1>1, <1>2 DEF IInv, Reopen, source, TasksOK, TaskOK
  <1>14. PhaseOK'
    <2>1. UNCHANGED <<kind, under, pull, queue, running, item, batch, nodes, form>> /\ Shown' = Shown
      BY DEF Reopen, source, Shown
    <2>2. \A i \in pulling' : i \in pulling \/ (i \in Shown /\ ~item[i].req)
      BY DEF Reopen
    <2> QED
      BY <2>1, <2>2, FormStays, PhaseIdle
  <1>15. ListOK'
    BY <1>1, <1>2 DEF IInv, Reopen, source, ListOK, Been, InTodo, Shown
  <1>16. TodosOK'
    BY <1>1, <1>2 DEF IInv, Reopen, source, TodosOK
  <1>17. NodesOK'
    BY <1>1, <1>2 DEF IInv, Reopen, source, NodesOK, OneNodeEach, InTodo, Shown
  <1> QED
    BY <1>11, <1>12, <1>13, <1>14, <1>15, <1>16, <1>17 DEF IInv

\* Close.
LEMMA CloseKeeps ==
    ASSUME IInv, Close
    PROVE  IInv'
  <1>1. QueueInv' /\ Tasks' = Tasks
    BY QueueStays DEF IInv, Close, source
  <1>2. ItemState' = ItemState /\ BatchType' = BatchType /\ Top' = Top
    BY TypesStay, TopStays DEF Close, source
  <1>3. Shown \subseteq Items /\ (list = <<>> => Shown = {})
    BY ShownItems DEF IInv
  <1>4. /\ \A p \in Pulls : form'[p] = IF form[p] = "stuck" THEN "new"
                                  ELSE IF kind = "export" /\ form[p] = "waiting" THEN "left"
                                  ELSE form[p]
        /\ form' \in [Pulls -> Forms]
    BY DEF IInv, DataOK, Close, At, Forms
  <1>11. DataOK'
    <2>1. page' \subseteq 1..Len(nodes)
      BY DEF IInv, Close, source, DataOK
    <2>2. <<>> \in Seq(Items)
      OBVIOUS
    <2> QED
      BY <1>2, <1>4, <2>1, <2>2 DEF IInv, Close, source, DataOK
  <1>12. QueueInv'
    BY <1>1
  <1>13. TasksOK'
    BY <1>1, <1>2 DEF IInv, Close, source, TasksOK, TaskOK
  <1>14. PhaseOK'
    <2>1. UNCHANGED <<kind, under, pull, queue, running, item, batch, nodes, pulling>> /\ Shown' = {}
      BY DEF Close, source, Shown
    <2>2. \A p \in Pulls : At(p, {"waiting", "left", "stuck"})' => kind \notin {"file", "url"}
      BY <1>4 DEF At, IInv, PhaseOK
    <2>3. \A i \in Items : (Unread(i)' <=> Unread(i)) /\ (Uploading(i)' <=> Uploading(i))
      <3>1. pull \in [Items -> Pulls]
        BY DEF IInv, DataOK
      <3> QED
        BY <1>4, <2>1, <3>1 DEF Unread, Uploading, At
    <2> QED
      BY <2>1, <2>2, <2>3, PhaseIdle
  <1>15. ListOK'
    BY <1>1, <1>2 DEF IInv, Close, source, ListOK, Been, InTodo, Shown
  <1>16. TodosOK'
    BY <1>1, <1>2 DEF IInv, Close, source, TodosOK
  <1>17. NodesOK'
    BY <1>1, <1>2 DEF IInv, Close, source, NodesOK, OneNodeEach, InTodo, Shown
  <1> QED
    BY <1>11, <1>12, <1>13, <1>14, <1>15, <1>16, <1>17 DEF IInv

\* No node is made or loses its answer, and what is called imported still is.
LEMMA NodesFrame ==
    ASSUME IInv, UNCHANGED <<nodes, lost>>, Shown' \subseteq Shown,
           \A b \in Batches, i \in Items : InTodo(b, i)' => InTodo(b, i),
           \A t \in Tasks : t.at = "answer" => t \in Tasks',
           \A i \in Shown : item[i].status = "imported" => item'[i].status = "imported"
    PROVE  NodesOK'
  <1>1. OneNodeEach'
    BY DEF IInv, NodesOK, OneNodeEach
  <1>2. \A n \in 1..Len(nodes) : nodes[n].item \in Items
    BY NodeTypes DEF IInv
  <1>3. ASSUME NEW n \in (1..Len(nodes)) \ lost
        PROVE  \/ \E t \in Tasks' : t.at = "answer" /\ t.node = n
               \/ /\ \A b \in Batches : ~InTodo(b, nodes[n].item)'
                  /\ nodes[n].item \in Shown' => item'[nodes[n].item].status = "imported"
    <2>1. CASE \E t \in Tasks : t.at = "answer" /\ t.node = n
      BY <2>1
    <2>2. CASE ~(\E t \in Tasks : t.at = "answer" /\ t.node = n)
      <3>1. /\ \A b \in Batches : ~InTodo(b, nodes[n].item)
            /\ nodes[n].item \in Shown => item[nodes[n].item].status = "imported"
        BY <2>2 DEF IInv, NodesOK
      <3> QED
        BY <1>2, <3>1
    <2> QED
      BY <2>1, <2>2
  <1> QED
    BY <1>1, <1>3 DEF NodesOK, InTodo

\* Some items that are not there go behind the list.
LEMMA ListGrows ==
    ASSUME IInv, NEW s \in SUBSET Items, s \cap Shown = {}, list' = list \o Sorted(s)
    PROVE  /\ list' \in Seq(Items) /\ Shown' = Shown \cup s
           /\ \A k, l \in 1..Len(list') : list'[k] = list'[l] => k = l
  <1>1. /\ Sorted(s) \in Seq(Items) /\ \A k \in 1..Len(Sorted(s)) : Sorted(s)[k] \in s
        /\ \A k, l \in 1..Len(Sorted(s)) : Sorted(s)[k] = Sorted(s)[l] => k = l
    BY ItemsSorted
  <1>2. \A i \in s : \E k \in 1..Len(Sorted(s)) : Sorted(s)[k] = i
    <2>1. s \in SUBSET Nat /\ IsFiniteSet(s)
      BY ItemsFinite
    <2> QED
      BY <2>1, SortedFacts
  <1>3. list \in Seq(Items) /\ Shown \subseteq Items
    BY ShownItems DEF IInv, DataOK
  <1>4. /\ list' \in Seq(Items) /\ Len(list') = Len(list) + Len(Sorted(s))
        /\ \A k \in 1..Len(list) : list'[k] = list[k]
        /\ \A k \in Len(list) + 1 .. Len(list') : list'[k] = Sorted(s)[k - Len(list)]
    BY <1>1, <1>3, JoinFacts
  <1>5. Len(list) \in Nat /\ Len(Sorted(s)) \in Nat
    BY <1>1, <1>3
  <1>6. \A k \in 1..Len(list) : list[k] \in Shown
    BY DEF Shown
  <1>7. \A k \in 1..Len(list') : k \in 1..Len(list) \/ k - Len(list) \in 1..Len(Sorted(s))
    BY <1>4, <1>5
  <1>8. \A k \in 1..Len(list') :
           IF k \in 1..Len(list) THEN list'[k] = list[k] /\ list'[k] \in Shown
           ELSE list'[k] = Sorted(s)[k - Len(list)] /\ list'[k] \in s /\ k - Len(list) \in 1..Len(Sorted(s))
    <2> SUFFICES ASSUME NEW k \in 1..Len(list')
                 PROVE  IF k \in 1..Len(list) THEN list'[k] = list[k] /\ list'[k] \in Shown
                        ELSE list'[k] = Sorted(s)[k - Len(list)] /\ list'[k] \in s /\ k - Len(list) \in 1..Len(Sorted(s))
      OBVIOUS
    <2>1. CASE k \in 1..Len(list)
      BY <2>1, <1>4, <1>6
    <2>2. CASE k \notin 1..Len(list)
      <3>1. k \in Len(list) + 1 .. Len(list') /\ k - Len(list) \in 1..Len(Sorted(s))
        BY <2>2, <1>4, <1>5
      <3> QED
        BY <2>2, <3>1, <1>1, <1>4
    <2> QED
      BY <2>1, <2>2
  <1>9. Shown' = Shown \cup s
    <2>1. \A i \in Shown' : i \in Shown \/ i \in s
      BY <1>8 DEF Shown
    <2>2. \A i \in Shown : i \in Shown'
      <3>1. \A k \in 1..Len(list) : k \in 1..Len(list')
        BY <1>4, <1>5
      <3> QED
        BY <3>1, <1>4 DEF Shown
    <2>3. ASSUME NEW i \in s PROVE i \in Shown'
      <3>1. PICK k \in 1..Len(Sorted(s)) : Sorted(s)[k] = i
        BY <1>2
      <3>2. k + Len(list) \in Len(list) + 1 .. Len(list') /\ k + Len(list) \in 1..Len(list') /\ k + Len(list) - Len(list) = k
        BY <1>4, <1>5
      <3> QED
        BY <3>1, <3>2, <1>4 DEF Shown
    <2> QED
      BY <2>1, <2>2, <2>3
  <1>10. ASSUME NEW k \in 1..Len(list'), NEW l \in 1..Len(list'), list'[k] = list'[l] PROVE k = l
    <2>0. \A x, y \in 1..Len(list) : list[x] = list[y] => x = y
      BY DEF IInv, ListOK
    <2>1. CASE k \in 1..Len(list) /\ l \in 1..Len(list)
      BY <2>0, <2>1, <1>8, <1>10
    <2>2. CASE k \notin 1..Len(list) /\ l \notin 1..Len(list)
      <3>1. k - Len(list) = l - Len(list)
        BY <2>2, <1>1, <1>8, <1>10
      <3> QED
        BY <3>1, <1>5
    <2> QED
      BY <2>1, <2>2, <1>8, <1>10
  <1> QED
    BY <1>4, <1>9, <1>10

\* What no list holds yet.
LEMMA UnreadFacts ==
    ASSUME IInv
    PROVE  \A i \in Items : Unread(i) =>
              /\ ~Been(i) /\ i \notin Shown /\ i \notin pulling /\ \A t \in Tasks : t.item # i
              /\ \A b \in Batches : ~InTodo(b, i)
              /\ \A n \in 1..Len(nodes) : nodes[n].item # i
  BY DEF IInv, PhaseOK, Been

\* Listed: what the source holds was never listed; a drive's answer takes the place
\* of the list.
LEMMA ListedKeeps ==
    ASSUME IInv, NEW p \in Pulls, Listed(p)
    PROVE  IInv'
  <1>1. QueueInv' /\ Tasks' = Tasks
    BY QueueStays DEF IInv, Listed, source
  <1>2. ItemState' = ItemState /\ BatchType' = BatchType /\ Top' = Top
    BY TypesStay, TopStays DEF Listed, source
  <1> DEFINE s == {i \in Of(p) : kind = "drive" => under[i] = 0}
             f == "done"
  <1>3. /\ s \in SUBSET Items /\ \A i \in s : pull[i] = p /\ (kind = "drive" => under[i] = 0)
        /\ list' = (IF kind = "drive" THEN Sorted(s) ELSE list \o Sorted(s))
    <2>1. IF kind = "drive" THEN s = {i \in Of(p) : under[i] = 0} ELSE s = Of(p)
      OBVIOUS
    <2> QED
      BY <2>1 DEF Listed, Of
  <1> HIDE DEF s
  <1>4. form' = [form EXCEPT ![p] = f] /\ form[p] \in {"waiting", "left"} /\ f \in Forms /\ kind \notin {"file", "url"}
    BY DEF Listed, At, Forms, IInv, PhaseOK
  <1>5. /\ \A i \in Items : IF pull[i] = p THEN Unread(i) /\ ~Unread(i)' /\ ~Uploading(i) /\ ~Uploading(i)'
                            ELSE (Unread(i)' <=> Unread(i)) /\ (Uploading(i)' <=> Uploading(i))
        /\ \A q \in Pulls : form'[q] = IF q = p THEN f ELSE form[q]
        /\ form' \in [Pulls -> Forms]
    <2>1. pull' = pull /\ DataOK
      BY DEF Listed, source, IInv
    <2> QED
      BY <1>4, <2>1, FormMoves
  <1>6. \A i \in s : Unread(i) /\ ~Been(i) /\ i \notin Shown
    BY <1>3, <1>5, UnreadFacts
  <1>7. /\ list' \in Seq(Items) /\ Shown' \subseteq Shown \cup s
        /\ \A k, l \in 1..Len(list') : list'[k] = list'[l] => k = l
        /\ kind = "drive" => Shown' \subseteq s
    <2>1. CASE kind = "drive"
      <3>1. list' = Sorted(s)
        BY <1>3, <2>1
      <3>2. /\ Sorted(s) \in Seq(Items) /\ \A k \in 1..Len(Sorted(s)) : Sorted(s)[k] \in s
            /\ \A k, l \in 1..Len(Sorted(s)) : Sorted(s)[k] = Sorted(s)[l] => k = l
        BY <1>3, ItemsSorted
      <3> QED
        BY <3>1, <3>2 DEF Shown
    <2>2. CASE kind # "drive"
      <3>1. list' = list \o Sorted(s) /\ s \cap Shown = {}
        BY <1>3, <1>6, <2>2
      <3> QED
        BY <1>3, <2>2, <3>1, ListGrows
    <2> QED
      BY <2>1, <2>2
  <1>8. Shown \subseteq Items /\ \A n \in 1..Len(nodes) : nodes[n].item \in Items
    BY ShownItems, NodeTypes DEF IInv
  <1>9. \A b \in Batches, i \in Items : InTodo(b, i)' <=> InTodo(b, i)
    BY DEF InTodo, Listed
  <1>10. \A i \in Items : Been(i)' => Been(i) \/ i \in s
    BY <1>7, <1>9 DEF Been, Listed
  <1>11. DataOK'
    BY <1>2, <1>5, <1>7 DEF IInv, Listed, source, DataOK
  <1>12. QueueInv'
    BY <1>1
  <1>13. TasksOK'
    BY <1>1 DEF IInv, Listed, source, TasksOK, TaskOK
  <1>14. PhaseOK'
    <2>1. UNCHANGED <<kind, under, pull, item, pulling>>
      BY DEF Listed, source
    <2>2. \A q \in Pulls : At(q, {"waiting", "left", "stuck"})' => kind \notin {"file", "url"}
      BY <1>4
    <2>3. ASSUME NEW i \in Items, Unread(i)'
          PROVE  /\ ~Been(i)' /\ i \notin pulling /\ \A t \in Tasks : t.item # i
                 /\ kind = "file" => item[i].status = "common"
                 /\ kind = "url" => item[i].status = "parsing"
      <3>1. pull[i] # p /\ Unread(i)
        BY <1>5, <2>3
      <3>2. i \notin s /\ ~Been(i)'
        BY <1>3, <1>10, <3>1, UnreadFacts
      <3> QED
        BY <3>1, <3>2 DEF IInv, PhaseOK
    <2>4. ASSUME NEW i \in Items, Uploading(i)'
          PROVE  /\ item[i].status \in {"common", "upload-error"}
                 /\ \A b \in Batches : ~InTodo(b, i)'
                 /\ \A t \in Tasks : t.item = i => t.op = "upload"
      <3>1. Uploading(i)
        BY <1>5, <2>4
      <3> QED
        BY <1>9, <3>1 DEF IInv, PhaseOK
    <2>5. \A t \in Tasks : t.op = "upload" => Uploading(t.item)'
      <3>1. \A t \in Tasks : t.op # "upload"
        BY <1>4 DEF IInv, PhaseOK
      <3> QED
        BY <3>1
    <2>6. kind \notin {"file", "url"} =>
             /\ \A t \in Tasks : t.op = "import"
             /\ \A i \in Items : item[i].status \in {"parsed", "importing", "imported", "import-error"}
      BY DEF IInv, PhaseOK
    <2>7. /\ kind # "drive" => pulling = {} /\ \A i \in Items : item[i].req
          /\ \A i \in Items : under[i] # 0 => item[i].req
      BY DEF IInv, PhaseOK
    <2> QED
      BY <1>1, <2>1, <2>2, <2>3, <2>4, <2>5, <2>6, <2>7 DEF PhaseOK
  <1>15. ListOK'
    <2>1. \A t \in Tasks : t.op # "parse"
      BY <1>4 DEF IInv, PhaseOK
    <2>2. \A b \in Batches, i \in Shown' : InTodo(b, i)' => item[i].status = "importing"
      <3>1. \A b \in Batches, i \in s : ~InTodo(b, i)
        BY <1>6 DEF Been
      <3> QED
        BY <1>3, <1>7, <1>8, <1>9, <3>1 DEF IInv, ListOK
    <2>3. ASSUME NEW i \in Items, under[i] # 0, Been(i)'
          PROVE  Top[i] \notin pulling /\ (Top[i] \in Shown' => item[Top[i]].req)
      <3>0. Top[i] \in Items /\ pull[Top[i]] = pull[i]
        BY TopPull DEF IInv
      <3>1. CASE i \in s
        <4>1. kind # "drive"
          BY <1>3, <2>3, <3>1
        <4> QED
          BY <4>1, <3>0 DEF IInv, PhaseOK
      <3>2. CASE i \notin s
        <4>1. Been(i) /\ ~Unread(i)
          BY <1>10, <2>3, <3>2, UnreadFacts
        <4>2. Top[i] \notin s
          BY <1>3, <1>5, <3>0, <4>1
        <4> QED
          BY <1>7, <2>3, <4>1, <4>2 DEF IInv, ListOK
      <3> QED
        BY <3>1, <3>2
    <2>4. UNCHANGED <<item, pulling, under>>
      BY DEF Listed, source
    <2> QED
      BY <1>1, <1>2, <1>7, <2>1, <2>2, <2>3, <2>4 DEF ListOK
  <1>16. TodosOK'
    BY DEF IInv, Listed, TodosOK
  <1>17. NodesOK'
    <2>1. \A n \in 1..Len(nodes) : nodes[n].item \in Shown' => nodes[n].item \in Shown
      BY <1>6, <1>7 DEF Been
    <2>2. OneNodeEach' /\ UNCHANGED <<nodes, lost, item>>
      BY DEF IInv, NodesOK, OneNodeEach, Listed
    <2> QED
      BY <1>1, <1>8, <1>9, <2>1, <2>2 DEF IInv, NodesOK
  <1> QED
    BY <1>11, <1>12, <1>13, <1>14, <1>15, <1>16, <1>17 DEF IInv

\* Pulled: what the folder holds was never listed.
LEMMA PulledKeeps ==
    ASSUME IInv, NEW f \in Items, Pulled(f)
    PROVE  IInv'
  <1> DEFINE s == {i \in Items : under[i] # 0 /\ Top[i] = f}
  <1>1. QueueInv' /\ Tasks' = Tasks
    BY QueueStays DEF IInv, Pulled, source
  <1>2. ItemState' = ItemState /\ BatchType' = BatchType /\ Top' = Top
    BY TypesStay, TopStays DEF Pulled, source
  <1>3. f \in pulling /\ pulling' = pulling \ {f} /\ list' = list \o Sorted(s)
    BY DEF Pulled, source
  <1>5. Shown \subseteq Items
    BY ShownItems DEF IInv, DataOK
  <1>6. s \in SUBSET Items /\ \A i \in s : ~Been(i) /\ i \notin Shown
    BY <1>3 DEF IInv, ListOK, Been
  <1>7. kind = "drive" /\ \A i \in s : ~Unread(i)
    <2>1. kind = "drive" /\ ~Unread(f)
      BY <1>3 DEF IInv, PhaseOK
    <2>2. \A i \in s : pull[i] = pull[f]
      BY TopPull DEF IInv
    <2> QED
      BY <2>1, <2>2 DEF Unread
  <1>4. \A i \in s : Top[i] = f /\ under[i] # 0
    OBVIOUS
  <1> HIDE DEF s
  <1>8. /\ list' \in Seq(Items) /\ Shown' = Shown \cup s
        /\ \A k, l \in 1..Len(list') : list'[k] = list'[l] => k = l
    <2>1. s \cap Shown = {}
      BY <1>6
    <2> QED
      BY <1>3, <1>6, <2>1, ListGrows
  <1>10. /\ item' \in [Items -> ItemState]
         /\ \A i \in Items : /\ item'[i].status = item[i].status
                             /\ item[i].req => item'[i].req
                             /\ i = f /\ i \in Shown => item'[i].req
    <2>1. item \in [Items -> ItemState]
      BY DEF IInv, DataOK
    <2>2. item' = [i \in Items |-> IF i \in {f} \cap Shown THEN [item[i] EXCEPT !.req = TRUE] ELSE item[i]]
      BY DEF Pulled, source, Update
    <2> QED
      BY <2>1, <2>2 DEF ItemState
  <1>9. \A b \in Batches, i \in Items : InTodo(b, i)' <=> InTodo(b, i)
    BY DEF InTodo, Pulled, source
  <1>11. DataOK'
    BY <1>2, <1>3, <1>8, <1>10 DEF IInv, Pulled, source, DataOK
  <1>12. QueueInv'
    BY <1>1
  <1>13. TasksOK'
    BY <1>1 DEF IInv, Pulled, source, TasksOK, TaskOK
  <1>14. PhaseOK'
    <2>1. \A i \in Items : Been(i)' => Been(i) \/ i \in s
      BY <1>8, <1>9 DEF Been, Pulled, source
    <2>2. UNCHANGED <<kind, under, pull, form>>
      BY DEF Pulled, source
    <2>3. /\ \A i \in Items : (Unread(i)' <=> Unread(i)) /\ (Uploading(i)' <=> Uploading(i))
          /\ \A q \in Pulls : At(q, {"waiting", "left", "stuck"})' => kind \notin {"file", "url"}
      BY <2>2, FormStays
    <2>4. \A i \in Items : Unread(i)' => ~Been(i)' /\ i \notin pulling' /\ \A t \in Tasks : t.item # i
      BY <1>3, <1>7, <2>1, <2>3, UnreadFacts
    <2>5. \A t \in Tasks : t.op = "import"
      BY <1>7 DEF IInv, PhaseOK
    <2>6. \A i \in Items : ~Uploading(i)
      BY <1>7 DEF IInv, PhaseOK
    <2>7. \A i \in Items : item'[i].status \in {"parsed", "importing", "imported", "import-error"}
      BY <1>7, <1>10 DEF IInv, PhaseOK
    <2>8. \A i \in Items : under[i] # 0 => item'[i].req
      BY <1>10 DEF IInv, PhaseOK
    <2> QED
      BY <1>1, <1>7, <2>2, <2>3, <2>4, <2>5, <2>6, <2>7, <2>8 DEF PhaseOK
  <1>15. ListOK'
    <2>2. \A t \in Tasks' : t.op # "parse"
      BY <1>1, <1>7 DEF IInv, PhaseOK
    <2>4. \A b \in Batches, i \in Shown' : InTodo(b, i)' => item'[i].status = "importing"
      <3>1. \A b \in Batches, i \in s : ~InTodo(b, i)
        BY <1>6 DEF Been
      <3>2. \A b \in Batches, i \in Shown : InTodo(b, i) => item[i].status = "importing"
        BY DEF IInv, ListOK
      <3> QED
        BY <1>5, <1>6, <1>8, <1>9, <1>10, <3>1, <3>2
    <2>5. \A i \in Items : Been(i)' => Been(i) \/ i \in s
      BY <1>8, <1>9 DEF Been, Pulled, source
    <2>6. \A i \in s : Top[i] = f /\ under[i] # 0 /\ item'[i].req
      BY <1>4, <1>6, <1>10 DEF IInv, PhaseOK
    <2>7. ASSUME NEW i \in Items, under[i] # 0, Been(i)'
          PROVE  Top[i] \notin pulling' /\ (Top[i] \in Shown' => item'[Top[i]].req)
      <3>1. Top[i] \notin pulling'
        BY <1>3, <2>5, <2>6, <2>7 DEF IInv, ListOK
      <3>2. ASSUME Top[i] \in Shown' PROVE item'[Top[i]].req
        <4>1. CASE Top[i] \in s
          BY <4>1, <2>6
        <4>2. CASE Top[i] \in Shown
          BY <4>2, <1>5, <1>10, <2>5, <2>6, <2>7 DEF IInv, ListOK
        <4> QED
          BY <3>2, <4>1, <4>2, <1>8
      <3> QED
        BY <3>1, <3>2
    <2> QED
      BY <1>2, <1>8, <2>2, <2>4, <2>7 DEF ListOK, Pulled, source
  <1>16. TodosOK'
    BY DEF IInv, Pulled, source, TodosOK
  <1>17. NodesOK'
    <2>1. \A n \in 1..Len(nodes) : nodes[n].item \in Items /\ nodes[n].item \notin s
      <3>1. \A n \in 1..Len(nodes) : nodes[n].item \in Items
        BY NodeTypes DEF IInv
      <3>2. \A n \in 1..Len(nodes) : Been(nodes[n].item)
        BY DEF Been
      <3> QED
        BY <3>1, <3>2, <1>6
    <2>2. \A n \in 1..Len(nodes) : nodes[n].item \in Shown' => nodes[n].item \in Shown
      BY <1>8, <2>1
    <2> QED
      BY <1>1, <1>10, <2>1, <2>2 DEF IInv, Pulled, source, NodesOK, OneNodeEach, InTodo
  <1> QED
    BY <1>11, <1>12, <1>13, <1>14, <1>15, <1>16, <1>17 DEF IInv

\* SubmitItems: the list was empty, and what comes is new.
LEMMA SubmitItemsKeeps ==
    ASSUME IInv, NEW p \in Pulls, SubmitItems(p)
    PROVE  IInv'
  <1> DEFINE q == Sorted(Of(p))
  <1>1. /\ list' = q /\ q \in Seq(Items) /\ \A k, l \in 1..Len(q) : q[k] = q[l] => k = l
        /\ \A k \in 1..Len(q) : q[k] \in Items /\ pull[q[k]] = p
    <2>1. Of(p) \in SUBSET Items /\ \A i \in Of(p) : pull[i] = p
      BY DEF Of
    <2> QED
      BY <2>1, ItemsSorted DEF SubmitItems
  <1> HIDE DEF q
  <1>2. /\ kind \in {"file", "url"} /\ form[p] = "new" /\ DataOK
        /\ UNCHANGED <<source, open, item, checked, pulling, batch, nodes, lost, page, late>>
    BY DEF SubmitItems, FormShown, At, IInv
  <1> DEFINE op == IF kind = "file" THEN "upload" ELSE "parse"
             f == IF kind = "file" THEN "uploading" ELSE "parsing"
  <1>3. form' = [form EXCEPT ![p] = f] /\ f \in Forms /\ Enqueue(Each(op, 0, q)) /\ op \in {"upload", "parse"}
    <2>1. CASE kind = "file"
      BY <1>1, <2>1 DEF SubmitItems, Forms
    <2>2. CASE kind # "file"
      BY <1>1, <2>2 DEF SubmitItems, Forms
    <2> QED
      BY <2>1, <2>2
  <1>4. /\ \A i \in Items : IF pull[i] = p THEN Unread(i) /\ ~Unread(i)' /\ ~Uploading(i) /\ (Uploading(i)' <=> kind = "file")
                            ELSE (Unread(i)' <=> Unread(i)) /\ (Uploading(i)' <=> Uploading(i))
        /\ \A r \in Pulls : form'[r] = IF r = p THEN f ELSE form[r]
        /\ form' \in [Pulls -> Forms]
    <2>1. pull' = pull
      BY <1>2 DEF source
    <2> QED
      BY <1>2, <1>3, <2>1, FormMoves
  <1> HIDE DEF op, f
  <1>5. \A k \in 1..Len(q) : Unread(q[k]) /\ \A t \in Tasks : t.item # q[k]
    BY <1>1, <1>4, UnreadFacts
  <1>6. /\ QueueInv' /\ Tasks \subseteq Tasks'
        /\ \A t \in Tasks' : t \in Tasks \/ \E k \in 1..Len(q) : t = Task(op, q[k], 0)
    BY <1>1, <1>3, <1>5, PushEach DEF IInv
  <1>7. \A t \in Tasks' : \/ t \in Tasks
                          \/ /\ t.op = op /\ t.item \in Items /\ pull[t.item] = p
                             /\ t.batch = 0 /\ t.at = "start" /\ t.node = 0
    BY <1>1, <1>6 DEF Task
  <1>8. ItemState' = ItemState /\ BatchType' = BatchType /\ Top' = Top
    BY TypesStay, TopStays DEF SubmitItems, source
  <1>9. \A b \in Batches, i \in Items : InTodo(b, i)' <=> InTodo(b, i)
    BY <1>2 DEF InTodo
  <1>10. \A i \in Shown' : i \in Items /\ pull[i] = p /\ Unread(i)
    BY <1>1, <1>5 DEF Shown
  <1>11. DataOK'
    BY <1>1, <1>2, <1>4, <1>8 DEF DataOK, source
  <1>12. QueueInv'
    BY <1>6
  <1>13. TasksOK'
    <2>1. \A t \in Tasks : TaskOK(t)
      BY DEF IInv, TasksOK
    <2> QED
      BY <1>2, <1>3, <1>7, <2>1, NodeTypes DEF TasksOK, TaskOK
  <1>14. PhaseOK'
    <2>1. UNCHANGED <<kind, under, pull, item, pulling>>
      BY <1>2 DEF source
    <2>2. \A r \in Pulls : At(r, {"waiting", "left", "stuck"})' => kind \notin {"file", "url"}
      BY <1>4 DEF At, IInv, PhaseOK, f
    <2>3. ASSUME NEW i \in Items, Unread(i)'
          PROVE  /\ ~Been(i)' /\ i \notin pulling /\ \A t \in Tasks' : t.item # i
                 /\ kind = "file" => item[i].status = "common"
                 /\ kind = "url" => item[i].status = "parsing"
      <3>1. pull[i] # p /\ Unread(i)
        BY <1>4, <2>3
      <3>2. i \notin Shown' /\ \A t \in Tasks' : t.item # i
        BY <1>7, <1>10, <3>1, UnreadFacts
      <3>3. ~Been(i)'
        BY <1>2, <1>9, <3>1, <3>2, UnreadFacts DEF Been
      <3> QED
        BY <3>1, <3>2, <3>3 DEF IInv, PhaseOK
    <2>4. ASSUME NEW i \in Items, Uploading(i)'
          PROVE  /\ item[i].status \in {"common", "upload-error"}
                 /\ \A b \in Batches : ~InTodo(b, i)'
                 /\ \A t \in Tasks' : t.item = i => t.op = "upload"
      <3>1. CASE pull[i] = p
        <4>1. Unread(i) /\ kind = "file" /\ \A b \in Batches : ~InTodo(b, i)
          BY <1>4, <2>4, <3>1, UnreadFacts
        <4>2. \A t \in Tasks' : t.item = i => t.op = "upload"
          BY <1>7, <4>1, UnreadFacts DEF op
        <4> QED
          BY <1>9, <4>1, <4>2 DEF IInv, PhaseOK
      <3>2. CASE pull[i] # p
        <4>1. Uploading(i)
          BY <1>4, <2>4, <3>2
        <4>2. \A t \in Tasks' : t.item = i => t \in Tasks
          BY <1>7, <3>2
        <4> QED
          BY <1>9, <4>1, <4>2 DEF IInv, PhaseOK
      <3> QED
        BY <3>1, <3>2
    <2>5. ASSUME NEW t \in Tasks', t.op = "upload" PROVE Uploading(t.item)'
      <3>1. CASE t \in Tasks
        <4>1. t.item \in Items /\ Uploading(t.item)
          BY <2>5, <3>1, TaskTypes DEF IInv, PhaseOK, Things
        <4> QED
          BY <1>4, <4>1
      <3>2. CASE t \notin Tasks
        BY <1>4, <1>7, <2>5, <3>2 DEF op
      <3> QED
        BY <3>1, <3>2
    <2>7. /\ kind # "drive" => pulling = {} /\ \A i \in Items : item[i].req
          /\ \A i \in Items : under[i] # 0 => item[i].req
      BY DEF IInv, PhaseOK
    <2> QED
      BY <1>2, <2>1, <2>2, <2>3, <2>4, <2>5, <2>7 DEF PhaseOK
  <1>15. ListOK'
    <2>1. ASSUME NEW t \in Tasks', t.op = "parse", t.item \in Shown' PROVE item[t.item].status = "parsing"
      <3>1. Unread(t.item) /\ t.item \in Items /\ t \notin Tasks
        BY <1>10, <2>1, UnreadFacts
      <3>2. kind = "url"
        BY <1>2, <1>7, <2>1, <3>1 DEF op
      <3> QED
        BY <3>1, <3>2 DEF IInv, PhaseOK
    <2>2. \A b \in Batches, i \in Shown' : ~InTodo(b, i)'
      BY <1>9, <1>10, UnreadFacts
    <2>3. \A i \in Items : under[i] = 0
      BY <1>2 DEF DataOK
    <2> QED
      BY <1>1, <1>2, <2>1, <2>2, <2>3 DEF ListOK, source
  <1>16. TodosOK'
    BY <1>2 DEF IInv, TodosOK
  <1>17. NodesOK'
    <2>1. \A n \in 1..Len(nodes) : nodes[n].item \in Items /\ nodes[n].item \notin Shown'
      BY <1>10, NodeTypes, UnreadFacts DEF IInv
    <2>2. OneNodeEach'
      BY <1>2 DEF IInv, NodesOK, OneNodeEach
    <2>3. ASSUME NEW n \in (1..Len(nodes)) \ lost
          PROVE  \/ \E t \in Tasks' : t.at = "answer" /\ t.node = n
                 \/ \A b \in Batches : ~InTodo(b, nodes[n].item)
      BY <1>6, <2>3 DEF IInv, NodesOK
    <2> QED
      BY <1>2, <2>1, <2>2, <2>3 DEF NodesOK, InTodo
  <1> QED
    BY <1>11, <1>12, <1>13, <1>14, <1>15, <1>16, <1>17 DEF IInv

\* UploadsDone: the first tasks that parse what this submission uploaded.
LEMMA UploadsDoneKeeps ==
    ASSUME IInv, NEW p \in Pulls, UploadsDone(p)
    PROVE  IInv'
  <1> DEFINE s == {i \in Of(p) \cap With({"common"}) : item[i].id # 0}
             q == Sorted(s)
  <1>1. /\ Shown \subseteq Items /\ s \subseteq Shown /\ s \subseteq Items
        /\ \A i \in s : pull[i] = p /\ item[i].status = "common"
    BY ShownItems DEF IInv, With, Of
  <1>2. /\ q \in Seq(Items) /\ \A k \in 1..Len(q) : q[k] \in s
        /\ \A k, l \in 1..Len(q) : q[k] = q[l] => k = l
    BY <1>1, ItemsSorted
  <1>3. SetStatus(s, "parsing") /\ Enqueue(Each("parse", 0, q))
    BY DEF UploadsDone, source
  <1> HIDE DEF s, q
  <1>4. /\ form[p] = "uploading" /\ DataOK
        /\ UNCHANGED <<source, open, list, checked, pulling, batch, nodes, lost, page, late>>
        /\ \A t \in Tasks : t.op = "upload" => t.item \in Items /\ pull[t.item] # p
    BY TaskTypes DEF UploadsDone, At, Of, IInv, Things
  <1> DEFINE f == "done"
  <1>5. /\ \A i \in Items : IF pull[i] = p THEN ~Unread(i) /\ ~Unread(i)' /\ Uploading(i) /\ ~Uploading(i)'
                            ELSE (Unread(i)' <=> Unread(i)) /\ (Uploading(i)' <=> Uploading(i))
        /\ \A r \in Pulls : form'[r] = IF r = p THEN f ELSE form[r]
        /\ form' \in [Pulls -> Forms]
    <2>1. pull' = pull /\ form' = [form EXCEPT ![p] = f] /\ f \in Forms
      BY DEF UploadsDone, source, Forms
    <2> QED
      BY <1>4, <2>1, FormMoves
  <1>6. \A t \in Tasks : t.op = "import" => t.item \notin s
    BY <1>1, <1>5 DEF IInv, PhaseOK
  <1>7. \A i \in Items : pull[i] = p => \A t \in Tasks : t.item # i
    BY <1>4, <1>5 DEF IInv, PhaseOK
  <1>8. /\ QueueInv' /\ Tasks \subseteq Tasks'
        /\ \A t \in Tasks' : t \in Tasks \/ \E k \in 1..Len(q) : t = Task("parse", q[k], 0)
    <2>1. \A t \in Tasks, k \in 1..Len(q) : t.op = "parse" => t.item # q[k]
      BY <1>1, <1>2, <1>7
    <2> QED
      BY <1>2, <1>3, <2>1, PushEach DEF IInv
  <1>9. \A t \in Tasks' : \/ t \in Tasks
                          \/ t.op = "parse" /\ t.item \in s /\ t.batch = 0 /\ t.at = "start" /\ t.node = 0
    BY <1>2, <1>8 DEF Task
  <1>10. /\ item' \in [Items -> ItemState]
         /\ \A i \in Items :
               /\ item'[i].status = IF i \in s /\ i \in Shown THEN "parsing" ELSE item[i].status
               /\ item'[i].req = item[i].req
    BY <1>3, StatusSet DEF IInv, Statuses
  <1>19. ItemState' = ItemState /\ BatchType' = BatchType /\ Top' = Top
    BY TypesStay, TopStays DEF UploadsDone, source
  <1>20. /\ \A b \in Batches, i \in Items : InTodo(b, i)' <=> InTodo(b, i)
         /\ Shown' = Shown /\ \A i \in Items : Been(i)' <=> Been(i)
    <2>1. (\A b \in Batches, i \in Items : InTodo(b, i)' <=> InTodo(b, i)) /\ Shown' = Shown
      BY <1>4 DEF InTodo, Shown
    <2> QED
      BY <1>4, <2>1 DEF Been
  <1>21. \A i \in s : kind \in {"file", "url"}
    BY <1>1 DEF IInv, PhaseOK
  <1>11. DataOK'
    BY <1>4, <1>5, <1>10, <1>19 DEF DataOK, source
  <1>12. QueueInv'
    BY <1>8
  <1>13. TasksOK'
    <2>1. \A t \in Tasks : TaskOK(t)
      BY DEF IInv, TasksOK
    <2> QED
      BY <1>4, <1>9, <2>1, NodeTypes DEF TasksOK, TaskOK
  <1>14. PhaseOK'
    <2>1. UNCHANGED <<kind, under, pull, pulling>>
      BY <1>4 DEF source
    <2>2. \A r \in Pulls : At(r, {"waiting", "left", "stuck"})' => kind \notin {"file", "url"}
      BY <1>5 DEF At, IInv, PhaseOK
    <2>3. ASSUME NEW i \in Items, Unread(i)'
          PROVE  /\ ~Been(i)' /\ i \notin pulling /\ \A t \in Tasks' : t.item # i
                 /\ kind = "file" => item'[i].status = "common"
                 /\ kind = "url" => item'[i].status = "parsing"
      <3>1. pull[i] # p /\ Unread(i) /\ i \notin s
        BY <1>1, <1>5, <2>3
      <3>2. \A t \in Tasks' : t.item # i
        BY <1>9, <3>1, UnreadFacts
      <3>3. item'[i].status = item[i].status
        BY <1>10, <3>1
      <3> QED
        BY <1>20, <3>1, <3>2, <3>3 DEF IInv, PhaseOK
    <2>4. ASSUME NEW i \in Items, Uploading(i)'
          PROVE  /\ item'[i].status \in {"common", "upload-error"}
                 /\ \A b \in Batches : ~InTodo(b, i)'
                 /\ \A t \in Tasks' : t.item = i => t.op = "upload"
      <3>1. pull[i] # p /\ Uploading(i) /\ i \notin s
        BY <1>1, <1>5, <2>4
      <3>2. \A t \in Tasks' : t.item = i => t \in Tasks
        BY <1>9, <3>1
      <3>3. item'[i].status = item[i].status
        BY <1>10, <3>1
      <3> QED
        BY <1>20, <3>1, <3>2, <3>3 DEF IInv, PhaseOK
    <2>5. ASSUME NEW t \in Tasks', t.op = "upload" PROVE Uploading(t.item)'
      <3>1. t \in Tasks /\ t.item \in Items /\ pull[t.item] # p
        BY <1>4, <1>9, <2>5
      <3>2. Uploading(t.item)
        BY <2>5, <3>1 DEF IInv, PhaseOK
      <3> QED
        BY <1>5, <3>1, <3>2
    <2>6. kind \notin {"file", "url"} =>
             /\ \A t \in Tasks' : t.op = "import"
             /\ \A i \in Items : item'[i].status \in {"parsed", "importing", "imported", "import-error"}
      BY <1>9, <1>10, <1>21 DEF IInv, PhaseOK
    <2>7. /\ kind # "drive" => pulling = {} /\ \A i \in Items : item'[i].req
          /\ \A i \in Items : under[i] # 0 => item'[i].req
      BY <1>10 DEF IInv, PhaseOK
    <2> QED
      BY <2>1, <2>2, <2>3, <2>4, <2>5, <2>6, <2>7 DEF PhaseOK
  <1>15. ListOK'
    <2>1. \A t \in Tasks' : t.op = "parse" /\ t.item \in Shown => item'[t.item].status = "parsing"
      BY <1>1, <1>9, <1>10 DEF IInv, ListOK
    <2>2. \A b \in Batches, i \in Shown : InTodo(b, i) => item'[i].status = "importing"
      BY <1>1, <1>10 DEF IInv, ListOK
    <2>3. \A k, l \in 1..Len(list) : list[k] = list[l] => k = l
      BY DEF IInv, ListOK
    <2>4. \A i \in Items : under[i] # 0 /\ Been(i) => Top[i] \notin pulling /\ (Top[i] \in Shown => item'[Top[i]].req)
      BY <1>1, <1>10 DEF IInv, ListOK
    <2>5. pulling' = pulling /\ under' = under /\ list' = list
      BY <1>4 DEF source
    <2> QED
      BY <1>1, <1>19, <1>20, <2>1, <2>2, <2>3, <2>4, <2>5 DEF ListOK
  <1>16. TodosOK'
    BY <1>4 DEF IInv, TodosOK
  <1>17. NodesOK'
    <2>1. \A i \in Shown : item[i].status = "imported" => item'[i].status = "imported"
      BY <1>1, <1>10
    <2>2. UNCHANGED <<nodes, lost>>
      BY <1>4
    <2> QED
      BY <1>8, <1>20, <2>1, <2>2, NodesFrame DEF IInv
  <1> QED
    BY <1>11, <1>12, <1>13, <1>14, <1>15, <1>16, <1>17 DEF IInv

\* BatchParse: what failed to parse has no request of its own.
LEMMA BatchParseKeeps ==
    ASSUME IInv, BatchParse
    PROVE  IInv'
  <1> DEFINE s == Chosen({"parse-error"})
             q == Among(list, s)
  <1>1. Shown \subseteq Items /\ s \subseteq Shown /\ (list = <<>> => Shown = {})
        /\ \A i \in s : item[i].status = "parse-error"
    BY ShownItems DEF IInv, With, Chosen
  <1>2. /\ q \in Seq(Items) /\ \A k \in 1..Len(q) : q[k] \in s
        /\ \A k, l \in 1..Len(q) : q[k] = q[l] => k = l
    <2>1. list \in Seq(Items) /\ \A k, l \in 1..Len(list) : list[k] = list[l] => k = l
      BY DEF IInv, DataOK, ListOK
    <2> HIDE DEF s
    <2> QED
      BY <2>1, AmongFacts
  <1>3. SetStatus(s, "parsing") /\ Enqueue(Each("parse", 0, q)) /\ s # {}
    BY DEF BatchParse, source
  <1> HIDE DEF s, q
  <1>4. UNCHANGED <<kind, under, pull, form, nodes, batch, pulling, lost>>
    BY DEF BatchParse, source
  <1>5. \A t \in Tasks, k \in 1..Len(q) : t.op = "parse" => t.item # q[k]
    BY <1>1, <1>2 DEF IInv, ListOK
  <1>6. QueueInv' /\ Tasks \subseteq Tasks' /\ \A t \in Tasks' : t \in Tasks \/ \E k \in 1..Len(q) : t = Task("parse", q[k], 0)
    BY <1>2, <1>3, <1>5, PushEach DEF IInv
  <1>7. \A t \in Tasks' : \/ t \in Tasks
                          \/ t.op = "parse" /\ t.item \in s /\ t.batch = 0 /\ t.at = "start" /\ t.node = 0
    BY <1>2, <1>6 DEF Task
  <1>8. /\ item' \in [Items -> ItemState]
        /\ \A i \in Items :
              /\ item'[i].status = IF i \in s /\ i \in Shown THEN "parsing" ELSE item[i].status
              /\ item'[i].req = item[i].req
    BY <1>3, StatusSet DEF IInv, Statuses
  <1>9. ItemState' = ItemState /\ BatchType' = BatchType /\ Top' = Top
    BY TypesStay, TopStays DEF BatchParse, source
  <1>10. Shown' = Shown /\ (\A b \in Batches, i \in Items : InTodo(b, i)' <=> InTodo(b, i))
         /\ (\A i \in Items : Been(i)' <=> Been(i)) /\ \A t \in Tasks : t \in Tasks'
    <2>1. Shown' = Shown /\ (\A b \in Batches, i \in Items : InTodo(b, i)' <=> InTodo(b, i))
      BY DEF InTodo, Shown, BatchParse, source
    <2>2. \A i \in Items : Been(i)' <=> Been(i)
      BY <1>4, <2>1 DEF Been
    <2> QED
      BY <2>1, <2>2, <1>6
  <1>11. DataOK'
    BY <1>8, <1>9 DEF IInv, BatchParse, source, DataOK
  <1>12. QueueInv'
    BY <1>6
  <1>13. TasksOK'
    BY <1>4, <1>7, NodeTypes DEF IInv, BatchParse, source, TasksOK, TaskOK
  <1>14. PhaseOK'
    <2>1. \A i \in s : kind \in {"file", "url"}
      BY <1>1 DEF IInv, PhaseOK
    <2>2. \A t \in Tasks' : \/ t \in Tasks
                            \/ t.op = "parse" /\ t.item \in Shown /\ item[t.item].status = "parse-error"
      BY <1>1, <1>7
    <2>3. \A i \in Items :
             /\ item[i].req => item'[i].req
             /\ \/ item'[i].status = item[i].status
                \/ /\ i \in Shown /\ item[i].status \notin {"common", "upload-error"}
                   /\ kind \in {"file", "url"}
      BY <1>1, <1>8, <2>1
    <2>4. /\ \A i \in Items : (Unread(i)' <=> Unread(i)) /\ (Uploading(i)' <=> Uploading(i))
          /\ \A p \in Pulls : At(p, {"waiting", "left", "stuck"})' => kind \notin {"file", "url"}
      BY <1>4, FormStays
    <2> QED
      BY <1>4, <1>10, <2>2, <2>3, <2>4, PhaseFrame
  <1>15. ListOK'
    <2>1. \A t \in Tasks' : t.op = "parse" /\ t.item \in Shown => item'[t.item].status = "parsing"
      BY <1>1, <1>7, <1>8 DEF IInv, ListOK
    <2>2. \A b \in Batches, i \in Shown : InTodo(b, i) => item'[i].status = "importing"
      BY <1>1, <1>8 DEF IInv, ListOK
    <2>3. \A k, l \in 1..Len(list) : list[k] = list[l] => k = l
      BY DEF IInv, ListOK
    <2>4. \A i \in Items : under[i] # 0 /\ Been(i) => Top[i] \notin pulling /\ (Top[i] \in Shown => item'[Top[i]].req)
      BY <1>1, <1>8 DEF IInv, ListOK
    <2>5. pulling' = pulling /\ under' = under /\ list' = list
      BY DEF BatchParse, source
    <2> QED
      BY <1>1, <1>9, <1>10, <2>1, <2>2, <2>3, <2>4, <2>5 DEF ListOK
  <1>16. TodosOK'
    BY DEF IInv, BatchParse, source, TodosOK
  <1>17. NodesOK'
    <2>1. \A i \in Shown : item[i].status = "imported" => item'[i].status = "imported"
      BY <1>1, <1>8
    <2> QED
      BY <1>4, <1>10, <2>1, NodesFrame
  <1> QED
    BY <1>11, <1>12, <1>13, <1>14, <1>15, <1>16, <1>17 DEF IInv

\* UploadEnds: nothing else is about an item that is uploaded.
LEMMA UploadEndsKeeps ==
    ASSUME IInv, NEW t \in running, UploadEnds(t)
    PROVE  IInv'
  <1>1. t \in Tasks /\ t \in Things /\ TaskOK(t) /\ Shown \subseteq Items /\ t.op = "upload" /\ t.item \in Items
    BY TaskTypes, ShownItems DEF IInv, TasksOK, UploadEnds, Things
  <1>2. QueueInv' /\ Tasks' = Tasks \ {t}
    BY SettleKeeps DEF IInv, UploadEnds
  <1>3. ItemState' = ItemState /\ BatchType' = BatchType /\ Top' = Top
    BY TypesStay, TopStays DEF UploadEnds, source
  <1>4. /\ Uploading(t.item) /\ ~Unread(t.item) /\ item[t.item].status \in {"common", "upload-error"}
        /\ \A b \in Batches : ~InTodo(b, t.item)
        /\ \A u \in Tasks : u.item = t.item => u.op = "upload"
        /\ kind \in {"file", "url"} /\ t.at = "start"
    BY <1>1, UnreadFacts DEF IInv, PhaseOK, TaskOK
  <1>5. /\ item' \in [Items -> ItemState]
        /\ \A i \in Items :
              /\ IF i = t.item THEN item'[i].status \in {"common", "upload-error"}
                 ELSE item'[i].status = item[i].status
              /\ item'[i].req = item[i].req
    <2>1. CASE SetStatus({t.item}, "upload-error")
      BY <1>4, <2>1, StatusSet DEF IInv, Statuses
    <2>2. CASE Update({t.item}, LAMBDA i : [item[i] EXCEPT !.id = key[i]])
      <3>1. item' = [i \in Items |-> IF i \in {t.item} \cap Shown THEN [item[i] EXCEPT !.id = key[i]] ELSE item[i]]
        BY <2>2 DEF Update
      <3>2. item \in [Items -> ItemState] /\ \A i \in Items : key[i] \in Ids
        <4>1. key \in [Items -> Items] /\ item \in [Items -> ItemState]
          BY DEF IInv, DataOK
        <4> QED
          BY <4>1, NAssumption, NodeTypes DEF IInv, Items, Ids
      <3>3. ASSUME NEW i \in Items
            PROVE  /\ item'[i] \in ItemState /\ item'[i].status = item[i].status
                   /\ item'[i].req = item[i].req
        BY <3>1, <3>2 DEF ItemState
      <3> QED
        BY <1>4, <3>1, <3>3
    <2> QED
      BY <2>1, <2>2 DEF UploadEnds
  <1>6. UNCHANGED <<source, open, form, list, checked, pulling, batch, nodes, lost, page, late>>
    BY DEF UploadEnds
  <1>7. (\A b \in Batches, i \in Items : InTodo(b, i)' <=> InTodo(b, i)) /\ Shown' = Shown
    BY <1>6 DEF InTodo, Shown
  <1>8. \A i \in Items : Been(i)' <=> Been(i)
    BY <1>6, <1>7 DEF Been
  <1>11. DataOK'
    BY <1>3, <1>5, <1>6 DEF IInv, DataOK, source
  <1>12. QueueInv'
    BY <1>2
  <1>13. TasksOK'
    BY <1>2, <1>6 DEF IInv, TasksOK, TaskOK
  <1>14. PhaseOK'
    <2>1. UNCHANGED <<kind, under, pull, pulling, form>>
      BY <1>6 DEF source
    <2>2. /\ \A i \in Items : (Unread(i)' <=> Unread(i)) /\ (Uploading(i)' <=> Uploading(i))
          /\ \A p \in Pulls : At(p, {"waiting", "left", "stuck"})' => kind \notin {"file", "url"}
      BY <2>1, FormStays
    <2>3. ASSUME NEW i \in Items, Unread(i)'
          PROVE  /\ ~Been(i)' /\ i \notin pulling /\ \A u \in Tasks' : u.item # i
                 /\ kind = "file" => item'[i].status = "common"
                 /\ kind = "url" => item'[i].status = "parsing"
      <3>1. Unread(i) /\ i # t.item
        BY <1>4, <2>2, <2>3
      <3> QED
        BY <1>2, <1>5, <1>8, <3>1 DEF IInv, PhaseOK
    <2>4. ASSUME NEW i \in Items, Uploading(i)'
          PROVE  /\ item'[i].status \in {"common", "upload-error"}
                 /\ \A b \in Batches : ~InTodo(b, i)'
                 /\ \A u \in Tasks' : u.item = i => u.op = "upload"
      BY <1>2, <1>5, <1>7, <2>2, <2>4 DEF IInv, PhaseOK
    <2>5. \A u \in Tasks' : u.op = "upload" => Uploading(u.item)'
      BY <1>2, <2>1 DEF IInv, PhaseOK, Uploading, At
    <2>6. /\ kind # "drive" => pulling = {} /\ \A i \in Items : item'[i].req
          /\ \A i \in Items : under[i] # 0 => item'[i].req
      BY <1>5 DEF IInv, PhaseOK
    <2> QED
      BY <1>4, <2>1, <2>2, <2>3, <2>4, <2>5, <2>6 DEF PhaseOK
  <1>15. ListOK'
    <2>1. \A u \in Tasks' : u.op = "parse" /\ u.item \in Shown => item'[u.item].status = "parsing"
      BY <1>1, <1>2, <1>4, <1>5 DEF IInv, ListOK
    <2>2. \A b \in Batches, i \in Shown : InTodo(b, i) => item'[i].status = "importing"
      BY <1>1, <1>4, <1>5 DEF IInv, ListOK
    <2>3. \A k, l \in 1..Len(list) : list[k] = list[l] => k = l
      BY DEF IInv, ListOK
    <2>4. \A i \in Items : under[i] # 0 /\ Been(i) => Top[i] \notin pulling /\ (Top[i] \in Shown => item'[Top[i]].req)
      BY <1>1, <1>5 DEF IInv, ListOK
    <2>5. pulling' = pulling /\ under' = under /\ list' = list
      BY <1>6 DEF source
    <2> QED
      BY <1>1, <1>3, <1>7, <1>8, <2>1, <2>2, <2>3, <2>4, <2>5 DEF ListOK
  <1>16. TodosOK'
    BY <1>6 DEF IInv, TodosOK
  <1>17. NodesOK'
    <2>1. \A i \in Shown : item[i].status = "imported" => item'[i].status = "imported"
      BY <1>1, <1>4, <1>5
    <2>2. \A u \in Tasks : u.at = "answer" => u \in Tasks'
      BY <1>2, <1>4
    <2> QED
      BY <1>1, <1>6, <1>7, <2>1, <2>2, NodesFrame
  <1> QED
    BY <1>11, <1>12, <1>13, <1>14, <1>15, <1>16, <1>17 DEF IInv

\* ParseEnds: no other request is about the item.
LEMMA ParseEndsKeeps ==
    ASSUME IInv, NEW t \in running, ParseEnds(t)
    PROVE  IInv'
  <1>1. t \in Tasks /\ t \in Things /\ TaskOK(t) /\ Shown \subseteq Items
    BY TaskTypes, ShownItems DEF IInv, TasksOK
  <1>2. QueueInv' /\ Tasks' = Tasks \ {t}
    BY SettleKeeps DEF IInv, ParseEnds, source
  <1>3. ItemState' = ItemState /\ BatchType' = BatchType /\ Top' = Top
    BY TypesStay, TopStays DEF ParseEnds, source
  <1>4. PICK s \in {"parsed", "parse-error"} : SetStatus({t.item}, s)
    BY DEF ParseEnds, source
  <1>5. /\ item' \in [Items -> ItemState]
        /\ \A i \in Items :
              /\ item'[i].status = IF i = t.item /\ i \in Shown THEN s ELSE item[i].status
              /\ item'[i].req = item[i].req
    BY <1>4, StatusSet DEF IInv, Statuses
  <1>6. /\ t.op = "parse" /\ kind \in {"file", "url"} /\ t.item \in Items
        /\ t.item \in Shown => item[t.item].status = "parsing"
    <2>1. t.op = "parse" /\ t.item \in Items
      BY <1>1 DEF ParseEnds, Things
    <2> QED
      BY <1>1, <2>1 DEF IInv, PhaseOK, ListOK
  <1>7. \A u \in Tasks' : u.op = "parse" => u.item # t.item
    BY <1>1, <1>2, <1>6, TaskUnique DEF IInv, Same
  <1>8. Shown' = Shown /\ (\A b \in Batches, i \in Items : InTodo(b, i)' <=> InTodo(b, i))
         /\ (\A i \in Items : Been(i)' <=> Been(i))
    <2>1. Shown' = Shown /\ (\A b \in Batches, i \in Items : InTodo(b, i)' <=> InTodo(b, i))
      BY DEF InTodo, Shown, ParseEnds, source
    <2>2. \A i \in Items : Been(i)' <=> Been(i)
      BY <2>1 DEF Been, ParseEnds, source
    <2> QED
      BY <2>1, <2>2
  <1>11. DataOK'
    BY <1>3, <1>5 DEF IInv, ParseEnds, source, DataOK
  <1>12. QueueInv'
    BY <1>2
  <1>13. TasksOK'
    BY <1>2 DEF IInv, ParseEnds, source, TasksOK, TaskOK
  <1>14. PhaseOK'
    <2>1. UNCHANGED <<kind, under, pull, pulling, form>>
      BY DEF ParseEnds, source
    <2>2. /\ \A i \in Items : (Unread(i)' <=> Unread(i)) /\ (Uploading(i)' <=> Uploading(i))
          /\ \A p \in Pulls : At(p, {"waiting", "left", "stuck"})' => kind \notin {"file", "url"}
      BY <2>1, FormStays
    <2>3. \A i \in Items :
             /\ item[i].req => item'[i].req
             /\ \/ item'[i].status = item[i].status
                \/ /\ i \in Shown /\ item[i].status \notin {"common", "upload-error"}
                   /\ kind \in {"file", "url"}
      BY <1>5, <1>6
    <2> QED
      BY <1>2, <1>8, <2>1, <2>2, <2>3, PhaseFrame
  <1>15. ListOK'
    <2>1. \A u \in Tasks' : u.op = "parse" /\ u.item \in Shown => item'[u.item].status = "parsing"
      BY <1>1, <1>2, <1>5, <1>7 DEF IInv, ListOK
    <2>2. \A b \in Batches, i \in Shown : InTodo(b, i) => item'[i].status = "importing"
      BY <1>1, <1>5, <1>6 DEF IInv, ListOK
    <2>3. \A k, l \in 1..Len(list) : list[k] = list[l] => k = l
      BY DEF IInv, ListOK
    <2>4. \A i \in Items : under[i] # 0 /\ Been(i) => Top[i] \notin pulling /\ (Top[i] \in Shown => item'[Top[i]].req)
      BY <1>1, <1>5 DEF IInv, ListOK
    <2>5. pulling' = pulling /\ under' = under /\ list' = list
      BY DEF ParseEnds, source
    <2> QED
      BY <1>1, <1>3, <1>8, <2>1, <2>2, <2>3, <2>4, <2>5 DEF ListOK
  <1>16. TodosOK'
    BY DEF IInv, ParseEnds, source, TodosOK
  <1>17. NodesOK'
    <2>1. \A i \in Shown : item[i].status = "imported" => item'[i].status = "imported"
      BY <1>1, <1>5, <1>6
    <2>2. \A u \in Tasks : u.at = "answer" => u \in Tasks'
      BY <1>1, <1>2, <1>6 DEF TaskOK
    <2>3. UNCHANGED <<nodes, lost>>
      BY DEF ParseEnds
    <2> QED
      BY <1>8, <2>1, <2>2, <2>3, NodesFrame
  <1> QED
    BY <1>11, <1>12, <1>13, <1>14, <1>15, <1>16, <1>17 DEF IInv

\* BatchImport: what is taken has no request, and is in no other batch.
LEMMA BatchImportKeeps ==
    ASSUME IInv, NEW b \in Batches, BatchImport(b)
    PROVE  IInv'
  <1> DEFINE s == {i \in Chosen({"parsed", "import-error"}) : i \in folder => item[i].req}
             q == Among(list, s)
             td == [k \in 1..Len(q) |-> [item |-> q[k], parent |-> item[q[k]].parent]]
  <1>1. Shown \subseteq Items /\ s \subseteq Shown /\ (list = <<>> => Shown = {})
        /\ \A i \in s : item[i].status \in {"parsed", "import-error"}
    BY ShownItems DEF IInv, With, Chosen
  <1>2. /\ q \in Seq(Items) /\ \A k \in 1..Len(q) : q[k] \in s
        /\ \A k, l \in 1..Len(q) : q[k] = q[l] => k = l
    <2>1. list \in Seq(Items) /\ \A k, l \in 1..Len(list) : list[k] = list[l] => k = l
      BY DEF IInv, DataOK, ListOK
    <2> HIDE DEF s
    <2> QED
      BY <2>1, AmongFacts
  <1>3. SetStatus(s, "importing") /\ s # {} /\ batch[b].pc = "unused"
        /\ batch' = [batch EXCEPT ![b].pc = "running", ![b].todo = td]
    BY DEF BatchImport, source
  <1> HIDE DEF s, q
  <1>4. /\ td \in Seq([item : Items, parent : Ids]) /\ Len(td) = Len(q)
        /\ \A k \in 1..Len(td) : td[k].item = q[k]
    <2>1. \A i \in Items : item[i].parent \in Ids
      BY DEF IInv, DataOK, ItemState
    <2>2. \A k \in 1..Len(q) : q[k] \in Items
      BY <1>2
    <2> QED
      BY <1>2, <2>1, <2>2
  <1> HIDE DEF td
  <1>5. /\ batch' \in [Batches -> BatchType] /\ batch'[b].todo = td /\ batch'[b].pc = "running"
        /\ \A c \in Batches \ {b} : batch'[c] = batch[c]
        /\ batch[b].todo = <<>>
    <2>1. batch[b].todo = <<>> /\ batch \in [Batches -> BatchType]
      BY <1>3 DEF IInv, TodosOK, DataOK
    <2>2. batch'[b].pc = "running" /\ batch'[b].todo = td /\ batch'[b] \in BatchType
      BY <1>3, <1>4, <2>1 DEF BatchType
    <2>3. \A c \in Batches \ {b} : batch'[c] = batch[c]
      BY <1>3, <2>1
    <2>4. batch' = [c \in Batches |-> batch'[c]]
      BY <1>3, <2>1
    <2>5. \A c \in Batches : batch'[c] \in BatchType
      BY <2>1, <2>2, <2>3
    <2> QED
      BY <2>1, <2>2, <2>3, <2>4, <2>5
  <1>7. QueueInv' /\ Tasks' = Tasks
    BY QueueStays DEF IInv, BatchImport, source
  <1>8. /\ item' \in [Items -> ItemState]
        /\ \A i \in Items :
              /\ item'[i].status = IF i \in s /\ i \in Shown THEN "importing" ELSE item[i].status
              /\ item'[i].req = item[i].req
    BY <1>3, StatusSet DEF IInv, Statuses
  <1>9. ItemState' = ItemState /\ BatchType' = BatchType /\ Top' = Top /\ Shown' = Shown
    BY TypesStay, TopStays DEF BatchImport, source, Shown
  <1>10. \A c \in Batches, i \in Items :
            /\ InTodo(c, i) => c # b /\ InTodo(c, i)'
            /\ InTodo(c, i)' => IF c = b THEN i \in s ELSE InTodo(c, i)
    <2>1. Len(batch[b].todo) = 0
      BY <1>5
    <2>2. \A i \in Items : ~InTodo(b, i) /\ (InTodo(b, i)' => i \in s)
      BY <1>2, <1>4, <1>5, <2>1 DEF InTodo
    <2>3. \A c \in Batches \ {b}, i \in Items : InTodo(c, i)' <=> InTodo(c, i)
      BY <1>5 DEF InTodo
    <2> QED
      BY <2>2, <2>3
  <1>11. DataOK'
    BY <1>5, <1>8, <1>9 DEF IInv, BatchImport, source, DataOK
  <1>12. QueueInv'
    BY <1>7
  <1>13. TasksOK'
    <2>1. \A t \in Tasks : TaskOK(t)
      BY DEF IInv, TasksOK
    <2>2. \A t \in Tasks : t.op = "import" => t.batch \in Batches \ {b}
      BY <1>5, <2>1 DEF TaskOK
    <2>3. nodes' = nodes
      BY DEF BatchImport, source
    <2>4. \A t \in Tasks : TaskOK(t)'
      BY <1>5, <2>1, <2>2, <2>3 DEF TaskOK
    <2> QED
      BY <1>7, <2>4 DEF TasksOK
  <1>14. PhaseOK'
    <2>1. UNCHANGED <<kind, under, pull, pulling, form>>
      BY DEF BatchImport, source
    <2>2. /\ \A i \in Items : (Unread(i)' <=> Unread(i)) /\ (Uploading(i)' <=> Uploading(i))
          /\ \A p \in Pulls : At(p, {"waiting", "left", "stuck"})' => kind \notin {"file", "url"}
      BY <2>1, FormStays
    <2>3. \A i \in Items :
             /\ item[i].req => item'[i].req
             /\ \/ item'[i].status = item[i].status
                \/ /\ i \in Shown /\ item[i].status \notin {"common", "upload-error"}
                   /\ item'[i].status \in {"parsed", "importing", "imported", "import-error"}
      BY <1>1, <1>8
    <2>4. \A c \in Batches, i \in Items : InTodo(c, i)' =>
             \/ \E d \in Batches : InTodo(d, i)
             \/ i \in Shown /\ item[i].status \in {"parsed", "import-error"}
      BY <1>1, <1>10
    <2>5. \A i \in Items : Been(i)' => Been(i)
      BY <1>1, <1>9, <1>10 DEF Been, BatchImport, source
    <2> QED
      BY <1>7, <2>1, <2>2, <2>3, <2>4, <2>5, PhaseFrame
  <1>15. ListOK'
    <2>1. \A t \in Tasks : t.op = "parse" /\ t.item \in Shown => item'[t.item].status = "parsing"
      BY <1>1, <1>8 DEF IInv, ListOK
    <2>2. \A c \in Batches, i \in Shown : InTodo(c, i)' => item'[i].status = "importing"
      BY <1>1, <1>8, <1>10 DEF IInv, ListOK
    <2>3. \A k, l \in 1..Len(list) : list[k] = list[l] => k = l
      BY DEF IInv, ListOK
    <2>4. \A i \in Items : Been(i)' => Been(i)
      BY <1>1, <1>9, <1>10 DEF Been, BatchImport, source
    <2>5. \A i \in Items : under[i] # 0 /\ Been(i) => Top[i] \notin pulling /\ (Top[i] \in Shown => item'[Top[i]].req)
      BY <1>1, <1>8 DEF IInv, ListOK
    <2>6. pulling' = pulling /\ under' = under /\ list' = list
      BY DEF BatchImport, source
    <2> QED
      BY <1>1, <1>7, <1>9, <2>1, <2>2, <2>3, <2>4, <2>5, <2>6 DEF ListOK
  <1>16. TodosOK'
    <2>1. ASSUME NEW c \in Batches, NEW d \in Batches,
                 NEW k \in 1..Len(batch'[c].todo), NEW l \in 1..Len(batch'[d].todo),
                 batch'[c].todo[k].item = batch'[d].todo[l].item
          PROVE  c = d /\ k = l
      <3>1. CASE c # b /\ d # b
        BY <3>1, <1>5, <2>1 DEF IInv, TodosOK
      <3>2. CASE c = b /\ d = b
        BY <3>2, <1>2, <1>4, <1>5, <2>1
      <3>3. ASSUME NEW e \in Batches \ {b}, NEW m \in 1..Len(batch[e].todo), NEW n \in 1..Len(td),
                   batch[e].todo[m].item = td[n].item
            PROVE  FALSE
        <4>1. td[n].item \in s /\ InTodo(e, td[n].item)
          BY <1>2, <1>4, <3>3 DEF InTodo
        <4> QED
          BY <1>1, <4>1 DEF IInv, ListOK
      <3>4. CASE c = b /\ d # b
        BY <3>3, <3>4, <1>5, <2>1
      <3>5. CASE c # b /\ d = b
        BY <3>3, <3>5, <1>5, <2>1
      <3> QED
        BY <3>1, <3>2, <3>4, <3>5
    <2>2. \A c \in Batches : batch'[c].pc # "running" => batch'[c].todo = <<>>
      BY <1>5 DEF IInv, TodosOK
    <2> QED
      BY <2>1, <2>2 DEF TodosOK
  <1>17. NodesOK'
    <2>1. lost' = lost /\ nodes' = nodes /\ OneNodeEach'
      BY DEF IInv, BatchImport, source, NodesOK, OneNodeEach
    <2>2. ASSUME NEW n \in (1..Len(nodes)) \ lost
          PROVE  \/ \E t \in Tasks : t.at = "answer" /\ t.node = n
                 \/ \E i \in Items : /\ i = nodes[n].item /\ \A c \in Batches : ~InTodo(c, i)'
                                     /\ i \in Shown => item'[i].status = "imported"
      <3>1. PICK i \in Items : i = nodes[n].item
        BY NodeTypes DEF IInv
      <3>2. \/ \E t \in Tasks : t.at = "answer" /\ t.node = n
            \/ /\ \A c \in Batches : ~InTodo(c, i)
               /\ i \in Shown => item[i].status = "imported"
        BY <3>1 DEF IInv, NodesOK
      <3>3. (i \in Shown => item[i].status = "imported") => i \notin s
        BY <1>1
      <3>4. (\A c \in Batches : ~InTodo(c, i)) /\ i \notin s => \A c \in Batches : ~InTodo(c, i)'
        BY <1>10
      <3>5. i \notin s => item'[i].status = item[i].status
        BY <1>8
      <3> QED
        BY <3>1, <3>2, <3>3, <3>4, <3>5
    <2> QED
      BY <1>7, <1>9, <2>1, <2>2 DEF NodesOK, InTodo
  <1> QED
    BY <1>11, <1>12, <1>13, <1>14, <1>15, <1>16, <1>17 DEF IInv

\* One round of a batch is over: its item is in no batch any more.
LEMMA LeaveFacts ==
    ASSUME DataOK, TodosOK, NEW t, TaskOK(t), t.op = "import",
           NEW m \in [Items -> 0..Len(nodes)], Leave(t, m)
    PROVE  /\ batch' \in [Batches -> BatchType]
           /\ \A c \in Batches \ {t.batch} : batch'[c] = batch[c]
           /\ \A c \in Batches : batch'[c].pc = batch[c].pc
           /\ batch'[t.batch].map = m
           /\ \A c \in Batches : \A k \in 1..Len(batch'[c].todo) :
                 \E l \in 1..Len(batch[c].todo) : batch'[c].todo[k] = batch[c].todo[l]
           /\ \A c \in Batches, i \in Items : InTodo(c, i)' <=> InTodo(c, i) /\ i # t.item
           /\ TodosOK'
  <1> DEFINE b == t.batch
             q == batch[b].todo
             p == Tail(q)
  <1>1. b \in Batches /\ q # <<>> /\ t.item = q[1].item
    BY DEF TaskOK
  <1>2. q \in Seq([item : Items, parent : Ids])
    BY <1>1, BatchTypes
  <1>3. /\ p \in Seq([item : Items, parent : Ids]) /\ Len(p) = Len(q) - 1 /\ Len(q) \in Nat \ {0}
        /\ \A k \in 1..Len(p) : p[k] = q[k + 1] /\ k + 1 \in 1..Len(q)
        /\ \A k \in 2..Len(q) : k - 1 \in 1..Len(p) /\ q[k] = p[k - 1]
    BY <1>1, <1>2
  <1>4. /\ batch' = [batch EXCEPT ![b].todo = p, ![b].map = m]
        /\ batch \in [Batches -> BatchType] /\ batch[b] \in BatchType
    BY <1>1 DEF Leave, DataOK
  <1> HIDE DEF p
  <1>5. batch'[b].pc = batch[b].pc /\ batch'[b].todo = p /\ batch'[b].map = m /\ batch'[b] \in BatchType
    BY <1>1, <1>3, <1>4 DEF BatchType
  <1>6. \A c \in Batches \ {b} : batch'[c] = batch[c]
    BY <1>1, <1>4
  <1>7. batch' \in [Batches -> BatchType]
    <2>1. batch' = [c \in Batches |-> batch'[c]]
      BY <1>4
    <2>2. \A c \in Batches : batch'[c] \in BatchType
      BY <1>4, <1>5, <1>6
    <2> QED
      BY <2>1, <2>2
  <1>8. \A c, d \in Batches : \A k \in 1..Len(batch[c].todo), l \in 1..Len(batch[d].todo) :
           batch[c].todo[k].item = batch[d].todo[l].item => c = d /\ k = l
    BY DEF TodosOK
  <1>9. \A i \in Items : (\E k \in 1..Len(p) : p[k].item = i) <=> InTodo(b, i) /\ i # t.item
    <2>1. ASSUME NEW k \in 1..Len(p) PROVE InTodo(b, p[k].item) /\ p[k].item # t.item
      <3>1. p[k] = q[k + 1] /\ k + 1 \in 1..Len(q) /\ 1 \in 1..Len(q) /\ k + 1 # 1
        BY <1>3
      <3> QED
        BY <3>1, <1>1, <1>8 DEF InTodo
    <2>2. ASSUME NEW k \in 1..Len(q), q[k].item # t.item PROVE \E l \in 1..Len(p) : p[l].item = q[k].item
      <3>1. k \in 2..Len(q)
        BY <1>1, <1>3, <2>2
      <3> QED
        BY <3>1, <1>3
    <2>3. \A i : InTodo(b, i) <=> \E k \in 1..Len(q) : q[k].item = i
      BY DEF InTodo
    <2>4. ASSUME NEW i \in Items, \E k \in 1..Len(p) : p[k].item = i PROVE InTodo(b, i) /\ i # t.item
      BY <2>1, <2>4
    <2>5. ASSUME NEW i \in Items, InTodo(b, i), i # t.item PROVE \E k \in 1..Len(p) : p[k].item = i
      <3>1. PICK k \in 1..Len(q) : q[k].item = i
        BY <2>3, <2>5
      <3>2. \E l \in 1..Len(p) : p[l].item = q[k].item
        BY <2>2, <2>5, <3>1
      <3> QED
        BY <3>1, <3>2
    <2> QED
      BY <2>4, <2>5
  <1>10. ASSUME NEW c \in Batches \ {b}, NEW i \in Items, InTodo(c, i) PROVE i # t.item
    <2>1. 1 \in 1..Len(q)
      BY <1>3
    <2>2. PICK k \in 1..Len(batch[c].todo) : batch[c].todo[k].item = i
      BY <1>10 DEF InTodo
    <2>3. batch[c].todo[k].item # batch[b].todo[1].item
      BY <1>1, <1>8, <2>1
    <2> QED
      BY <1>1, <2>2, <2>3
  <1>11. \A c \in Batches, i \in Items : InTodo(c, i)' <=> InTodo(c, i) /\ i # t.item
    <2>1. \A i \in Items : InTodo(b, i)' <=> InTodo(b, i) /\ i # t.item
      BY <1>5, <1>9 DEF InTodo
    <2>2. \A c \in Batches \ {b}, i \in Items : InTodo(c, i)' <=> InTodo(c, i)
      BY <1>6 DEF InTodo
    <2> QED
      BY <1>10, <2>1, <2>2
  <1>12. TodosOK'
    <2>1. ASSUME NEW c \in Batches, NEW d \in Batches,
                 NEW k \in 1..Len(batch'[c].todo), NEW l \in 1..Len(batch'[d].todo),
                 batch'[c].todo[k].item = batch'[d].todo[l].item
          PROVE  c = d /\ k = l
      <3>1. ASSUME NEW e \in Batches, NEW n \in 1..Len(batch'[e].todo)
            PROVE  IF e = b THEN n + 1 \in 1..Len(batch[e].todo) /\ batch'[e].todo[n] = batch[e].todo[n + 1]
                   ELSE n \in 1..Len(batch[e].todo) /\ batch'[e].todo[n] = batch[e].todo[n]
        BY <1>3, <1>5, <1>6
      <3>2. PICK x \in 1..Len(batch[c].todo) :
               x = (IF c = b THEN k + 1 ELSE k) /\ batch'[c].todo[k] = batch[c].todo[x]
        BY <3>1
      <3>3. PICK y \in 1..Len(batch[d].todo) :
               y = (IF d = b THEN l + 1 ELSE l) /\ batch'[d].todo[l] = batch[d].todo[y]
        BY <3>1
      <3>4. c = d /\ x = y
        <4>1. batch[c].todo[x].item = batch[d].todo[y].item
          BY <2>1, <3>2, <3>3
        <4> QED
          BY <4>1, <1>8
      <3>5. k \in Nat /\ l \in Nat
        OBVIOUS
      <3> QED
        BY <3>2, <3>3, <3>4, <3>5
    <2>2. \A c \in Batches : batch'[c].pc # "running" => batch'[c].todo = <<>>
      BY <1>1, <1>5, <1>6 DEF TodosOK
    <2> QED
      BY <2>1, <2>2 DEF TodosOK
  <1>13. \A c \in Batches : \A k \in 1..Len(batch'[c].todo) :
            \E l \in 1..Len(batch[c].todo) : batch'[c].todo[k] = batch[c].todo[l]
    <2>1. \A k \in 1..Len(p) : \E l \in 1..Len(q) : p[k] = q[l]
      BY <1>3
    <2> SUFFICES ASSUME NEW c \in Batches, NEW k \in 1..Len(batch'[c].todo)
                 PROVE  \E l \in 1..Len(batch[c].todo) : batch'[c].todo[k] = batch[c].todo[l]
      OBVIOUS
    <2>2. CASE c = b
      <3>1. k \in 1..Len(p) /\ batch'[c].todo[k] = p[k]
        BY <1>5, <2>2
      <3> QED
        BY <2>1, <2>2, <3>1
    <2>3. CASE c # b
      <3>1. batch'[c] = batch[c]
        BY <1>6, <2>3
      <3> QED
        BY <3>1
    <2> QED
      BY <2>2, <2>3
  <1> QED
    BY <1>5, <1>6, <1>7, <1>11, <1>12, <1>13

\* CreateAnswered: the item has its node, and leaves its batch.
LEMMA CreateAnsweredKeeps ==
    ASSUME IInv, NEW t \in running, CreateAnswered(t)
    PROVE  IInv'
  <1>1. t \in Tasks /\ t \in Things /\ TaskOK(t) /\ Shown \subseteq Items
    BY TaskTypes, ShownItems DEF IInv, TasksOK
  <1>2. QueueInv' /\ Tasks' = Tasks \ {t}
    BY SettleKeeps DEF IInv, CreateAnswered, source
  <1>3. ItemState' = ItemState /\ BatchType' = BatchType /\ Top' = Top
    BY TypesStay, TopStays DEF CreateAnswered, source
  <1>4. /\ t.op = "import" /\ t.batch \in Batches /\ InTodo(t.batch, t.item) /\ t.item \in Items
        /\ t.item \in Shown => item[t.item].status = "importing"
    <2>1. t.op = "import"
      BY <1>1 DEF CreateAnswered, source, TaskOK
    <2>2. t.batch \in Batches /\ batch[t.batch].todo # <<>> /\ t.item = batch[t.batch].todo[1].item
      BY <1>1, <2>1 DEF TaskOK
    <2>3. Len(batch[t.batch].todo) \in Nat \ {0} /\ 1 \in 1..Len(batch[t.batch].todo)
      BY <2>2, BatchTypes DEF IInv
    <2>4. InTodo(t.batch, t.item) /\ t.item \in Items
      BY <1>1, <2>2, <2>3 DEF InTodo, Things
    <2> QED
      BY <2>1, <2>2, <2>4 DEF IInv, ListOK
  <1>5. PICK m \in [Items -> 0..Len(nodes)] : Leave(t, m)
    <2>1. batch[t.batch].map \in [Items -> 0..Len(nodes)]
      BY <1>4, BatchTypes DEF IInv
    <2>2. t.at = "answer" => [batch[t.batch].map EXCEPT ![key[t.item]] = t.node] \in [Items -> 0..Len(nodes)]
      <3>1. key[t.item] \in Items
        BY <1>4 DEF IInv, DataOK
      <3> QED
        BY <1>1, <1>4, <2>1, <3>1, NodeTypes DEF TaskOK, IInv
    <2> QED
      BY <2>1, <2>2 DEF CreateAnswered, source
  <1>6. /\ batch' \in [Batches -> BatchType]
        /\ \A c \in Batches \ {t.batch} : batch'[c] = batch[c]
        /\ \A c \in Batches : batch'[c].pc = batch[c].pc
        /\ \A c \in Batches, i \in Items : InTodo(c, i)' <=> InTodo(c, i) /\ i # t.item
        /\ TodosOK'
    BY <1>1, <1>4, <1>5, LeaveFacts DEF IInv
  <1>7. \A u \in Tasks' : u.op = "import" => u.batch # t.batch
    BY <1>1, <1>2, <1>4, TaskUnique DEF IInv, Same
  <1>8. Shown' = Shown /\ nodes' = nodes /\ (\A i \in Items : Been(i)' => Been(i))
    <2>1. Shown' = Shown /\ nodes' = nodes
      BY DEF Shown, CreateAnswered, source
    <2> QED
      BY <1>6, <2>1 DEF Been
  <1>9. /\ item' \in [Items -> ItemState]
        /\ \A i \in Items :
              /\ item'[i].status = IF i = t.item /\ i \in Shown THEN "imported" ELSE item[i].status
              /\ item'[i].req = item[i].req
    <2>1. item \in [Items -> ItemState]
      BY DEF IInv, DataOK
    <2>2. N + t.node \in Ids
      BY <1>1, NAssumption, NodeTypes DEF CreateAnswered, source, TaskOK, Ids, IInv
    <2>3. item' = [j \in Items |->
             IF j \notin Shown THEN item[j]
             ELSE IF j = t.item THEN [item[j] EXCEPT !.status = "imported", !.id = N + t.node]
             ELSE IF t.item \in folder /\ item[j].parent = key[t.item] THEN [item[j] EXCEPT !.parent = N + t.node]
             ELSE item[j]]
      BY DEF CreateAnswered, source, Imported
    <2>4. ASSUME NEW i \in Items
          PROVE  /\ item'[i] \in ItemState /\ item'[i].req = item[i].req
                 /\ item'[i].status = IF i = t.item /\ i \in Shown THEN "imported" ELSE item[i].status
      BY <2>1, <2>2, <2>3 DEF ItemState, Statuses
    <2> QED
      BY <2>3, <2>4
  <1>11. DataOK'
    BY <1>1, <1>3, <1>4, <1>6, <1>9 DEF IInv, CreateAnswered, source, DataOK, TaskOK
  <1>12. QueueInv'
    BY <1>2
  <1>13. TasksOK'
    BY <1>2, <1>6, <1>7, <1>8 DEF IInv, TasksOK, TaskOK
  <1>14. PhaseOK'
    <2>1. UNCHANGED <<kind, under, pull, pulling, form>>
      BY DEF CreateAnswered, source
    <2>2. /\ \A i \in Items : (Unread(i)' <=> Unread(i)) /\ (Uploading(i)' <=> Uploading(i))
          /\ \A p \in Pulls : At(p, {"waiting", "left", "stuck"})' => kind \notin {"file", "url"}
      BY <2>1, FormStays
    <2>3. \A i \in Items :
             /\ item[i].req => item'[i].req
             /\ \/ item'[i].status = item[i].status
                \/ /\ i \in Shown /\ item[i].status \notin {"common", "upload-error"}
                   /\ item'[i].status \in {"parsed", "importing", "imported", "import-error"}
      BY <1>4, <1>9
    <2> QED
      BY <1>2, <1>6, <1>8, <2>1, <2>2, <2>3, PhaseFrame
  <1>15. ListOK'
    <2>1. \A u \in Tasks : u.op = "parse" /\ u.item \in Shown => item'[u.item].status = "parsing"
      BY <1>1, <1>4, <1>9 DEF IInv, ListOK
    <2>2. \A c \in Batches, i \in Shown : InTodo(c, i)' => item'[i].status = "importing"
      BY <1>1, <1>6, <1>9 DEF IInv, ListOK
    <2>3. \A k, l \in 1..Len(list) : list[k] = list[l] => k = l
      BY DEF IInv, ListOK
    <2>4. \A i \in Items : under[i] # 0 /\ Been(i) => Top[i] \notin pulling /\ (Top[i] \in Shown => item'[Top[i]].req)
      BY <1>1, <1>9 DEF IInv, ListOK
    <2>5. pulling' = pulling /\ under' = under /\ list' = list
      BY DEF CreateAnswered, source
    <2> QED
      BY <1>1, <1>2, <1>3, <1>8, <2>1, <2>2, <2>3, <2>4, <2>5 DEF ListOK
  <1>16. TodosOK'
    BY <1>6
  <1>17. NodesOK'
    <2>1. OneNodeEach' /\ lost \subseteq lost'
      BY DEF IInv, NodesOK, CreateAnswered, source, OneNodeEach
    <2>2. ASSUME NEW n \in (1..Len(nodes)) \ lost'
          PROVE  \/ \E u \in Tasks' : u.at = "answer" /\ u.node = n
                 \/ \E i \in Items : /\ i = nodes[n].item /\ \A c \in Batches : ~InTodo(c, i)'
                                     /\ i \in Shown => item'[i].status = "imported"
      <3>1. PICK i \in Items : i = nodes[n].item
        BY NodeTypes DEF IInv
      <3>2. \/ \E u \in Tasks : u.at = "answer" /\ u.node = n
            \/ /\ \A c \in Batches : ~InTodo(c, i)
               /\ i \in Shown => item[i].status = "imported"
        BY <2>1, <3>1 DEF IInv, NodesOK
      <3>3. CASE n = t.node
        <4>1. i = t.item
          BY <1>1, <3>1, <3>3 DEF CreateAnswered, source, TaskOK
        <4> QED
          BY <4>1, <3>1, <1>6, <1>9
      <3>4. CASE \E u \in Tasks \ {t} : u.at = "answer" /\ u.node = n
        BY <3>4, <1>2
      <3>5. CASE (\A c \in Batches : ~InTodo(c, i)) /\ (i \in Shown => item[i].status = "imported")
        <4>1. i # t.item
          BY <1>4, <3>5
        <4>2. item'[i].status = item[i].status
          BY <1>9, <4>1
        <4> QED
          BY <3>1, <3>5, <4>2, <1>6
      <3> QED
        BY <3>2, <3>3, <3>4, <3>5
    <2> QED
      BY <1>8, <2>1, <2>2 DEF NodesOK, InTodo
  <1> QED
    BY <1>11, <1>12, <1>13, <1>14, <1>15, <1>16, <1>17 DEF IInv

\* ImportFails: the item leaves its batch, and its node, if it has one, is lost.
LEMMA ImportFailsKeeps ==
    ASSUME IInv, NEW t \in running, ImportFails(t)
    PROVE  IInv'
  <1>1. t \in Tasks /\ t \in Things /\ TaskOK(t) /\ Shown \subseteq Items
    BY TaskTypes, ShownItems DEF IInv, TasksOK
  <1>2. QueueInv' /\ Tasks' = Tasks \ {t}
    BY SettleKeeps DEF IInv, ImportFails, source
  <1>3. ItemState' = ItemState /\ BatchType' = BatchType /\ Top' = Top
    BY TypesStay, TopStays DEF ImportFails, source
  <1>4. /\ t.op = "import" /\ t.batch \in Batches /\ InTodo(t.batch, t.item) /\ t.item \in Items
        /\ t.item \in Shown => item[t.item].status = "importing"
    <2>1. t.op = "import"
      BY <1>1 DEF ImportFails, source, TaskOK
    <2>2. t.batch \in Batches /\ batch[t.batch].todo # <<>> /\ t.item = batch[t.batch].todo[1].item
      BY <1>1, <2>1 DEF TaskOK
    <2>3. Len(batch[t.batch].todo) \in Nat \ {0} /\ 1 \in 1..Len(batch[t.batch].todo)
      BY <2>2, BatchTypes DEF IInv
    <2>4. InTodo(t.batch, t.item) /\ t.item \in Items
      BY <1>1, <2>2, <2>3 DEF InTodo, Things
    <2> QED
      BY <2>1, <2>2, <2>4 DEF IInv, ListOK
  <1>5. PICK m \in [Items -> 0..Len(nodes)] : Leave(t, m)
    <2>1. batch[t.batch].map \in [Items -> 0..Len(nodes)]
      BY <1>4, BatchTypes DEF IInv
    <2> QED
      BY <2>1 DEF ImportFails, source
  <1>6. /\ batch' \in [Batches -> BatchType]
        /\ \A c \in Batches \ {t.batch} : batch'[c] = batch[c]
        /\ \A c \in Batches : batch'[c].pc = batch[c].pc
        /\ \A c \in Batches, i \in Items : InTodo(c, i)' <=> InTodo(c, i) /\ i # t.item
        /\ TodosOK'
    BY <1>1, <1>4, <1>5, LeaveFacts DEF IInv
  <1>7. \A u \in Tasks' : u.op = "import" => u.batch # t.batch
    BY <1>1, <1>2, <1>4, TaskUnique DEF IInv, Same
  <1>8. Shown' = Shown /\ nodes' = nodes /\ (\A i \in Items : Been(i)' => Been(i))
    <2>1. Shown' = Shown /\ nodes' = nodes
      BY DEF Shown, ImportFails, source
    <2> QED
      BY <1>6, <2>1 DEF Been
  <1>9. /\ item' \in [Items -> ItemState]
        /\ \A i \in Items :
              /\ item'[i].status = IF i = t.item /\ i \in Shown THEN "import-error" ELSE item[i].status
              /\ item'[i].req = item[i].req
    <2>1. SetStatus({t.item}, "import-error")
      BY DEF ImportFails, source
    <2> QED
      BY <2>1, StatusSet DEF IInv, Statuses
  <1>11. DataOK'
    BY <1>1, <1>3, <1>4, <1>6, <1>9 DEF IInv, ImportFails, source, DataOK, TaskOK
  <1>12. QueueInv'
    BY <1>2
  <1>13. TasksOK'
    BY <1>2, <1>6, <1>7, <1>8 DEF IInv, TasksOK, TaskOK
  <1>14. PhaseOK'
    <2>1. UNCHANGED <<kind, under, pull, pulling, form>>
      BY DEF ImportFails, source
    <2>2. /\ \A i \in Items : (Unread(i)' <=> Unread(i)) /\ (Uploading(i)' <=> Uploading(i))
          /\ \A p \in Pulls : At(p, {"waiting", "left", "stuck"})' => kind \notin {"file", "url"}
      BY <2>1, FormStays
    <2>3. \A i \in Items :
             /\ item[i].req => item'[i].req
             /\ \/ item'[i].status = item[i].status
                \/ /\ i \in Shown /\ item[i].status \notin {"common", "upload-error"}
                   /\ item'[i].status \in {"parsed", "importing", "imported", "import-error"}
      BY <1>4, <1>9
    <2> QED
      BY <1>2, <1>6, <1>8, <2>1, <2>2, <2>3, PhaseFrame
  <1>15. ListOK'
    <2>1. \A u \in Tasks : u.op = "parse" /\ u.item \in Shown => item'[u.item].status = "parsing"
      BY <1>1, <1>4, <1>9 DEF IInv, ListOK
    <2>2. \A c \in Batches, i \in Shown : InTodo(c, i)' => item'[i].status = "importing"
      BY <1>1, <1>6, <1>9 DEF IInv, ListOK
    <2>3. \A k, l \in 1..Len(list) : list[k] = list[l] => k = l
      BY DEF IInv, ListOK
    <2>4. \A i \in Items : under[i] # 0 /\ Been(i) => Top[i] \notin pulling /\ (Top[i] \in Shown => item'[Top[i]].req)
      BY <1>1, <1>9 DEF IInv, ListOK
    <2>5. pulling' = pulling /\ under' = under /\ list' = list
      BY DEF ImportFails, source
    <2> QED
      BY <1>1, <1>2, <1>3, <1>8, <2>1, <2>2, <2>3, <2>4, <2>5 DEF ListOK
  <1>16. TodosOK'
    BY <1>6
  <1>17. NodesOK'
    <2>1. OneNodeEach' /\ lost \subseteq lost'
      BY DEF IInv, NodesOK, ImportFails, source, OneNodeEach
    <2>2. ASSUME NEW n \in (1..Len(nodes)) \ lost'
          PROVE  \/ \E u \in Tasks' : u.at = "answer" /\ u.node = n
                 \/ \E i \in Items : /\ i = nodes[n].item /\ \A c \in Batches : ~InTodo(c, i)'
                                     /\ i \in Shown => item'[i].status = "imported"
      <3>1. PICK i \in Items : i = nodes[n].item
        BY NodeTypes DEF IInv
      <3>2. \/ \E u \in Tasks : u.at = "answer" /\ u.node = n
            \/ /\ \A c \in Batches : ~InTodo(c, i)
               /\ i \in Shown => item[i].status = "imported"
        BY <2>1, <3>1 DEF IInv, NodesOK
      <3>3. t.at # "answer" \/ t.node # n
        BY <2>2 DEF ImportFails, source
      <3>4. CASE \E u \in Tasks \ {t} : u.at = "answer" /\ u.node = n
        BY <3>4, <1>2
      <3>5. CASE (\A c \in Batches : ~InTodo(c, i)) /\ (i \in Shown => item[i].status = "imported")
        <4>1. i # t.item
          BY <1>4, <3>5
        <4>2. item'[i].status = item[i].status
          BY <1>9, <4>1
        <4> QED
          BY <3>1, <3>5, <4>2, <1>6
      <3> QED
        BY <3>2, <3>3, <3>4, <3>5
    <2> QED
      BY <1>8, <2>1, <2>2 DEF NodesOK, InTodo
  <1> QED
    BY <1>11, <1>12, <1>13, <1>14, <1>15, <1>16, <1>17 DEF IInv

\* LoopNext, nothing left: the batch is over.
LEMMA LoopEndsKeeps ==
    ASSUME IInv, NEW b \in Batches, LoopNext(b), batch[b].todo = <<>>
    PROVE  IInv'
  <1>1. batch' = [batch EXCEPT ![b].pc = "over"] /\ UNCHANGED <<queue, running>> /\ batch[b].pc = "running"
    BY DEF LoopNext, source
  <1>2. QueueInv' /\ Tasks' = Tasks
    BY <1>1, QueueStays DEF IInv
  <1>3. ItemState' = ItemState /\ BatchType' = BatchType /\ Top' = Top /\ Shown' = Shown
    BY TypesStay, TopStays DEF LoopNext, source, dialog, Shown
  <1>4. batch \in [Batches -> BatchType]
    BY DEF IInv, DataOK
  <1>5. /\ batch' \in [Batches -> BatchType]
        /\ \A c \in Batches : batch'[c].todo = batch[c].todo /\ (c # b => batch'[c] = batch[c])
        /\ batch'[b].pc = "over"
    BY <1>1, <1>4 DEF BatchType
  <1>6. (\A c \in Batches, i \in Items : InTodo(c, i)' <=> InTodo(c, i)) /\ (\A i \in Items : Been(i)' <=> Been(i))
    <2>1. \A c \in Batches, i \in Items : InTodo(c, i)' <=> InTodo(c, i)
      BY <1>5 DEF InTodo
    <2> QED
      BY <1>3, <2>1 DEF Been, LoopNext, source
  <1>11. DataOK'
    BY <1>3, <1>5 DEF IInv, LoopNext, source, dialog, DataOK
  <1>12. QueueInv'
    BY <1>2
  <1>13. TasksOK'
    BY <1>2, <1>5 DEF IInv, LoopNext, source, TasksOK, TaskOK
  <1>14. PhaseOK'
    <2>1. UNCHANGED <<kind, under, pull, pulling, form>>
      BY DEF LoopNext, source, dialog
    <2>2. /\ \A i \in Items : (Unread(i)' <=> Unread(i)) /\ (Uploading(i)' <=> Uploading(i))
          /\ \A p \in Pulls : At(p, {"waiting", "left", "stuck"})' => kind \notin {"file", "url"}
      BY <2>1, FormStays
    <2>3. item' = item
      BY DEF LoopNext, dialog
    <2> QED
      BY <1>2, <1>6, <2>1, <2>2, <2>3, PhaseFrame
  <1>15. ListOK'
    BY <1>2, <1>3, <1>6, ShownItems DEF IInv, LoopNext, source, dialog, ListOK
  <1>16. TodosOK'
    BY <1>5 DEF IInv, TodosOK
  <1>17. NodesOK'
    BY <1>2, <1>3, <1>5 DEF IInv, LoopNext, source, dialog, NodesOK, OneNodeEach, InTodo
  <1> QED
    BY <1>11, <1>12, <1>13, <1>14, <1>15, <1>16, <1>17 DEF IInv

\* Pushing one task that is new.
LEMMA EnqueueOne ==
    ASSUME QueueInv, NEW u \in Things, Enqueue(<<u>>), \A t \in Tasks : ~Same(t, u)
    PROVE  QueueInv' /\ Tasks' = Tasks \cup {u}
  <1> DEFINE ts == <<u>>
  <1>1. ts \in Seq(Things) /\ Len(ts) = 1 /\ ts[1] = u /\ Enqueue(ts)
    OBVIOUS
  <1> HIDE DEF ts
  <1>2. \A k, l \in 1..Len(ts) : Same(ts[k], ts[l]) => k = l
    BY <1>1
  <1>3. \A k \in 1..Len(ts), t \in Tasks : ~Same(t, ts[k])
    BY <1>1
  <1>4. QueueInv' /\ Tasks' = Tasks \cup {ts[k] : k \in 1..Len(ts)}
    BY <1>1, <1>2, <1>3, EnqueueKeeps
  <1>5. {ts[k] : k \in 1..Len(ts)} = {u}
    BY <1>1
  <1> QED
    BY <1>4, <1>5

\* LoopNext: the batch has no other task.
LEMMA LoopPushesKeeps ==
    ASSUME IInv, NEW b \in Batches, LoopNext(b), batch[b].todo # <<>>
    PROVE  IInv'
  <1>0. PICK i : i = Head(batch[b].todo).item
    OBVIOUS
  <1> DEFINE u == Task("import", i, b)
             ts == <<u>>
  <1>1. Enqueue(ts) /\ batch' = batch /\ batch[b].pc = "running" /\ \A t \in Tasks : t.batch # b
    BY <1>0 DEF LoopNext, source
  <1>2. i \in Items /\ i = batch[b].todo[1].item
    <2>1. Len(batch[b].todo) \in Nat \ {0} /\ Head(batch[b].todo) = batch[b].todo[1] /\ 1 \in 1..Len(batch[b].todo)
      BY BatchTypes DEF IInv
    <2> QED
      BY <2>1, <1>0, BatchTypes DEF IInv
  <1>3. u \in Things /\ u.op = "import" /\ u.item = i /\ u.batch = b /\ u.at = "start" /\ u.node = 0
    <2>1. b \in 0..MaxBatches
      BY LimitAssumption DEF Batches
    <2> QED
      BY <1>2, <2>1 DEF Task, Things
  <1> HIDE DEF u
  <1>4. QueueInv' /\ Tasks' = Tasks \cup {u}
    <2>1. \A t \in Tasks : ~Same(t, u)
      BY <1>1, <1>3 DEF Same
    <2> QED
      BY <1>1, <1>3, <2>1, EnqueueOne DEF IInv
  <1>5. ItemState' = ItemState /\ BatchType' = BatchType /\ Top' = Top /\ Shown' = Shown
    BY TypesStay, TopStays DEF LoopNext, source, dialog, Shown
  <1>6. (\A c \in Batches, j \in Items : InTodo(c, j)' <=> InTodo(c, j)) /\ (\A j \in Items : Been(j)' <=> Been(j))
    <2>1. \A c \in Batches, j \in Items : InTodo(c, j)' <=> InTodo(c, j)
      BY <1>1 DEF InTodo
    <2> QED
      BY <1>5, <2>1 DEF Been, LoopNext, source
  <1>11. DataOK'
    BY <1>1, <1>5 DEF IInv, LoopNext, source, dialog, DataOK
  <1>12. QueueInv'
    BY <1>4
  <1>13. TasksOK'
    <2>1. \A t \in Tasks : TaskOK(t)'
      BY <1>1 DEF IInv, LoopNext, source, TasksOK, TaskOK
    <2>2. TaskOK(u)'
      BY <1>1, <1>2, <1>3, NodeTypes DEF IInv, LoopNext, source, TaskOK
    <2> QED
      BY <1>4, <2>1, <2>2 DEF TasksOK
  <1>14. PhaseOK'
    <2>1. UNCHANGED <<kind, under, pull, pulling, form>>
      BY DEF LoopNext, source, dialog
    <2>2. /\ \A j \in Items : (Unread(j)' <=> Unread(j)) /\ (Uploading(j)' <=> Uploading(j))
          /\ \A p \in Pulls : At(p, {"waiting", "left", "stuck"})' => kind \notin {"file", "url"}
      BY <2>1, FormStays
    <2>3. item' = item
      BY DEF LoopNext, dialog
    <2>4. InTodo(b, i)
      <3>1. 1 \in 1..Len(batch[b].todo)
        BY BatchTypes DEF IInv
      <3> QED
        BY <1>2, <3>1 DEF InTodo
    <2> QED
      BY <1>2, <1>3, <1>4, <1>6, <2>1, <2>2, <2>3, <2>4, PhaseFrame
  <1>15. ListOK'
    BY <1>3, <1>4, <1>5, <1>6, ShownItems DEF IInv, LoopNext, source, dialog, ListOK
  <1>16. TodosOK'
    BY <1>1 DEF IInv, TodosOK
  <1>17. NodesOK'
    BY <1>1, <1>4, <1>5 DEF IInv, LoopNext, source, dialog, NodesOK, OneNodeEach, InTodo
  <1> QED
    BY <1>11, <1>12, <1>13, <1>14, <1>15, <1>16, <1>17 DEF IInv

\* Export.
LEMMA ExportKeeps ==
    ASSUME IInv, NEW t \in running, Export(t)
    PROVE  IInv'
  <1> DEFINE u == [t EXCEPT !.at = IF t.at = "start" THEN "poll" ELSE "create"]
  <1>0. u.at # "answer" /\ u.node = t.node
    BY TaskTypes DEF IInv, Things
  <1>1. t \in Tasks /\ t \in Things /\ TaskOK(t) /\ t.op = "import" /\ t.at # "answer"
    BY TaskTypes DEF IInv, TasksOK, Export, source
  <1>2. u \in Things /\ u.op = t.op /\ u.item = t.item /\ u.batch = t.batch /\ Onward(t, u)
    BY <1>1, NodeTypes DEF Export, source, Things, IInv
  <1> HIDE DEF u
  <1>3. QueueInv' /\ Tasks' = (Tasks \ {t}) \cup {u}
    BY <1>2, OnwardKeeps DEF IInv
  <1>4. ItemState' = ItemState /\ BatchType' = BatchType /\ Top' = Top /\ Shown' = Shown
    BY TypesStay, TopStays DEF Export, source, dialog, Shown
  <1>5. (\A c \in Batches, j \in Items : InTodo(c, j)' <=> InTodo(c, j)) /\ (\A j \in Items : Been(j)' <=> Been(j))
    <2>1. \A c \in Batches, j \in Items : InTodo(c, j)' <=> InTodo(c, j)
      BY DEF InTodo, Export, source
    <2> QED
      BY <1>4, <2>1 DEF Been, Export, source
  <1>6. (\A x \in Tasks' : \E y \in Tasks : x.op = y.op /\ x.item = y.item /\ x.batch = y.batch) /\ Tasks # {}
    BY <1>1, <1>2, <1>3
  <1>11. DataOK'
    BY <1>4 DEF IInv, Export, source, dialog, DataOK
  <1>12. QueueInv'
    BY <1>3
  <1>13. TasksOK'
    <2>1. \A x \in Tasks : TaskOK(x)'
      BY DEF IInv, Export, source, TasksOK, TaskOK
    <2>2. TaskOK(u)'
      BY <1>0, <1>1, <1>2, <2>1 DEF TaskOK
    <2> QED
      BY <1>3, <2>1, <2>2 DEF TasksOK
  <1>14. PhaseOK'
    <2>1. UNCHANGED <<kind, under, pull, pulling, form>>
      BY DEF Export, source, dialog
    <2>2. /\ \A i \in Items : (Unread(i)' <=> Unread(i)) /\ (Uploading(i)' <=> Uploading(i))
          /\ \A p \in Pulls : At(p, {"waiting", "left", "stuck"})' => kind \notin {"file", "url"}
      BY <2>1, FormStays
    <2>3. item' = item
      BY DEF Export, dialog
    <2> QED
      BY <1>5, <1>6, <2>1, <2>2, <2>3, PhaseFrame
  <1>15. ListOK'
    BY <1>4, <1>5, <1>6, ShownItems DEF IInv, Export, source, dialog, ListOK
  <1>16. TodosOK'
    BY DEF IInv, Export, source, TodosOK
  <1>17. NodesOK'
    <2>1. \A n : (\E x \in Tasks : x.at = "answer" /\ x.node = n) => \E x \in Tasks' : x.at = "answer" /\ x.node = n
      BY <1>1, <1>3
    <2>2. lost' = lost /\ nodes' = nodes /\ item' = item /\ batch' = batch /\ OneNodeEach'
      BY DEF IInv, Export, source, dialog, NodesOK, OneNodeEach
    <2>3. \A n \in (1..Len(nodes)) \ lost :
             \/ \E y \in Tasks' : y.at = "answer" /\ y.node = n
             \/ /\ \A c \in Batches : ~InTodo(c, nodes[n].item)
                /\ nodes[n].item \in Shown => item[nodes[n].item].status = "imported"
      BY <2>1 DEF IInv, NodesOK
    <2> QED
      BY <1>4, <2>2, <2>3 DEF NodesOK, InTodo
  <1> QED
    BY <1>11, <1>12, <1>13, <1>14, <1>15, <1>16, <1>17 DEF IInv

\* CreateNode: another node of the item had its answer lost.
LEMMA CreateNodeKeeps ==
    ASSUME IInv, NEW t \in running, CreateNode(t)
    PROVE  IInv'
  <1>a. PICK n : n = Len(nodes) + 1
    OBVIOUS
  <1>b. PICK x : x = [item |-> t.item, parent |-> Parent(t), batch |-> t.batch]
    OBVIOUS
  <1> DEFINE u == [t EXCEPT !.at = "answer", !.node = n]
             R == [item : Items, parent : 0..Len(nodes), batch : Batches]
             R2 == [item : Items, parent : 0..n, batch : Batches]
  <1>0. u.at = "answer" /\ u.node = n
    BY TaskTypes DEF IInv, Things
  <1>1. t \in Tasks /\ t \in Things /\ TaskOK(t) /\ t.op = "import" 
    BY TaskTypes DEF IInv, TasksOK, CreateNode, source
  <1>9. t.at # "answer"
    BY DEF CreateNode, source
  <1>2. u \in Things /\ u.op = t.op /\ u.item = t.item /\ u.batch = t.batch /\ Onward(t, u)
    <2>1. n \in Nat
      BY <1>a, NodeTypes DEF IInv
    <2>2. u \in Things /\ u.op = t.op /\ u.item = t.item /\ u.batch = t.batch
      BY <1>1, <2>1 DEF Things
    <2>3. Onward(t, u)
      BY <1>a DEF CreateNode, source
    <2> QED
      BY <2>2, <2>3
  <1> HIDE DEF u
  <1>3. QueueInv' /\ Tasks' = (Tasks \ {t}) \cup {u}
    BY <1>2, OnwardKeeps DEF IInv
  <1>4. t.batch \in Batches /\ t.item \in Items /\ InTodo(t.batch, t.item)
        /\ batch[t.batch].todo # <<>>
    <2>1. t.batch \in Batches /\ batch[t.batch].todo # <<>> /\ t.item = batch[t.batch].todo[1].item
      BY <1>1 DEF TaskOK
    <2>2. Len(batch[t.batch].todo) \in Nat \ {0} /\ 1 \in 1..Len(batch[t.batch].todo)
      BY <2>1, BatchTypes DEF IInv
    <2> QED
      BY <1>1, <2>1, <2>2 DEF InTodo, Things
  <1>5. /\ nodes \in Seq(R) /\ nodes' = Append(nodes, x) /\ Len(nodes) \in Nat /\ n \in Nat
        /\ x \in R2 /\ R \subseteq R2 /\ x.item = t.item
    <2>1. Parent(t) \in 0..Len(nodes)
      <3>1. batch[t.batch].map \in [Items -> 0..Len(nodes)] /\ 0 \in 0..Len(nodes)
        BY <1>4, BatchTypes, NodeTypes DEF IInv
      <3> QED
        BY <3>1 DEF Parent
    <2>2. Len(nodes) \in Nat /\ nodes \in Seq(R) /\ 0..Len(nodes) \subseteq 0..n
      BY <1>a, NodeTypes DEF IInv, DataOK
    <2> QED
      BY <1>4, <1>a, <1>b, <2>1, <2>2 DEF CreateNode, source
  <1> HIDE DEF R
  <1>6. /\ nodes' \in Seq(R2) /\ Len(nodes') = n /\ nodes'[n] = x
        /\ \A k \in 1..Len(nodes) : nodes'[k] = nodes[k] /\ k # n /\ k \in 1..n
        /\ \A k \in 1..n : k \in 1..Len(nodes) \/ k = n
    <2>1. nodes \in Seq(R2)
      BY <1>5, SeqMonotonic
    <2> HIDE DEF R2
    <2> QED
      BY <1>5, <1>a, <2>1
  <1>7. ItemState \subseteq ItemState' /\ BatchType \subseteq BatchType' /\ Top' = Top /\ Shown' = Shown
    <2>1. Ids \subseteq Ids' /\ 0..Len(nodes) \subseteq 0..Len(nodes')
      BY <1>5, <1>6, <1>a, NAssumption DEF Ids
    <2>2. ItemState \subseteq ItemState'
      BY <2>1 DEF ItemState
    <2>3. [item : Items, parent : Ids] \subseteq [item : Items, parent : Ids']
      BY <2>1
    <2>4. Seq([item : Items, parent : Ids]) \subseteq Seq([item : Items, parent : Ids'])
      BY <2>3, SeqMonotonic
    <2>5. [Items -> 0..Len(nodes)] \subseteq [Items -> 0..Len(nodes')]
      BY <2>1
    <2>6. BatchType \subseteq BatchType'
      BY <2>4, <2>5 DEF BatchType
    <2> QED
      BY <2>2, <2>6, TopStays DEF CreateNode, source, dialog, Shown
  <1>8. (\A c \in Batches, j \in Items : InTodo(c, j)' <=> InTodo(c, j)) /\ (\A j \in Items : Been(j)' => Been(j))
    <2>1. \A c \in Batches, j \in Items : InTodo(c, j)' <=> InTodo(c, j)
      BY DEF InTodo, CreateNode, source
    <2> QED
      BY <1>4, <1>5, <1>6, <1>7, <2>1 DEF Been
  <1>10. \A k \in (1..Len(nodes)) \ lost : nodes[k].item # t.item
    <2> SUFFICES ASSUME NEW k \in (1..Len(nodes)) \ lost, nodes[k].item = t.item
                 PROVE  FALSE
      OBVIOUS
    <2>1. PICK y \in Tasks : y.at = "answer" /\ y.node = k
      BY <1>4 DEF IInv, NodesOK
    <2>2. TaskOK(y) /\ y.item = t.item
      BY <2>1 DEF IInv, TasksOK, TaskOK
    <2>3. y.op = "import"
      BY <2>1, <2>2 DEF TaskOK
    <2>4. y.batch \in Batches /\ batch[y.batch].todo # <<>> /\ y.item = batch[y.batch].todo[1].item
      BY <2>2, <2>3 DEF TaskOK
    <2>5. t.batch \in Batches /\ batch[t.batch].todo # <<>> /\ t.item = batch[t.batch].todo[1].item
      BY <1>1 DEF TaskOK
    <2>6. 1 \in 1..Len(batch[y.batch].todo) /\ 1 \in 1..Len(batch[t.batch].todo)
      BY <2>4, <2>5, BatchTypes DEF IInv
    <2>7. y.batch = t.batch
      BY <2>2, <2>4, <2>5, <2>6 DEF IInv, TodosOK
    <2> QED
      BY <1>1, <1>9, <2>1, <2>3, <2>7, TaskUnique DEF IInv, Same
  <1>11. DataOK'
    <2>1. item \in [Items -> ItemState'] /\ batch \in [Batches -> BatchType']
      BY <1>7 DEF IInv, DataOK
    <2>2. \A s : s \subseteq 1..Len(nodes) => s \subseteq 1..n
      BY <1>6
    <2>3. nodes' \in Seq([item : Items, parent : 0..Len(nodes'), batch : Batches])
      BY <1>6
    <2>4. lost' \subseteq 1..Len(nodes') /\ page' \subseteq 1..Len(nodes') /\ late' \subseteq 1..Len(nodes')
      BY <1>6, <2>2 DEF IInv, DataOK, CreateNode, source, dialog
    <2>5. item' \in [Items -> ItemState'] /\ batch' \in [Batches -> BatchType']
      BY <2>1 DEF CreateNode, source, dialog
    <2> QED
      BY <2>3, <2>4, <2>5 DEF IInv, DataOK, CreateNode, source, dialog
  <1>12. QueueInv'
    BY <1>3
  <1>13. TasksOK'
    <2>1. \A y \in Tasks : TaskOK(y)'
      <3>1. ASSUME NEW y \in Tasks PROVE TaskOK(y)'
        <4>1. TaskOK(y) /\ y \in Things
          BY TaskTypes DEF IInv, TasksOK
        <4>2. y.node <= Len(nodes') /\ y.node \in Nat
          BY <4>1, <1>5, <1>6, <1>a DEF TaskOK, Things
        <4>3. y.at = "answer" => y.node \in 1..Len(nodes') /\ nodes'[y.node].item = y.item
          BY <4>1, <1>6 DEF TaskOK
        <4> QED
          BY <4>1, <4>2, <4>3 DEF TaskOK, CreateNode, source
      <3> QED
        BY <3>1
    <2>2. TaskOK(u)'
      <3>1. n \in 1..n /\ n <= n
        BY <1>a, <1>5
      <3> QED
        BY <3>1, <2>1, <1>0, <1>1, <1>2, <1>5, <1>6 DEF TaskOK
    <2> QED
      BY <1>3, <2>1, <2>2 DEF TasksOK
  <1>14. PhaseOK'
    <2>1. UNCHANGED <<kind, under, pull, pulling, form>>
      BY DEF CreateNode, source, dialog
    <2>2. /\ \A i \in Items : (Unread(i)' <=> Unread(i)) /\ (Uploading(i)' <=> Uploading(i))
          /\ \A p \in Pulls : At(p, {"waiting", "left", "stuck"})' => kind \notin {"file", "url"}
      BY <2>1, FormStays
    <2>3. item' = item
      BY DEF CreateNode, dialog
    <2>4. \A y \in Tasks' : \E z \in Tasks : z.op = y.op /\ z.item = y.item
      BY <1>1, <1>2, <1>3
    <2> QED
      BY <1>8, <2>1, <2>2, <2>3, <2>4, PhaseFrame
  <1>15. ListOK'
    <2>1. (\A y \in Tasks' : \E z \in Tasks : y.op = z.op /\ y.item = z.item)
      BY <1>1, <1>2, <1>3
    <2> QED
      BY <1>7, <1>8, <2>1, ShownItems DEF IInv, CreateNode, source, dialog, ListOK
  <1>16. TodosOK'
    BY DEF IInv, CreateNode, source, TodosOK
  <1>17. NodesOK'
    <2>1. ASSUME NEW k \in 1..Len(nodes'), NEW l \in 1..Len(nodes'), k < l, nodes'[k].item = nodes'[l].item
          PROVE  k \in lost
      <3>1. k \in 1..Len(nodes)
        BY <1>5, <1>6, <2>1
      <3>2. CASE l \in 1..Len(nodes)
        BY <3>1, <3>2, <2>1, <1>6 DEF IInv, NodesOK, OneNodeEach
      <3>3. CASE l = n
        BY <3>1, <3>3, <2>1, <1>5, <1>6, <1>10
      <3> QED
        BY <3>2, <3>3, <1>6
    <2>2. \A k : (\E y \in Tasks : y.at = "answer" /\ y.node = k) => \E y \in Tasks' : y.at = "answer" /\ y.node = k
      BY <1>1, <1>3, <1>9
    <2>3. \E y \in Tasks' : y.at = "answer" /\ y.node = n
      BY <1>0, <1>3
    <2>4. ASSUME NEW k \in (1..Len(nodes)) \ lost
          PROVE  \/ \E y \in Tasks' : y.at = "answer" /\ y.node = k
                 \/ /\ \A b \in Batches : ~(\E l \in 1..Len(batch[b].todo) : batch[b].todo[l].item = nodes'[k].item)
                    /\ nodes'[k].item \in Shown => item[nodes'[k].item].status = "imported"
      <3>1. \/ \E y \in Tasks : y.at = "answer" /\ y.node = k
            \/ /\ \A b \in Batches : ~InTodo(b, nodes[k].item)
               /\ nodes[k].item \in Shown => item[nodes[k].item].status = "imported"
        BY DEF IInv, NodesOK
      <3>2. nodes'[k] = nodes[k]
        BY <1>6
      <3>3. \/ \E y \in Tasks' : y.at = "answer" /\ y.node = k
            \/ /\ \A b \in Batches : ~InTodo(b, nodes'[k].item)
               /\ nodes'[k].item \in Shown => item[nodes'[k].item].status = "imported"
        BY <3>1, <3>2, <2>2
      <3> QED
        BY <3>3 DEF InTodo
    <2>5. lost' = lost /\ item' = item /\ batch' = batch
      BY DEF CreateNode, source, dialog
    <2>6. OneNodeEach'
      BY <2>1, <2>5 DEF OneNodeEach
    <2>7. \A k \in (1..Len(nodes')) \ lost' : k \in (1..Len(nodes)) \ lost \/ k = n
      BY <1>6, <2>5
    <2> QED
      BY <1>7, <2>3, <2>4, <2>5, <2>6, <2>7 DEF NodesOK, InTodo
  <1> QED
    BY <1>11, <1>12, <1>13, <1>14, <1>15, <1>16, <1>17 DEF IInv

-----------------------------------------------------------------------------
(* The theorems.                                                           *)

\* The invariant holds at the start.
LEMMA InitEstablishes ==
    ASSUME Init
    PROVE  IInv
  <1>1. PICK s \in Sources : /\ kind = s.kind /\ select = s.select /\ folder = s.folder
                           /\ under = s.under /\ pull = s.pull /\ key = s.key
    BY DEF Init
  <1>2. /\ s.kind \in Kinds /\ s.select \in BOOLEAN /\ s.folder \in SUBSET Items /\ s.under \in [Items -> 0..N]
        /\ s.pull \in [Items -> Pulls] /\ s.key \in [Items -> Items]
        /\ \A i \in Items : s.under[i] # 0 =>
              s.under[i] < i /\ s.under[i] \in s.folder /\ s.pull[s.under[i]] = s.pull[i]
        /\ s.kind \in {"file", "url"} => s.folder = {}
    BY SourcesAssumption DEF AllSources
  <1>3. /\ item \in [Items -> ItemState]
        /\ \A i \in Items :
              /\ kind = "file" => item[i].status = "common"
              /\ kind = "url" => item[i].status = "parsing"
              /\ kind \notin {"file", "url"} => item[i].status = "parsed"
              /\ kind # "drive" \/ under[i] # 0 => item[i].req = TRUE
    <2>1. item = [i \in Items |->
                 [status |-> IF kind = "file" THEN "common"
                             ELSE IF kind = "url" THEN "parsing" ELSE "parsed",
                  id |-> IF kind = "file" THEN 0 ELSE key[i],
                  parent |-> Above(i),
                  req |-> kind # "drive" \/ under[i] # 0]]
      BY DEF Init
    <2>2. nodes = <<>> /\ Len(nodes) = 0
      BY DEF Init
    <2>3. \A i \in Items : key[i] \in Ids /\ 0 \in Ids /\ Above(i) \in Ids
      <3>1. under \in [Items -> 0..N] /\ key \in [Items -> Items] /\ \A i \in Items : under[i] # 0 => under[i] \in Items
        BY <1>1, <1>2 DEF Items
      <3>2. \A i \in Items : i \in Ids /\ 0 \in Ids
        BY <2>2, NAssumption DEF Ids, Items
      <3> QED
        BY <3>1, <3>2 DEF Above
    <2>4. \A i \in Items : /\ item[i] \in ItemState
                           /\ kind = "file" => item[i].status = "common"
                           /\ kind = "url" => item[i].status = "parsing"
                           /\ kind \notin {"file", "url"} => item[i].status = "parsed"
                           /\ kind # "drive" \/ under[i] # 0 => item[i].req = TRUE
      BY <2>1, <2>3 DEF ItemState, Statuses
    <2> QED
      BY <2>1, <2>4
  <1>4. /\ batch \in [Batches -> BatchType]
        /\ \A b \in Batches : batch[b].pc = "unused" /\ batch[b].todo = <<>> /\ Len(batch[b].todo) = 0
    <2>1. batch = [b \in Batches |-> [pc |-> "unused", todo |-> <<>>, map |-> [i \in Items |-> 0]]]
          /\ nodes = <<>> /\ Len(nodes) = 0
      BY DEF Init
    <2>2. <<>> \in Seq([item : Items, parent : Ids]) /\ [i \in Items |-> 0] \in [Items -> 0..Len(nodes)]
      BY <2>1
    <2>3. [pc |-> "unused", todo |-> <<>>, map |-> [i \in Items |-> 0]] \in BatchType
      BY <2>2 DEF BatchType
    <2> QED
      BY <2>1, <2>3
  <1>5. /\ queue = <<>> /\ Len(queue) = 0 /\ running = {} /\ Tasks = {} /\ list = <<>> /\ Len(list) = 0
        /\ nodes = <<>> /\ Len(nodes) = 0 /\ Shown = {}
    <2>1. queue = <<>> /\ Len(queue) = 0 /\ running = {} /\ list = <<>> /\ Len(list) = 0
          /\ nodes = <<>> /\ Len(nodes) = 0
      BY DEF Init
    <2> QED
      BY <2>1 DEF Tasks, Shown
  <1>0. form \in [Pulls -> Forms] /\ \A p \in Pulls : form[p] = "new"
    BY DEF Init, Forms
  <1>6. DataOK
    <2>1. /\ kind \in Kinds /\ select \in BOOLEAN /\ folder \subseteq Items
          /\ under \in [Items -> 0..N] /\ pull \in [Items -> Pulls] /\ key \in [Items -> Items]
          /\ kind \in {"file", "url"} => folder = {}
      BY <1>1, <1>2
    <2>2. \A i \in Items : under[i] # 0 =>
             under[i] < i /\ under[i] \in folder /\ pull[under[i]] = pull[i]
      BY <1>1, <1>2
    <2>3. /\ open \in BOOLEAN /\ checked \subseteq Items /\ pulling \subseteq folder
          /\ lost \subseteq 1..Len(nodes) /\ page \subseteq 1..Len(nodes) /\ late \subseteq 1..Len(nodes)
      BY DEF Init
    <2>4. list \in Seq(Items) /\ nodes \in Seq([item : Items, parent : 0..Len(nodes), batch : Batches])
      BY <1>5
    <2> QED
      BY <1>0, <1>3, <1>4, <2>1, <2>2, <2>3, <2>4 DEF DataOK
  <1>7. QueueInv
    BY <1>5, FS_EmptySet, LimitAssumption DEF QueueInv, QueueOfThings, OneTask, LimitUsedInFull
  <1>8. TasksOK /\ TodosOK /\ NodesOK
    BY <1>4, <1>5 DEF TasksOK, TodosOK, NodesOK, OneNodeEach
  <1>9. PhaseOK
    <2>1. \A i \in Items : ~Been(i)
      BY <1>4, <1>5 DEF Been, InTodo
    <2>2. \A i \in Items : ~Uploading(i)
      <3>1. pull \in [Items -> Pulls]
        BY <1>1, <1>2
      <3> QED
        BY <1>0, <3>1 DEF Uploading, At
    <2>3. \A p \in Pulls : ~At(p, {"waiting", "left", "stuck"})
      BY <1>0 DEF At
    <2>4. pulling = {}
      BY DEF Init
    <2> QED
      BY <1>3, <1>5, <2>1, <2>2, <2>3, <2>4 DEF PhaseOK
  <1>10. ListOK
    BY <1>4, <1>5 DEF Init, ListOK, Been, InTodo
  <1> QED
    BY <1>6, <1>7, <1>8, <1>9, <1>10 DEF IInv

\* Every step keeps it.
LEMMA NextKeeps ==
    ASSUME IInv, [Next]_vars
    PROVE  IInv'
  <1>1. CASE \E p \in Pulls : SubmitItems(p) BY <1>1, SubmitItemsKeeps
  <1>2. CASE \E p \in Pulls : Submit(p) BY <1>2, SubmitKeeps
  <1>3. CASE Select BY <1>3, SelectKeeps
  <1>4. CASE BatchParse BY <1>4, BatchParseKeeps
  <1>5. CASE Close BY <1>5, CloseKeeps
  <1>6. CASE Reopen BY <1>6, ReopenKeeps
  <1>7. CASE \E b \in Batches : BatchImport(b) BY <1>7, BatchImportKeeps
  <1>8. CASE \E f \in Items : PullFolder(f) \/ SelectFolder(f)
    BY <1>8, PullFolderKeeps, SelectFolderKeeps
  <1>9. CASE \E p \in Pulls : Listed(p) BY <1>9, ListedKeeps
  <1>10. CASE \E p \in Pulls : NotListed(p) BY <1>10, NotListedKeeps
  <1>11. CASE \E p \in Pulls : UploadsDone(p) BY <1>11, UploadsDoneKeeps
  <1>12. CASE \E p \in Pulls : FormDone(p) BY <1>12, FormDoneKeeps
  <1>13. CASE \E f \in Items : Pulled(f) \/ NotPulled(f)
    BY <1>13, PulledKeeps, NotPulledKeeps
  <1>14. CASE \E t \in running : TaskEnds(t)
    BY <1>14, UploadEndsKeeps, ParseEndsKeeps, CreateAnsweredKeeps, ImportFailsKeeps DEF TaskEnds
  <1>15. CASE \E t \in running : Export(t) \/ CreateNode(t)
    BY <1>15, ExportKeeps, CreateNodeKeeps
  <1>16. CASE \E b \in Batches : LoopNext(b)
    BY <1>16, LoopEndsKeeps, LoopPushesKeeps
  <1>17. CASE UNCHANGED vars
    <2>1. /\ kind' = kind /\ select' = select /\ folder' = folder /\ under' = under
          /\ pull' = pull /\ key' = key /\ open' = open
          /\ form' = form /\ list' = list /\ item' = item /\ checked' = checked /\ pulling' = pulling
          /\ queue' = queue /\ running' = running /\ batch' = batch /\ nodes' = nodes /\ lost' = lost
          /\ page' = page /\ late' = late
      BY <1>17 DEF vars, source, dialog
    <2>2. QueueInv' /\ Tasks' = Tasks
      BY <2>1, QueueStays DEF IInv
    <2>3. ItemState' = ItemState /\ BatchType' = BatchType /\ Top' = Top /\ Shown' = Shown
      BY <2>1, TypesStay, TopStays DEF Shown
    <2>4. (\A b \in Batches, i \in Items : InTodo(b, i)' <=> InTodo(b, i)) /\ (\A i \in Items : Been(i)' <=> Been(i))
      BY <2>1, <2>3 DEF InTodo, Been
    <2>5. DataOK'
      BY <2>1, <2>3 DEF IInv, DataOK
    <2>6. TasksOK' /\ PhaseOK' /\ TodosOK'
      BY <2>1, <2>2, <2>3, <2>4, FormStays, PhaseFrame DEF IInv, TasksOK, TaskOK, TodosOK
    <2>7. ListOK'
      BY <2>1, <2>2, <2>3, <2>4, ShownItems DEF IInv, ListOK
    <2>8. NodesOK'
      BY <2>1, <2>2, <2>3 DEF IInv, NodesOK, OneNodeEach, InTodo
    <2> QED
      BY <2>2, <2>5, <2>6, <2>7, <2>8 DEF IInv
  <1> QED
    BY <1>1, <1>2, <1>3, <1>4, <1>5, <1>6, <1>7, <1>8, <1>9, <1>10, <1>11, <1>12, <1>13, <1>14,
       <1>15, <1>16, <1>17 DEF Next, Reader, System

\* The invariant holds always.
THEOREM Invariance == Spec => []IInv
  <1>1. Init => IInv
    BY InitEstablishes
  <1>2. IInv /\ [Next]_vars => IInv'
    BY NextKeeps
  <1> QED
    BY <1>1, <1>2, PTL DEF Spec

\* The types follow from it.
LEMMA TypesFollow == ASSUME IInv PROVE TypeOK
  <1>1. DataOK /\ TasksOK /\ queue \in Seq(Things) /\ running \subseteq Things /\ Tasks \subseteq Things
    BY TaskTypes DEF IInv, QueueInv, QueueOfThings
  <1>2. \A t \in Tasks : t \in TaskType
    <2>1. Len(nodes) \in Nat
      BY <1>1, NodeTypes
    <2>2. ASSUME NEW t \in Tasks PROVE t \in TaskType
      <3>1. t \in Things /\ t.node \in 0..Len(nodes)
        BY <1>1, <2>1 DEF TasksOK, TaskOK, Things
      <3> QED
        BY <3>1 DEF Things, TaskType
    <2> QED
      BY <2>2
  <1>3. running \subseteq TaskType /\ \A k \in 1..Len(queue) : queue[k] \in TaskType
    BY <1>2 DEF Tasks
  <1>4. queue \in Seq(TaskType)
    BY <1>1, <1>3
  <1> QED
    BY <1>1, <1>3, <1>4 DEF TypeOK, DataOK

\* Every variable has its type, for any source and limit.
THEOREM TypeCorrect == Spec => []TypeOK
  <1>1. IInv => TypeOK
    BY TypesFollow
  <1> QED
    BY <1>1, Invariance, PTL

\* useGlobalQueue: never more requests in flight than the limit, and none waits while
\* there is room, whatever is uploaded, parsed and imported and whatever fails.
THEOREM LimitKept == Spec => []LimitUsedInFull
  <1>1. IInv => LimitUsedInFull
    BY DEF IInv, QueueInv
  <1> QED
    BY <1>1, Invariance, PTL

\* handleBatchImport: a document has a second node only when the answer of the
\* first was lost, for any number of batches that overlap.
THEOREM OneNode == Spec => []OneNodeEach
  <1>1. IInv => OneNodeEach
    BY DEF IInv, NodesOK
  <1> QED
    BY <1>1, Invariance, PTL
=============================================================================
